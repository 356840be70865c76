# Specifications of the Inkling-Small NVFP4 release

TLA+ modules, TLC configurations and TLAPS proofs for the release tooling and
kernels of this repository. Paths below are relative to the repository root.

## 1. The system

The repository ships one model on two GB10 nodes: host-side tooling that
verifies a model snapshot, admits it, starts one container per rank and stops
it; a set of patched SGLang sources that run inside that container; and
validators for the evidence that is published afterwards.

| Component | State | Operations | Talks to |
|---|---|---|---|
| launcher (`src/inkling_release/launch.py` `launch`, `scripts/launch_tp2.py`) | receipt file, two logs, the `docker run` child, a deadline | guards, Popen, receipt, readiness loop (poll, probe), verdict | docker CLI and daemon, loopback HTTP, receipt file |
| stop (`stop.py`, `scripts/stop_owned.py`) | none of its own | one bounded `docker stop` of an owned name | docker daemon |
| receipt and admission files (`_atomic_write_json`, the end of `bind_admission`) | file, temporary `<file>.tmp` | check, write, chmod, replace | other writers of the path, readers |
| snapshot verifier (`scripts/secure_tree.py`, `scripts/verify_model_snapshot.py`) | held root, two inventories, mismatches | list, stat, open, fstat, read, compare, list again, revalidate | the file system and whoever writes to it |
| completion marker (`write_completion_marker`) | an unnamed inode, then the marker | verify, bind to root, write, linkat, check, clean up | other calls, the root path |
| admission pipeline (`gates.py`, `preflight.py`, `bind_admission.py`, `build_launch_spec`) | admission file, bound digest | evaluate gates, bind, validate, check root | runtime manifest, model root, launcher |
| runtime manifest and lock (`manifest.py`) | document and digest | strict load, validate | admission, launcher |
| profiles and rendering (`profiles.py`, `render.py`) | none | profile + rank -> argv, env | launcher |
| MoE preprocess and grouped GEMM (`patches/.../inkling_moe.py`) | device buffers: sorted ids, src2dst, offsets, counts, block schedule | one kernel per buffer, or one fused kernel; reorder, GEMM, reorder back | MoE layer |
| MoE layer and gate (`inkling_common_moe.py`) | what the constructors chose, two CUDA streams, the lazily built ids, this call's tensors | gate, routed experts, shared experts, reduction; captured and replayed | kernels, SGLang's runners, CUDA |
| shared sink (`dense_mlp.py`) | `w13`, `w2`, the stacked copy `_w2_lin` or the FP4 linears | load, refresh, post-process, forward | MoE layer, weight loader |
| FlashInfer CUTLASS (`flashinfer_cutlass.py`, `flashinfer_fused_moe.py`) | none but a module cache | unpack top-k, run the library's kernel; build or load it | SGLang, FlashInfer |
| image preprocessing (`image_processing.py`) | none | one image to patches | SGLang |
| validators (evidence, benchmark, canary, report, image, tuning), scanners (`public_safety_scan.py`, `hash_evidence.py`, `verify_aot_cache.py`) | none | one pass over one document or tree | published files |

What is hard here:

* the launcher never waits for Docker. Popen returns while the CLI still asks
  the daemon; the receipt is written next to that race; the readiness loop
  looks at its own child and at a port of the host that any container may
  answer; the container outlives a launcher that raises or is killed;
* files are written by fixed temporary name, by callers that may overlap, die
  or run out of disk;
* a snapshot of 170 GB is read while other processes can change it, and the
  only evidence of a change is what `stat` says;
* the block schedule of the grouped GEMM is computed by programs without an
  order inside a launch, in buffers whose size is a bound;
* a layer's two halves run on two CUDA streams that only two waits order, in
  memory an allocator reuses at once, and again in every replay of a graph the
  host no longer takes part in; one of the weights is a copy that has to be
  renewed whenever its original changes;
* the layer decides in its constructor, from a dozen switches, what its gate and
  its experts exchange later.

What makes each part correct:

* launcher: a running container is on record; FAILED is never said of one that
  runs; a READY answer is the launcher's own; one verdict per launch; the wait
  ends;
* files: private before published; old or new value, never a part;
* verifier: an accepted file is what its name leads to, entirely and now; a
  verdict speaks of a tree that existed;
* marker: whole, in a verified directory, kept by the call that returned and
  left behind by none that raised;
* admission: a launch goes on only for a manifest that somebody vouched for; a
  fresh binding is not refused; a root that passes as read-only is;
* kernels: the metadata is that of a stable sort, no buffer is left, every
  routed row is computed by its expert and given back once;
* layer: a token's sum holds every part of every expert it was sent to once,
  on each way through gate, experts and reduction; what a stream reads is what
  was meant for it; a trainer that replays the routing gets the routing.

## 2. Modules

| Module | Models | Composition |
|---|---|---|
| `LaunchLifecycle` | `launch`, `launch_tp2`, `stop_owned`; docker CLI, daemon and host port as the environment | implements `LaunchContract` |
| `LaunchContract` | abstract: process and verdict of each launch | |
| `LaunchLifecycle_proofs` | theorems of the two above | |
| `AtomicWrite` | the temporary-chmod-rename write, by system call | implements `AtomicFile`; a receipt write of `LaunchLifecycle` is one call of it |
| `AtomicFile` | abstract: publish a whole value or change nothing | |
| `AtomicWrite_proofs` | its theorems | |
| `SnapshotVerify` | one verification against a changing tree, by system call | |
| `SnapshotVerify_proofs` | its theorems | |
| `CompletionMarker` | concurrent calls of `write_completion_marker` | its `Verify` step stands for `SnapshotVerify` |
| `CompletionMarker_proofs` | its theorems | |
| `Admission` | `gate_runner`, `bind_admission`, `run_preflight`, `build_launch_spec` and the mount by name, against edits | its launches are what `LaunchLifecycle` draws as `admitted`; its `Publish` is a call of `AtomicWrite` |
| `Admission_proofs` | its theorems | |
| `KernelSearch` | the packed words and the unrolled binary searches of the kernels | used by the two below and by `MoeLayer` |
| `KernelSearch_proofs` | its theorems, and what counting gives: places, block offsets, tiles | cited by the two proof modules below |
| `MoePreprocess` | `run_moe_preprocess`: fused kernel and general path, launch by launch | |
| `GroupedMoe` | `moe_tp_forward`: reorder, GEMM, activation, GEMM, combine | extends `MoePreprocess`, implements `MoeContract` |
| `MoeContract` | abstract: each token gets the weighted sum of its experts | what `MoeLayer` uses for its native experts |
| `GroupedMoe_proofs` | theorems of `MoePreprocess` and `GroupedMoe` | |
| `DeviceStreams` | external: streams, events, the caching allocator, graph capture and replay | |
| `MoeLayer` | `InklingMoE`, its gate and its shared experts, from construction over loading to serving | extends `DeviceStreams`, implements `LayerContract` |
| `LayerContract` | abstract: one call adds up every wanted part once | |
| `MoeLayer_proofs` | theorems of `MoeLayer` and `DeviceStreams` | |
| `MC*` | the small instances TLC checks | |

How state and actions correspond:

* `LaunchLifecycle`. `pc` is the place in `launch` of each invocation, one
  action per statement that does something: `Prepare` (parser, spec, guards),
  `Spawn` (Popen), `RecordUnspawned`/`RecordStarted` (the first receipt),
  `TestDeadline`, `Poll`, `Probe`, `RecordVerdict`. `cli` is the child,
  `box` the container it asked for, `receipt` the files, `stop` the calls of
  `stop_owned`. `Create`, `Serve`, `Exit`, `CliExits` are Docker as the argv of
  `build_docker_argv` uses it (`--name`, `--rm`, host network, attached).
  A receipt records its author (the pid) and its status; the readiness word
  TIMEOUT, which the code writes beside status STARTED, is a status here. The
  answer of `build_launch_spec` is an input (`Requests`). A probe that meets
  something that is not HTTP (fault `garbled`) ends the launcher by an
  `http.client.HTTPException`, which neither `launch` nor `launch_tp2` catches.
  A launcher that was killed, or could not write, between Popen and its first
  receipt ends as `unrecorded`. A stop that was given up may be repeated any
  number of times; `seen` is history, the launches a stop request found begun.
* `AtomicWrite`. Names (`dest`, `tmp`) and inodes (`content`, `private`) are
  apart, because the bytes go to the opened inode while chmod and replace go by
  name. `Caller` picks the symlink test: `exists() and is_symlink()` lets a
  dangling link pass, `is_symlink()` does not.
* `SnapshotVerify`. A name leads to a node with blocks, a change time and a
  link count. `List` and `StatEntry` are `inventory_regular_files`;
  `Open`, `FstatBefore`, `ReadBlock`, `FstatAfter`, `StatNamed` are
  `hash_relative_file`; `Recompare` and `Conclude` end
  `verify_snapshot_entries`. Everybody else overwrites, renames, links,
  unlinks or moves the root between any two steps. A digest is whether all
  blocks read were good; a size mismatch is a mismatch like another. The
  descent into subdirectories is flattened: names are paths. A listing is the set
  of the names it found, since every name is looked at before the result is used
  and the order of the looks is free.
* `CompletionMarker`. A marker is the inode of the call that made it. The
  exception handler is `StatOwn` and `UnlinkMarker`, two steps because the code
  compares identities and then unlinks by name.

* `Admission`. A call is one run of a script; `LoadManifest` and `LoadLock` are
  the two reads of `load_runtime_manifest`, `StatAdmission` and `ReadAdmission`
  those of `_read_json`, and `OpenRoot`, `CheckReadOnly`, `Rebound` the looks of
  `_descriptor_rooted_directory` at the root. A manifest is its digest or
  invalid (the frozen contract compares with `==`, so documents with `2` and
  `2.0` are both valid and have two digests). The refusals of profile, image,
  address, cache and environment are one refusal in `BuildArgv`. A root path
  names a directory or nothing; a symlink in its place is not told apart from
  nothing. `calm` and `after` are history: which calls nobody has disturbed,
  and which bindings a launch came after.

* `MoePreprocess`. One action is one program of a launch, or one iteration of a
  program whose loop reads memory (`Probe`, `ScanBlocks`). `kernel` is the
  launch under way and `todo` its programs that have not ended; within a launch
  they end in any order, `NextLaunch` is the order of a stream. The fused kernel
  is one program: its phases between `debug_barrier` take the part of launches.
  Every buffer starts as `Junk`, as `torch.empty` leaves it. `RowAt` stands for
  `torch.sort(stable=True)`.
* `GroupedMoe`. A row of activations is the history of what was done to it,
  `<<token, expert, ...>>`, so that a row that was mixed up, computed twice or
  never stored looks different; a GEMM program loads, redirects and stores a
  tile as `_grouped_gemm_kernel` does, masked rows included.
* `MoeLayer`. The host's program: `Begin`, `Gate`, `Clone`, `SharedExperts`,
  `RoutedExperts`, `Combine`, `Return` are the steps of `InklingMoE.forward` in
  the order of the branch taken; each enqueues work on a lane of
  `DeviceStreams`, or records it under capture. `Execute` is the device. The
  eight ends of `forward` are eight actions, the disjuncts of `Combine`, each
  with its own sum, buffer and reduction. What a call computes is a bag of parts
  `<<kind, token, expert, weight, slice>>` per rank (`Tally` counts what a
  kernel adds up), so a part that is missing, or added twice by one rank or by
  two, shows. A call that raises goes no further (`Fails`, `Finished`). The
  weight is the 16 bits that the gate computes for a column of the token's
  logits (`Weight`, any non-zero bits), which is what is packed with the id and
  unpacked again; in the instance every column has bits of its own, so that a
  padded, shifted or transposed column shows. `stash` is what `stash_ar_shared`
  holds: nothing or one tensor. `LoadSink`, `PostLoad`, `Resume` change the
  shared sink's weights while the device is idle, and a load or resume of an FP4
  sink that has been post-processed is possible and lost (`Deaf`); a block holds
  the epoch of the load its weights came from. `cfg` is what the constructors,
  the environment and the server arguments fix for good.

Definitions marked "Wrong" are mutated ones: each property is known to fail
when the variant takes the place of the definition it resembles.

## 3. Runs

| Run | Question | Bounds |
|---|---|---|
| `launch_solo` | on a quiet host with the default receipt path: types, `Tracked`, `StopCoversLaunches`, `ReadyIsOwn`, and `WaitEnds` under fairness | two launches of one rank, every fault but a dying CLI, stops repeated without bound; 39,230 states |
| `launch_contention` | two launchers, one container name: `Tracked`, `FailedMeansDown`, `KeepsContract` | two launchers, two receipts, the same faults; 164,894 states |
| `launch_late_probe` | violation: `VerdictRecorded` | the fault `late` only |
| `file_serial` | one process owns the path: `PublishedIsPrivate`, `IsAtomic` | three writes, full disk, crash |
| `file_concurrent` | processes share the temporary: `OnePublishes` | three writers, symmetric |
| `snapshot_two_changes` | distinguishable time stamps: types, `HashIsCurrent`, `OneChangeIsSeen`, `QuietPasses` | two files of two blocks, one foreign and one ignored name, seven trees, two changes |
| `snapshot_same_tick` | violation: `HashIsCurrent` | two changes, clock of two ticks |
| `marker` | types, `MarkerIsVerified`, `MarkerIsWhole`, `ReturnedStays`, `RaisedLeavesNothing` | two calls, two directories that hold the snapshot and a decoy, failing calls, crashes, two moves, one removal |
| `admission` | types, `BoundToManifest`, `QuietLaunchPasses`, `RootIsReadOnly` | one gate run, one binding, one launch, two digests, two files, a writable and a read-only directory, one edit, one rename, any attestation |
| `admission_renamed_root` | violation: `ReportedIsReadOnly` | the same with one rename and no edit |
| `moe_forward` | `MetadataExact`, `StaysInBuffers`, `LoadsExist`, `StoredOnce`, `KeepsMoeContract` | every routing of up to five rows over three experts, one or two choices per token; blocks of two and three rows, the fused path up to three rows, the big block from five |
| `moe_layer` | `NothingRaised`, `RoutingCaptured`, `ReadsWhatWasMeant`, `WeightsAreCurrent`, `KeepsLayerContract` | two ranks, four routed and two shared experts, two tokens of two choices; 1704 configurations for one call (every way through the gate, ids captured over two expert groups, `w13` not interleaved, a runner that takes no packed top-k, every way out of `forward`), eight two-stream ones for three to five calls, captures and replays with two captured graphs and two loads or resumes; 555,097 states |

Why the bounds are enough. Two launchers show every pairing of a launch with a
competitor, a predecessor or the other rank; a third adds only more of the
same, as a name or a path is shared or not. Three writers let two of them spoil
the temporary of a third. Two files are needed for a change behind and a change
ahead of the reader, two blocks for a change inside a file; two changes are
what it takes to deceive a reader, and one is shown not to be enough. Two moves
bring a path away and back. In `admission` the gate run, the binding and the
launch are a chain through two files, so a stale admission needs one edit of
the manifest and its lock; a chmod and a rename are what a root check can meet
between its three looks. In `moe_forward` the thresholds are scaled down so that both paths,
both block sizes, a full, a partial and an empty block, an expert without rows
and a last block with a tail all occur within five rows, and paddings, copies
and searches need more than one program or round; `Experts`, `FusedWin`,
`SmallMax` and the block sizes are constants of the module, 256, 1024, 6144, 16
and 128 in the code. In `moe_layer` the parts of a call do not depend on what
earlier calls did, so one call shows all of them; what earlier calls leave
behind is memory, and five runs are enough for a warm-up, two captures that
share a pool and a replay of each, or for a load or resume between replays.
Deadlock is checked in `moe_forward` and `moe_layer` (nobody waits for an event
that never comes) and in the launch runs, where a stop is always possible; the
other programs simply end.

Fairness. Only `launch_solo` assumes any: a started launcher keeps running (an
ordinary process), its deadline passes (`time.monotonic`), and the docker CLI
notices the end of its container. Nothing is assumed of containers, stops or
operators.

The fault `cli`, a docker CLI that dies and leaves its container, takes the
ground from under `Tracked` and `FailedMeansDown`, which say so; the theorem
`ContractKept` covers it.

### Findings

* `launch_late_probe` (`launch.py:369`). When the deadline passes between the
  loop test and the computation of the remaining time, the probe gets a
  negative timeout; `urlopen` raises `ValueError`, which
  `except (OSError, URLError)` does not catch. The launch prints FAIL while its
  container runs on and its receipt says STARTED without a verdict.
* `snapshot_same_tick` (`secure_tree.py:143`). A write that shares a tick of
  the file system's clock with the first `fstat` leaves every compared field
  equal. "These checks detect mutation during a read" needs the assumption
  that `SnapshotVerify_proofs` makes explicit.
* `admission_renamed_root` (`preflight.py:116`). The mode of the model root is
  read through the descriptor, the mount flag through the path. A rename between
  the two lets a writable directory pass, and the preflight result gives its
  device and inode. `RootIsReadOnly` is what remains: after a single rename the
  path no longer names that directory.

### Notes from modelling

Nothing here is a failed run; it is what a reader of the code should know.

* `inkling_moe.py:513` says `n <= 4096` for its 12 search rounds. There are
  `n + 1` candidates, and a round leaves half of the distance between the ends,
  rounded down, so 12 are right up to `n = 4095` (`TwelveRoundsFind`) and 4096
  needs a thirteenth. The assert of the caller allows 2048 at most.
* `inkling_common_moe.py:343` says that with `--skip-server-warmup` nothing runs
  eagerly before a capture, and allocates the gate's scratch early for it;
  `_shared_topk_ids` (line 997) are built at the first forward. The two fit
  only because the graph runner itself runs a batch before it captures it,
  which `Begin` assumes: without it the ids would be written by replays of
  the graph that happened to be captured first, and by no other.
* The clone of the shared input (line 904) makes no difference in `moe_layer`:
  `x` is held until both streams have met again, and the routed experts only
  read it. Should the marlin runner write to its input, the clone, made on the
  other stream after the fork, would not be ordered before that write either.
* `launch.py:304` catches `OSError` and `URLError`. An `http.client.HTTPException`
  (`InvalidURL`, or `BadStatusLine` from whatever answers on the port) passes it,
  and the `except` of `launch_tp2` as well: the launch ends with a traceback and
  its receipt says STARTED. It is the fault `garbled`, the second way to the
  disagreement that `launch_late_probe` shows.
* A shared sink quantised to FP4 cannot be renewed. `dense_mlp.py:396-399` makes
  the FP4 linears once, 429-441 gives the parameters up, and the loader set at
  465 does nothing: weights that a trainer ships later are lost, and a resume
  leaves the linears empty. `Deaf` and `Resume` do this, and
  `WeightsAreCurrent` excepts this sink from its second load on.
* Three ways to build a layer whose calls fail are refused by no constructor
  (`inkling_common_moe.py:803-924`); `Servable` names them. A shared sink
  without `norm_after_topk` gets no gammas, and `_forward_shared` asserts them
  (989, 993). A sink of the batch or FP4 kind whose `w13` is not interleaved
  fails in the assertion of `_swiglu` (`dense_mlp.py:386-388`). Packed top-k for
  the MXFP4 entry, which reads `topk_ids`, is not of that form
  (`flashinfer_cutlass.py:328-337`).
* The check in `get_bf16_linearized_weights` that stacks `_w2_lin` lazily never
  finds work to do after `process_weights_after_loading`.
* `verify_model_snapshot.py:204`: the evidence is per file. A file repaired
  before its turn and another spoilt after its turn give PASS for a tree that
  matched at no moment; `OneChangeIsSeen` is what holds.
* Documents and profiles differ on the FP4 GEMM runner: `SERVE.md` recommends
  marlin, `profiles.py` and `manifest.py` require the FlashInfer backends. Both
  are configurations of `moe_layer`.

## 4. Proofs

All theorems hold for every value of the constants that satisfies the named
`ASSUME` of the module (the arithmetic of `KernelSearch_proofs` has no constants;
its bounds are hypotheses).

| Theorem | Statement | Argument |
|---|---|---|
| `LaunchLifecycle_proofs!TypeCorrect` | types | inductive as it stands |
| `!FailedIsDown` | `FailedMeansDown` | `CliInv`: what each control point says of the child and the child of its container; `FailedInv`: a FAILED receipt is about an exited child or none |
| `!RunningIsTracked` | `Tracked` | with `OneActive` (on a quiet host one launch is active) and `RecordInv` (its receipt is the last), or from private receipts, which nobody else writes; the window between Popen and the first receipt is excepted |
| `!ContractKept` | private receipts imply `KeepsContract` | `RecInvariant`, then step simulation |
| `!StopCoversAll` | `StopCoversLaunches` | `StopInv`: on a quiet host at most one launch of the name is alive when a stop is sent, the stop aims at it, and every other launch it found has ended with its CLI |
| `!AnswerIsOwn` | `ReadyIsOwn` | who answers is active, and on a quiet host the launcher that probes is the active one |
| `!PunctualVerdict` | private receipts, and none of the faults `late`, `write` and `garbled`, imply `VerdictRecorded` | `PunctualInv`; a deadline between test and probe (the finding `launch_late_probe`), a receipt that cannot be written and an answer that is not HTTP are the ways an exception loses the verdict |
| `AtomicWrite_proofs!TypeCorrect` | types and which call owns which inode | inductive |
| `!PublishedPrivate` | `PublishedIsPrivate` | `OwnerInvariant`: serially, at most one call has an open temporary and what is published was chmodded |
| `!SerialIsAtomic` | serial calls imply `IsAtomic` | step simulation on top of it |
| `!OneGetsThrough` | some writer implies `OnePublishes` | `PendingInv`: as long as no call got through, none has failed and every opened temporary is still there |
| `SnapshotVerify_proofs!AcceptedIsCurrent` | a fine clock implies `HashIsCurrent` | `HashInv`: as long as the stamp is the one of the first `fstat`, all that was read well is still there |
| `!TypeCorrect` | types, with what each control point holds | inductive with `FlowInv` |
| `!MatchingTreePasses` | `QuietPasses` | `QuietInv`: what each look at an unchanged matching tree found |
| `!OneChangeCaught` | `OneChangeIsSeen`, on any clock | `OneInv`: until the change all that was found is right; after it, if the tree matched at no moment, something that is wrong still lies ahead of the verifier |
| `CompletionMarker_proofs!TypeCorrect`, `!MarkersVerified`, `!MarkersWhole` | the first three invariants of `marker` | `SafeInv` ties a marker to the call that linked it, its directory and its content |
| `!ReturnedKept` | `ReturnedStays` | `KeptInv`: as long as nobody else removes markers, a linked one stays through everybody's cleanup |
| `!RaisedClean` | `RaisedLeavesNothing` | follows from `SafeInv`, whose marker part says at which control points a call's inode may carry the name |
| `Admission_proofs!TypeCorrect` | types, and a valid manifest behind every call that goes on | inductive |
| `!LaunchesBound` | `BoundToManifest` | `BindingInv`: every digest in an admission on disk (`FileInv`) or read (`AdmInv`) belongs to a gate run that passed or a binding that succeeded, and a launch compares its own with it (`LaunchInv`) |
| `!OneRenameIsCaught` | `RootIsReadOnly` | `RootInv`: what a check knows of the directory it holds, before the only rename and after it |
| `!FreshBindingAdmits` | `QuietLaunchPasses` | `QuietInv`: what an undisturbed binding saw is still there, and a launch after it has found the same so far |
| `KernelSearch_proofs!WordsUnpack`, `!KeysSortStably` | packed words give block and expert back; keys give expert and position back and sort by expert, then position | arithmetic, within the widths of the fields |
| `!TwelveRoundsFind`, `!NineRoundsFind` | the unrolled searches find the end of an initial segment of up to 4095 rows, and the start of a final segment of up to 512 experts | `FirstIn`, `LastIn`: the range of a search holds the answer; each round keeps that and halves the range |
| `!EveryPlaceOnce`, `!PlacesSplit` | counting the rows before a row numbers the rows; an expert's rows lie behind those of the experts below | the least of finitely many rows takes the place of induction |
| `!FirstRows`, `!FirstBlocks`, `!BlockOfSlot` | the offsets of rows and blocks start at 0, grow by each expert's count, and leave no slot between | cardinalities of disjoint unions |
| `!ScheduleFits` | `_get_max_num_blocks` is enough, however the rows spread | an expert wastes less than a block, and an expert without rows none |
| `!KeysInOrder`, `!WordsInOrder` | sorting the fused kernel's keys and schedule words puts each where the general path puts it | order of the packed numbers, then counting |
| `!TileInGrid`, `!EveryTile` | the grouped program order of the GEMM is a bijection between program ids and tiles | division with remainder, full groups and the last one |
| `GroupedMoe_proofs!MetaInvariant` | `MetaInv` | below |
| `!BothPathsExact` | `MetadataExact` | `MetaInv` when all programs have ended |
| `!LoadsStayInside` | `LoadsExist` | the schedule of `MetaInv` names rows that exist |
| `!ForwardInvariant` | `Inv`, that is `MetaInv` and `DataInv` | below |
| `!StoresStayInside`, `!CellsAreStoredOnce` | `StaysInBuffers`, `StoredOnce` | from `Inv`: domains stay, a cell is unset or has its one value |
| `!ForwardKeepsContract` | `KeepsMoeContract` | the last combine program is the step of the contract, every other step a stutter |
| `MoeLayer_proofs!CallCorrect`, `!TypeCorrect` | types, and what a call holds at each control point | `CallInv`, inductive with the types |
| `!NeverRaises` | `NothingRaised`: but for three mismatches (`Servable`) no call raises | from `CallInv`: what the gate returned is of the kind the experts of this configuration take |
| `!WeightsStayCurrent` | `WeightsAreCurrent`, which excepts an FP4 sink from its second load on | `WeightInv` |
| `!LayerInvariant` | `IInv` | below |
| `!ReadsAreMeant` | `ReadsWhatWasMeant` | the head of a lane whose waits are over finds what `IInv` promises it |
| `!RoutingIsCaptured` | `RoutingCaptured` | `SumInv`, and that the expert groups share out all experts (`StockGives`) |
| `!LayerKeepsContract` | `KeepsLayerContract` | `SumInv`, then step simulation |

The inductive invariants of the two large modules.

*MoE forward.* `MetaInv` has one conjunct per buffer and path, and each says: a
cell has its final value as soon as the program that stores it has ended
(`Ended`). That is what lets the programs of a launch run in any order and yet
lets the next launch rely on all of them. The final values are cardinalities
(`First`, `Slot`: how many rows or blocks lie before), so the proofs are about
counting, in `KernelSearch_proofs`; where a running sum would call for
induction, finiteness gives a least counterexample instead. `DataInv` adds the
row buffers: a cell is unset or holds what its row must become, and holds it once
its program has ended. From `EveryTile` it follows that a program has taken care
of every row, from `BlocksAgree` that schedule and GEMM use one block size: the
two functions that choose it agree because no batch is fused that has big blocks
(`FusedWin <= SmallMax`).

*MoE layer.* `CallInv` gives the place in `forward` and what it holds there;
`WeightInv` says that weights are read where they are kept, that no work of a
call writes there, and that what is kept comes from the last load (of an FP4
sink: that its linears come from the first, as long as there was no other).
The two streams need more: `StreamInv` takes the queued work and each captured
graph as programmes in which runs are in turn and the other stream's part lies
between fork and join, every block has at most one writer per run that anybody
reads, and every read is served by memory or by a writer ordered before it. A
capture is a programme that starts from empty memory. For the call that is being
issued, `HeldServed` says that each tensor in hand is there or will be before a
reader of the next step, `FreeInv` that what the allocator may give away is in
nobody's hand, `Touched` and `EventsAhead` what this run has not done yet,
`RunsInv` and `IdsInv` that runs are numbered in turn and that the lazily built
ids are built before a capture reads them. `PartsInv` and `SumInv` need none of
that: they say which bags of parts a rank holds at each place. The sum is right
because a rank is a pair of an expert group and a slice (`RankKnown`), so the
parts of the ranks are disjoint and cover what was asked for (`PartsShared`), and
disjoint bags over finitely many ranks add up to one of each (`AddsOnce`). That a
kernel adds a part once is `TallyOnce`, for which the choices of a token must be
different; `Ends` says what the eight ends of `forward` have in common.
Before they were proved, TLC checked `IInv` and `SumInv` on the instance of
`moe_layer`.

Only model-checked: `WaitEnds`, which is liveness, the absence of deadlock, and
the properties of the runs that end in a violation, of which `PunctualVerdict`
and `AcceptedIsCurrent` give the conditions under which two of them hold. The
models define no sum by recursion or by a fold: sums are cardinalities, which
the library's theorems on finite sets reach without induction.

What the constants are assumed to be. The names of callers, files, nodes and
digests are told apart from the words that stand for none of them. The
thresholds of the kernels: at most 256 experts, a fused window of at most 2048
rows that the big blocks do not start within, powers of two for the lanes
(`next_power_of_2`). Of a layer: weights are 16 bits and not zero, a batch has
the same number of choices for every token and no choice twice (as `topk` gives
them), and expert groups divide the ranks and the experts (as expert parallelism
in SGLang needs them to). Nothing is assumed of how a layer is built: the
configurations that fail are in the model, and `Servable` names them.

## 5. Assumptions about what is not in the repository

* A CUDA stream runs its work in order; `wait_stream` is an event on one stream
  and a wait on the other; launches of one stream do not overlap (programmatic
  dependent launch waits in its first instruction).
* The caching allocator gives a freed block to the next allocation on the same
  stream and pool, lowest address first, and does not look at other streams.
  All blocks have one size.
* A capture records the work and runs nothing; it is made in a pool of its own,
  shared by all graphs, after one run of the same batch in capture mode.
* The stock expert runners and the FlashInfer kernel take global ids, leave
  experts of other ranks out and apply the weight given with an id; they do not
  write to their input. Whether a runner takes packed top-k is a switch of the
  configuration (`unpacks`); one that does not reads `topk_ids`, which the
  packed form does not hold.
* `symm_mem_all_reduce` and `reduce_scatter_hidden` add up over all ranks once.
  The caller of `forward(reduce=False)` adds a stashed shared part and reduces.
* Releasing and resuming memory loses parameters and registered buffers; the
  trainer then ships every parameter through its loader. Tensors made at run
  time stay.

## 6. Not modelled

Argument vectors, environment variables, logs and message texts; URL and path
syntax; the schema checks of manifests, profiles, images and evidence (pure
predicates on one document); the 300-second arithmetic of timeouts (a deadline
passes or has not); NFS semantics; durability across power loss (`fsync` is not
told apart from `write`, a crash here is the death of a process). A file that
is appended to for ever keeps the verifier reading; files have a fixed number
of blocks here.

Of the patched sources: arithmetic (tiles, logits, scales, data types and
their rounding), expert biases, which no call of the layer passes, the order of
the columns of `w13` (whether it is interleaved is a switch, which decides the
kind of the shared sink and whether `_swiglu` accepts it), image preprocessing
(a pure function of one image), the input quantisation of the CUTLASS runner and
of its MXFP4 entry (the latter is a runner that takes no packed top-k), and how
FlashInfer's kernels are built or found. Liveness of the layer (every replay
ends) is only covered by the absence of deadlock.

## 7. Plan

Every safety and action property of the passing runs is a theorem. Still to do:

1. `AtomicWrite` under concurrency: which of the values that were asked for may
   be published, and that a reader never meets one that is older than a call
   that had returned.
2. The composition of `LaunchLifecycle` with `AtomicWrite` and `Admission`, of
   which today only the interfaces are stated (`Requests`, `Publish`).
3. Validators as operators against reference predicates where two of them must
   agree (`validate_*` and `accept_*`), and the rank and address rules of
   `profiles.py` that relate the launches of two nodes.
