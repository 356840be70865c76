------------------------------ MODULE MoeLayer ------------------------------
(***************************************************************************)
(* InklingMoE: what the constructors decide, the gate, routed and shared   *)
(* experts on one stream or two, the reduction over the ranks, and the     *)
(* weights of the shared sink from loading to serving.                     *)
(*                                                                         *)
(* Every rank runs the same program, so the host program is modelled once  *)
(* and what it computes for all ranks together; the device side, in        *)
(* DeviceStreams, is that of one rank.  A part of the result is            *)
(* <<kind, token, expert, weight, slice>>: the slice of that expert's      *)
(* weights a rank holds, applied to the token and scaled.                  *)
(***************************************************************************)
EXTENDS DeviceStreams, KernelSearch, Bags

CONSTANTS
  Configs,   \* how the layer may have been built and the server started
  Routings,  \* per configuration, what gate_topk may choose: token -> choice -> expert
  Ranks,     \* size of the tensor parallel group
  Experts,   \* n_routed_experts
  Shared,    \* n_shared_experts when there are any
  RowTile,   \* BLOCK_SIZE_M of the activation kernel (32)
  Grid,      \* bound of its grid (four per SM)
  MaxRuns,   \* bound: calls and replays of each configuration
  MaxGraphs, MaxLoads,   \* bounds: captured graphs, loads and resumes
  Weight,    \* bits of the weight a column of a token's logits gets
  None

\* A batch: tokens of as many choices each, all different as topk gives them.
IsIndexed(D) == 0 \in D /\ IsFiniteSet(D) /\ D = 0 .. Cardinality(D) - 1
IsRouting(i) ==
  /\ IsIndexed(DOMAIN i) /\ IsIndexed(DOMAIN i[0])
  /\ i \in [DOMAIN i -> [DOMAIN i[0] -> 0 .. Experts - 1]]
  /\ \A t \in DOMAIN i : \A j, k \in DOMAIN i[0] : i[t][j] = i[t][k] => j = k

\* Weights are 16 bits, and none of them is zero.
WeightBits == 1 .. 65535
IsWeighed(i) ==
  \A t \in DOMAIN i : \A column \in 0 .. Experts + Shared - 1 : Weight[t][column] \in WeightBits

Config ==
  [shared : BOOLEAN, sink : BOOLEAN,      \* n_shared_experts > 0, shared_expert_sink
   fusedOk : BOOLEAN, fp4 : BOOLEAN,      \* what the shared experts may be built as
   interleaved : BOOLEAN,                 \* inference_moe_w13_interleaved
   lora : BOOLEAN, linearEnv : BOOLEAN,   \* --enable-lora, SGLANG_OPT_LINEARIZED_SHARED_SINK
   quantised : BOOLEAN, stock : BOOLEAN,  \* the routed experts' quant_method and runner
   unpacks : BOOLEAN,                     \* that runner takes packed top-k
   marlin : BOOLEAN,                      \* marlin as the MoE or FP4 backend
   shortcut : BOOLEAN, sigmoid : BOOLEAN, norm : BOOLEAN, scale : BOOLEAN,
   capturer : BOOLEAN,                    \* the gate; an experts capturer is active
   overlap : BOOLEAN,                     \* alt_stream and what lets it be used
   reduce : BOOLEAN, fusedAR : BOOLEAN, arBuffer : BOOLEAN, scattered : BOOLEAN,
   ep : Nat \ {0}]                        \* the reduction; moe_ep_size

ASSUME LayerAssumption ==
  /\ {Ranks, Experts, Shared, RowTile, Grid} \subseteq Nat \ {0}
  /\ Blocks \in Nat /\ MaxGraphs \in Nat /\ MaxLoads \in Nat
  /\ \A c \in Configs :
       /\ c \in Config /\ Ranks % c.ep = 0 /\ Experts % c.ep = 0
       /\ \A i \in Routings[c] :
            /\ IsRouting(i)
            /\ IsWeighed(i)
            /\ None \notin [DOMAIN i -> [DOMAIN i[0] -> Nat]] \cup [DOMAIN i -> [0 .. Shared - 1 -> Nat]]

VARIABLES
  cfg,      \* the configuration
  sink,     \* weights of the shared experts: none, loaded, ready or gone
  linear,   \* _bf16_linearized_ready
  idsBuilt, \* _shared_topk_ids is not None
  pc,       \* the host's place in forward
  mode,     \* the call under way: eager, warmup or capture
  warm,     \* a run in capture mode has been made
  routing,  \* what the gate chose in this call, or None
  gate,     \* what the gate returned
  held,     \* the blocks of this call: name -> <<block, stream>>
  parts,    \* routed and shared results of every rank
  stash,    \* what stash_ar_shared was handed, if anything: a sequence
  given,    \* sum of the last call over all ranks
  captured  \* ids the experts capturer was fed in this call

layerVars == <<cfg, sink, linear, idsBuilt, pc, mode, warm, routing, gate, held,
               parts, stash, given, captured>>
vars == <<deviceVars, layerVars>>

Rank   == 0 .. Ranks - 1
Tokens == DOMAIN routing
TopK   == Cardinality(DOMAIN routing[0])
Picks  == 0 .. TopK - 1

-----------------------------------------------------------------------------
(* Decisions of the constructors.                                          *)

\* use_inkling_shared_fused_moe (external) answers fusedOk.
SharedKind ==
  CASE ~cfg.shared -> "none"
    [] cfg.shared /\ ~cfg.sink -> "dense"
    [] cfg.shared /\ cfg.sink /\ cfg.fusedOk -> "fused"
    [] OTHER -> IF cfg.fp4 THEN "fp4"
                ELSE IF (cfg.lora \/ cfg.linearEnv) /\ cfg.interleaved THEN "linear"
                ELSE "bmm"

GateShared == IF cfg.shared /\ cfg.sink THEN Shared ELSE 0
Native     == ~cfg.quantised /\ ~cfg.lora /\ ~cfg.stock
\* Wrong: packed top-k whatever the routed experts can take.
EmitPackedAlways == TRUE
EmitPacked == ~cfg.lora /\ (cfg.quantised \/ cfg.stock)
CloneSink  ==
  cfg.sink /\ cfg.shared /\ (SharedKind = "fused" \/ cfg.lora) /\ cfg.marlin

\* Weights the shared experts read when they run.
SinkReads ==
  CASE SharedKind = "none"   -> {}
    [] SharedKind = "linear" -> {<<Own.w2, "w2">>, <<Own.w2lin, "w2lin">>}
    [] SharedKind = "fp4"    -> {<<Own.fp4, "fp4">>}
    [] OTHER                 -> {<<Own.w2, "w2">>}

-----------------------------------------------------------------------------
(* The gate.                                                               *)

\* The renormalisation gives every token a weight per column of its logits: a
\* column per routed expert, then one per shared expert.
RoutedColumns == [t \in Tokens |-> [k \in Picks |-> Weight[t][routing[t][k]]]]
SharedColumns ==
  IF GateShared = 0 THEN None
  ELSE LET columns == Experts + GateShared
       IN  [t \in Tokens |-> [s \in 0 .. GateShared - 1 |-> Weight[t][columns - GateShared + s]]]

\* Wrong: the shortcut is taken under the capturer too.
ShortcutBlind == cfg.shortcut /\ cfg.sigmoid /\ cfg.norm /\ cfg.scale
\* forward_fused; shortcut stands for the environment, 258 experts and a bias.
Shortcut ==
  ~cfg.capturer /\ cfg.shortcut /\ cfg.sigmoid /\ cfg.norm /\ cfg.scale

\* PackTopkIds (external): (expert << 16) | weight bits; _unpack_topk_output.
Packed(i) == [t \in Tokens |-> [k \in Picks |-> Word(i[t][k], Weight[t][i[t][k]])]]
Unpacked(p) == [ids     |-> [t \in Tokens |-> [k \in Picks |-> BlockOf(p[t][k])]],
                weights |-> [t \in Tokens |-> [k \in Picks |-> ExpertOf(p[t][k])]]]

FusedGate ==
  [ids     |-> IF EmitPacked THEN None ELSE routing,
   weights |-> IF EmitPacked THEN None ELSE RoutedColumns,
   gammas  |-> SharedColumns,
   packed  |-> IF EmitPacked THEN Packed(routing) ELSE None]

PlainGate ==
  [ids |-> routing, weights |-> RoutedColumns, packed |-> None,
   gammas |-> IF cfg.norm THEN SharedColumns ELSE None]

-----------------------------------------------------------------------------
(* The experts.                                                            *)

\* Ranks of the expert group, and slices of an expert.
EpRank(r)  == r \div (Ranks \div cfg.ep)
TpSlice(r) == r % (Ranks \div cfg.ep)
Local      == Experts \div cfg.ep

\* Before moe_tp_forward ids become local and foreign choices weigh nothing.
\* Wrong: foreign choices keep their weight.
RemappedHeavy(r, e, w) ==
  IF e \div Local = EpRank(r) THEN <<e - EpRank(r) * Local, w>> ELSE <<0, w>>
Remapped(r, e, w) ==
  IF e \div Local = EpRank(r) THEN <<e - EpRank(r) * Local, w>> ELSE <<0, 0>>

\* What a kernel adds up: how many of its choices or rows add which part.
Tally(adds) ==
  [part \in {adds[x] : x \in DOMAIN adds} |->
     Cardinality({x \in DOMAIN adds : adds[x] = part})]

\* moe_tp_forward on local ids, as MoeContract promises it, and the stock
\* runners, which take global ids and leave foreign experts out (external).
NativePart(r) ==
  LET at(tk) == Remapped(r, gate.ids[tk[1]][tk[2]], gate.weights[tk[1]][tk[2]])
  IN  Tally([tk \in {tk \in Tokens \X Picks : at(tk)[2] # 0} |->
               <<"routed", tk[1], EpRank(r) * Local + at(tk)[1], at(tk)[2], TpSlice(r)>>])

StockPart(r, topk) ==
  Tally([tk \in {tk \in Tokens \X Picks : topk.ids[tk[1]][tk[2]] \div Local = EpRank(r)} |->
           <<"routed", tk[1], topk.ids[tk[1]][tk[2]], topk.weights[tk[1]][tk[2]], TpSlice(r)>>])

\* Packed top-k is unpacked by the runner, if it can (see Fails).
RoutedPart(r) ==
  IF Native THEN NativePart(r)
  ELSE StockPart(r, IF gate.packed # None THEN Unpacked(gate.packed) ELSE gate)

\* _swiglu runs over rows of tokens by experts or experts by tokens, flat,
\* with the gammas flattened beside them.
Place(layout, t, s) ==
  IF layout = "ts" THEN t * Shared + s ELSE s * Cardinality(Tokens) + t
RowLayout   == IF SharedKind = "linear" THEN "ts" ELSE "st"
GammaLayout == IF SharedKind = "linear" THEN "ts" ELSE "st"
FlatGamma(i) ==
  LET ts == CHOOSE ts \in Tokens \X (0 .. Shared - 1) : Place(GammaLayout, ts[1], ts[2]) = i
  IN  gate.gammas[ts[1]][ts[2]]

\* Rows the programs of _silu_and_mul_triton_kernel come to.
ActivatedRows ==
  LET rows  == Cardinality(Tokens) * Shared
      tiles == CeilDiv(rows, RowTile)
      grid  == IF tiles < Grid THEN tiles ELSE Grid
  IN  {i \in 0 .. rows - 1 :
         \E p \in 0 .. grid - 1 : \E turn \in 0 .. tiles : i \div RowTile = p + turn * grid}

\* Every rank has its slice of each shared expert.
SharedSlice(r) == r

SharedPart(r) ==
  CASE SharedKind = "none"  -> EmptyBag
    [] SharedKind = "dense" -> Tally([t \in Tokens |-> <<"shared", t, 0, 0, SharedSlice(r)>>])
    [] SharedKind = "fused" ->
         Tally([ts \in Tokens \X (0 .. Shared - 1) |->
                  <<"shared", ts[1], ts[2], gate.gammas[ts[1]][ts[2]], SharedSlice(r)>>])
    [] OTHER ->
         Tally([ts \in {ts \in Tokens \X (0 .. Shared - 1) :
                          Place(RowLayout, ts[1], ts[2]) \in ActivatedRows} |->
                  <<"shared", ts[1], ts[2], FlatGamma(Place(RowLayout, ts[1], ts[2])),
                    SharedSlice(r)>>])

\* Sum over the ranks.
OverRanks(f) ==
  [part \in UNION {DOMAIN f[r] : r \in Rank} |->
     Cardinality(UNION {{r} \X (1 .. f[r][part]) : r \in {r \in Rank : part \in DOMAIN f[r]}})]

\* The dense and batch kinds add up over the ranks themselves unless they are
\* told to leave it to the caller.
SharedResult(r, useReduceScatter) ==
  IF useReduceScatter \/ SharedKind = "fused" THEN SharedPart(r)
  ELSE OverRanks([q \in Rank |-> SharedPart(q)])

-----------------------------------------------------------------------------
(* Work and memory of one call.                                            *)

With(f, name, v) == [nm \in DOMAIN f \cup {name} |-> IF nm = name THEN v ELSE f[nm]]
Empty == [s \in Stream |-> <<>>]
Reads(names) == {<<held[nm][1], nm>> : nm \in names}
Work(reads, writes) == [reads |-> reads, writes |-> writes, waits |-> {}, fires |-> {}]
Fires(e) == [Work({}, {}) EXCEPT !.fires = {e}]
Waits(e) == [Work({}, {}) EXCEPT !.waits = {e}]

Has        == SharedKind # "none"
TwoStreams == cfg.overlap /\ Has /\ mode # "eager"
Fork(s) == IF ~TwoStreams THEN <<>>
           ELSE IF s = "main" THEN <<Fires("fork")>> ELSE <<Waits("fork")>>
\* Wrong: the result of the other stream is used without waiting for it.
JoinUnwaited(s) == <<>>
Join(s) == IF ~TwoStreams THEN <<>>
           ELSE IF s = "alt" THEN <<Fires("join")>> ELSE <<Waits("join")>>

\* Work a step of the host enqueues, or leaves to the graph under capture.
Issues(work) ==
  IF mode = "capture"
    THEN /\ graph' = [graph EXCEPT ![Len(graph)] = [s \in Stream |-> @[s] \o work[s]]]
         /\ UNCHANGED lane
    ELSE /\ lane' = [s \in Stream |-> lane[s] \o Marked(work, run)[s]]
         /\ UNCHANGED graph

MemoryPool == IF mode = "capture" THEN "graph" ELSE "eager"
Takes(name, s, b) ==
  /\ Allocates(MemoryPool, s, b)
  /\ held' = With(held, name, <<b, s>>)
Undisturbed == UNCHANGED <<fired, mem, epoch, cfg, sink>>

Init ==
  /\ DeviceInit
  /\ cfg \in Configs
  /\ sink = IF SharedKind = "none" THEN "ready" ELSE "none"
  /\ linear = FALSE /\ idsBuilt = FALSE /\ warm = FALSE
  /\ pc = "idle" /\ mode = "eager" /\ held = <<>>
  /\ routing = None /\ gate = None /\ parts = <<>>
  /\ stash = <<>> /\ given = None /\ captured = None

-----------------------------------------------------------------------------
(* A call.                                                                 *)

\* The caller has x.  A graph is only captured after a run in capture mode
\* that did execute.
Begin(m, i) ==
  /\ pc = "idle" /\ sink = "ready" /\ run < MaxRuns[cfg]
  /\ m = "capture" => warm /\ Len(graph) < MaxGraphs
  /\ run' = run + 1 /\ mode' = m /\ routing' = i
  /\ pc' = "gate"
  /\ given' = None /\ captured' = None
  /\ \E b \in Fresh :
       LET work == [Empty EXCEPT !["main"] = <<Work({}, {<<b, "x">>})>>]
       IN  /\ Allocates(IF m = "capture" THEN "graph" ELSE "eager", "main", b)
           /\ held' = With(<<>>, "x", <<b, "main">>)
           /\ IF m = "capture" THEN graph' = Append(graph, work) /\ UNCHANGED lane
              ELSE /\ lane' = [s \in Stream |-> lane[s] \o Marked(work, run')[s]]
                   /\ UNCHANGED graph
  /\ Undisturbed
  /\ UNCHANGED <<linear, idsBuilt, warm, gate, parts, stash>>

\* InklingGate.forward
Gate ==
  /\ pc = "gate"
  /\ gate' = IF Shortcut THEN FusedGate ELSE PlainGate
  /\ captured' = IF cfg.capturer /\ ~Shortcut THEN routing ELSE None
  /\ pc' = IF ~TwoStreams THEN "routed" ELSE IF CloneSink THEN "clone" ELSE "shared"
  /\ \E b \in Fresh :
       /\ Takes("gate", "main", b)
       /\ Issues([s \in Stream |->
            (IF s = "main" THEN <<Work(Reads({"x"}), {<<b, "gate">>})>> ELSE <<>>) \o Fork(s)])
  /\ Undisturbed
  /\ UNCHANGED <<run, mode, linear, idsBuilt, warm, routing, parts, stash, given>>

\* sink_x = x.clone() on the other stream
Clone ==
  /\ pc = "clone"
  /\ pc' = "shared"
  /\ \E b \in Fresh :
       /\ Takes("sink", "alt", b)
       /\ Issues([Empty EXCEPT !["alt"] = <<Work(Reads({"x"}), {<<b, "sink">>})>>])
  /\ Undisturbed
  /\ UNCHANGED <<run, mode, linear, idsBuilt, warm, routing, gate, parts, stash, given, captured>>

\* Where a call raises: the assertions of _forward_shared and _swiglu, None
\* where a tensor is used, and top-k in a form the runner does not know.  The
\* exception ends the server, so the host goes no further.
Fails ==
  \/ pc = "shared" /\ cfg.sink /\ gate.gammas = None
  \/ pc = "shared" /\ SharedKind \in {"bmm", "fp4"} /\ ~cfg.interleaved
  \/ pc = "routed" /\ gate.weights = None /\ (Native \/ gate.packed = None)
  \/ pc = "routed" /\ ~Native /\ gate.packed # None /\ ~cfg.unpacks

\* _forward_shared
SharedExperts ==
  LET own   == IF TwoStreams THEN "alt" ELSE "main"
      input == IF "sink" \in DOMAIN held THEN {"sink"} ELSE {"x"}
      ids   == IF SharedKind = "fused" /\ ~idsBuilt
                 THEN <<Work({}, {<<Own.ids, "ids">>})>> ELSE <<>>
      stack == IF SharedKind = "linear" /\ ~linear
                 THEN <<Work({<<Own.w2, "w2">>}, {<<Own.w2lin, "w2lin">>})>> ELSE <<>>
  IN  /\ pc = "shared" /\ ~Fails
      /\ pc' = IF TwoStreams THEN "routed" ELSE "combine"
      /\ parts' = With(parts, "shared", [r \in Rank |-> SharedResult(r, TRUE)])
      /\ idsBuilt' = (idsBuilt \/ SharedKind = "fused")
      /\ linear' = (linear \/ SharedKind = "linear")
      /\ \E b \in Fresh :
           /\ Takes("shared", own, b)
           /\ Issues([Empty EXCEPT ![own] = ids \o stack \o
                <<Work(Reads(input \cup (IF cfg.sink THEN {"gate"} ELSE {}))
                       \cup SinkReads
                       \cup (IF SharedKind = "fused" THEN {<<Own.ids, "ids">>} ELSE {}),
                       {<<b, "shared">>})>>])
      /\ Undisturbed
      /\ UNCHANGED <<run, mode, warm, routing, gate, stash, given, captured>>

\* _forward_routed
RoutedExperts ==
  /\ pc = "routed" /\ ~Fails
  /\ pc' = IF Has /\ ~TwoStreams THEN "shared" ELSE "combine"
  /\ parts' = With(parts, "routed", [r \in Rank |-> RoutedPart(r)])
  /\ \E b \in Fresh :
       /\ Takes("routed", "main", b)
       /\ Issues([s \in Stream |->
            (IF s = "main" THEN <<Work(Reads({"x", "gate"}), {<<b, "routed">>})>>
                           ELSE <<>>) \o Join(s)])
  /\ Undisturbed
  /\ UNCHANGED <<run, mode, linear, idsBuilt, warm, routing, gate, stash, given, captured>>

\* The ends of forward, one action each.  A sum of routed and shared parts and
\* its reduction, one after the other on this stream, are one piece of work.
Together   == [r \in Rank |-> parts.routed[r] (+) parts.shared[r]]
Reduced(f) == [r \in {0} |-> OverRanks(f)]
InTwo      == Reads({"routed", "shared"})
IntoBuffer == Work(InTwo, {<<Own.ar, "buf">>})
OnMain(works) == [Empty EXCEPT !["main"] = works]

Leaves(out, handed) ==
  /\ pc = "combine" /\ pc' = "return"
  /\ parts' = [out |-> out] /\ stash' = handed
  /\ Undisturbed
  /\ UNCHANGED <<run, mode, linear, idsBuilt, warm, routing, gate, given, captured>>

AsIs == Issues(OnMain(<<>>)) /\ UNCHANGED <<free, top, held>>
IntoSum(reads) ==
  \E b \in Fresh : /\ Takes("sum", "main", b)
                  /\ Issues(OnMain(<<Work(reads, {<<b, "sum">>})>>))

\* reduce=False: the caller reduces.
GiveRouted ==
  ~cfg.reduce /\ ~Has /\ Leaves(parts.routed, <<>>) /\ AsIs

GiveStashed ==
  ~cfg.reduce /\ Has /\ cfg.fusedAR /\ Leaves(parts.routed, <<parts.shared>>) /\ AsIs

GiveBuffer ==
  /\ ~cfg.reduce /\ Has /\ ~cfg.fusedAR /\ cfg.arBuffer
  /\ Leaves(Together, <<>>)
  /\ Issues(OnMain(<<IntoBuffer>>))
  /\ held' = With(held, "buf", <<Own.ar, "none">>)
  /\ UNCHANGED <<free, top>>

GiveSum ==
  /\ ~cfg.reduce /\ Has /\ ~cfg.fusedAR /\ ~cfg.arBuffer
  /\ Leaves(Together, <<>>) /\ IntoSum(InTwo)

\* reduce=True, by symm_mem_all_reduce or, scattered, reduce_scatter_hidden.
ReduceRouted ==
  cfg.reduce /\ ~Has /\ Leaves(Reduced(parts.routed), <<>>) /\ IntoSum(Reads({"routed"}))

FoldsIn == cfg.fusedAR /\ ~cfg.scattered
ReduceFolding ==
  cfg.reduce /\ Has /\ FoldsIn /\ Leaves(Reduced(Together), <<>>) /\ IntoSum(InTwo)

ReduceBuffer ==
  /\ cfg.reduce /\ Has /\ ~FoldsIn /\ cfg.arBuffer
  /\ Leaves(Reduced(Together), <<>>)
  /\ \E b \in Fresh :
       /\ Takes("sum", "main", b)
       /\ Issues(OnMain(<<IntoBuffer, Work({<<Own.ar, "buf">>}, {<<b, "sum">>})>>))

ReduceSum ==
  /\ cfg.reduce /\ Has /\ ~FoldsIn /\ ~cfg.arBuffer
  /\ Leaves(Reduced(Together), <<>>) /\ IntoSum(InTwo)

Combine ==
  \/ GiveRouted \/ GiveStashed \/ GiveBuffer \/ GiveSum
  \/ ReduceRouted \/ ReduceFolding \/ ReduceBuffer \/ ReduceSum

\* forward returns and its caller takes the result, reducing it if forward
\* did not (external).
Return ==
  LET result == IF "sum" \in DOMAIN held THEN {"sum"}
                ELSE IF "buf" \in DOMAIN held THEN {"buf"}
                ELSE {"routed"} \cup (IF stash # <<>> THEN {"shared"} ELSE {})
      mine   == {held[nm] : nm \in DOMAIN held \ {"buf"}}
  IN  /\ pc = "return"
      /\ pc' = "idle"
      /\ given' = IF cfg.reduce THEN parts.out[0]
                  ELSE OverRanks(IF stash = <<>> THEN parts.out
                                 ELSE [r \in Rank |-> parts.out[r] (+) stash[1][r]])
      /\ Issues([Empty EXCEPT !["main"] = <<Work(Reads(result), {})>>])
      /\ Returns(MemoryPool, mine)
      /\ warm' = (warm \/ mode = "warmup")
      /\ held' = <<>>
      /\ routing' = None /\ gate' = None /\ parts' = <<>> /\ stash' = <<>>
      /\ Undisturbed
      /\ UNCHANGED <<run, mode, linear, idsBuilt, captured>>

\* A captured graph runs again.
Replay ==
  /\ pc = "idle" /\ sink = "ready" /\ run < MaxRuns[cfg]
  /\ run' = run + 1
  /\ \E g \in DOMAIN graph :
       lane' = [s \in Stream |-> lane[s] \o Marked(graph[g], run')[s]]
  /\ UNCHANGED <<fired, mem, free, top, epoch, graph, layerVars>>

-----------------------------------------------------------------------------
(* Weights of the shared experts, changed while no work is under way.      *)

Still == pc = "idle" /\ lane = Empty
Stacked == <<"w2lin", mem[Own.w2][2]>>

\* Wrong: the copy is only made when there is none.
RefreshesOnce == SharedKind = "linear" /\ ~linear
Refreshes == SharedKind = "linear"

\* An FP4 sink has given its parameters up for the linears made of them, whose
\* loader does nothing: what is loaded now is lost.
Deaf == SharedKind = "fp4" /\ sink # "none"

\* The whole of w13 and w2 comes through weight_loader_fused, or, at first,
\* dummy values are put into the parameters.  The model loader post-processes
\* the first load before it loads anything else (external).
LoadSink(byLoader) ==
  /\ Still /\ Has /\ epoch < MaxLoads
  /\ sink = "none" \/ byLoader
  /\ sink # "loaded"
  /\ epoch' = epoch + 1
  /\ mem' = IF Deaf THEN mem
            ELSE [mem EXCEPT
                    ![Own.w2] = <<"w2", epoch'>>,
                    ![Own.w2lin] = IF byLoader /\ Refreshes THEN <<"w2lin", epoch'>> ELSE @]
  /\ linear' = (linear \/ (byLoader /\ Refreshes))
  /\ sink' = IF sink = "none" THEN "loaded" ELSE "ready"
  /\ UNCHANGED <<lane, fired, free, top, run, graph, cfg, idsBuilt, pc, mode, warm, routing,
                 gate, held, parts, stash, given, captured>>

\* process_weights_after_loading; the linears of an FP4 sink are made once.
PostLoad ==
  /\ Still /\ Has /\ sink \in {"loaded", "ready"}
  /\ mem' = [mem EXCEPT
       ![Own.w2lin] = IF SharedKind = "linear" THEN Stacked ELSE @,
       ![Own.fp4]   = IF SharedKind = "fp4" /\ sink = "loaded" THEN <<"fp4", mem[Own.w2][2]>> ELSE @,
       ![Own.w2]    = IF SharedKind = "fp4" THEN Junk ELSE @]
  /\ linear' = (linear \/ SharedKind = "linear")
  /\ sink' = "ready"
  /\ UNCHANGED <<lane, fired, free, top, epoch, run, graph, cfg, idsBuilt, pc, mode, warm,
                 routing, gate, held, parts, stash, given, captured>>

\* The engine gives its memory pool away and gets it back without content
\* (external); parameters are shipped again, nothing else is.
Resume ==
  /\ Still /\ Has /\ sink = "ready"
  /\ epoch < MaxLoads
  /\ mem' = [b \in DOMAIN mem |-> IF b \in {Own.w2, Own.w2lin, Own.fp4} THEN Junk ELSE mem[b]]
  /\ sink' = "gone"
  /\ UNCHANGED <<lane, fired, free, top, epoch, run, graph, cfg, linear, idsBuilt, pc, mode,
                 warm, routing, gate, held, parts, stash, given, captured>>

-----------------------------------------------------------------------------
\* All there is to do has been done, or a call has raised.
Finished == (Fails \/ (Still /\ run = MaxRuns[cfg])) /\ UNCHANGED vars

Next ==
  \/ \E m \in {"eager", "warmup", "capture"} : \E i \in Routings[cfg] : Begin(m, i)
  \/ Gate \/ Clone \/ SharedExperts \/ RoutedExperts \/ Combine \/ Return
  \/ Replay
  \/ \E l \in BOOLEAN : LoadSink(l)
  \/ PostLoad \/ Resume
  \/ \E s \in Stream : Execute(s) /\ UNCHANGED layerVars
  \/ Finished

Spec == Init /\ [][Next]_vars

-----------------------------------------------------------------------------
(* Properties.                                                             *)

TypeOK ==
  /\ DeviceTypeOK
  /\ cfg \in Configs
  /\ sink \in {"none", "loaded", "ready", "gone"}
  /\ {linear, idsBuilt, warm} \subseteq BOOLEAN
  /\ pc \in {"idle", "gate", "clone", "shared", "routed", "combine", "return"}
  /\ mode \in {"eager", "warmup", "capture"}
  /\ {routing, captured} \subseteq Routings[cfg] \cup {None}
  /\ DOMAIN held \subseteq Names
  /\ held \in [DOMAIN held -> Block \X (Stream \cup {"none"})]
  /\ DOMAIN parts \subseteq {"routed", "shared", "out"}

\* Only three mismatches make a call fail, none of which a constructor refuses
\* (inkling_common_moe.py:803-924): a sink whose gate gives no gammas as it does
\* not normalise, a sink that needs w13 interleaved and has it otherwise, and
\* packed top-k for a runner that does not take it.  Else what was decided
\* in the constructors and what forward finds agree.
Servable ==
  /\ cfg.shared /\ cfg.sink => cfg.norm
  /\ SharedKind \in {"bmm", "fp4"} => cfg.interleaved
  /\ EmitPacked /\ Shortcut => cfg.unpacks
NothingRaised == Servable => ~Fails

\* Rollout replay: with a capturer, the ids handed to the trainer are those of
\* the experts whose work is in the routed part, on every path of the gate and
\* over all expert groups, though each rank was given ids of its own group.
RoutingCaptured ==
  pc = "combine" /\ cfg.capturer =>
    /\ captured # None
    /\ {<<part[2], part[3]>> : part \in UNION {DOMAIN parts.routed[r] : r \in Rank}}
         = {<<t, captured[t][k]>> : t \in Tokens, k \in Picks}

\* No call and no replay multiplies with weights of an earlier load, or with
\* what a resume left where the weights or a copy of them had been.  An FP4
\* sink is excepted from its second load on: its linears are made once
\* (dense_mlp.py:396-399), so a reload does not reach it and a resume loses it.
WeightsAreCurrent ==
  (SharedKind = "fp4" => epoch = 1) => Finds(Weights)

\* Each rank's slice of each expert of each token is in the reduced sum once,
\* with the token's own weight, on every path through experts and reduction.
Wanted ==
  {<<"routed", t, routing[t][k], Weight[t][routing[t][k]], l>> :
     t \in Tokens, k \in Picks, l \in 0 .. Ranks \div cfg.ep - 1}
  \cup (IF ~Has THEN {}
        ELSE IF SharedKind = "dense" THEN {<<"shared", t, 0, 0, r>> : t \in Tokens, r \in Rank}
        ELSE {<<"shared", t, s, Weight[t][Experts + s], r>> :
                t \in Tokens, s \in 0 .. Shared - 1, r \in Rank})
Contract == INSTANCE LayerContract WITH asked <- IF routing = None THEN {} ELSE Wanted
KeepsLayerContract == Contract!Spec
=============================================================================
