---------------------------- MODULE MoePreprocess ----------------------------
(***************************************************************************)
(* run_moe_preprocess: from the experts the gate chose for each routed row *)
(* to the metadata the grouped GEMMs run on: the sorted order of the rows, *)
(* each expert's first row and row count, and the schedule of row blocks.  *)
(*                                                                         *)
(* Small batches take one fused kernel, larger ones a stable sort and five *)
(* launches.  A launch is a set of programs that run in any order; the     *)
(* next launch starts when all have ended.  The fused kernel is a single   *)
(* program: there the phases between its debug_barriers play the part of   *)
(* launches and its lanes the part of programs.  Buffers are torch.empty:  *)
(* a cell holds Junk until it is stored.  Definitions marked "Wrong" are    *)
(* variants with one mistake, put in the place of the next definition to   *)
(* see which property notices.                                             *)
(***************************************************************************)
EXTENDS KernelSearch, FiniteSets

CONSTANTS
  Experts,     \* how many experts the weights hold (256 in the model)
  Shapes,      \* the batches: <<tokens, experts per token>>
  FusedWin,    \* FUSED_PREPROCESS_WIN_TOKENS (1024)
  SmallMax,    \* GROUPED_GEMM_SMALL_M_MAX (6144)
  SmallBlock,  \* SMALL_M_BLOCK_SIZE_M (16)
  BigBlock,    \* BLOCK_SIZE_M (128)
  CopyBlock,   \* DEFAULT_BLOCK_SIZE, rows of one src2dst program (4096)
  FillBlock,   \* block_size_memset, cells of one padding program (512)
  MinLanes,    \* smallest BLOCK_N of the fused kernel (16)
  Junk         \* what an uninitialised cell holds

\* Those that a tensor of at most FUSED_PREPROCESS_MAX_TOKENS lanes may have.
PowersOfTwo == {1, 2, 4, 8, 16, 32, 64, 128, 256, 512, 1024, 2048}

ASSUME PreprocessAssumption ==
  /\ Experts \in 1 .. 256
  /\ Shapes \subseteq Nat \X (Nat \ {0})
  /\ FusedWin \in 0 .. 2048   \* FUSED_PREPROCESS_MAX_TOKENS
  /\ {SmallMax, Junk} \subseteq Nat
  /\ FusedWin <= SmallMax    \* the GEMM of a fused batch takes small blocks too
  /\ {SmallBlock, BigBlock, CopyBlock, FillBlock} \subseteq Nat \ {0}
  /\ MinLanes \in PowersOfTwo

VARIABLES
  shape,   \* tokens and experts per token of this call
  ids,     \* expert of each routed row: topk_ids, flattened
  meta,    \* the metadata buffers
  kernel,  \* the launch, or the phase of the fused kernel, under way
  todo,    \* its programs that have not ended, as <<kernel, program>>
  probe,   \* low, high and target of each program of the offsets kernel
  scan     \* next expert and running sum of the block-offset scan

preVars == <<shape, ids, meta, kernel, todo, probe, scan>>

\* The routed rows of a call, n of them.
n       == shape[1] * shape[2]
Rows    == 0 .. n - 1
Expert  == 0 .. Experts - 1
Fused   == 0 < n /\ n <= FusedWin

\* select_grouped_gemm_block_m, and the block size each path builds with:
\* the fused kernel always takes the small one.
GemmBlock == IF n <= SmallMax THEN SmallBlock ELSE BigBlock
\* Wrong: compute_grouped_gemm_metadata is left with its default block size.
BuildBlockDefault == IF Fused THEN SmallBlock ELSE BigBlock
BuildBlock == IF Fused THEN SmallBlock ELSE GemmBlock
\* Wrong: room for the full blocks only.
MaxBlocksTight == CeilDiv(n, BuildBlock)
MaxBlocks == CeilDiv(n, BuildBlock) + Experts - 1

At(f, i)   == IF i \in DOMAIN f THEN f[i] ELSE Junk
\* Stores go where their index says, outside the buffer too.
Put(f, w)  == [i \in DOMAIN f \cup DOMAIN w |->
                 IF i \in DOMAIN w THEN w[i] ELSE f[i]]

\* Position of a row in the stable order by expert.
Rank(r) == Cardinality({s \in Rows : ids[s] < ids[r] \/ (ids[s] = ids[r] /\ s < r)})
RowAt(p) == CHOOSE r \in Rows : Rank(r) = p

Programs(k) ==
  CASE k = "sort"      -> {0}
    [] k = "src2dst"   -> 0 .. CeilDiv(n, CopyBlock) - 1
    [] k \in {"offsets", "counts", "blocks"} -> Expert
    [] k = "memset"    -> 0 .. CeilDiv(MaxBlocks, FillBlock)
    [] k = "fsort"     -> Rows                  \* lanes the mask lets store
    [] k \in {"fsearch", "fcounts"} -> 0 .. Experts
    [] k = "fschedule" -> 0 .. MaxBlocks - 1
    [] OTHER -> {}

After == [sort |-> "src2dst", src2dst |-> "offsets", offsets |-> "counts",
          counts |-> "memset", memset |-> "blocks", blocks |-> "ready",
          fsort |-> "fsearch", fsearch |-> "fcounts", fcounts |-> "fschedule",
          fschedule |-> "ready"]

Grid(k) == {k} \X Programs(k)

Fresh(I) == [i \in I |-> Junk]

PreInit ==
  /\ shape \in Shapes
  /\ ids \in [Rows -> Expert]
  /\ meta = [order |-> Fresh(Rows), sorted |-> Fresh(Rows), src2dst |-> Fresh(Rows),
             offs |-> Fresh(0 .. Experts), counts |-> Fresh(Expert),
             blockOffs |-> Fresh(0 .. Experts),
             schedule |-> Fresh(0 .. MaxBlocks - 1)]
  /\ kernel = IF Fused THEN "fsort" ELSE "sort"
  /\ todo = Grid(kernel)
  /\ probe = [e \in Expert |-> [low |-> 0, high |-> n - 1, target |-> -1]]
  /\ scan = [at |-> 0, sum |-> 0]

\* A program ends, having stored w into a buffer.
Ends(k, p)  == <<k, p>> \in todo /\ todo' = todo \ {<<k, p>>}
Stores(b, w) == meta' = [meta EXCEPT ![b] = Put(@, w)]
Quiet       == UNCHANGED <<shape, ids, kernel, probe, scan>>

-----------------------------------------------------------------------------
(* Both paths.                                                             *)

\* Wrong: no debug_barrier between the sort and the searches.
NextLaunchUnfenced ==
  /\ kernel \in DOMAIN After
  /\ todo = {} \/ kernel = "fsort"
  /\ kernel' = After[kernel]
  /\ todo' = todo \cup Grid(kernel')
  /\ UNCHANGED <<shape, ids, meta, probe, scan>>

NextLaunch ==
  /\ kernel \in DOMAIN After
  /\ todo = {}
  /\ kernel' = After[kernel]
  /\ todo' = Grid(kernel')
  /\ UNCHANGED <<shape, ids, meta, probe, scan>>

-----------------------------------------------------------------------------
(* The general path: torch.sort(stable=True), get_src2dst and              *)
(* compute_grouped_gemm_metadata.                                          *)

Sort ==
  /\ Ends("sort", 0)
  /\ meta' = [meta EXCEPT !.order  = [p \in Rows |-> RowAt(p)],
                          !.sorted = [p \in Rows |-> ids[RowAt(p)]]]
  /\ Quiet

SrcToDst(p) ==
  LET dsts == {d \in Rows : d \div CopyBlock = p}
  IN  /\ Ends("src2dst", p)
      /\ Stores("src2dst", [r \in {meta.order[d] : d \in dsts} |->
                              CHOOSE d \in dsts : meta.order[d] = r])
      /\ Quiet

\* One iteration of _compute_expert_offsets_kernel's loop for expert e.
Probe(e) ==
  LET b == probe[e]
      mid == (b.low + b.high) \div 2
  IN  /\ <<"offsets", e>> \in todo
      /\ b.low <= b.high
      /\ probe' = [probe EXCEPT ![e] =
                     IF meta.sorted[mid] > e
                       THEN [@ EXCEPT !.high = mid - 1]
                       ELSE [@ EXCEPT !.low = mid + 1, !.target = mid]]
      /\ UNCHANGED <<shape, ids, meta, kernel, todo, scan>>

\* Its end: expert e's last row closes e and opens e + 1.
StoreOffset(e) ==
  /\ Ends("offsets", e)
  /\ probe[e].low > probe[e].high
  /\ Stores("offs", [i \in {e + 1} \cup (IF e = 0 THEN {0} ELSE {}) |->
                       IF i = 0 THEN 0 ELSE probe[e].target + 1])
  /\ Quiet

Count(e) ==
  /\ Ends("counts", e)
  /\ Stores("counts", [i \in {e} |-> meta.offs[e + 1] - meta.offs[e]])
  /\ Quiet

\* Program 0 of _memset_block_metadata_kernel: the running sum of the
\* experts' blocks, one expert per step (the code takes them 512 at a time
\* and carries the sum over) ...
ScanBlocks ==
  /\ <<"memset", 0>> \in todo
  /\ scan.at < Experts
  /\ Stores("blockOffs", [i \in {scan.at} |-> scan.sum])
  /\ scan' = [at |-> scan.at + 1,
              sum |-> scan.sum + CeilDiv(meta.counts[scan.at], BuildBlock)]
  /\ UNCHANGED <<shape, ids, kernel, todo, probe>>

\* ... and the total behind the last one.
ScanEnds ==
  /\ scan.at = Experts
  /\ Ends("memset", 0)
  /\ Stores("blockOffs", [i \in {Experts} |-> scan.sum])
  /\ Quiet

\* Every other program pads a stretch of the schedule.
Pad(p) ==
  /\ p > 0
  /\ Ends("memset", p)
  /\ Stores("schedule", [s \in {s \in 0 .. MaxBlocks - 1 : s \div FillBlock = p - 1} |-> -1])
  /\ Quiet

\* _compute_block_metadata_kernel: expert e writes its stretch.
WriteBlocks(e) ==
  LET first  == meta.blockOffs[e]
      blocks == CeilDiv(meta.counts[e], BuildBlock)
  IN  /\ Ends("blocks", e)
      /\ Stores("schedule", [s \in first .. first + blocks - 1 |-> Word(s - first, e)])
      /\ Quiet

-----------------------------------------------------------------------------
(* The fused kernel.                                                       *)

\* BLOCK_N, the next power of two, and the keys of its lanes; the pads past
\* n carry the id Experts.
HoldsBatch(b) == b >= n /\ b >= MinLanes
Lanes == CHOOSE b \in PowersOfTwo :
           HoldsBatch(b) /\ \A c \in PowersOfTwo : HoldsBatch(c) => b <= c
Keys == {Key(IF l < n THEN ids[l] ELSE Experts, l) : l \in 0 .. Lanes - 1}
KeyAt(p) == CHOOSE k \in Keys : Cardinality({j \in Keys : j < k}) = p

FusedSort(p) ==
  /\ Ends("fsort", p)
  /\ meta' = [meta EXCEPT !.sorted  = Put(@, [i \in {p} |-> IdOf(KeyAt(p))]),
                          !.src2dst = Put(@, [i \in {PosOf(KeyAt(p))} |-> p])]
  /\ Quiet

FusedSearch(e) ==
  /\ Ends("fsearch", e)
  /\ Stores("offs", [i \in {e} |-> FirstOutside({r \in Rows : meta.sorted[r] < e}, n)])
  /\ Quiet

\* Counts are in registers; the cumulative sum of the experts' blocks, taken by
\* all lanes together, is how many blocks the experts below e have.
LaneCount == [e \in Expert |-> At(meta.offs, e + 1) - At(meta.offs, e)]
BlocksBelow(e) ==
  Cardinality(UNION {{d} \X (0 .. CeilDiv(LaneCount[d], BuildBlock) - 1) : d \in 0 .. e - 1})

FusedCount(e) ==
  /\ Ends("fcounts", e)
  /\ meta' = [meta EXCEPT
       !.counts    = Put(@, [i \in {e} \cap Expert |-> LaneCount[i]]),
       !.blockOffs = Put(@, [i \in {e} |-> BlocksBelow(e)])]
  /\ Quiet

FusedSchedule(s) ==
  LET e == LastOutside({d \in 0 .. Experts : meta.blockOffs[d] > s}, Experts)
  IN  /\ Ends("fschedule", s)
      /\ Stores("schedule", [i \in {s} |->
           IF s < BlocksBelow(Experts) THEN Word(s - meta.blockOffs[e], e) ELSE -1])
      /\ Quiet

-----------------------------------------------------------------------------
PreNext ==
  \/ NextLaunch
  \/ Sort
  \/ \E p \in Programs("src2dst") : SrcToDst(p)
  \/ \E e \in Expert : Probe(e) \/ StoreOffset(e) \/ Count(e) \/ WriteBlocks(e)
  \/ ScanBlocks \/ ScanEnds
  \/ \E p \in Programs("memset") : Pad(p)
  \/ \E r \in Rows : FusedSort(r)
  \/ \E e \in 0 .. Experts : FusedSearch(e) \/ FusedCount(e)
  \/ \E s \in 0 .. MaxBlocks - 1 : FusedSchedule(s)

PreSpec == PreInit /\ [][PreNext]_preVars
=============================================================================
