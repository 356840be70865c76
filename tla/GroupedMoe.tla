----------------------------- MODULE GroupedMoe -----------------------------
(***************************************************************************)
(* moe_tp_forward: preprocess, gather the rows into expert order, grouped  *)
(* GEMM with w13, activation, grouped GEMM with w2, and the combination    *)
(* back in token order.  Every kernel is a launch of programs that run in  *)
(* any order, as in MoePreprocess.                                         *)
(*                                                                         *)
(* A row's data is the list of what has been applied to it: <<t>> is       *)
(* token t's hidden state, <<t, e>> that row times expert e's w13,         *)
(* <<t, e, e>> after its w2.  Columns are kept as tiles.                   *)
(***************************************************************************)
EXTENDS MoePreprocess, Sequences

CONSTANTS
  TilesOf,  \* column tiles of each GEMM's output, cdiv(N, BLOCK_SIZE_N)
  Group,    \* GROUP_SIZE_M (8)
  ActRows   \* rows of one activation tile

ASSUME GemmAssumption ==
  /\ TilesOf \in [{"gemm1", "gemm2"} -> Nat \ {0}]
  /\ {Group, ActRows} \subseteq Nat \ {0}

VARIABLE data  \* the row buffers: rows, hidden, acts, down and out

vars == <<preVars, data>>

Unset   == <<>>
Tokens  == 0 .. shape[1] - 1
TopK    == shape[2]
Choices == 0 .. TopK - 1
Cells(g) == Rows \X (0 .. TilesOf[g] - 1)

Input  == [gemm1 |-> "rows", gemm2 |-> "acts"]
Output == [gemm1 |-> "hidden", gemm2 |-> "down"]

\* Rows of a GEMM's grid and its programs: one per block and column tile.
GridM == Cardinality(DOMAIN meta.schedule)

Launches == <<"ready", "gather", "gemm1", "act", "gemm2", "combine", "done">>
Launched(k) ==
  CASE k \in {"gather", "combine"} -> {k} \X Tokens
    [] k \in {"gemm1", "gemm2"}    -> {k} \X (0 .. GridM * TilesOf[k] - 1)
    [] k = "act"                   -> {k} \X (0 .. CeilDiv(n, ActRows) - 1)
    [] OTHER                       -> {}

Init ==
  /\ PreInit
  /\ data = [rows   |-> [r \in Rows |-> Unset],
             hidden |-> [c \in Cells("gemm1") |-> Unset],
             acts   |-> [r \in Rows |-> Unset],
             down   |-> [c \in Cells("gemm2") |-> Unset],
             out    |-> [t \in Tokens |-> [k \in Choices |-> Unset]]]

StoresData(b, w) == data' = [data EXCEPT ![b] = Put(@, w)]
Settled == UNCHANGED <<shape, ids, meta, kernel, probe, scan>>

Held(b, r)  == IF r \in DOMAIN data[b] THEN data[b][r] ELSE Unset
Times(v, e) == IF v = Unset THEN Unset ELSE Append(v, e)
\* What a row holds when all its column tiles agree.
Whole(tiles) == IF Cardinality(tiles) = 1 THEN CHOOSE v \in tiles : TRUE ELSE Unset
RowOf(b, g, r) == Whole({data[b][<<r, j>>] : j \in 0 .. TilesOf[g] - 1})

-----------------------------------------------------------------------------
(* Program pid of _grouped_gemm_kernel.                                    *)

\* The grouped order of the tiles: Group row blocks by all column tiles.
TileOf(g, pid) ==
  LET inGroup == Group * TilesOf[g]
      first   == (pid \div inGroup) * Group
      size    == IF GridM - first < Group THEN GridM - first ELSE Group
  IN  <<first + ((pid % inGroup) % size), (pid % inGroup) \div size>>

\* Programs behind the last block of the schedule return at once.
Idle(g, pid) == TileOf(g, pid)[1] >= meta.blockOffs[Experts]

\* _compute_expert_attrs
\* Wrong: the block is not cut at the expert's last row.
BlockUncut(s) ==
  LET w == At(meta.schedule, s)
      e == ExpertOf(w)
      start == At(meta.offs, e) + BlockOf(w) * GemmBlock
  IN  [expert |-> e, start |-> start, end |-> start + GemmBlock]

Block(s) ==
  LET w == At(meta.schedule, s)
      e == ExpertOf(w)
      start == At(meta.offs, e) + BlockOf(w) * GemmBlock
      end   == At(meta.offs, e) + At(meta.counts, e)
  IN  [expert |-> e, start |-> start,
       end |-> IF start + GemmBlock < end THEN start + GemmBlock ELSE end]

\* The row of A behind row i of the block: past its end, the first one.
\* Wrong: rows are loaded as they come.
LoadedRowPlain(b, i) == b.start + i
LoadedRow(b, i) == IF b.start + i < b.end THEN b.start + i ELSE b.start

-----------------------------------------------------------------------------
Launch ==
  /\ todo = {}
  /\ \E i \in 1 .. Len(Launches) - 1 :
       /\ kernel = Launches[i]
       /\ kernel' = Launches[i + 1]
  /\ todo' = Launched(kernel')
  /\ UNCHANGED <<shape, ids, meta, probe, scan, data>>

\* _pre_reorder_kernel: token t's row goes where its choices were sorted to.
Gather(t) ==
  /\ Ends("gather", t)
  /\ StoresData("rows", [d \in {meta.src2dst[t * TopK + k] : k \in Choices} |-> <<t>>])
  /\ Settled

Gemm(g, pid) ==
  LET tile == TileOf(g, pid)
      b    == Block(tile[1])
  IN  /\ Ends(g, pid)
      /\ IF Idle(g, pid) THEN UNCHANGED data
         ELSE StoresData(Output[g],
                [c \in {<<b.start + i, tile[2]>> :
                          i \in {i \in 0 .. GemmBlock - 1 : b.start + i < b.end}} |->
                   Times(Held(Input[g], LoadedRow(b, c[1] - b.start)), b.expert)])
      /\ Settled

\* A tile of the interleaved silu-and-mul.
Activate(p) ==
  /\ Ends("act", p)
  /\ StoresData("acts", [r \in {r \in Rows : r \div ActRows = p} |->
                           RowOf("hidden", "gemm1", r)])
  /\ Settled

\* _post_reorder_kernel
Combine(t) ==
  /\ Ends("combine", t)
  /\ StoresData("out", [u \in {t} |-> [k \in Choices |->
                          RowOf("down", "gemm2", meta.src2dst[t * TopK + k])]])
  /\ Settled

\* The call has returned.
Returned == kernel = "done" /\ UNCHANGED vars

Next ==
  \/ Returned
  \/ PreNext /\ UNCHANGED data
  \/ Launch
  \/ \E t \in Tokens : Gather(t) \/ Combine(t)
  \/ \E g \in DOMAIN TilesOf : \E pid \in 0 .. GridM * TilesOf[g] - 1 : Gemm(g, pid)
  \/ \E p \in 0 .. CeilDiv(n, ActRows) - 1 : Activate(p)

Spec == Init /\ [][Next]_vars

-----------------------------------------------------------------------------
(* Properties.                                                             *)

Prepared == kernel \in {Launches[i] : i \in 1 .. Len(Launches)}

\* Both preprocess paths leave exactly the metadata of a stable sort: the
\* place of every row, each expert's first row and number of rows, and the
\* blocks of the experts one after another, then padding.  fused_moe_preprocess
\* promises outputs bit-identical to the sorting path, so both are held to
\* the one definition.
MetadataExact ==
  Prepared =>
    LET size(e)    == Cardinality({r \in Rows : ids[r] = e})
        below(e)   == Cardinality({r \in Rows : ids[r] < e})
        blocks(e)  == (size(e) + BuildBlock - 1) \div BuildBlock
        listed     == UNION {{Word(b, e) : b \in 0 .. blocks(e) - 1} : e \in Expert}
        before(w)  == {v \in listed : \/ ExpertOf(v) < ExpertOf(w)
                                      \/ ExpertOf(v) = ExpertOf(w) /\ v < w}
    IN  /\ \A r \in Rows : /\ meta.src2dst[r] = Cardinality(
                                 {s \in Rows : ids[s] < ids[r] \/ (ids[s] = ids[r] /\ s < r)})
                           /\ meta.sorted[meta.src2dst[r]] = ids[r]
        /\ \A e \in 0 .. Experts : meta.offs[e] = below(e)
        /\ \A e \in Expert : meta.counts[e] = size(e)
        /\ meta.blockOffs[Experts] = Cardinality(listed)
        /\ \A w \in listed : At(meta.schedule, Cardinality(before(w))) = w
        /\ \A s \in Cardinality(listed) .. MaxBlocks - 1 : meta.schedule[s] = -1

\* Every buffer keeps the size it was allocated with: however the rows
\* spread over the experts, no program stores behind a buffer's end.
StaysInBuffers ==
  /\ DOMAIN meta.schedule = 0 .. MaxBlocks - 1
  /\ DOMAIN meta.offs = 0 .. Experts /\ DOMAIN meta.blockOffs = 0 .. Experts
  /\ DOMAIN meta.counts = Expert
  /\ \A b \in {"order", "sorted", "src2dst"} : DOMAIN meta[b] = Rows
  /\ DOMAIN data.rows = Rows /\ DOMAIN data.acts = Rows
  /\ DOMAIN data.hidden = Cells("gemm1") /\ DOMAIN data.down = Cells("gemm2")

\* Every row a GEMM program is about to load exists, those behind the end of
\* its block included, which are redirected to the block's first row.
LoadsExist ==
  \A g \in DOMAIN TilesOf : \A p \in todo :
    (p[1] = g /\ ~Idle(g, p[2])) =>
      LET b == Block(TileOf(g, p[2])[1])
      IN  \A i \in 0 .. GemmBlock - 1 : LoadedRow(b, i) \in Rows

\* No two programs of a launch store one cell: what a GEMM has stored stays
\* until the forward pass ends.
StoredOnce ==
  [][\A b \in {"rows", "hidden", "down"} : \A c \in DOMAIN data[b] :
       data[b][c] # Unset => data'[b][c] = data[b][c]]_vars

\* moe_tp_forward does what MoeContract promises: every token gets, once,
\* its own row through the experts the gate chose for it.
Contract == INSTANCE MoeContract WITH out <- data.out, Unset <- Unset
KeepsMoeContract == Contract!Spec
=============================================================================
