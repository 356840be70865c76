-------------------------- MODULE GroupedMoe_proofs --------------------------
(***************************************************************************)
(* For every batch, every routing of its rows and every order in which the *)
(* programs of a launch run, both preprocess paths leave the metadata of a *)
(* stable sort, nothing is loaded or stored outside a buffer, and every    *)
(* token gets its own rows back.  What the kernels compute is proved of    *)
(* KernelSearch; here it is followed through the launches.                 *)
(***************************************************************************)
EXTENDS GroupedMoe, KernelSearch_proofs, SequenceTheorems

-----------------------------------------------------------------------------
(* A call and what its metadata has to be. *)

CallOK == shape \in Shapes /\ ids \in [Rows -> Expert]

First(e)   == Cardinality(RowsBelow(ids, n, e))
Size(e)    == Cardinality(RowsOf(ids, n, e))
BlockCount == [e \in Expert |-> CeilDiv(Size(e), BuildBlock)]
Slot(e)    == FirstBlock(BlockCount, e)
Total      == Slot(Experts)

\* Every size of a call that its batch determines is a number that arithmetic
\* applies to.
LEMMA CallNumbers ==
  ASSUME CallOK
  PROVE  /\ n \in Nat /\ shape[1] \in Nat /\ shape[2] \in Nat \ {0}
         /\ n = shape[1] * shape[2]
         /\ Experts \in Nat \ {0} /\ Experts <= 256
         /\ BuildBlock \in Nat \ {0} /\ GemmBlock \in Nat \ {0}
         /\ MaxBlocks \in Nat /\ MaxBlocks = CeilDiv(n, BuildBlock) + Experts - 1
         /\ CopyBlock \in Nat \ {0} /\ FillBlock \in Nat \ {0}
<1>1. shape \in Nat \X (Nat \ {0})
  BY PreprocessAssumption DEF CallOK
<1>2. shape[1] \in Nat /\ shape[2] \in Nat \ {0} /\ n = shape[1] * shape[2]
  BY <1>1 DEF n
<1>3. n \in Nat
  BY <1>2
<1>4. /\ Experts \in Nat \ {0} /\ Experts <= 256
      /\ SmallBlock \in Nat \ {0} /\ BigBlock \in Nat \ {0}
      /\ CopyBlock \in Nat \ {0} /\ FillBlock \in Nat \ {0}
  BY PreprocessAssumption
<1>5. BuildBlock \in Nat \ {0} /\ GemmBlock \in Nat \ {0}
  BY <1>4 DEF BuildBlock, GemmBlock
<1>6. CeilDiv(n, BuildBlock) \in Nat
  BY <1>3, <1>5, CeilDivFits
<1>7. MaxBlocks \in Nat /\ MaxBlocks = CeilDiv(n, BuildBlock) + Experts - 1
  BY <1>4, <1>6 DEF MaxBlocks
<1>8. QED
  BY <1>2, <1>3, <1>4, <1>5, <1>7

\* Places and rows are the same in number, one for the other.
LEMMA Places ==
  ASSUME CallOK
  PROVE  /\ \A r \in Rows : Rank(r) \in Rows /\ RowAt(Rank(r)) = r
         /\ \A p \in Rows : RowAt(p) \in Rows /\ Rank(RowAt(p)) = p
         /\ \A p \in Rows, e \in Int : ids[RowAt(p)] < e <=> p < First(e)
<1>1. n \in Nat /\ ids \in [0 .. n - 1 -> Int]
  <2>1. n \in Nat
    BY CallNumbers
  <2>2. QED
    BY <2>1 DEF CallOK, Rows, Expert
<1>2. \A r : Rank(r) = Cardinality(RowsBefore(ids, n, r))
  BY DEF Rank, RowsBefore, Rows
<1>3. /\ \A r \in Rows : Rank(r) \in Rows
      /\ \A p \in Rows : \E r \in Rows : Rank(r) = p
      /\ \A r, q \in Rows : Rank(r) = Rank(q) => r = q
  <2>1. /\ \A r \in 0 .. n - 1 : Cardinality(RowsBefore(ids, n, r)) \in 0 .. n - 1
        /\ \A p \in 0 .. n - 1 : \E r \in 0 .. n - 1 : Cardinality(RowsBefore(ids, n, r)) = p
        /\ \A r, q \in 0 .. n - 1 :
             Cardinality(RowsBefore(ids, n, r)) = Cardinality(RowsBefore(ids, n, q)) => r = q
    BY <1>1, EveryPlaceOnce
  <2>2. QED
    BY <1>2, <2>1 DEF Rows
<1>4. \A p \in Rows : RowAt(p) \in Rows /\ Rank(RowAt(p)) = p
  BY <1>3 DEF RowAt
<1>5. \A r \in Rows : RowAt(Rank(r)) = r
  BY <1>3, <1>4
<1>6. ASSUME NEW p \in Rows, NEW e \in Int PROVE ids[RowAt(p)] < e <=> p < First(e)
  <2>1. RowAt(p) \in 0 .. n - 1 /\ Cardinality(RowsBefore(ids, n, RowAt(p))) = p
    BY <1>2, <1>4 DEF Rows
  <2>2. ids[RowAt(p)] < e <=>
          Cardinality(RowsBefore(ids, n, RowAt(p))) < Cardinality(RowsBelow(ids, n, e))
    BY <1>1, <2>1, PlacesSplit
  <2>3. QED
    BY <2>1, <2>2 DEF First
<1>7. QED
  BY <1>3, <1>4, <1>5, <1>6

\* The rows of the experts fill the batch, and their blocks the schedule.
LEMMA Layout ==
  ASSUME CallOK
  PROVE  /\ First(0) = 0 /\ First(Experts) = n
         /\ \A e \in 0 .. Experts : First(e) \in 0 .. n
         /\ \A e \in Expert : Size(e) \in 0 .. n /\ First(e + 1) = First(e) + Size(e)
<1>1. n \in Nat /\ Experts \in Nat /\ ids \in [0 .. n - 1 -> 0 .. Experts - 1]
  <2>1. n \in Nat /\ Experts \in Nat
    BY CallNumbers
  <2>2. QED
    BY <2>1 DEF CallOK, Rows, Expert
<1>2. /\ Cardinality(RowsBelow(ids, n, 0)) = 0
      /\ Cardinality(RowsBelow(ids, n, Experts)) = n
      /\ \A e \in 0 .. Experts : Cardinality(RowsBelow(ids, n, e)) \in 0 .. n
      /\ \A e \in 0 .. Experts : Cardinality(RowsOf(ids, n, e)) \in 0 .. n
      /\ \A e \in 0 .. Experts - 1 :
           Cardinality(RowsBelow(ids, n, e + 1)) =
             Cardinality(RowsBelow(ids, n, e)) + Cardinality(RowsOf(ids, n, e))
  BY <1>1, FirstRows
<1>3. \A e \in Expert : e \in 0 .. Experts /\ e \in 0 .. Experts - 1
  BY <1>1 DEF Expert
<1>4. QED
  BY <1>2, <1>3 DEF First, Size

\* An expert's blocks follow those of the expert below it, and the schedule
\* has room for all of them: the allocation of _get_max_num_blocks is enough.
LEMMA Schedule ==
  ASSUME CallOK
  PROVE  /\ BlockCount \in [0 .. Experts - 1 -> Nat]
         /\ \A e \in Expert : BlockCount[e] = CeilDiv(Size(e), BuildBlock)
         /\ Slot(0) = 0 /\ Total \in Nat /\ Total <= MaxBlocks
         /\ \A e \in 0 .. Experts : Slot(e) \in Nat /\ Slot(e) <= Total
         /\ \A e \in Expert : Slot(e + 1) = Slot(e) + BlockCount[e]
<1>1. /\ n \in Nat /\ Experts \in Nat \ {0} /\ BuildBlock \in Nat \ {0}
      /\ MaxBlocks = CeilDiv(n, BuildBlock) + Experts - 1
  BY CallNumbers
<1>2. ASSUME NEW e \in Expert
      PROVE  /\ Size(e) \in Nat /\ CeilDiv(Size(e), BuildBlock) \in Nat
             /\ BuildBlock * CeilDiv(Size(e), BuildBlock) <= Size(e) + BuildBlock - 1
  <2>1. Size(e) \in Nat
    BY <1>1, Layout
  <2>2. QED
    BY <1>1, <2>1, CeilDivFits
<1>3. BlockCount \in [0 .. Experts - 1 -> Nat]
  BY <1>2 DEF BlockCount, Expert
<1>4. \A e \in Expert : BlockCount[e] = CeilDiv(Size(e), BuildBlock)
  BY DEF BlockCount
<1>5. /\ Slot(0) = 0
      /\ \A e \in 0 .. Experts : Slot(e) \in Nat
      /\ \A e \in 0 .. Experts - 1 : Slot(e + 1) = Slot(e) + BlockCount[e]
      /\ \A d, e \in 0 .. Experts : d <= e => Slot(d) <= Slot(e)
  BY <1>1, <1>3, FirstBlocks DEF Slot
<1>6. Total <= MaxBlocks
  <2> DEFINE g == [e \in 0 .. Experts |-> First(e)]
  <2>1. g \in [0 .. Experts -> Nat]
    BY <1>1, Layout
  <2>2. g[0] = 0 /\ g[Experts] = n
    BY <1>1, Layout
  <2>3. ASSUME NEW e \in 0 .. Experts - 1
        PROVE  BuildBlock * BlockCount[e] <= g[e + 1] - g[e] + BuildBlock - 1
    <3>1. e \in Expert /\ e \in 0 .. Experts /\ e + 1 \in 0 .. Experts
      BY <1>1 DEF Expert
    <3>2. First(e + 1) = First(e) + Size(e) /\ First(e) \in Nat /\ Size(e) \in Nat
      BY <1>1, <3>1, Layout
    <3>3. g[e + 1] - g[e] = Size(e)
      BY <3>1, <3>2
    <3>4. BuildBlock * BlockCount[e] <= Size(e) + BuildBlock - 1
      BY <1>2, <1>4, <3>1
    <3>5. QED
      BY <3>3, <3>4
  <2> HIDE DEF g
  <2>4. FirstBlock(BlockCount, Experts) <= CeilDiv(g[Experts], BuildBlock) + Experts - 1
    BY <1>1, <1>3, <2>1, <2>2, <2>3, ScheduleFits
  <2>5. QED
    BY <1>1, <2>2, <2>4 DEF Total, Slot
<1>7. \A e \in Expert : e \in 0 .. Experts - 1
  BY DEF Expert
<1>8. Experts \in 0 .. Experts /\ \A e \in 0 .. Experts : e <= Experts
  BY <1>1
<1>9. QED
  BY <1>3, <1>4, <1>5, <1>6, <1>7, <1>8 DEF Total

\* The block that a slot of the schedule holds.
LEMMA SlotHolds ==
  ASSUME CallOK
  PROVE  /\ \A e \in Expert : \A b \in 0 .. BlockCount[e] - 1 :
              /\ Slot(e) + b \in 0 .. Total - 1
              /\ \A d \in 0 .. Experts : Slot(d) <= Slot(e) + b <=> d <= e
         /\ \A s \in Nat : s < Total =>
              \E e \in Expert : \E b \in 0 .. BlockCount[e] - 1 : s = Slot(e) + b
<1>1. Experts \in Nat /\ BlockCount \in [0 .. Experts - 1 -> Nat]
  BY CallNumbers, Schedule
<1>2. ASSUME NEW e \in 0 .. Experts - 1, NEW b \in 0 .. BlockCount[e] - 1
      PROVE  /\ FirstBlock(BlockCount, e) + b \in 0 .. FirstBlock(BlockCount, Experts) - 1
             /\ \A d \in 0 .. Experts :
                  FirstBlock(BlockCount, d) <= FirstBlock(BlockCount, e) + b <=> d <= e
  BY <1>1, SlotsApart
<1>3. ASSUME NEW s \in Nat, s < FirstBlock(BlockCount, Experts)
      PROVE  \E e \in 0 .. Experts - 1 : \E b \in 0 .. BlockCount[e] - 1 :
               s = FirstBlock(BlockCount, e) + b
  BY <1>1, <1>3, BlockOfSlot
<1>4. QED
  BY <1>2, <1>3 DEF Slot, Total, Expert

\* What is said of a call stays true as long as the call does.
LEMMA SameCall ==
  ASSUME UNCHANGED <<shape, ids>>
  PROVE  /\ (CallOK' <=> CallOK) /\ n' = n /\ Rows' = Rows /\ (Fused' <=> Fused)
         /\ GemmBlock' = GemmBlock /\ BuildBlock' = BuildBlock /\ MaxBlocks' = MaxBlocks
         /\ \A r : Rank(r)' = Rank(r) /\ RowAt(r)' = RowAt(r)
         /\ \A e : First(e)' = First(e) /\ Size(e)' = Size(e) /\ Slot(e)' = Slot(e)
         /\ BlockCount' = BlockCount /\ Total' = Total
         /\ \A k : Programs(k)' = Programs(k) /\ Grid(k)' = Grid(k)
BY DEF CallOK, n, Rows, Fused, GemmBlock, BuildBlock, MaxBlocks, Rank, RowAt, First, Size, Slot,
   BlockCount, Total, Programs, Grid

-----------------------------------------------------------------------------
(* The invariant.  A cell is right from when the program that stores it has *)
(* ended; the launches come in one order, so the kernels that may still run *)
(* after a launch has ended are known.                                      *)

Ready == {"ready", "gather", "gemm1", "act", "gemm2", "combine", "done"}

General == {"sort", "src2dst", "offsets", "counts", "memset", "blocks"}
FusedPhases == {"fsort", "fsearch", "fcounts", "fschedule"}

\* The kernels of this call's path.
Path == IF Fused THEN FusedPhases ELSE General

\* What may run when all programs of a launch have ended.
Past == [sort      |-> {"src2dst", "offsets", "counts", "memset", "blocks"} \cup Ready,
         src2dst   |-> {"offsets", "counts", "memset", "blocks"} \cup Ready,
         offsets   |-> {"counts", "memset", "blocks"} \cup Ready,
         counts    |-> {"memset", "blocks"} \cup Ready,
         memset    |-> {"blocks"} \cup Ready,
         blocks    |-> Ready,
         fsort     |-> {"fsearch", "fcounts", "fschedule"} \cup Ready,
         fsearch   |-> {"fcounts", "fschedule"} \cup Ready,
         fcounts   |-> {"fschedule"} \cup Ready,
         fschedule |-> Ready]

Ended(k, p) == kernel \in Past[k] \/ (kernel = k /\ <<k, p>> \notin todo)

\* Only programs of the launch under way are to be run.
Running ==
  /\ kernel \in Ready \cup Path
  /\ kernel \in Ready => todo \subseteq Launched(kernel)
  /\ kernel \notin Ready => todo \subseteq Grid(kernel)

Buffers == {"order", "sorted", "src2dst", "offs", "counts", "blockOffs", "schedule"}
BufferRange(b) ==
  CASE b \in {"order", "sorted", "src2dst"} -> Rows
    [] b \in {"offs", "blockOffs"} -> 0 .. Experts
    [] b = "counts" -> Expert
    [] b = "schedule" -> 0 .. MaxBlocks - 1
MetaShape == DOMAIN meta = Buffers /\ \A b \in Buffers : DOMAIN meta[b] = BufferRange(b)

\* The general path.
SortRight ==
  Ended("sort", 0) =>
    \A p \in Rows : meta["order"][p] = RowAt(p) /\ meta["sorted"][p] = ids[RowAt(p)]
CopyRight ==
  \A d \in Rows : Ended("src2dst", d \div CopyBlock) => meta["src2dst"][RowAt(d)] = d
OffsetsRight ==
  \A e \in Expert : Ended("offsets", e) =>
    meta["offs"][e + 1] = First(e + 1) /\ (e = 0 => meta["offs"][0] = 0)
CountsRight ==
  \A e \in Expert : Ended("counts", e) => meta["counts"][e] = Size(e)
ScanRight ==
  /\ scan["at"] \in 0 .. Experts /\ scan["sum"] = Slot(scan["at"])
  /\ \A e \in Expert : e < scan["at"] => meta["blockOffs"][e] = Slot(e)
  /\ Ended("memset", 0) => scan["at"] = Experts /\ meta["blockOffs"][Experts] = Total
PadRight ==
  \A s \in 0 .. MaxBlocks - 1 :
    Total <= s /\ Ended("memset", s \div FillBlock + 1) => meta["schedule"][s] = -1
BlocksRight ==
  \A e \in Expert : Ended("blocks", e) =>
    \A b \in 0 .. BlockCount[e] - 1 : meta["schedule"][Slot(e) + b] = Word(b, e)

\* A search for the last row of expert e keeps the end of its rows in range.
ProbeRight ==
  /\ DOMAIN probe = Expert
  /\ \A e \in Expert :
       /\ probe[e] = [low |-> probe[e]["low"], high |-> probe[e]["high"],
                      target |-> probe[e]["target"]]
       /\ probe[e]["low"] \in 0 .. n /\ probe[e]["high"] \in -1 .. n - 1
       /\ probe[e]["target"] = probe[e]["low"] - 1
       /\ probe[e]["low"] <= First(e + 1) /\ First(e + 1) <= probe[e]["high"] + 1

GeneralInv ==
  /\ SortRight /\ CopyRight /\ OffsetsRight /\ ProbeRight /\ CountsRight
  /\ ScanRight /\ PadRight /\ BlocksRight

\* The fused kernel.
LanesRight ==
  \A p \in Rows : Ended("fsort", p) =>
    meta["sorted"][p] = ids[RowAt(p)] /\ meta["src2dst"][RowAt(p)] = p
SearchRight ==
  \A e \in 0 .. Experts : Ended("fsearch", e) => meta["offs"][e] = First(e)
LaneCountsRight ==
  \A e \in 0 .. Experts : Ended("fcounts", e) =>
    meta["blockOffs"][e] = Slot(e) /\ (e < Experts => meta["counts"][e] = Size(e))
LaneScheduleRight ==
  \A s \in 0 .. MaxBlocks - 1 : Ended("fschedule", s) =>
    /\ Total <= s => meta["schedule"][s] = -1
    /\ \A e \in Expert : \A b \in 0 .. BlockCount[e] - 1 :
         s = Slot(e) + b => meta["schedule"][s] = Word(b, e)

FusedInv == LanesRight /\ SearchRight /\ LaneCountsRight /\ LaneScheduleRight

MetaInv ==
  /\ CallOK /\ Running /\ MetaShape
  /\ ~Fused => GeneralInv
  /\ Fused => FusedInv

-----------------------------------------------------------------------------
(* What a launch and the end of a program do to the cells that are settled. *)

\* A launch that comes right before one that is past k is past k, or k itself.
LEMMA PathLaunches ==
  ASSUME NEW k \in Path, NEW x \in Path, After[x] \in Past[k]
  PROVE  x \in Past[k] \/ x = k
<1>1. CASE Fused
  <2> k \in FusedPhases /\ x \in FusedPhases
    BY <1>1 DEF Path
  <2>1. CASE k = "fsort"
    <3>1. Past["fsort"] = {"fsearch", "fcounts", "fschedule"} \cup Ready
      BY DEF Past
    <3>2. QED
      BY <2>1, <3>1 DEF After, Ready, FusedPhases
  <2>2. CASE k = "fsearch"
    <3>1. Past["fsearch"] = {"fcounts", "fschedule"} \cup Ready
      BY DEF Past
    <3>2. QED
      BY <2>2, <3>1 DEF After, Ready, FusedPhases
  <2>3. CASE k = "fcounts"
    <3>1. Past["fcounts"] = {"fschedule"} \cup Ready
      BY DEF Past
    <3>2. QED
      BY <2>3, <3>1 DEF After, Ready, FusedPhases
  <2>4. CASE k = "fschedule"
    <3>1. Past["fschedule"] = Ready
      BY DEF Past
    <3>2. QED
      BY <2>4, <3>1 DEF After, Ready, FusedPhases
  <2>5. QED
    BY <2>1, <2>2, <2>3, <2>4 DEF FusedPhases
<1>2. CASE ~Fused
  <2> k \in General /\ x \in General
    BY <1>2 DEF Path
  <2>1. CASE k = "sort"
    <3>1. Past["sort"] = {"src2dst", "offsets", "counts", "memset", "blocks"} \cup Ready
      BY DEF Past
    <3>2. QED
      BY <2>1, <3>1 DEF After, Ready, General
  <2>2. CASE k = "src2dst"
    <3>1. Past["src2dst"] = {"offsets", "counts", "memset", "blocks"} \cup Ready
      BY DEF Past
    <3>2. QED
      BY <2>2, <3>1 DEF After, Ready, General
  <2>3. CASE k = "offsets"
    <3>1. Past["offsets"] = {"counts", "memset", "blocks"} \cup Ready
      BY DEF Past
    <3>2. QED
      BY <2>3, <3>1 DEF After, Ready, General
  <2>4. CASE k = "counts"
    <3>1. Past["counts"] = {"memset", "blocks"} \cup Ready
      BY DEF Past
    <3>2. QED
      BY <2>4, <3>1 DEF After, Ready, General
  <2>5. CASE k = "memset"
    <3>1. Past["memset"] = {"blocks"} \cup Ready
      BY DEF Past
    <3>2. QED
      BY <2>5, <3>1 DEF After, Ready, General
  <2>6. CASE k = "blocks"
    <3>1. Past["blocks"] = Ready
      BY DEF Past
    <3>2. QED
      BY <2>6, <3>1 DEF After, Ready, General
  <2>7. QED
    BY <2>1, <2>2, <2>3, <2>4, <2>5, <2>6 DEF General
<1>3. QED
  BY <1>1, <1>2

\* The next launch runs all of its programs: none of them has ended yet.
LEMMA LaunchEnds ==
  ASSUME NextLaunch, Running
  PROVE  \A k \in Path : \A p \in Programs(k) : Ended(k, p)' => Ended(k, p)
<1> SUFFICES ASSUME NEW k \in Path, NEW p \in Programs(k), Ended(k, p)'
             PROVE  Ended(k, p)
  OBVIOUS
<1>1. kernel \in DOMAIN After /\ todo = {} /\ kernel' = After[kernel] /\ todo' = Grid(kernel')
  BY DEF NextLaunch
<1>2. Programs(k)' = Programs(k)
  BY SameCall DEF NextLaunch
<1>3. kernel' # k \/ <<k, p>> \in todo'
  BY <1>1, <1>2 DEF Grid
<1>4. kernel' \in Past[k]
  BY <1>3 DEF Ended
<1>5. kernel \in Path
  BY <1>1 DEF Running, Path, Ready, After
<1>6. kernel \in Past[k] \/ kernel = k
  BY <1>1, <1>4, <1>5, PathLaunches
<1>7. QED
  BY <1>1, <1>6 DEF Ended

\* The programs still to be run are all of one launch.
LEMMA InLaunch ==
  ASSUME Running, NEW k, NEW p, <<k, p>> \in todo
  PROVE  kernel = k
<1>1. CASE kernel \in Ready
  BY <1>1 DEF Running, Ready, Launched
<1>2. CASE kernel \notin Ready
  BY <1>2 DEF Running, Grid
<1>3. QED
  BY <1>1, <1>2

\* A program that ends settles its own cells and no others.
LEMMA EndsEnds ==
  ASSUME NEW k, NEW p, Ends(k, p), kernel' = kernel, Running
  PROVE  /\ kernel = k
         /\ \A j, q : Ended(j, q)' => Ended(j, q) \/ (j = k /\ q = p)
<1>1. <<k, p>> \in todo /\ todo' = todo \ {<<k, p>>}
  BY DEF Ends
<1>2. kernel = k
  BY <1>1, InLaunch
<1>3. ASSUME NEW j, NEW q, Ended(j, q)'
      PROVE  Ended(j, q) \/ (j = k /\ q = p)
  BY <1>1, <1>3 DEF Ended
<1>4. QED
  BY <1>2, <1>3

\* A store into a buffer leaves the others and its own other cells alone.
LEMMA StoreEffect ==
  ASSUME NEW b \in Buffers, NEW w, Stores(b, w), MetaShape, UNCHANGED <<shape, ids>>,
         DOMAIN w \subseteq BufferRange(b)
  PROVE  /\ MetaShape'
         /\ \A c \in Buffers : c # b => meta'[c] = meta[c]
         /\ \A i \in BufferRange(b) :
              meta'[b][i] = IF i \in DOMAIN w THEN w[i] ELSE meta[b][i]
<1>1. DOMAIN meta = Buffers /\ \A c \in Buffers : DOMAIN meta[c] = BufferRange(c)
  BY DEF MetaShape
<1>2. meta' = [meta EXCEPT ![b] = Put(meta[b], w)]
  BY DEF Stores
<1>3. DOMAIN meta' = Buffers /\ meta'[b] = Put(meta[b], w)
  BY <1>1, <1>2
<1>4. \A c \in Buffers : c # b => meta'[c] = meta[c]
  BY <1>1, <1>2
<1>5. DOMAIN Put(meta[b], w) = BufferRange(b)
  BY <1>1 DEF Put
<1>6. \A i \in BufferRange(b) :
        Put(meta[b], w)[i] = IF i \in DOMAIN w THEN w[i] ELSE meta[b][i]
  BY <1>1 DEF Put
<1>7. \A c \in Buffers : BufferRange(c)' = BufferRange(c)
  <2>1. Rows' = Rows /\ MaxBlocks' = MaxBlocks
    BY SameCall
  <2>2. QED
    BY <2>1 DEF BufferRange
<1>8. \A c \in Buffers : DOMAIN meta'[c] = BufferRange(c)
  BY <1>1, <1>3, <1>4, <1>5
<1>9. MetaShape'
  BY <1>3, <1>7, <1>8 DEF MetaShape
<1>10. QED
  BY <1>3, <1>4, <1>6, <1>9

\* Programs that end leave the others in the launch they belong to.
LEMMA RunningStays ==
  ASSUME Running, UNCHANGED <<shape, ids, kernel>>, todo' \subseteq todo,
         kernel \notin Ready \/ meta' = meta
  PROVE  Running'
<1>1. Fused' = Fused /\ Grid(kernel)' = Grid(kernel) /\ Path' = Path
  BY DEF Fused, n, Grid, Programs, MaxBlocks, BuildBlock, GemmBlock, Path
<1>2. kernel \in Ready => Launched(kernel)' = Launched(kernel)
  BY DEF Launched, Ready, GridM, Tokens, n
<1>3. QED
  BY <1>1, <1>2 DEF Running

\* A new launch starts with its own programs and no others.
LEMMA LaunchRuns ==
  ASSUME NextLaunch, Running
  PROVE  Running'
<1>1. kernel \in DOMAIN After /\ kernel' = After[kernel] /\ todo' = Grid(kernel')
  BY DEF NextLaunch
<1>2. kernel \in Path
  BY <1>1 DEF Running, Path, Ready, After
<1>3. Path' = Path /\ \A k : Programs(k)' = Programs(k)
  <2>1. (Fused' <=> Fused) /\ \A k : Programs(k)' = Programs(k)
    BY SameCall DEF NextLaunch
  <2>2. QED
    BY <2>1 DEF Path, FusedPhases, General
<1>4. kernel' \in Path \/ kernel' = "ready"
  <2>1. CASE Fused
    BY <1>1, <1>2, <2>1 DEF Path, FusedPhases, After
  <2>2. CASE ~Fused
    BY <1>1, <1>2, <2>2 DEF Path, General, After
  <2>3. QED
    BY <2>1, <2>2
<1>5. CASE kernel' = "ready"
  <2>1. todo' = {}
    BY <1>1, <1>5 DEF Grid, Programs
  <2>2. QED
    BY <1>5, <2>1 DEF Running, Ready
<1>6. CASE kernel' \in Path
  <2>1. kernel' \notin Ready
    BY <1>6 DEF Path, General, FusedPhases, Ready
  <2>2. todo' = {kernel'} \X Programs(kernel')
    BY <1>1 DEF Grid
  <2>3. QED
    BY <1>3, <1>6, <2>1, <2>2 DEF Running, Grid
<1>7. QED
  BY <1>4, <1>5, <1>6

\* Every cell of a buffer stored in stretches belongs to a program.
LEMMA Stretches ==
  ASSUME CallOK
  PROVE  /\ \A d \in Rows : d \div CopyBlock \in Programs("src2dst")
         /\ \A s \in 0 .. MaxBlocks - 1 : s \div FillBlock + 1 \in Programs("memset")
         /\ 0 \in Programs("memset")
<1>1. n \in Nat /\ MaxBlocks \in Nat /\ CopyBlock \in Nat \ {0} /\ FillBlock \in Nat \ {0}
  BY CallNumbers
<1>2. ASSUME NEW a \in Nat, NEW b \in Nat \ {0}, NEW d \in 0 .. a - 1
      PROVE  d \div b \in Nat /\ d \div b < CeilDiv(a, b) /\ CeilDiv(a, b) \in Nat
  <2>1. d \in Int /\ d >= 0 /\ d < a
    OBVIOUS
  <2>2. d \div b \in Nat /\ b * (d \div b) <= d
    BY <2>1, Quotient
  <2>3. CeilDiv(a, b) \in Nat /\ (d \div b < CeilDiv(a, b) <=> b * (d \div b) < a)
    BY <2>2, CeilDivFits
  <2>4. b * (d \div b) \in Int
    BY <2>2
  <2>5. QED
    BY <2>1, <2>2, <2>3, <2>4
<1>3. ASSUME NEW d \in Rows PROVE d \div CopyBlock \in Programs("src2dst")
  <2>1. d \in 0 .. n - 1
    BY DEF Rows
  <2>2. /\ d \div CopyBlock \in Nat /\ d \div CopyBlock < CeilDiv(n, CopyBlock)
        /\ CeilDiv(n, CopyBlock) \in Nat
    BY <1>1, <1>2, <2>1
  <2>3. QED
    BY <2>2 DEF Programs
<1>4. ASSUME NEW s \in 0 .. MaxBlocks - 1 PROVE s \div FillBlock + 1 \in Programs("memset")
  <2>1. /\ s \div FillBlock \in Nat /\ s \div FillBlock < CeilDiv(MaxBlocks, FillBlock)
        /\ CeilDiv(MaxBlocks, FillBlock) \in Nat
    BY <1>1, <1>2
  <2>2. QED
    BY <2>1 DEF Programs
<1>5. 0 \in Programs("memset")
  <2>1. CeilDiv(MaxBlocks, FillBlock) \in Nat
    BY <1>1, CeilDivFits
  <2>2. QED
    BY <2>1 DEF Programs
<1>6. QED
  BY <1>3, <1>4, <1>5

-----------------------------------------------------------------------------
(* Each part of the invariant reads a few buffers and one launch: a step    *)
(* that leaves those alone keeps it.                                        *)

\* The part of the invariant that speaks of the sort is kept by a step that
\* stores elsewhere and ends no sort; the seven lemmas that follow say it of
\* the other launches of the general path.
LEMMA SortStays ==
  ASSUME SortRight, UNCHANGED <<shape, ids>>, Ended("sort", 0)' => Ended("sort", 0),
         meta'["order"] = meta["order"], meta'["sorted"] = meta["sorted"]
  PROVE  SortRight'
<1>1. Rows' = Rows /\ \A r : RowAt(r)' = RowAt(r)
  BY SameCall
<1>2. QED
  BY <1>1 DEF SortRight

\* The places of the rows.
LEMMA CopyStays ==
  ASSUME CallOK, CopyRight, UNCHANGED <<shape, ids>>, meta'["src2dst"] = meta["src2dst"],
         \A p \in Programs("src2dst") : Ended("src2dst", p)' => Ended("src2dst", p)
  PROVE  CopyRight'
<1>1. Rows' = Rows /\ \A r : RowAt(r)' = RowAt(r)
  BY SameCall
<1>2. QED
  BY <1>1, Stretches DEF CopyRight

\* The first rows of the experts.
LEMMA OffsetsStay ==
  ASSUME OffsetsRight, UNCHANGED <<shape, ids>>, meta'["offs"] = meta["offs"],
         \A e \in Expert : Ended("offsets", e)' => Ended("offsets", e)
  PROVE  OffsetsRight'
<1>1. \A e : First(e)' = First(e)
  BY SameCall
<1>2. QED
  BY <1>1 DEF OffsetsRight

\* The searches for them.
LEMMA ProbeStays ==
  ASSUME ProbeRight, UNCHANGED <<shape, ids, probe>>
  PROVE  ProbeRight'
<1>1. n' = n /\ \A e : First(e)' = First(e)
  BY SameCall
<1>2. QED
  BY <1>1 DEF ProbeRight

\* The row counts.
LEMMA CountsStay ==
  ASSUME CountsRight, UNCHANGED <<shape, ids>>, meta'["counts"] = meta["counts"],
         \A e \in Expert : Ended("counts", e)' => Ended("counts", e)
  PROVE  CountsRight'
<1>1. \A e : Size(e)' = Size(e)
  BY SameCall
<1>2. QED
  BY <1>1 DEF CountsRight

\* The running sum of the blocks.
LEMMA ScanStays ==
  ASSUME ScanRight, UNCHANGED <<shape, ids, scan>>, meta'["blockOffs"] = meta["blockOffs"],
         Ended("memset", 0)' => Ended("memset", 0)
  PROVE  ScanRight'
<1>1. Total' = Total /\ \A e : Slot(e)' = Slot(e)
  BY SameCall
<1>2. QED
  BY <1>1 DEF ScanRight

\* The padding of the schedule.
LEMMA PadStays ==
  ASSUME CallOK, PadRight, UNCHANGED <<shape, ids>>, meta'["schedule"] = meta["schedule"],
         \A p \in Programs("memset") : Ended("memset", p)' => Ended("memset", p)
  PROVE  PadRight'
<1>1. Total' = Total /\ MaxBlocks' = MaxBlocks
  BY SameCall
<1>2. QED
  BY <1>1, Stretches DEF PadRight

\* The words of the schedule.
LEMMA BlocksStay ==
  ASSUME BlocksRight, UNCHANGED <<shape, ids>>, meta'["schedule"] = meta["schedule"],
         \A e \in Expert : Ended("blocks", e)' => Ended("blocks", e)
  PROVE  BlocksRight'
<1>1. BlockCount' = BlockCount /\ \A e : Slot(e)' = Slot(e)
  BY SameCall
<1>2. QED
  BY <1>1 DEF BlocksRight

\* A step that stores nothing and launches or runs nothing new.
LEMMA GeneralStays ==
  ASSUME CallOK, ~Fused, GeneralInv, UNCHANGED <<shape, ids, meta, probe, scan>>,
         \A k \in Path : \A p \in Programs(k) : Ended(k, p)' => Ended(k, p)
  PROVE  GeneralInv'
<1>1. \A k \in General : \A p \in Programs(k) : Ended(k, p)' => Ended(k, p)
  BY DEF Path
<1>2. /\ Ended("sort", 0)' => Ended("sort", 0)
      /\ \A p \in Programs("src2dst") : Ended("src2dst", p)' => Ended("src2dst", p)
      /\ \A e \in Expert : Ended("offsets", e)' => Ended("offsets", e)
      /\ \A e \in Expert : Ended("counts", e)' => Ended("counts", e)
      /\ \A p \in Programs("memset") : Ended("memset", p)' => Ended("memset", p)
      /\ \A e \in Expert : Ended("blocks", e)' => Ended("blocks", e)
  <2>1. /\ 0 \in Programs("sort")
        /\ \A e \in Expert : e \in Programs("offsets") /\ e \in Programs("counts") /\ e \in Programs("blocks")
    BY DEF Programs
  <2>2. {"sort", "src2dst", "offsets", "counts", "memset", "blocks"} \subseteq General
    BY DEF General
  <2>3. QED
    BY <1>1, <2>1, <2>2
<1>3. Ended("memset", 0)' => Ended("memset", 0)
  BY <1>2, Stretches
<1>4. SortRight' /\ CopyRight' /\ OffsetsRight' /\ ProbeRight'
  BY <1>2, SortStays, CopyStays, OffsetsStay, ProbeStays DEF GeneralInv
<1>5. CountsRight' /\ ScanRight' /\ PadRight' /\ BlocksRight'
  BY <1>2, <1>3, CountsStay, ScanStays, PadStays, BlocksStay DEF GeneralInv
<1>6. QED
  BY <1>4, <1>5 DEF GeneralInv

-----------------------------------------------------------------------------
(* The general path, program by program. *)

\* torch.sort(stable=True) leaves the rows in stable order.
LEMMA SortStep ==
  ASSUME CallOK, Running, MetaShape, GeneralInv, Sort
  PROVE  Running' /\ MetaShape' /\ GeneralInv'
<1>1. Ends("sort", 0) /\ UNCHANGED <<shape, ids, kernel, probe, scan>>
  BY DEF Sort, Quiet
<1>2. /\ kernel = "sort"
      /\ \A j, q : Ended(j, q)' => Ended(j, q) \/ (j = "sort" /\ q = 0)
  BY <1>1, EndsEnds
<1>3. Running'
  BY <1>1, <1>2, RunningStays DEF Ends, Ready
<1>4. /\ DOMAIN meta = Buffers /\ \A c \in Buffers : DOMAIN meta[c] = BufferRange(c)
      /\ meta' = [meta EXCEPT !["order"]  = [p \in Rows |-> RowAt(p)],
                              !["sorted"] = [p \in Rows |-> ids[RowAt(p)]]]
  BY DEF MetaShape, Sort
<1>5. /\ DOMAIN meta' = Buffers
      /\ meta'["order"] = [p \in Rows |-> RowAt(p)]
      /\ meta'["sorted"] = [p \in Rows |-> ids[RowAt(p)]]
      /\ \A c \in Buffers : c \notin {"order", "sorted"} => meta'[c] = meta[c]
  BY <1>4 DEF Buffers
<1>6. MetaShape'
  <2>1. \A c \in Buffers : BufferRange(c)' = BufferRange(c)
    BY <1>1, SameCall DEF BufferRange
  <2>2. \A c \in Buffers : DOMAIN meta'[c] = BufferRange(c)
    BY <1>4, <1>5 DEF BufferRange
  <2>3. QED
    BY <1>5, <2>1, <2>2 DEF MetaShape
<1>7. SortRight'
  <2>1. Rows' = Rows /\ ids' = ids /\ \A r : RowAt(r)' = RowAt(r)
    BY <1>1, SameCall
  <2>2. QED
    BY <1>5, <2>1 DEF SortRight
<1>8. CopyRight' /\ OffsetsRight' /\ ProbeRight'
  BY <1>1, <1>2, <1>5, CopyStays, OffsetsStay, ProbeStays DEF GeneralInv, Buffers
<1>9. CountsRight' /\ ScanRight' /\ PadRight' /\ BlocksRight'
  BY <1>1, <1>2, <1>5, CountsStay, ScanStays, PadStays, BlocksStay DEF GeneralInv, Buffers
<1>10. QED
  BY <1>3, <1>6, <1>7, <1>8, <1>9 DEF GeneralInv

\* A program of _compute_src2dst_kernel writes the place of every row of its
\* stretch, and of no other row.
LEMMA CopyStep ==
  ASSUME CallOK, Running, MetaShape, GeneralInv, NEW p, SrcToDst(p)
  PROVE  Running' /\ MetaShape' /\ GeneralInv'
<1> DEFINE dsts == {d \in Rows : d \div CopyBlock = p}
           w == [r \in {meta["order"][d] : d \in dsts} |->
                   CHOOSE d \in dsts : meta["order"][d] = r]
<1>1. /\ Ends("src2dst", p) /\ Stores("src2dst", w)
      /\ UNCHANGED <<shape, ids, kernel, probe, scan>>
  BY DEF SrcToDst, Quiet
<1>2. /\ kernel = "src2dst"
      /\ \A j, q : Ended(j, q)' => Ended(j, q) \/ (j = "src2dst" /\ q = p)
  BY <1>1, EndsEnds
<1>3. Running'
  BY <1>1, <1>2, RunningStays DEF Ends, Ready
<1>4. \A d \in Rows : RowAt(d) \in Rows /\ Rank(RowAt(d)) = d
  BY Places
<1>5. \A d \in Rows : meta["order"][d] = RowAt(d)
  <2>1. Ended("sort", 0)
    BY <1>2 DEF Ended, Past
  <2>2. QED
    BY <2>1 DEF GeneralInv, SortRight
<1>6. /\ DOMAIN w \subseteq Rows
      /\ \A d \in dsts : RowAt(d) \in DOMAIN w /\ w[RowAt(d)] = d
      /\ \A d \in Rows : d \notin dsts => RowAt(d) \notin DOMAIN w
  <2>1. DOMAIN w = {meta["order"][d] : d \in dsts}
    OBVIOUS
  <2>2. ASSUME NEW d \in dsts PROVE RowAt(d) \in DOMAIN w /\ w[RowAt(d)] = d
    <3>1. RowAt(d) \in DOMAIN w /\ w[RowAt(d)] = CHOOSE x \in dsts : meta["order"][x] = RowAt(d)
      BY <1>5, <2>1
    <3>2. \A x \in dsts : meta["order"][x] = RowAt(d) <=> x = d
      BY <1>4, <1>5
    <3>3. QED
      BY <3>1, <3>2
  <2>3. ASSUME NEW d \in Rows, d \notin dsts PROVE RowAt(d) \notin DOMAIN w
    BY <1>4, <1>5, <2>1, <2>3
  <2>4. DOMAIN w \subseteq Rows
    BY <1>4, <1>5, <2>1
  <2>5. QED
    BY <2>2, <2>3, <2>4
<1>7. dsts = {d \in Rows : d \div CopyBlock = p}
  OBVIOUS
<1> HIDE DEF w, dsts
<1>8. /\ MetaShape'
      /\ \A c \in Buffers : c # "src2dst" => meta'[c] = meta[c]
      /\ \A i \in Rows : meta'["src2dst"][i] = IF i \in DOMAIN w THEN w[i] ELSE meta["src2dst"][i]
  <2>1. "src2dst" \in Buffers /\ BufferRange("src2dst") = Rows
    BY DEF Buffers, BufferRange
  <2>2. QED
    BY <1>1, <1>6, <2>1, StoreEffect
<1>9. CopyRight'
  <2>1. Rows' = Rows /\ \A r : RowAt(r)' = RowAt(r)
    BY <1>1, SameCall
  <2>2. ASSUME NEW d \in Rows, Ended("src2dst", d \div CopyBlock)'
        PROVE  meta'["src2dst"][RowAt(d)] = d
    <3>1. CASE d \in dsts
      BY <1>4, <1>6, <1>8, <3>1
    <3>2. CASE d \notin dsts
      <4>1. Ended("src2dst", d \div CopyBlock)
        BY <1>2, <1>7, <2>2, <3>2
      <4>2. QED
        BY <1>4, <1>6, <1>8, <3>2, <4>1 DEF GeneralInv, CopyRight
    <3>3. QED
      BY <3>1, <3>2
  <2>3. QED
    BY <2>1, <2>2 DEF CopyRight
<1>10. SortRight' /\ OffsetsRight' /\ ProbeRight'
  BY <1>1, <1>2, <1>8, SortStays, OffsetsStay, ProbeStays DEF GeneralInv, Buffers
<1>11. CountsRight' /\ ScanRight' /\ PadRight' /\ BlocksRight'
  BY <1>1, <1>2, <1>8, CountsStay, ScanStays, PadStays, BlocksStay DEF GeneralInv, Buffers
<1>12. QED
  BY <1>3, <1>8, <1>9, <1>10, <1>11 DEF GeneralInv

\* Half of the range is kept, the half that holds the end of the expert's rows.
LEMMA Middle ==
  ASSUME NEW lo \in Int, NEW hi \in Int, lo <= hi
  PROVE  /\ (lo + hi) \div 2 \in Int /\ lo <= (lo + hi) \div 2 /\ (lo + hi) \div 2 <= hi
OBVIOUS

\* A round of an expert's search keeps the end of its rows between its bounds.
LEMMA ProbeStep ==
  ASSUME CallOK, Running, MetaShape, GeneralInv, NEW e \in Expert, Probe(e)
  PROVE  Running' /\ MetaShape' /\ GeneralInv'
<1> DEFINE low == probe[e]["low"]
           high == probe[e]["high"]
           mid == (low + high) \div 2
           after == IF meta["sorted"][mid] > e
                      THEN [probe[e] EXCEPT !["high"] = mid - 1]
                      ELSE [probe[e] EXCEPT !["low"] = mid + 1, !["target"] = mid]
<1>1. /\ <<"offsets", e>> \in todo /\ low <= high
      /\ probe' = [probe EXCEPT ![e] = after]
      /\ UNCHANGED <<shape, ids, meta, kernel, todo, scan>>
  BY DEF Probe
<1>2. kernel = "offsets"
  BY <1>1, InLaunch
<1>3. \A j, q : Ended(j, q)' => Ended(j, q)
  BY <1>1 DEF Ended
<1>4. Running'
  BY <1>1, <1>2, RunningStays DEF Ready
<1>5. MetaShape'
  <2>1. \A c \in Buffers : BufferRange(c)' = BufferRange(c)
    BY <1>1, SameCall DEF BufferRange
  <2>2. QED
    BY <1>1, <2>1 DEF MetaShape
<1>6. ProbeRight
  BY DEF GeneralInv
<1>7. /\ probe[e] = [low |-> low, high |-> high, target |-> probe[e]["target"]]
      /\ low \in 0 .. n /\ high \in -1 .. n - 1
      /\ probe[e]["target"] = low - 1
      /\ low <= First(e + 1) /\ First(e + 1) <= high + 1
  BY <1>6 DEF ProbeRight
<1>8. n \in Nat /\ Experts \in Nat /\ e \in Int /\ e + 1 \in 0 .. Experts
  BY CallNumbers DEF Expert
<1>9. mid \in Int /\ low <= mid /\ mid <= high /\ First(e + 1) \in Int
  <2>1. low \in Int /\ high \in Int
    BY <1>7, <1>8
  <2>2. First(e + 1) \in Int
    BY <1>8, Layout
  <2>3. QED
    BY <1>1, <2>1, <2>2, Middle
<1>10. mid \in Rows
  BY <1>7, <1>8, <1>9 DEF Rows
<1>11. meta["sorted"][mid] > e <=> First(e + 1) <= mid
  <2>1. Ended("sort", 0)
    BY <1>2 DEF Ended, Past
  <2>2. meta["sorted"][mid] = ids[RowAt(mid)]
    BY <1>10, <2>1 DEF GeneralInv, SortRight
  <2>3. ids[RowAt(mid)] < e + 1 <=> mid < First(e + 1)
    BY <1>8, <1>10, Places
  <2>4. ids[RowAt(mid)] \in Int
    <3>1. RowAt(mid) \in Rows
      BY <1>10, Places
    <3>2. QED
      BY <1>8, <3>1 DEF CallOK, Expert
  <2>5. QED
    BY <1>8, <1>9, <2>2, <2>3, <2>4
<1>12. /\ after = [low |-> after["low"], high |-> after["high"], target |-> after["target"]]
       /\ after["low"] \in 0 .. n /\ after["high"] \in -1 .. n - 1
       /\ after["target"] = after["low"] - 1
       /\ after["low"] <= First(e + 1) /\ First(e + 1) <= after["high"] + 1
  <2>1. CASE meta["sorted"][mid] > e
    <3>1. after["low"] = low /\ after["high"] = mid - 1 /\ after["target"] = probe[e]["target"]
          /\ after = [low |-> low, high |-> mid - 1, target |-> probe[e]["target"]]
      BY <1>7, <2>1
    <3>2. First(e + 1) <= mid
      BY <1>11, <2>1
    <3> HIDE DEF after, mid, low, high
    <3>3. QED
      BY <1>7, <1>8, <1>9, <3>1, <3>2
  <2>2. CASE ~(meta["sorted"][mid] > e)
    <3>1. after["low"] = mid + 1 /\ after["high"] = high /\ after["target"] = mid
          /\ after = [low |-> mid + 1, high |-> high, target |-> mid]
      BY <1>7, <2>2
    <3>2. mid < First(e + 1)
      BY <1>9, <1>11, <2>2
    <3> HIDE DEF after, mid, low, high
    <3>3. QED
      BY <1>7, <1>8, <1>9, <3>1, <3>2
  <2>3. QED
    BY <2>1, <2>2
<1>13. ProbeRight'
  <2> HIDE DEF after
  <2>1. n' = n /\ \A d : First(d)' = First(d)
    BY <1>1, SameCall
  <2>2. DOMAIN probe' = Expert /\ probe'[e] = after /\ \A d \in Expert : d # e => probe'[d] = probe[d]
    BY <1>1, <1>6 DEF ProbeRight
  <2>3. QED
    BY <1>6, <1>12, <2>1, <2>2 DEF ProbeRight
<1>14. SortRight' /\ CopyRight' /\ OffsetsRight'
  BY <1>1, <1>3, SortStays, CopyStays, OffsetsStay DEF GeneralInv
<1>15. CountsRight' /\ ScanRight' /\ PadRight' /\ BlocksRight'
  BY <1>1, <1>3, CountsStay, ScanStays, PadStays, BlocksStay DEF GeneralInv
<1>16. QED
  BY <1>4, <1>5, <1>13, <1>14, <1>15 DEF GeneralInv

\* A search that has ended has found the end of its expert's rows.
LEMMA OffsetStep ==
  ASSUME CallOK, Running, MetaShape, GeneralInv, NEW e \in Expert, StoreOffset(e)
  PROVE  Running' /\ MetaShape' /\ GeneralInv'
<1> DEFINE own == {e + 1} \cup (IF e = 0 THEN {0} ELSE {})
           w == [i \in own |-> IF i = 0 THEN 0 ELSE probe[e]["target"] + 1]
<1>1. /\ Ends("offsets", e) /\ Stores("offs", w) /\ probe[e]["low"] > probe[e]["high"]
      /\ UNCHANGED <<shape, ids, kernel, probe, scan>>
  BY DEF StoreOffset, Quiet
<1>2. /\ kernel = "offsets"
      /\ \A j, q : Ended(j, q)' => Ended(j, q) \/ (j = "offsets" /\ q = e)
  BY <1>1, EndsEnds
<1>3. Running'
  BY <1>1, <1>2, RunningStays DEF Ends, Ready
<1>4. n \in Nat /\ Experts \in Nat \ {0} /\ e \in Int /\ 0 <= e /\ e < Experts /\ e + 1 \in 0 .. Experts
  BY CallNumbers DEF Expert
<1>5. probe[e]["target"] + 1 = First(e + 1)
  <2>1. /\ probe[e]["low"] \in 0 .. n /\ probe[e]["high"] \in -1 .. n - 1
        /\ probe[e]["target"] = probe[e]["low"] - 1
        /\ probe[e]["low"] <= First(e + 1) /\ First(e + 1) <= probe[e]["high"] + 1
    BY DEF GeneralInv, ProbeRight
  <2>2. First(e + 1) \in Int
    BY <1>4, Layout
  <2>3. QED
    BY <1>1, <1>4, <2>1, <2>2
<1>6. /\ DOMAIN w \subseteq 0 .. Experts /\ e + 1 \in DOMAIN w /\ w[e + 1] = First(e + 1)
      /\ e = 0 => 0 \in DOMAIN w /\ w[0] = 0
      /\ \A d \in Expert : d # e => d + 1 \notin DOMAIN w /\ (d = 0 => 0 \notin DOMAIN w)
  <2>1. DOMAIN w = own /\ \A i \in own : w[i] = IF i = 0 THEN 0 ELSE probe[e]["target"] + 1
    OBVIOUS
  <2>2. own \subseteq 0 .. Experts /\ e + 1 \in own /\ (e = 0 => 0 \in own)
    BY <1>4
  <2>3. \A d \in Expert : d # e => d + 1 \notin own /\ (d = 0 => 0 \notin own)
    BY <1>4 DEF Expert
  <2> HIDE DEF w, own
  <2>4. QED
    BY <1>4, <1>5, <2>1, <2>2, <2>3
<1> HIDE DEF w, own
<1>7. /\ MetaShape'
      /\ \A c \in Buffers : c # "offs" => meta'[c] = meta[c]
      /\ \A i \in 0 .. Experts : meta'["offs"][i] = IF i \in DOMAIN w THEN w[i] ELSE meta["offs"][i]
  <2>1. "offs" \in Buffers /\ BufferRange("offs") = 0 .. Experts
    BY DEF Buffers, BufferRange
  <2>2. QED
    BY <1>1, <1>6, <2>1, StoreEffect
<1>8. OffsetsRight'
  <2>1. \A d : First(d)' = First(d)
    BY <1>1, SameCall
  <2>2. ASSUME NEW d \in Expert, Ended("offsets", d)'
        PROVE  meta'["offs"][d + 1] = First(d + 1) /\ (d = 0 => meta'["offs"][0] = 0)
    <3>0. d + 1 \in 0 .. Experts /\ 0 \in 0 .. Experts
      BY <1>4 DEF Expert
    <3>1. CASE d = e
      BY <1>6, <1>7, <3>0, <3>1
    <3>2. CASE d # e
      <4>1. meta["offs"][d + 1] = First(d + 1) /\ (d = 0 => meta["offs"][0] = 0)
        BY <1>2, <2>2, <3>2 DEF GeneralInv, OffsetsRight
      <4>2. QED
        BY <1>6, <1>7, <3>0, <3>2, <4>1
    <3>3. QED
      BY <3>1, <3>2
  <2>3. QED
    BY <2>1, <2>2 DEF OffsetsRight
<1>9. SortRight' /\ CopyRight' /\ ProbeRight'
  BY <1>1, <1>2, <1>7, SortStays, CopyStays, ProbeStays DEF GeneralInv, Buffers
<1>10. CountsRight' /\ ScanRight' /\ PadRight' /\ BlocksRight'
  BY <1>1, <1>2, <1>7, CountsStay, ScanStays, PadStays, BlocksStay DEF GeneralInv, Buffers
<1>11. QED
  BY <1>3, <1>7, <1>8, <1>9, <1>10 DEF GeneralInv

\* Offsets once all programs of their launch have ended.
LEMMA OffsetsDone ==
  ASSUME CallOK, OffsetsRight, kernel \in Past["offsets"]
  PROVE  \A e \in 0 .. Experts : meta["offs"][e] = First(e)
<1>1. Experts \in Nat \ {0}
  BY CallNumbers
<1>2. \A e \in Expert : meta["offs"][e + 1] = First(e + 1) /\ (e = 0 => meta["offs"][0] = 0)
  BY DEF OffsetsRight, Ended
<1>3. meta["offs"][0] = First(0)
  BY <1>1, <1>2, Layout DEF Expert
<1>4. ASSUME NEW e \in 0 .. Experts, e # 0 PROVE meta["offs"][e] = First(e)
  <2>1. e - 1 \in Expert /\ (e - 1) + 1 = e
    BY <1>1, <1>4 DEF Expert
  <2>2. QED
    BY <1>2, <2>1
<1>5. QED
  BY <1>3, <1>4

\* An expert's rows are those between two offsets.
LEMMA CountStep ==
  ASSUME CallOK, Running, MetaShape, GeneralInv, NEW e \in Expert, Count(e)
  PROVE  Running' /\ MetaShape' /\ GeneralInv'
<1> DEFINE w == [i \in {e} |-> meta["offs"][e + 1] - meta["offs"][e]]
<1>1. /\ Ends("counts", e) /\ Stores("counts", w)
      /\ UNCHANGED <<shape, ids, kernel, probe, scan>>
  BY DEF Count, Quiet
<1>2. /\ kernel = "counts"
      /\ \A j, q : Ended(j, q)' => Ended(j, q) \/ (j = "counts" /\ q = e)
  BY <1>1, EndsEnds
<1>3. Running'
  BY <1>1, <1>2, RunningStays DEF Ends, Ready
<1>4. meta["offs"][e + 1] - meta["offs"][e] = Size(e)
  <2>1. kernel \in Past["offsets"]
    BY <1>2 DEF Past
  <2>2. e \in 0 .. Experts /\ e + 1 \in 0 .. Experts
    BY CallNumbers DEF Expert
  <2>3. meta["offs"][e + 1] = First(e + 1) /\ meta["offs"][e] = First(e)
    BY <2>1, <2>2, OffsetsDone DEF GeneralInv
  <2>4. First(e) \in Int /\ Size(e) \in Int /\ First(e + 1) = First(e) + Size(e)
    BY <2>2, CallNumbers, Layout
  <2>5. QED
    BY <2>3, <2>4
<1>5. DOMAIN w = {e} /\ w[e] = Size(e)
  BY <1>4
<1> HIDE DEF w
<1>6. /\ MetaShape'
      /\ \A c \in Buffers : c # "counts" => meta'[c] = meta[c]
      /\ \A i \in Expert : meta'["counts"][i] = IF i \in DOMAIN w THEN w[i] ELSE meta["counts"][i]
  <2>1. "counts" \in Buffers /\ BufferRange("counts") = Expert
    BY DEF Buffers, BufferRange
  <2>2. QED
    BY <1>1, <1>5, <2>1, StoreEffect
<1>7. CountsRight'
  <2>1. \A d : Size(d)' = Size(d)
    BY <1>1, SameCall
  <2>2. QED
    BY <1>2, <1>5, <1>6, <2>1 DEF GeneralInv, CountsRight
<1>8. SortRight' /\ CopyRight' /\ OffsetsRight' /\ ProbeRight'
  BY <1>1, <1>2, <1>6, SortStays, CopyStays, OffsetsStay, ProbeStays DEF GeneralInv, Buffers
<1>9. ScanRight' /\ PadRight' /\ BlocksRight'
  BY <1>1, <1>2, <1>6, ScanStays, PadStays, BlocksStay DEF GeneralInv, Buffers
<1>10. QED
  BY <1>3, <1>6, <1>7, <1>8, <1>9 DEF GeneralInv

\* The running sum is the number of blocks of the experts so far.
LEMMA ScanStep ==
  ASSUME CallOK, Running, MetaShape, GeneralInv, ScanBlocks
  PROVE  Running' /\ MetaShape' /\ GeneralInv'
<1> DEFINE at == scan["at"]
           w == [i \in {at} |-> scan["sum"]]
<1>1. /\ <<"memset", 0>> \in todo /\ at < Experts /\ Stores("blockOffs", w)
      /\ scan' = [at |-> at + 1, sum |-> scan["sum"] + CeilDiv(meta["counts"][at], BuildBlock)]
      /\ UNCHANGED <<shape, ids, kernel, todo, probe>>
  BY DEF ScanBlocks
<1>2. kernel = "memset"
  BY <1>1, InLaunch
<1>3. \A j, q : Ended(j, q)' => Ended(j, q)
  BY <1>1 DEF Ended
<1>4. Running'
  BY <1>1, <1>2, RunningStays DEF Ready
<1>5. at \in Expert /\ Experts \in Nat /\ at + 1 \in 0 .. Experts
  BY <1>1, CallNumbers DEF GeneralInv, ScanRight, Expert
<1>6. scan["sum"] = Slot(at)
  BY DEF GeneralInv, ScanRight
<1>7. scan'["at"] = at + 1 /\ scan'["sum"] = Slot(at + 1)
  <2>1. meta["counts"][at] = Size(at)
    <3>1. Ended("counts", at)
      BY <1>2 DEF Ended, Past
    <3>2. QED
      BY <1>5, <3>1 DEF GeneralInv, CountsRight
  <2>2. Slot(at + 1) = Slot(at) + CeilDiv(Size(at), BuildBlock)
    BY <1>5, Schedule
  <2>3. QED
    BY <1>1, <1>6, <2>1, <2>2
<1>8. DOMAIN w = {at} /\ w[at] = Slot(at)
  BY <1>6
<1> HIDE DEF w
<1>9. /\ MetaShape'
      /\ \A c \in Buffers : c # "blockOffs" => meta'[c] = meta[c]
      /\ \A i \in 0 .. Experts :
           meta'["blockOffs"][i] = IF i \in DOMAIN w THEN w[i] ELSE meta["blockOffs"][i]
  <2>1. "blockOffs" \in Buffers /\ BufferRange("blockOffs") = 0 .. Experts
    BY DEF Buffers, BufferRange
  <2>2. DOMAIN w \subseteq 0 .. Experts
    BY <1>5, <1>8 DEF Expert
  <2>3. QED
    BY <1>1, <2>1, <2>2, StoreEffect
<1>10. ScanRight'
  <2>1. Total' = Total /\ \A e : Slot(e)' = Slot(e)
    BY <1>1, SameCall
  <2>2. ~Ended("memset", 0)'
    BY <1>1, <1>2 DEF Ended, Past, Ready
  <2>3. \A e \in Expert : e < at => meta["blockOffs"][e] = Slot(e)
    BY DEF GeneralInv, ScanRight
  <2>4. ASSUME NEW e \in Expert, e < at + 1 PROVE meta'["blockOffs"][e] = Slot(e)
    <3>1. e \in 0 .. Experts /\ (e = at \/ e < at)
      BY <1>5, <2>4 DEF Expert
    <3>2. QED
      BY <1>8, <1>9, <2>3, <3>1
  <2>5. QED
    BY <1>5, <1>7, <2>1, <2>2, <2>4 DEF ScanRight
<1>11. SortRight' /\ CopyRight' /\ OffsetsRight' /\ ProbeRight'
  BY <1>1, <1>3, <1>9, SortStays, CopyStays, OffsetsStay, ProbeStays DEF GeneralInv, Buffers
<1>12. CountsRight' /\ PadRight' /\ BlocksRight'
  BY <1>1, <1>3, <1>9, CountsStay, PadStays, BlocksStay DEF GeneralInv, Buffers
<1>13. QED
  BY <1>4, <1>9, <1>10, <1>11, <1>12 DEF GeneralInv

\* The running sum ends with the number of all blocks.
LEMMA ScanEndStep ==
  ASSUME CallOK, Running, MetaShape, GeneralInv, ScanEnds
  PROVE  Running' /\ MetaShape' /\ GeneralInv'
<1> DEFINE w == [i \in {Experts} |-> scan["sum"]]
<1>1. /\ Ends("memset", 0) /\ scan["at"] = Experts /\ Stores("blockOffs", w)
      /\ UNCHANGED <<shape, ids, kernel, probe, scan>>
  BY DEF ScanEnds, Quiet
<1>2. /\ kernel = "memset"
      /\ \A j, q : Ended(j, q)' => Ended(j, q) \/ (j = "memset" /\ q = 0)
  BY <1>1, EndsEnds
<1>3. Running'
  BY <1>1, <1>2, RunningStays DEF Ends, Ready
<1>4. Experts \in Nat \ {0}
  BY CallNumbers
<1>5. DOMAIN w = {Experts} /\ w[Experts] = Total
  BY <1>1 DEF GeneralInv, ScanRight, Total
<1> HIDE DEF w
<1>6. /\ MetaShape'
      /\ \A c \in Buffers : c # "blockOffs" => meta'[c] = meta[c]
      /\ \A i \in 0 .. Experts :
           meta'["blockOffs"][i] = IF i \in DOMAIN w THEN w[i] ELSE meta["blockOffs"][i]
  <2>1. "blockOffs" \in Buffers /\ BufferRange("blockOffs") = 0 .. Experts
    BY DEF Buffers, BufferRange
  <2>2. DOMAIN w \subseteq 0 .. Experts
    BY <1>4, <1>5
  <2>3. QED
    BY <1>1, <2>1, <2>2, StoreEffect
<1>7. ScanRight'
  <2>1. Total' = Total /\ \A e : Slot(e)' = Slot(e)
    BY <1>1, SameCall
  <2>2. \A e \in Expert : e \in 0 .. Experts /\ e # Experts
    BY <1>4 DEF Expert
  <2>3. meta'["blockOffs"][Experts] = Total
    BY <1>4, <1>5, <1>6
  <2>4. \A e \in Expert : e < scan["at"] => meta'["blockOffs"][e] = Slot(e)
    BY <1>5, <1>6, <2>2 DEF GeneralInv, ScanRight
  <2>5. QED
    BY <1>1, <2>1, <2>3, <2>4 DEF GeneralInv, ScanRight
<1>8. SortRight' /\ CopyRight' /\ OffsetsRight' /\ ProbeRight'
  BY <1>1, <1>2, <1>6, SortStays, CopyStays, OffsetsStay, ProbeStays DEF GeneralInv, Buffers
<1>9. CountsRight' /\ BlocksRight'
  BY <1>1, <1>2, <1>6, CountsStay, BlocksStay DEF GeneralInv, Buffers
<1>10. PadRight'
  <2>1. Total' = Total /\ MaxBlocks' = MaxBlocks
    BY <1>1, SameCall
  <2>2. \A s \in 0 .. MaxBlocks - 1 :
          Ended("memset", s \div FillBlock + 1)' => Ended("memset", s \div FillBlock + 1)
    <3>1. ASSUME NEW s \in 0 .. MaxBlocks - 1 PROVE s \div FillBlock + 1 # 0
      <4>1. FillBlock \in Nat \ {0} /\ s \in Int /\ s >= 0
        BY CallNumbers
      <4>2. s \div FillBlock >= 0 /\ s \div FillBlock \in Int
        BY <4>1, Quotient
      <4>3. QED
        BY <4>2
    <3>2. QED
      BY <1>2, <3>1
  <2>3. meta'["schedule"] = meta["schedule"]
    BY <1>6 DEF Buffers
  <2>4. QED
    BY <2>1, <2>2, <2>3 DEF GeneralInv, PadRight
<1>11. QED
  BY <1>3, <1>6, <1>7, <1>8, <1>9, <1>10 DEF GeneralInv

\* A padding program pads what lies behind the last block, and what it pads
\* before that is stored again by the launch that follows.
LEMMA PadStep ==
  ASSUME CallOK, Running, MetaShape, GeneralInv, NEW p, Pad(p)
  PROVE  Running' /\ MetaShape' /\ GeneralInv'
<1> DEFINE own == {s \in 0 .. MaxBlocks - 1 : s \div FillBlock = p - 1}
           w == [s \in own |-> -1]
<1>1. /\ Ends("memset", p) /\ p > 0 /\ Stores("schedule", w)
      /\ UNCHANGED <<shape, ids, kernel, probe, scan>>
  BY DEF Pad, Quiet
<1>2. /\ kernel = "memset"
      /\ \A j, q : Ended(j, q)' => Ended(j, q) \/ (j = "memset" /\ q = p)
  BY <1>1, EndsEnds
<1>3. Running'
  BY <1>1, <1>2, RunningStays DEF Ends, Ready
<1>4. DOMAIN w = own /\ \A s \in own : w[s] = -1
  OBVIOUS
<1>5. own = {s \in 0 .. MaxBlocks - 1 : s \div FillBlock = p - 1}
  OBVIOUS
<1> HIDE DEF w, own
<1>6. /\ MetaShape'
      /\ \A c \in Buffers : c # "schedule" => meta'[c] = meta[c]
      /\ \A s \in 0 .. MaxBlocks - 1 :
           meta'["schedule"][s] = IF s \in DOMAIN w THEN w[s] ELSE meta["schedule"][s]
  <2>1. "schedule" \in Buffers /\ BufferRange("schedule") = 0 .. MaxBlocks - 1
    BY DEF Buffers, BufferRange
  <2>2. DOMAIN w \subseteq 0 .. MaxBlocks - 1
    BY <1>4, <1>5
  <2>3. QED
    BY <1>1, <2>1, <2>2, StoreEffect
<1>7. PadRight'
  <2>1. Total' = Total /\ MaxBlocks' = MaxBlocks
    BY <1>1, SameCall
  <2>2. ASSUME NEW s \in 0 .. MaxBlocks - 1, Total <= s, Ended("memset", s \div FillBlock + 1)'
        PROVE  meta'["schedule"][s] = -1
    <3>1. CASE s \in own
      BY <1>4, <1>6, <3>1
    <3>2. CASE s \notin own
      <4>1. s \div FillBlock + 1 # p
        <5>1. FillBlock \in Nat \ {0} /\ s \in Int
          BY CallNumbers
        <5>2. s \div FillBlock \in Int
          BY <5>1, Quotient
        <5>3. s \div FillBlock # p - 1
          BY <1>5, <3>2
        <5>4. QED
          BY <5>2, <5>3
      <4>2. Ended("memset", s \div FillBlock + 1)
        BY <1>2, <2>2, <4>1
      <4>3. QED
        BY <1>4, <1>6, <2>2, <3>2, <4>2 DEF GeneralInv, PadRight
    <3>3. QED
      BY <3>1, <3>2
  <2>3. QED
    BY <2>1, <2>2 DEF PadRight
<1>8. BlocksRight'
  <2>1. \A e \in Expert : ~Ended("blocks", e)'
    BY <1>1, <1>2 DEF Ended, Past, Ready
  <2>2. QED
    BY <2>1 DEF BlocksRight
<1>9. SortRight' /\ CopyRight' /\ OffsetsRight' /\ ProbeRight'
  BY <1>1, <1>2, <1>6, SortStays, CopyStays, OffsetsStay, ProbeStays DEF GeneralInv, Buffers
<1>10. CountsRight' /\ ScanRight'
  <2>1. Ended("memset", 0)' => Ended("memset", 0)
    BY <1>1, <1>2
  <2>2. QED
    BY <1>1, <1>2, <1>6, <2>1, CountsStay, ScanStays DEF GeneralInv, Buffers
<1>11. QED
  BY <1>3, <1>6, <1>7, <1>8, <1>9, <1>10 DEF GeneralInv

\* The stretches that the experts write are their own.
LEMMA OwnSlots ==
  ASSUME CallOK, NEW e \in Expert, NEW d \in Expert, NEW b \in 0 .. BlockCount[d] - 1
  PROVE  /\ Slot(d) + b \in 0 .. MaxBlocks - 1 /\ Slot(d) + b < Total
         /\ Slot(d) + b \in Slot(e) .. Slot(e) + BlockCount[e] - 1 <=> d = e
<1>1. Experts \in Nat /\ MaxBlocks \in Nat /\ Total \in Nat /\ Total <= MaxBlocks
  BY CallNumbers, Schedule
<1>2. /\ e \in 0 .. Experts /\ e + 1 \in 0 .. Experts /\ d \in Int /\ e \in Int
      /\ d \in 0 .. Experts - 1
  BY <1>1 DEF Expert
<1>3. /\ BlockCount[e] \in Nat /\ BlockCount[d] \in Nat /\ Slot(e) \in Nat
      /\ Slot(e + 1) = Slot(e) + BlockCount[e] /\ Slot(e + 1) \in Nat
  BY <1>2, Schedule DEF Expert
<1>4. Slot(d) + b \in 0 .. Total - 1
  BY SlotHolds
<1>5. (Slot(e) <= Slot(d) + b <=> e <= d) /\ (Slot(e + 1) <= Slot(d) + b <=> e + 1 <= d)
  BY <1>2, SlotHolds
<1> DEFINE x == Slot(d) + b
<1> HIDE DEF x
<1>6. x \in Int /\ (Slot(e) <= x <=> e <= d) /\ (Slot(e) + BlockCount[e] <= x <=> e + 1 <= d)
  BY <1>1, <1>3, <1>4, <1>5 DEF x
<1>7. x \in Slot(e) .. Slot(e) + BlockCount[e] - 1 <=> d = e
  BY <1>2, <1>3, <1>6
<1>8. QED
  BY <1>1, <1>4, <1>7 DEF x

\* An expert writes its own stretch of the schedule and leaves the words of
\* the others alone.
LEMMA BlocksStep ==
  ASSUME CallOK, Running, MetaShape, GeneralInv, NEW e \in Expert, WriteBlocks(e)
  PROVE  Running' /\ MetaShape' /\ GeneralInv'
<1> DEFINE first == meta["blockOffs"][e]
           w == [s \in first .. first + CeilDiv(meta["counts"][e], BuildBlock) - 1 |->
                   Word(s - first, e)]
<1>1. /\ Ends("blocks", e) /\ Stores("schedule", w)
      /\ UNCHANGED <<shape, ids, kernel, probe, scan>>
  BY DEF WriteBlocks, Quiet
<1>2. /\ kernel = "blocks"
      /\ \A j, q : Ended(j, q)' => Ended(j, q) \/ (j = "blocks" /\ q = e)
  BY <1>1, EndsEnds
<1>3. Running'
  BY <1>1, <1>2, RunningStays DEF Ends, Ready
<1>4. meta["counts"][e] = Size(e) /\ meta["blockOffs"][e] = Slot(e)
  <2>1. Ended("counts", e) /\ Ended("memset", 0)
    BY <1>2 DEF Ended, Past
  <2>2. e < Experts
    BY CallNumbers DEF Expert
  <2>3. QED
    BY <2>1, <2>2 DEF GeneralInv, CountsRight, ScanRight
<1>5. /\ DOMAIN w = Slot(e) .. Slot(e) + BlockCount[e] - 1
      /\ \A s \in DOMAIN w : w[s] = Word(s - Slot(e), e)
  BY <1>4, Schedule
<1> HIDE DEF w, first
<1>6. Slot(e) \in Nat /\ BlockCount[e] \in Nat /\ Total \in Nat
  <2>1. e \in 0 .. Experts - 1 /\ e \in 0 .. Experts
    BY CallNumbers DEF Expert
  <2>2. QED
    BY <2>1, Schedule
<1>7. DOMAIN w \subseteq 0 .. MaxBlocks - 1 /\ \A s \in DOMAIN w : s < Total
  <2>1. ASSUME NEW s \in DOMAIN w PROVE s \in 0 .. MaxBlocks - 1 /\ s < Total
    <3>1. s - Slot(e) \in 0 .. BlockCount[e] - 1 /\ Slot(e) + (s - Slot(e)) = s
      BY <1>5, <1>6
    <3>2. QED
      BY <3>1, OwnSlots
  <2>2. QED
    BY <2>1
<1>8. /\ MetaShape'
      /\ \A c \in Buffers : c # "schedule" => meta'[c] = meta[c]
      /\ \A s \in 0 .. MaxBlocks - 1 :
           meta'["schedule"][s] = IF s \in DOMAIN w THEN w[s] ELSE meta["schedule"][s]
  <2>1. "schedule" \in Buffers /\ BufferRange("schedule") = 0 .. MaxBlocks - 1
    BY DEF Buffers, BufferRange
  <2>2. QED
    BY <1>1, <1>7, <2>1, StoreEffect
<1>9. PadRight'
  <2>1. Total' = Total /\ MaxBlocks' = MaxBlocks
    BY <1>1, SameCall
  <2>2. ASSUME NEW s \in 0 .. MaxBlocks - 1, Total <= s, Ended("memset", s \div FillBlock + 1)'
        PROVE  meta'["schedule"][s] = -1
    <3>1. s \notin DOMAIN w
      BY <1>6, <1>7, <2>2
    <3>2. Ended("memset", s \div FillBlock + 1)
      BY <1>2, <2>2
    <3>3. QED
      BY <1>8, <2>2, <3>1, <3>2 DEF GeneralInv, PadRight
  <2>3. QED
    BY <2>1, <2>2 DEF PadRight
<1>10. BlocksRight'
  <2>1. BlockCount' = BlockCount /\ \A d : Slot(d)' = Slot(d)
    BY <1>1, SameCall
  <2>2. ASSUME NEW d \in Expert, Ended("blocks", d)', NEW b \in 0 .. BlockCount[d] - 1
        PROVE  meta'["schedule"][Slot(d) + b] = Word(b, d)
    <3>1. /\ Slot(d) + b \in 0 .. MaxBlocks - 1
          /\ Slot(d) + b \in DOMAIN w <=> d = e
      BY <1>5, OwnSlots
    <3>2. CASE d = e
      <4>1. (Slot(d) + b) - Slot(d) = b
        BY <1>6, <3>2
      <4>2. QED
        BY <1>5, <1>8, <3>1, <3>2, <4>1
    <3>3. CASE d # e
      <4>1. Ended("blocks", d)
        BY <1>2, <2>2, <3>3
      <4>2. QED
        BY <1>8, <3>1, <3>3, <4>1 DEF GeneralInv, BlocksRight
    <3>4. QED
      BY <3>2, <3>3
  <2>3. QED
    BY <2>1, <2>2 DEF BlocksRight
<1>11. SortRight' /\ CopyRight' /\ OffsetsRight' /\ ProbeRight'
  BY <1>1, <1>2, <1>8, SortStays, CopyStays, OffsetsStay, ProbeStays DEF GeneralInv, Buffers
<1>12. CountsRight' /\ ScanRight'
  BY <1>1, <1>2, <1>8, CountsStay, ScanStays DEF GeneralInv, Buffers
<1>13. QED
  BY <1>3, <1>8, <1>9, <1>10, <1>11, <1>12 DEF GeneralInv

-----------------------------------------------------------------------------
(* The fused kernel, phase by phase. *)

\* The lanes of the fused kernel hold the batch, and their positions fit into
\* a key.
LEMMA LanesHold ==
  ASSUME CallOK, Fused
  PROVE  Lanes \in Nat /\ n <= Lanes /\ Lanes <= KeyPositions
<1>1. n \in Nat /\ n <= 2048 /\ MinLanes \in PowersOfTwo
  <2>1. n \in Nat /\ FusedWin \in 0 .. 2048 /\ MinLanes \in PowersOfTwo /\ n <= FusedWin
    BY CallNumbers, PreprocessAssumption DEF Fused
  <2>2. QED
    BY <2>1
<1>2. PowersOfTwo \subseteq Nat
  BY DEF PowersOfTwo
<1>0. \A b \in PowersOfTwo : b <= 2048
  BY DEF PowersOfTwo
<1> DEFINE T == {b \in PowersOfTwo : HoldsBatch(b)}
<1>3. 2048 \in T
  <2>1. MinLanes <= 2048
    BY <1>0, <1>1
  <2>2. 2048 \in PowersOfTwo
    BY DEF PowersOfTwo
  <2>3. QED
    BY <1>1, <1>2, <2>1, <2>2 DEF HoldsBatch
<1>4. \E b \in T : \A c \in T : b <= c
  <2>1. T \subseteq Nat
    BY <1>2
  <2>2. T # {}
    BY <1>3
  <2> HIDE DEF T
  <2>3. QED
    BY <2>1, <2>2, Least
<1>5. Lanes \in PowersOfTwo /\ HoldsBatch(Lanes)
  <2>1. \E b \in PowersOfTwo : HoldsBatch(b) /\ \A c \in PowersOfTwo : HoldsBatch(c) => b <= c
    BY <1>4
  <2>2. QED
    BY <2>1 DEF Lanes
<1>6. Lanes \in Nat /\ Lanes <= 2048 /\ n <= Lanes
  BY <1>0, <1>2, <1>5 DEF HoldsBatch
<1>7. QED
  BY <1>6 DEF KeyPositions

\* The p-th key is that of the row at place p.
LEMMA KeyAtPlace ==
  ASSUME CallOK, Fused, NEW p \in Rows
  PROVE  IdOf(KeyAt(p)) = ids[RowAt(p)] /\ PosOf(KeyAt(p)) = RowAt(p)
<1>1. n \in Nat /\ Experts \in Nat /\ ids \in [0 .. n - 1 -> 0 .. Experts - 1]
  BY CallNumbers DEF CallOK, Rows, Expert
<1>2. Lanes \in Nat /\ n <= Lanes /\ Lanes <= KeyPositions
  BY LanesHold
<1> DEFINE r == RowAt(p)
<1>3. r \in 0 .. n - 1 /\ Rank(r) = p
  BY Places DEF Rows
<1>4. Keys = LaneKeys(ids, n, Experts, Lanes)
  BY DEF Keys, LaneKeys, KeysOf, LaneKey, LaneId
<1>5. Cardinality(RowsBefore(ids, n, r)) = p
  BY <1>3 DEF Rank, RowsBefore, Rows
<1> HIDE DEF r
<1>6. \A k \in Keys : Cardinality({j \in Keys : j < k}) = p <=> k = Key(ids[r], r)
  <2>1. LanesOK(ids, n, Experts, Lanes)
    BY <1>1, <1>2 DEF LanesOK
  <2>2. QED
    BY <1>2, <1>3, <1>4, <1>5, <2>1, KeysInOrder
<1>7. Key(ids[r], r) \in Keys
  <2>1. r \in 0 .. Lanes - 1 /\ r < n
    BY <1>1, <1>2, <1>3
  <2>2. QED
    BY <2>1 DEF Keys
<1>8. KeyAt(p) = Key(ids[r], r)
  BY <1>6, <1>7 DEF KeyAt
<1>9. ids[r] \in Nat /\ r \in Nat /\ r < 4096
  BY <1>1, <1>2, <1>3 DEF KeyPositions
<1>10. IdOf(Key(ids[r], r)) = ids[r] /\ PosOf(Key(ids[r], r)) = r
  BY <1>9, KeysSortStably
<1>11. QED
  BY <1>8, <1>10 DEF r

\* What the lanes have sorted stays; the three lemmas that follow say the same
\* of the other phases of the fused kernel.
LEMMA LanesStay ==
  ASSUME LanesRight, UNCHANGED <<shape, ids>>,
         \A p \in Rows : Ended("fsort", p)' => Ended("fsort", p),
         meta'["sorted"] = meta["sorted"], meta'["src2dst"] = meta["src2dst"]
  PROVE  LanesRight'
<1>1. Rows' = Rows /\ \A r : RowAt(r)' = RowAt(r)
  BY SameCall
<1>2. QED
  BY <1>1 DEF LanesRight

\* The offsets.
LEMMA SearchStays ==
  ASSUME SearchRight, UNCHANGED <<shape, ids>>, meta'["offs"] = meta["offs"],
         \A e \in 0 .. Experts : Ended("fsearch", e)' => Ended("fsearch", e)
  PROVE  SearchRight'
<1>1. \A e : First(e)' = First(e)
  BY SameCall
<1>2. QED
  BY <1>1 DEF SearchRight

\* The counts and the block offsets.
LEMMA LaneCountsStay ==
  ASSUME LaneCountsRight, UNCHANGED <<shape, ids>>,
         \A e \in 0 .. Experts : Ended("fcounts", e)' => Ended("fcounts", e),
         meta'["counts"] = meta["counts"], meta'["blockOffs"] = meta["blockOffs"]
  PROVE  LaneCountsRight'
<1>1. \A e : Size(e)' = Size(e) /\ Slot(e)' = Slot(e)
  BY SameCall
<1>2. QED
  BY <1>1 DEF LaneCountsRight

\* The schedule.
LEMMA LaneScheduleStays ==
  ASSUME LaneScheduleRight, UNCHANGED <<shape, ids>>, meta'["schedule"] = meta["schedule"],
         \A s \in 0 .. MaxBlocks - 1 : Ended("fschedule", s)' => Ended("fschedule", s)
  PROVE  LaneScheduleRight'
<1>1. MaxBlocks' = MaxBlocks /\ Total' = Total /\ BlockCount' = BlockCount /\ \A e : Slot(e)' = Slot(e)
  BY SameCall
<1>2. QED
  BY <1>1 DEF LaneScheduleRight

\* A step that stores nothing and launches or runs nothing new.
LEMMA FusedStays ==
  ASSUME Fused, FusedInv, UNCHANGED <<shape, ids, meta>>,
         \A k \in Path : \A p \in Programs(k) : Ended(k, p)' => Ended(k, p)
  PROVE  FusedInv'
<1>1. \A k \in FusedPhases : \A p \in Programs(k) : Ended(k, p)' => Ended(k, p)
  BY DEF Path
<1>2. /\ Programs("fsort") = Rows /\ Programs("fsearch") = 0 .. Experts
      /\ Programs("fcounts") = 0 .. Experts /\ Programs("fschedule") = 0 .. MaxBlocks - 1
  BY DEF Programs
<1>3. {"fsort", "fsearch", "fcounts", "fschedule"} \subseteq FusedPhases
  BY DEF FusedPhases
<1>4. /\ \A p \in Rows : Ended("fsort", p)' => Ended("fsort", p)
      /\ \A e \in 0 .. Experts : Ended("fsearch", e)' => Ended("fsearch", e)
      /\ \A e \in 0 .. Experts : Ended("fcounts", e)' => Ended("fcounts", e)
      /\ \A s \in 0 .. MaxBlocks - 1 : Ended("fschedule", s)' => Ended("fschedule", s)
  BY <1>1, <1>2, <1>3
<1>5. QED
  BY <1>4, LanesStay, SearchStays, LaneCountsStay, LaneScheduleStays DEF FusedInv

\* A lane of the fused sort stores the row that stable order puts there.
LEMMA FusedSortStep ==
  ASSUME CallOK, Running, MetaShape, Fused, FusedInv, NEW p \in Rows, FusedSort(p)
  PROVE  Running' /\ MetaShape' /\ FusedInv'
<1> DEFINE v == [i \in {p} |-> ids[RowAt(p)]]
           w == [i \in {RowAt(p)} |-> p]
<1>1. /\ Ends("fsort", p) /\ UNCHANGED <<shape, ids, kernel, probe, scan>>
      /\ meta' = [meta EXCEPT !["sorted"] = Put(meta["sorted"], v),
                              !["src2dst"] = Put(meta["src2dst"], w)]
  BY KeyAtPlace DEF FusedSort, Quiet
<1>2. /\ kernel = "fsort"
      /\ \A j, q : Ended(j, q)' => Ended(j, q) \/ (j = "fsort" /\ q = p)
  BY <1>1, EndsEnds
<1>3. Running'
  BY <1>1, <1>2, RunningStays DEF Ends, Ready
<1>4. \A d \in Rows : RowAt(d) \in Rows /\ Rank(RowAt(d)) = d
  BY Places
<1>5. DOMAIN meta = Buffers /\ \A c \in Buffers : DOMAIN meta[c] = BufferRange(c)
  BY DEF MetaShape
<1>6. /\ DOMAIN meta' = Buffers
      /\ meta'["sorted"] = Put(meta["sorted"], v) /\ meta'["src2dst"] = Put(meta["src2dst"], w)
      /\ \A c \in Buffers : c \notin {"sorted", "src2dst"} => meta'[c] = meta[c]
  BY <1>1, <1>5 DEF Buffers
<1>7. DOMAIN meta["sorted"] = Rows /\ DOMAIN meta["src2dst"] = Rows
  BY <1>5 DEF Buffers, BufferRange
<1>8. /\ DOMAIN Put(meta["sorted"], v) = Rows /\ DOMAIN Put(meta["src2dst"], w) = Rows
      /\ Put(meta["sorted"], v)[p] = ids[RowAt(p)]
      /\ \A d \in Rows : d # p => Put(meta["sorted"], v)[d] = meta["sorted"][d]
      /\ Put(meta["src2dst"], w)[RowAt(p)] = p
      /\ \A d \in Rows : d # p => Put(meta["src2dst"], w)[RowAt(d)] = meta["src2dst"][RowAt(d)]
  BY <1>4, <1>7 DEF Put
<1>9. MetaShape'
  <2>1. \A c \in Buffers : BufferRange(c)' = BufferRange(c)
    BY <1>1, SameCall DEF BufferRange
  <2>2. \A c \in Buffers : DOMAIN meta'[c] = BufferRange(c)
    BY <1>5, <1>6, <1>8 DEF BufferRange
  <2>3. QED
    BY <1>6, <2>1, <2>2 DEF MetaShape
<1>10. LanesRight'
  <2>1. Rows' = Rows /\ ids' = ids /\ \A r : RowAt(r)' = RowAt(r)
    BY <1>1, SameCall
  <2>2. \A d \in Rows : Ended("fsort", d)' => d = p \/ Ended("fsort", d)
    BY <1>2
  <2> HIDE DEF v, w
  <2>3. QED
    BY <1>6, <1>8, <2>1, <2>2 DEF FusedInv, LanesRight
<1>11. SearchRight' /\ LaneCountsRight' /\ LaneScheduleRight'
  BY <1>1, <1>2, <1>6, SearchStays, LaneCountsStay, LaneScheduleStays DEF FusedInv, Buffers
<1>12. QED
  BY <1>3, <1>9, <1>10, <1>11 DEF FusedInv

\* The search for an expert's first row sees all rows in place.
LEMMA SearchFinds ==
  ASSUME CallOK, Fused, LanesRight, kernel = "fsearch", NEW e \in 0 .. Experts
  PROVE  FirstOutside({r \in Rows : meta["sorted"][r] < e}, n) = First(e)
<1> DEFINE below == {r \in Rows : meta["sorted"][r] < e}
           x == FirstOutside(below, n)
<1>1. n \in Nat /\ n <= 4095 /\ First(e) \in 0 .. n
  <2>1. n \in Nat /\ n <= FusedWin /\ FusedWin \in 0 .. 2048
    BY CallNumbers, PreprocessAssumption DEF Fused
  <2>2. QED
    BY <2>1, Layout
<1>2. \A r \in Rows : meta["sorted"][r] = ids[RowAt(r)]
  BY DEF LanesRight, Ended, Past
<1>3. \A r \in Rows : ids[RowAt(r)] < e <=> r < First(e)
  BY Places, CallNumbers
<1>4. below = 0 .. First(e) - 1
  <2>1. \A r \in Rows : r \in below <=> r < First(e)
    BY <1>2, <1>3
  <2>2. below \subseteq Rows
    OBVIOUS
  <2>3. \A r : r \in 0 .. First(e) - 1 <=> r \in Rows /\ r < First(e)
    BY <1>1 DEF Rows
  <2> HIDE DEF below
  <2>4. \A r : r \in below <=> r \in 0 .. First(e) - 1
    BY <2>1, <2>2, <2>3
  <2>5. QED
    BY <2>4
<1> HIDE DEF below
<1>5. below \in SUBSET (0 .. n - 1) /\ Segment(below, n)
  BY <1>1, <1>4 DEF Segment
<1>6. x \in 0 .. n /\ below = 0 .. x - 1
  BY <1>1, <1>5, TwelveRoundsFind
<1> HIDE DEF x
<1>7. x = First(e)
  <2>1. x \in Int /\ First(e) \in Int /\ x >= 0 /\ First(e) >= 0
    BY <1>1, <1>6
  <2>2. \A i \in Int : (0 <= i /\ i <= x - 1) <=> (0 <= i /\ i <= First(e) - 1)
    BY <1>4, <1>6, <2>1
  <2>3. QED
    BY <2>1, <2>2
<1>8. QED
  BY <1>7 DEF x, below

\* Twelve rounds find an expert's first row.
LEMMA FusedSearchStep ==
  ASSUME CallOK, Running, MetaShape, Fused, FusedInv, NEW e \in 0 .. Experts, FusedSearch(e)
  PROVE  Running' /\ MetaShape' /\ FusedInv'
<1> DEFINE w == [i \in {e} |-> FirstOutside({r \in Rows : meta["sorted"][r] < e}, n)]
<1>1. /\ Ends("fsearch", e) /\ Stores("offs", w)
      /\ UNCHANGED <<shape, ids, kernel, probe, scan>>
  BY DEF FusedSearch, Quiet
<1>2. /\ kernel = "fsearch"
      /\ \A j, q : Ended(j, q)' => Ended(j, q) \/ (j = "fsearch" /\ q = e)
  BY <1>1, EndsEnds
<1>3. Running'
  BY <1>1, <1>2, RunningStays DEF Ends, Ready
<1>4. FirstOutside({r \in Rows : meta["sorted"][r] < e}, n) = First(e)
  BY <1>2, SearchFinds DEF FusedInv
<1>5. DOMAIN w = {e} /\ w[e] = First(e)
  BY <1>4
<1> HIDE DEF w
<1>6. /\ MetaShape'
      /\ \A c \in Buffers : c # "offs" => meta'[c] = meta[c]
      /\ \A i \in 0 .. Experts : meta'["offs"][i] = IF i \in DOMAIN w THEN w[i] ELSE meta["offs"][i]
  <2>1. "offs" \in Buffers /\ BufferRange("offs") = 0 .. Experts
    BY DEF Buffers, BufferRange
  <2>2. QED
    BY <1>1, <1>5, <2>1, StoreEffect
<1>7. SearchRight'
  <2>1. \A d : First(d)' = First(d)
    BY <1>1, SameCall
  <2>2. \A d \in 0 .. Experts : Ended("fsearch", d)' => d = e \/ Ended("fsearch", d)
    BY <1>2
  <2>3. QED
    BY <1>5, <1>6, <2>1, <2>2 DEF FusedInv, SearchRight
<1>8. LanesRight' /\ LaneCountsRight' /\ LaneScheduleRight'
  BY <1>1, <1>2, <1>6, LanesStay, LaneCountsStay, LaneScheduleStays DEF FusedInv, Buffers
<1>9. QED
  BY <1>3, <1>6, <1>7, <1>8 DEF FusedInv

\* The counts that the lanes take, and the sums over them.
LEMMA LanesCount ==
  ASSUME CallOK, MetaShape, SearchRight, kernel \in Past["fsearch"]
  PROVE  /\ \A e \in Expert : LaneCount[e] = Size(e)
         /\ \A e \in 0 .. Experts : BlocksBelow(e) = Slot(e)
<1>1. Experts \in Nat \ {0}
  BY CallNumbers
<1>2. ASSUME NEW e \in Expert PROVE LaneCount[e] = Size(e)
  <2>1. e \in 0 .. Experts /\ e + 1 \in 0 .. Experts
    BY <1>1 DEF Expert
  <2>2. DOMAIN meta["offs"] = 0 .. Experts
    BY DEF MetaShape, Buffers, BufferRange
  <2>3. \A d \in 0 .. Experts : At(meta["offs"], d) = First(d)
    BY <2>2 DEF SearchRight, Ended, At
  <2>4. LaneCount[e] = At(meta["offs"], e + 1) - At(meta["offs"], e)
    BY DEF LaneCount
  <2>5. First(e + 1) = First(e) + Size(e) /\ First(e) \in Int /\ Size(e) \in Int
    BY <2>1, Layout, CallNumbers
  <2>6. QED
    BY <2>1, <2>3, <2>4, <2>5
<1>3. ASSUME NEW e \in 0 .. Experts PROVE BlocksBelow(e) = Slot(e)
  <2> DEFINE own(d) == {d} \X (0 .. CeilDiv(LaneCount[d], BuildBlock) - 1)
             blocks(d) == {d} \X (0 .. BlockCount[d] - 1)
  <2>1. ASSUME NEW d \in 0 .. e - 1 PROVE own(d) = blocks(d)
    <3>1. d \in Expert
      BY <1>1 DEF Expert
    <3>2. BlockCount[d] = CeilDiv(LaneCount[d], BuildBlock)
      BY <1>2, <3>1, Schedule
    <3>3. QED
      BY <3>2
  <2> HIDE DEF own, blocks
  <2>2. {own(d) : d \in 0 .. e - 1} = {blocks(d) : d \in 0 .. e - 1}
    BY <2>1
  <2>3. BlocksBelow(e) = Cardinality(UNION {own(d) : d \in 0 .. e - 1})
    BY DEF BlocksBelow, own
  <2>4. Slot(e) = Cardinality(UNION {blocks(d) : d \in 0 .. e - 1})
    BY DEF Slot, FirstBlock, BlocksUpTo, blocks
  <2>5. QED
    BY <2>2, <2>3, <2>4
<1>4. QED
  BY <1>2, <1>3

\* Each lane stores its expert's row count and the blocks of the experts
\* below.
LEMMA FusedCountStep ==
  ASSUME CallOK, Running, MetaShape, Fused, FusedInv, NEW e \in 0 .. Experts, FusedCount(e)
  PROVE  Running' /\ MetaShape' /\ FusedInv'
<1> DEFINE v == [i \in {e} \cap Expert |-> LaneCount[i]]
           w == [i \in {e} |-> BlocksBelow(e)]
<1>1. /\ Ends("fcounts", e) /\ UNCHANGED <<shape, ids, kernel, probe, scan>>
      /\ meta' = [meta EXCEPT !["counts"] = Put(meta["counts"], v),
                              !["blockOffs"] = Put(meta["blockOffs"], w)]
  BY DEF FusedCount, Quiet
<1>2. /\ kernel = "fcounts"
      /\ \A j, q : Ended(j, q)' => Ended(j, q) \/ (j = "fcounts" /\ q = e)
  BY <1>1, EndsEnds
<1>3. Running'
  BY <1>1, <1>2, RunningStays DEF Ends, Ready
<1>4. (\A d \in Expert : LaneCount[d] = Size(d)) /\ BlocksBelow(e) = Slot(e)
  <2>1. kernel \in Past["fsearch"]
    BY <1>2 DEF Past
  <2>2. QED
    BY <2>1, LanesCount DEF FusedInv
<1>5. DOMAIN meta = Buffers /\ \A c \in Buffers : DOMAIN meta[c] = BufferRange(c)
  BY DEF MetaShape
<1>6. /\ DOMAIN meta' = Buffers
      /\ meta'["counts"] = Put(meta["counts"], v) /\ meta'["blockOffs"] = Put(meta["blockOffs"], w)
      /\ \A c \in Buffers : c \notin {"counts", "blockOffs"} => meta'[c] = meta[c]
  BY <1>1, <1>5 DEF Buffers
<1>7. DOMAIN meta["counts"] = Expert /\ DOMAIN meta["blockOffs"] = 0 .. Experts
  BY <1>5 DEF Buffers, BufferRange
<1>8. /\ DOMAIN v \subseteq Expert /\ (e \in Expert => e \in DOMAIN v /\ v[e] = Size(e))
      /\ \A d \in DOMAIN v : d = e
      /\ DOMAIN w = {e} /\ w[e] = Slot(e)
  BY <1>4
<1>9. \A d \in Expert : d \in 0 .. Experts /\ (e < Experts => e \in Expert)
  BY CallNumbers DEF Expert
<1> HIDE DEF v, w
<1>10. /\ DOMAIN Put(meta["counts"], v) = Expert /\ DOMAIN Put(meta["blockOffs"], w) = 0 .. Experts
       /\ e < Experts => Put(meta["counts"], v)[e] = Size(e)
       /\ \A d \in Expert : d # e => Put(meta["counts"], v)[d] = meta["counts"][d]
       /\ Put(meta["blockOffs"], w)[e] = Slot(e)
       /\ \A d \in 0 .. Experts : d # e => Put(meta["blockOffs"], w)[d] = meta["blockOffs"][d]
  <2>1. e < Experts => e \in Expert
    BY CallNumbers DEF Expert
  <2>2. QED
    BY <1>7, <1>8, <2>1 DEF Put
<1>11. MetaShape'
  <2>1. \A c \in Buffers : BufferRange(c)' = BufferRange(c)
    BY <1>1, SameCall DEF BufferRange
  <2>2. \A c \in Buffers : DOMAIN meta'[c] = BufferRange(c)
    BY <1>5, <1>6, <1>10 DEF BufferRange
  <2>3. QED
    BY <1>6, <2>1, <2>2 DEF MetaShape
<1>12. LaneCountsRight'
  <2>1. \A d : Size(d)' = Size(d) /\ Slot(d)' = Slot(d)
    BY <1>1, SameCall
  <2>2. ASSUME NEW d \in 0 .. Experts, Ended("fcounts", d)'
        PROVE  meta'["blockOffs"][d] = Slot(d) /\ (d < Experts => meta'["counts"][d] = Size(d))
    <3>1. CASE d = e
      BY <1>6, <1>10, <3>1
    <3>2. CASE d # e
      <4>1. Ended("fcounts", d)
        BY <1>2, <2>2, <3>2
      <4>2. d < Experts => d \in Expert
        BY CallNumbers DEF Expert
      <4>3. QED
        BY <1>6, <1>10, <3>2, <4>1, <4>2 DEF FusedInv, LaneCountsRight
    <3>3. QED
      BY <3>1, <3>2
  <2>3. QED
    BY <2>1, <2>2 DEF LaneCountsRight
<1>13. LanesRight' /\ SearchRight' /\ LaneScheduleRight'
  BY <1>1, <1>2, <1>6, LanesStay, SearchStays, LaneScheduleStays DEF FusedInv, Buffers
<1>14. QED
  BY <1>3, <1>11, <1>12, <1>13 DEF FusedInv

\* The search of a slot's expert.
LEMMA SlotFinds ==
  ASSUME CallOK, LaneCountsRight, kernel = "fschedule",
         NEW e \in Expert, NEW b \in 0 .. BlockCount[e] - 1
  PROVE  LastOutside({d \in 0 .. Experts : meta["blockOffs"][d] > Slot(e) + b}, Experts) = e
<1> DEFINE s == Slot(e) + b
           above == {d \in 0 .. Experts : meta["blockOffs"][d] > s}
           x == LastOutside(above, Experts)
<1>1. Experts \in Nat /\ Experts <= 256 /\ e \in 0 .. Experts /\ e < Experts
  BY CallNumbers DEF Expert
<1>2. s \in Int
  BY SlotHolds, Schedule
<1>3. \A d \in 0 .. Experts : Slot(d) <= s <=> d <= e
  BY SlotHolds
<1>4. \A d \in 0 .. Experts : meta["blockOffs"][d] = Slot(d)
  BY DEF LaneCountsRight, Ended, Past
<1>5. \A d \in 0 .. Experts : Slot(d) \in Int
  BY Schedule
<1> HIDE DEF s
<1>6. \A d \in 0 .. Experts : d \in above <=> e < d
  BY <1>1, <1>2, <1>3, <1>4, <1>5
<1>7. above \in SUBSET (0 .. Experts)
  OBVIOUS
<1> HIDE DEF above
<1>8. FinalSegment(above, Experts) /\ 0 \notin above
  <2>1. \A i, j \in 0 .. Experts : i < j /\ i \in above => j \in above
    BY <1>1, <1>6
  <2>2. 0 \notin above
    BY <1>1, <1>6
  <2>3. QED
    BY <2>1, <2>2 DEF FinalSegment
<1>9. x \in 0 .. Experts /\ above = x + 1 .. Experts
  BY <1>1, <1>7, <1>8, NineRoundsFind
<1> HIDE DEF x
<1>10. x = e
  <2>1. \A d \in 0 .. Experts : x < d <=> e < d
    <3>1. \A d \in 0 .. Experts : d \in x + 1 .. Experts <=> x < d
      BY <1>1, <1>9
    <3>2. QED
      BY <1>6, <1>9, <3>1, Zenon
  <2>2. QED
    BY <1>1, <1>9, <2>1
<1>11. QED
  BY <1>10 DEF x, above, s

\* Nine rounds find the expert of a slot, and the lane stores its word.
LEMMA FusedScheduleStep ==
  ASSUME CallOK, Running, MetaShape, Fused, FusedInv, NEW s \in 0 .. MaxBlocks - 1, FusedSchedule(s)
  PROVE  Running' /\ MetaShape' /\ FusedInv'
<1> DEFINE x == LastOutside({d \in 0 .. Experts : meta["blockOffs"][d] > s}, Experts)
           word == IF s < BlocksBelow(Experts) THEN Word(s - meta["blockOffs"][x], x) ELSE -1
           w == [i \in {s} |-> word]
<1>1. /\ Ends("fschedule", s) /\ Stores("schedule", w)
      /\ UNCHANGED <<shape, ids, kernel, probe, scan>>
  BY DEF FusedSchedule, Quiet
<1>2. /\ kernel = "fschedule"
      /\ \A j, q : Ended(j, q)' => Ended(j, q) \/ (j = "fschedule" /\ q = s)
  BY <1>1, EndsEnds
<1>3. Running'
  BY <1>1, <1>2, RunningStays DEF Ends, Ready
<1>4. BlocksBelow(Experts) = Total /\ Total \in Nat
  <2>1. kernel \in Past["fsearch"] /\ Experts \in 0 .. Experts
    BY <1>2, CallNumbers DEF Past
  <2>2. QED
    BY <2>1, LanesCount, Schedule DEF FusedInv, Total
<1>5. Total <= s => word = -1
  BY <1>4
<1>6. ASSUME NEW e \in Expert, NEW b \in 0 .. BlockCount[e] - 1, s = Slot(e) + b
      PROVE  word = Word(b, e)
  <2>1. x = e
    BY <1>2, <1>6, SlotFinds DEF FusedInv
  <2>2. s < Total
    BY <1>4, <1>6, SlotHolds
  <2>3. e \in 0 .. Experts /\ Slot(e) \in Nat
    <3>1. e \in 0 .. Experts
      BY CallNumbers DEF Expert
    <3>2. QED
      BY <3>1, Schedule
  <2>4. meta["blockOffs"][e] = Slot(e)
    <3>1. Ended("fcounts", e)
      BY <1>2 DEF Ended, Past
    <3>2. QED
      BY <2>3, <3>1 DEF FusedInv, LaneCountsRight
  <2>5. s - Slot(e) = b
    BY <1>6, <2>3
  <2> HIDE DEF x
  <2>6. QED
    BY <1>4, <2>1, <2>2, <2>4, <2>5
<1>7. DOMAIN w = {s} /\ w[s] = word
  OBVIOUS
<1> HIDE DEF w, word, x
<1>8. /\ MetaShape'
      /\ \A c \in Buffers : c # "schedule" => meta'[c] = meta[c]
      /\ \A i \in 0 .. MaxBlocks - 1 :
           meta'["schedule"][i] = IF i \in DOMAIN w THEN w[i] ELSE meta["schedule"][i]
  <2>1. "schedule" \in Buffers /\ BufferRange("schedule") = 0 .. MaxBlocks - 1
    BY DEF Buffers, BufferRange
  <2>2. QED
    BY <1>1, <1>7, <2>1, StoreEffect
<1>9. LaneScheduleRight'
  <2>1. /\ MaxBlocks' = MaxBlocks /\ Total' = Total /\ BlockCount' = BlockCount
        /\ \A e : Slot(e)' = Slot(e)
    BY <1>1, SameCall
  <2>2. ASSUME NEW i \in 0 .. MaxBlocks - 1, Ended("fschedule", i)'
        PROVE  /\ Total <= i => meta'["schedule"][i] = -1
               /\ \A e \in Expert : \A b \in 0 .. BlockCount[e] - 1 :
                    i = Slot(e) + b => meta'["schedule"][i] = Word(b, e)
    <3>1. CASE i = s
      BY <1>5, <1>6, <1>7, <1>8, <3>1
    <3>2. CASE i # s
      <4>1. Ended("fschedule", i)
        BY <1>2, <2>2, <3>2
      <4>2. meta'["schedule"][i] = meta["schedule"][i]
        BY <1>7, <1>8, <3>2
      <4>3. QED
        BY <4>1, <4>2 DEF FusedInv, LaneScheduleRight
    <3>3. QED
      BY <3>1, <3>2
  <2>3. QED
    BY <2>1, <2>2 DEF LaneScheduleRight
<1>10. LanesRight' /\ SearchRight' /\ LaneCountsRight'
  BY <1>1, <1>2, <1>8, LanesStay, SearchStays, LaneCountsStay DEF FusedInv, Buffers
<1>11. QED
  BY <1>3, <1>8, <1>9, <1>10 DEF FusedInv

-----------------------------------------------------------------------------
(* The invariant of the preprocess. *)

\* The invariant holds when a call begins.
LEMMA InitMeta ==
  ASSUME Init PROVE MetaInv
<1>1. /\ shape \in Shapes /\ ids \in [Rows -> Expert]
      /\ kernel = IF Fused THEN "fsort" ELSE "sort"
      /\ todo = Grid(kernel)
      /\ probe = [e \in Expert |-> [low |-> 0, high |-> n - 1, target |-> -1]]
      /\ scan = [at |-> 0, sum |-> 0]
      /\ meta = [order |-> Fresh(Rows), sorted |-> Fresh(Rows), src2dst |-> Fresh(Rows),
                 offs |-> Fresh(0 .. Experts), counts |-> Fresh(Expert),
                 blockOffs |-> Fresh(0 .. Experts), schedule |-> Fresh(0 .. MaxBlocks - 1)]
  BY DEF Init, PreInit
<1>2. CallOK
  BY <1>1 DEF CallOK
<1>3. Running
  BY <1>1 DEF Running, Path, General, FusedPhases, Ready
<1>4. MetaShape
  <2>1. DOMAIN meta = Buffers
    BY <1>1 DEF Buffers
  <2>2. \A S : DOMAIN Fresh(S) = S
    BY DEF Fresh
  <2>3. ASSUME NEW b \in Buffers PROVE DOMAIN meta[b] = BufferRange(b)
    BY <1>1, <2>2 DEF Buffers, BufferRange
  <2>4. QED
    BY <2>1, <2>3 DEF MetaShape
<1>5. ASSUME NEW k \in Path, NEW p \in Programs(k) PROVE ~Ended(k, p)
  <2>1. CASE Fused
    <3>1. kernel = "fsort"
      BY <1>1, <2>1
    <3>2. kernel \notin Past[k]
      BY <2>1, <3>1 DEF Path, FusedPhases, Past, Ready
    <3>3. kernel = k => <<k, p>> \in todo
      BY <1>1 DEF Grid
    <3>4. QED
      BY <3>2, <3>3 DEF Ended
  <2>2. CASE ~Fused
    <3>1. kernel = "sort"
      BY <1>1, <2>2
    <3>2. kernel \notin Past[k]
      BY <2>2, <3>1 DEF Path, General, Past, Ready
    <3>3. kernel = k => <<k, p>> \in todo
      BY <1>1 DEF Grid
    <3>4. QED
      BY <3>2, <3>3 DEF Ended
  <2>3. QED
    BY <2>1, <2>2
<1>6. CASE Fused
  <2>1. Path = FusedPhases
    BY <1>6 DEF Path
  <2>2. LanesRight /\ SearchRight /\ LaneCountsRight /\ LaneScheduleRight
    BY <1>5, <2>1
       DEF FusedPhases, Programs, LanesRight, SearchRight, LaneCountsRight, LaneScheduleRight
  <2>3. QED
    BY <1>2, <1>3, <1>4, <1>6, <2>2 DEF MetaInv, FusedInv
<1>7. CASE ~Fused
  <2>1. Path = General
    BY <1>7 DEF Path
  <2>2. SortRight /\ OffsetsRight /\ CountsRight /\ BlocksRight
    BY <1>5, <2>1 DEF General, Programs, SortRight, OffsetsRight, CountsRight, BlocksRight
  <2>3. CopyRight /\ PadRight
    BY <1>2, <1>5, <2>1, Stretches DEF General, CopyRight, PadRight
  <2>4. ScanRight
    <3>1. scan["at"] = 0 /\ scan["sum"] = 0
      BY <1>1
    <3>2. ~Ended("memset", 0)
      BY <1>2, <1>5, <2>1, Stretches DEF General
    <3>3. Slot(0) = 0 /\ 0 \in 0 .. Experts
      BY <1>2, Schedule, CallNumbers
    <3>4. \A e \in Expert : ~(e < 0)
      BY DEF Expert
    <3>5. QED
      BY <3>1, <3>2, <3>3, <3>4 DEF ScanRight
  <2>5. ProbeRight
    <3>1. n \in Nat
      BY <1>2, CallNumbers
    <3>2. DOMAIN probe = Expert
      BY <1>1
    <3>3. ASSUME NEW e \in Expert
          PROVE  /\ probe[e] = [low |-> probe[e]["low"], high |-> probe[e]["high"],
                                target |-> probe[e]["target"]]
                 /\ probe[e]["low"] = 0 /\ probe[e]["high"] = n - 1 /\ probe[e]["target"] = -1
      BY <1>1
    <3>4. \A e \in Expert : First(e + 1) \in 0 .. n
      <4>1. \A e \in Expert : e + 1 \in 0 .. Experts
        BY <1>2, CallNumbers DEF Expert
      <4>2. QED
        BY <1>2, <4>1, Layout
    <3>5. QED
      BY <3>1, <3>2, <3>3, <3>4 DEF ProbeRight
  <2>6. QED
    BY <1>2, <1>3, <1>4, <1>7, <2>2, <2>3, <2>4, <2>5 DEF MetaInv, GeneralInv
<1>8. QED
  BY <1>6, <1>7

\* What follows the preprocess leaves the metadata alone.
LEMMA AfterMeta ==
  ASSUME MetaInv, kernel \in Ready, UNCHANGED <<shape, ids, meta, probe, scan>>, Running'
  PROVE  MetaInv'
<1>1. \A k \in Path : \A p \in Programs(k) : Ended(k, p)' => Ended(k, p)
  <2>1. \A k \in Path : kernel \in Past[k]
    BY DEF Path, General, FusedPhases, Past
  <2>2. QED
    BY <2>1 DEF Ended
<1>2. CallOK' /\ (Fused' <=> Fused)
  BY SameCall DEF MetaInv
<1>3. MetaShape'
  <2>1. \A c \in Buffers : BufferRange(c)' = BufferRange(c)
    BY SameCall DEF BufferRange
  <2>2. QED
    BY <2>1 DEF MetaInv, MetaShape
<1>4. Fused => FusedInv'
  BY <1>1, FusedStays DEF MetaInv
<1>5. ~Fused => GeneralInv'
  BY <1>1, GeneralStays DEF MetaInv
<1>6. QED
  BY <1>2, <1>3, <1>4, <1>5 DEF MetaInv

\* It survives the change from one launch of the preprocess to the next,
LEMMA NextLaunchMeta ==
  ASSUME MetaInv, NextLaunch
  PROVE  MetaInv'
<1>1. \A k \in Path : \A p \in Programs(k) : Ended(k, p)' => Ended(k, p)
  BY LaunchEnds DEF MetaInv
<1>2. UNCHANGED <<shape, ids, meta, probe, scan>>
  BY DEF NextLaunch
<1>3. CallOK' /\ (Fused' <=> Fused) /\ Running'
  BY <1>2, SameCall, LaunchRuns DEF MetaInv
<1>4. MetaShape'
  <2>1. \A c \in Buffers : BufferRange(c)' = BufferRange(c)
    BY <1>2, SameCall DEF BufferRange
  <2>2. QED
    BY <1>2, <2>1 DEF MetaInv, MetaShape
<1>5. Fused => FusedInv'
  BY <1>1, <1>2, FusedStays DEF MetaInv
<1>6. ~Fused => GeneralInv'
  BY <1>1, <1>2, GeneralStays DEF MetaInv
<1>7. QED
  BY <1>3, <1>4, <1>5, <1>6 DEF MetaInv

\* The programs of the general path.
GeneralStep ==
  \/ Sort
  \/ \E p \in Programs("src2dst") : SrcToDst(p)
  \/ \E e \in Expert : Probe(e) \/ StoreOffset(e) \/ Count(e) \/ WriteBlocks(e)
  \/ ScanBlocks \/ ScanEnds
  \/ \E p \in Programs("memset") : Pad(p)

\* The programs of the fused kernel.
FusedStep ==
  \/ \E r \in Rows : FusedSort(r)
  \/ \E e \in 0 .. Experts : FusedSearch(e) \/ FusedCount(e)
  \/ \E s \in 0 .. MaxBlocks - 1 : FusedSchedule(s)

\* Each path runs its own programs only.
LEMMA OwnPath ==
  ASSUME Running
  PROVE  /\ GeneralStep => ~Fused /\ kernel \in General /\ UNCHANGED <<shape, ids, kernel>>
         /\ FusedStep => Fused /\ kernel \in FusedPhases /\ UNCHANGED <<shape, ids, kernel>>
<1>1. ASSUME NEW k \in General, NEW p, <<k, p>> \in todo PROVE ~Fused /\ kernel \in General
  <2>1. kernel = k
    BY <1>1, InLaunch
  <2>2. QED
    BY <2>1 DEF Running, Path, Ready, General, FusedPhases
<1>2. ASSUME NEW k \in FusedPhases, NEW p, <<k, p>> \in todo PROVE Fused /\ kernel \in FusedPhases
  <2>1. kernel = k
    BY <1>2, InLaunch
  <2>2. QED
    BY <2>1 DEF Running, Path, Ready, General, FusedPhases
<1>3. ASSUME GeneralStep
      PROVE  /\ \E k \in General : \E p : <<k, p>> \in todo
             /\ UNCHANGED <<shape, ids, kernel>>
  <2>1. CASE Sort
    BY <2>1 DEF Sort, Ends, Quiet, General
  <2>2. CASE \E p \in Programs("src2dst") : SrcToDst(p)
    BY <2>2 DEF SrcToDst, Ends, Quiet, General
  <2>3. CASE \E e \in Expert : Probe(e)
    BY <2>3 DEF Probe, General
  <2>4. CASE \E e \in Expert : StoreOffset(e) \/ Count(e)
    BY <2>4 DEF StoreOffset, Count, Ends, Quiet, General
  <2>5. CASE \E e \in Expert : WriteBlocks(e)
    BY <2>5 DEF WriteBlocks, Ends, Quiet, General
  <2>6. CASE ScanBlocks \/ ScanEnds
    BY <2>6 DEF ScanBlocks, ScanEnds, Ends, Quiet, General
  <2>7. CASE \E p \in Programs("memset") : Pad(p)
    BY <2>7 DEF Pad, Ends, Quiet, General
  <2>8. QED
    BY <1>3, <2>1, <2>2, <2>3, <2>4, <2>5, <2>6, <2>7 DEF GeneralStep
<1>4. ASSUME FusedStep
      PROVE  /\ \E k \in FusedPhases : \E p : <<k, p>> \in todo
             /\ UNCHANGED <<shape, ids, kernel>>
  <2>1. CASE \E r \in Rows : FusedSort(r)
    BY <2>1 DEF FusedSort, Ends, Quiet, FusedPhases
  <2>2. CASE \E e \in 0 .. Experts : FusedSearch(e)
    BY <2>2 DEF FusedSearch, Ends, Quiet, FusedPhases
  <2>3. CASE \E e \in 0 .. Experts : FusedCount(e)
    BY <2>3 DEF FusedCount, Ends, Quiet, FusedPhases
  <2>4. CASE \E s \in 0 .. MaxBlocks - 1 : FusedSchedule(s)
    BY <2>4 DEF FusedSchedule, Ends, Quiet, FusedPhases
  <2>5. QED
    BY <1>4, <2>1, <2>2, <2>3, <2>4 DEF FusedStep
<1>5. QED
  BY <1>1, <1>2, <1>3, <1>4

\* every step of the preprocess,
LEMMA PreMeta ==
  ASSUME MetaInv, PreNext
  PROVE  MetaInv'
<1>1. NextLaunch \/ GeneralStep \/ FusedStep
  BY DEF PreNext, GeneralStep, FusedStep
<1>2. CallOK /\ Running /\ MetaShape
  BY DEF MetaInv
<1>3. CASE NextLaunch
  BY <1>3, NextLaunchMeta
<1>4. CASE GeneralStep
  <2>1. ~Fused /\ UNCHANGED <<shape, ids, kernel>>
    BY <1>2, <1>4, OwnPath
  <2>2. GeneralInv
    BY <2>1 DEF MetaInv
  <2>3. CallOK' /\ ~Fused'
    BY <1>2, <2>1, SameCall
  <2>4. CASE Sort
    BY <1>2, <2>2, <2>3, <2>4, SortStep DEF MetaInv
  <2>5. CASE \E p \in Programs("src2dst") : SrcToDst(p)
    BY <1>2, <2>2, <2>3, <2>5, CopyStep DEF MetaInv
  <2>6. CASE \E e \in Expert : Probe(e)
    BY <1>2, <2>2, <2>3, <2>6, ProbeStep DEF MetaInv
  <2>7. CASE \E e \in Expert : StoreOffset(e)
    BY <1>2, <2>2, <2>3, <2>7, OffsetStep DEF MetaInv
  <2>8. CASE \E e \in Expert : Count(e)
    BY <1>2, <2>2, <2>3, <2>8, CountStep DEF MetaInv
  <2>9. CASE \E e \in Expert : WriteBlocks(e)
    BY <1>2, <2>2, <2>3, <2>9, BlocksStep DEF MetaInv
  <2>10. CASE ScanBlocks
    BY <1>2, <2>2, <2>3, <2>10, ScanStep DEF MetaInv
  <2>11. CASE ScanEnds
    BY <1>2, <2>2, <2>3, <2>11, ScanEndStep DEF MetaInv
  <2>12. CASE \E p \in Programs("memset") : Pad(p)
    BY <1>2, <2>2, <2>3, <2>12, PadStep DEF MetaInv
  <2>13. QED
    BY <1>4, <2>4, <2>5, <2>6, <2>7, <2>8, <2>9, <2>10, <2>11, <2>12 DEF GeneralStep
<1>5. CASE FusedStep
  <2>1. Fused /\ UNCHANGED <<shape, ids, kernel>>
    BY <1>2, <1>5, OwnPath
  <2>2. FusedInv
    BY <2>1 DEF MetaInv
  <2>3. CallOK' /\ Fused'
    BY <1>2, <2>1, SameCall
  <2>4. CASE \E r \in Rows : FusedSort(r)
    BY <1>2, <2>1, <2>2, <2>3, <2>4, FusedSortStep DEF MetaInv
  <2>5. CASE \E e \in 0 .. Experts : FusedSearch(e)
    BY <1>2, <2>1, <2>2, <2>3, <2>5, FusedSearchStep DEF MetaInv
  <2>6. CASE \E e \in 0 .. Experts : FusedCount(e)
    BY <1>2, <2>1, <2>2, <2>3, <2>6, FusedCountStep DEF MetaInv
  <2>7. CASE \E s \in 0 .. MaxBlocks - 1 : FusedSchedule(s)
    BY <1>2, <2>1, <2>2, <2>3, <2>7, FusedScheduleStep DEF MetaInv
  <2>8. QED
    BY <1>5, <2>4, <2>5, <2>6, <2>7 DEF FusedStep
<1>6. QED
  BY <1>1, <1>3, <1>4, <1>5

\* A launch of the forward pass proper follows the preprocess.
LEMMA LaunchReady ==
  ASSUME Launch
  PROVE  kernel \in Ready /\ kernel' \in Ready /\ todo = {} /\ todo' = Launched(kernel')
         /\ UNCHANGED <<shape, ids, meta, probe, scan, data>>
<1>1. PICK i \in 1 .. 6 : kernel = Launches[i] /\ kernel' = Launches[i + 1]
  BY DEF Launch, Launches
<1>2. kernel \in Ready /\ kernel' \in Ready
  BY <1>1 DEF Launches, Ready
<1>3. QED
  BY <1>2 DEF Launch

\* The invariant of the metadata survives such a launch,
LEMMA LaunchMeta ==
  ASSUME MetaInv, Launch
  PROVE  MetaInv'
<1>1. /\ kernel \in Ready /\ kernel' \in Ready /\ todo' = Launched(kernel')
      /\ UNCHANGED <<shape, ids, meta, probe, scan>>
  BY LaunchReady
<1>2. \A k : Launched(k)' = Launched(k)
  BY <1>1 DEF Launched, GridM, Tokens, n
<1>3. Running'
  BY <1>1, <1>2 DEF Running
<1>4. QED
  BY <1>1, <1>3, AfterMeta

\* The programs of the forward pass proper.
DataStep ==
  \/ \E t \in Tokens : Gather(t) \/ Combine(t)
  \/ \E g \in DOMAIN TilesOf : \E pid \in 0 .. GridM * TilesOf[g] - 1 : Gemm(g, pid)
  \/ \E p \in 0 .. CeilDiv(n, ActRows) - 1 : Activate(p)

\* A program of the forward pass proper stores no metadata.
LEMMA DataEnds ==
  ASSUME DataStep
  PROVE  /\ Settled /\ todo' \subseteq todo
         /\ \E k \in Ready : \E p : <<k, p>> \in todo
<1>1. DOMAIN TilesOf = {"gemm1", "gemm2"}
  BY GemmAssumption
<1>2. CASE \E t \in Tokens : Gather(t)
  BY <1>2 DEF Gather, Ends, Ready
<1>3. CASE \E t \in Tokens : Combine(t)
  BY <1>3 DEF Combine, Ends, Ready
<1>4. CASE \E g \in DOMAIN TilesOf : \E pid \in 0 .. GridM * TilesOf[g] - 1 : Gemm(g, pid)
  BY <1>1, <1>4 DEF Gemm, Ends, Ready
<1>5. CASE \E p \in 0 .. CeilDiv(n, ActRows) - 1 : Activate(p)
  BY <1>5 DEF Activate, Ends, Ready
<1>6. QED
  BY <1>2, <1>3, <1>4, <1>5 DEF DataStep

\* the programs that work on the rows,
LEMMA DataMeta ==
  ASSUME MetaInv, DataStep
  PROVE  MetaInv'
<1>1. UNCHANGED <<shape, ids, meta, kernel, probe, scan>> /\ todo' \subseteq todo
  BY DataEnds DEF Settled
<1>2. kernel \in Ready
  BY DataEnds, InLaunch DEF MetaInv
<1>3. Running'
  BY <1>1, RunningStays DEF MetaInv
<1>4. QED
  BY <1>1, <1>2, <1>3, AfterMeta

\* and so every step of the forward pass.
LEMMA NextMeta ==
  ASSUME MetaInv, [Next]_vars
  PROVE  MetaInv'
<1>1. CASE UNCHANGED vars
  <2>1. UNCHANGED <<shape, ids, meta, kernel, todo, probe, scan>>
    BY <1>1 DEF vars, preVars
  <2>2. \A k, p : Ended(k, p)' => Ended(k, p)
    BY <2>1 DEF Ended
  <2>3. CallOK' /\ (Fused' <=> Fused)
    BY <2>1, SameCall DEF MetaInv
  <2>4. Running'
    BY <2>1, RunningStays DEF MetaInv
  <2>5. MetaShape'
    <3>1. \A c \in Buffers : BufferRange(c)' = BufferRange(c)
      BY <2>1, SameCall DEF BufferRange
    <3>2. QED
      BY <2>1, <3>1 DEF MetaInv, MetaShape
  <2>6. Fused => FusedInv'
    BY <2>1, <2>2, FusedStays DEF MetaInv
  <2>7. ~Fused => GeneralInv'
    BY <2>1, <2>2, GeneralStays DEF MetaInv
  <2>8. QED
    BY <2>3, <2>4, <2>5, <2>6, <2>7 DEF MetaInv
<1>2. CASE PreNext
  BY <1>2, PreMeta
<1>3. CASE Launch
  BY <1>3, LaunchMeta
<1>4. CASE DataStep
  BY <1>4, DataMeta
<1>5. Next => UNCHANGED vars \/ PreNext \/ Launch \/ DataStep
  BY DEF Next, Returned, DataStep
<1>6. QED
  BY <1>1, <1>2, <1>3, <1>4, <1>5

\* The inductive invariant of the metadata: a cell is right as soon as the
\* program that stores it has ended, on either path.
THEOREM MetaInvariant == Spec => []MetaInv
<1>1. Init => MetaInv
  BY InitMeta
<1>2. MetaInv /\ [Next]_vars => MetaInv'
  BY NextMeta
<1>3. QED
  BY <1>1, <1>2, PTL DEF Spec

-----------------------------------------------------------------------------
(* What the forward pass reads when the preprocess has ended. *)

\* After the preprocess all cells are right.
LEMMA MetaReady ==
  ASSUME MetaInv, kernel \in Ready
  PROVE  /\ \A p \in Rows : meta["sorted"][p] = ids[RowAt(p)] /\ meta["src2dst"][RowAt(p)] = p
         /\ \A r \in Rows : meta["src2dst"][r] = Rank(r)
         /\ \A e \in 0 .. Experts : meta["offs"][e] = First(e) /\ meta["blockOffs"][e] = Slot(e)
         /\ \A e \in Expert : meta["counts"][e] = Size(e)
         /\ \A s \in 0 .. MaxBlocks - 1 : Total <= s => meta["schedule"][s] = -1
         /\ \A e \in Expert : \A b \in 0 .. BlockCount[e] - 1 :
              meta["schedule"][Slot(e) + b] = Word(b, e)
<1>1. CallOK /\ Experts \in Nat \ {0}
  BY CallNumbers DEF MetaInv
<1>2. \A k \in Path : kernel \in Past[k]
  BY DEF Path, General, FusedPhases, Past
<1>3. \A k \in Path : \A p : Ended(k, p)
  BY <1>2 DEF Ended
<1>4. CASE Fused
  <2>1. FusedInv /\ \A k \in FusedPhases : \A p : Ended(k, p)
    BY <1>3, <1>4 DEF MetaInv, Path
  <2>2. \A p \in Rows : meta["sorted"][p] = ids[RowAt(p)] /\ meta["src2dst"][RowAt(p)] = p
    BY <2>1 DEF FusedInv, LanesRight, FusedPhases
  <2>3. \A e \in 0 .. Experts : meta["offs"][e] = First(e)
    BY <2>1 DEF FusedInv, SearchRight, FusedPhases
  <2>4. \A e \in 0 .. Experts : meta["blockOffs"][e] = Slot(e) /\ (e < Experts => meta["counts"][e] = Size(e))
    BY <2>1 DEF FusedInv, LaneCountsRight, FusedPhases
  <2>5. \A e \in Expert : e \in 0 .. Experts /\ e < Experts
    BY <1>1 DEF Expert
  <2>6. \A s \in 0 .. MaxBlocks - 1 :
          /\ Total <= s => meta["schedule"][s] = -1
          /\ \A e \in Expert : \A b \in 0 .. BlockCount[e] - 1 :
               s = Slot(e) + b => meta["schedule"][s] = Word(b, e)
    BY <2>1 DEF FusedInv, LaneScheduleRight, FusedPhases
  <2>7. \A e \in Expert : \A b \in 0 .. BlockCount[e] - 1 : Slot(e) + b \in 0 .. MaxBlocks - 1
    BY <1>1, OwnSlots
  <2>8. \A r \in Rows : meta["src2dst"][r] = Rank(r)
    BY <1>1, <2>2, Places
  <2>9. QED
    BY <2>2, <2>3, <2>4, <2>5, <2>6, <2>7, <2>8
<1>5. CASE ~Fused
  <2>1. GeneralInv /\ \A k \in General : \A p : Ended(k, p)
    BY <1>3, <1>5 DEF MetaInv, Path
  <2>2. \A p \in Rows : meta["sorted"][p] = ids[RowAt(p)] /\ meta["src2dst"][RowAt(p)] = p
    BY <2>1 DEF GeneralInv, SortRight, CopyRight, General
  <2>3. \A e \in 0 .. Experts : meta["offs"][e] = First(e)
    <3>1. kernel \in Past["offsets"]
      BY DEF Past
    <3>2. QED
      BY <1>1, <2>1, <3>1, OffsetsDone DEF GeneralInv
  <2>4. \A e \in 0 .. Experts : meta["blockOffs"][e] = Slot(e)
    <3>1. /\ scan["at"] = Experts /\ meta["blockOffs"][Experts] = Slot(Experts)
          /\ \A e \in Expert : e < scan["at"] => meta["blockOffs"][e] = Slot(e)
      BY <2>1 DEF GeneralInv, ScanRight, General, Total
    <3>2. \A e \in 0 .. Experts : e = Experts \/ (e \in Expert /\ e < Experts)
      BY <1>1 DEF Expert
    <3>3. QED
      BY <3>1, <3>2
  <2>5. \A e \in Expert : meta["counts"][e] = Size(e)
    BY <2>1 DEF GeneralInv, CountsRight, General
  <2>6. \A s \in 0 .. MaxBlocks - 1 : Total <= s => meta["schedule"][s] = -1
    BY <2>1 DEF GeneralInv, PadRight, General
  <2>7. \A e \in Expert : \A b \in 0 .. BlockCount[e] - 1 : meta["schedule"][Slot(e) + b] = Word(b, e)
    BY <2>1 DEF GeneralInv, BlocksRight, General
  <2>8. \A r \in Rows : meta["src2dst"][r] = Rank(r)
    BY <1>1, <2>2, Places
  <2>9. QED
    BY <2>2, <2>3, <2>4, <2>5, <2>6, <2>7, <2>8
<1>6. QED
  BY <1>4, <1>5

\* The words of the blocks as MetadataExact lists them.
Listed == UNION {{Word(b, e) : b \in 0 .. CeilDiv(Size(e), BuildBlock) - 1} : e \in Expert}
Before(w) == {v \in Listed : \/ ExpertOf(v) < ExpertOf(w)
                             \/ ExpertOf(v) = ExpertOf(w) /\ v < w}

\* Counting the words below a word finds the slot where the schedule keeps it.
LEMMA ListedWords ==
  ASSUME CallOK
  PROVE  /\ Cardinality(Listed) = Total
         /\ \A w \in Listed : \E e \in Expert : \E b \in 0 .. BlockCount[e] - 1 :
              w = Word(b, e) /\ Cardinality(Before(w)) = Slot(e) + b
<1>1. /\ Experts \in Nat /\ Experts <= WordExperts
      /\ BlockCount \in [0 .. Experts - 1 -> Nat] /\ Expert = 0 .. Experts - 1
  BY CallNumbers, Schedule DEF WordExperts, Expert
<1>2. Listed = WordsOf(BlockCount, Experts)
  <2> DEFINE own(e) == {Word(b, e) : b \in 0 .. CeilDiv(Size(e), BuildBlock) - 1}
             words(e) == {Word(b, e) : b \in 0 .. BlockCount[e] - 1}
  <2>1. \A e \in Expert : own(e) = words(e)
    BY Schedule
  <2> HIDE DEF own, words
  <2>2. {own(e) : e \in Expert} = {words(e) : e \in Expert}
    BY <2>1
  <2>3. Listed = UNION {own(e) : e \in Expert}
    BY DEF Listed, own
  <2>4. WordsOf(BlockCount, Experts) = UNION {words(e) : e \in Expert}
    BY <1>1 DEF WordsOf, words
  <2>5. QED
    BY <2>2, <2>3, <2>4
<1>3. /\ Cardinality(WordsOf(BlockCount, Experts)) = FirstBlock(BlockCount, Experts)
      /\ \A e \in 0 .. Experts - 1 : \A b \in 0 .. BlockCount[e] - 1 :
           Cardinality(WordsBefore(BlockCount, Experts, Word(b, e))) = FirstBlock(BlockCount, e) + b
  BY <1>1, WordsInOrder
<1>4. \A w : Before(w) = WordsBefore(BlockCount, Experts, w)
  BY <1>2 DEF Before, WordsBefore
<1>5. ASSUME NEW w \in Listed
      PROVE  \E e \in Expert : \E b \in 0 .. BlockCount[e] - 1 :
               w = Word(b, e) /\ Cardinality(Before(w)) = Slot(e) + b
  <2>1. PICK e \in Expert : \E b \in 0 .. CeilDiv(Size(e), BuildBlock) - 1 : w = Word(b, e)
    BY DEF Listed
  <2>2. PICK b \in 0 .. BlockCount[e] - 1 : w = Word(b, e)
    BY <2>1, Schedule
  <2>3. Cardinality(Before(w)) = Slot(e) + b
    BY <1>1, <1>3, <1>4, <2>2 DEF Slot
  <2>4. QED
    BY <2>2, <2>3
<1>6. QED
  BY <1>2, <1>3, <1>5 DEF Total, Slot

\* Whatever the routing and however the programs interleave, both paths leave
\* the metadata that the sorting path defines, bit for bit: the promise that
\* fused_moe_preprocess makes of itself.
LEMMA ReadyIsExact ==
  ASSUME MetaInv, kernel \in Ready
  PROVE  MetadataExact
<1>1. CallOK /\ Experts \in Nat \ {0}
  BY CallNumbers DEF MetaInv
<1>2. ASSUME NEW r \in Rows
      PROVE  /\ meta.src2dst[r] = Cardinality(
                    {s \in Rows : ids[s] < ids[r] \/ (ids[s] = ids[r] /\ s < r)})
             /\ meta.sorted[meta.src2dst[r]] = ids[r]
  <2>1. meta["src2dst"][r] = Rank(r)
    BY MetaReady
  <2>2. Rank(r) \in Rows /\ RowAt(Rank(r)) = r
    BY <1>1, Places
  <2>3. meta["sorted"][Rank(r)] = ids[r]
    BY <2>2, MetaReady
  <2>4. Rank(r) = Cardinality({s \in Rows : ids[s] < ids[r] \/ (ids[s] = ids[r] /\ s < r)})
    BY DEF Rank
  <2>5. QED
    BY <2>1, <2>3, <2>4
<1>3. ASSUME NEW e \in 0 .. Experts
      PROVE  meta.offs[e] = Cardinality({r \in Rows : ids[r] < e})
  BY MetaReady DEF First, RowsBelow, Rows
<1>4. ASSUME NEW e \in Expert
      PROVE  meta.counts[e] = Cardinality({r \in Rows : ids[r] = e})
  BY MetaReady DEF Size, RowsOf, Rows
<1>5. meta.blockOffs[Experts] = Cardinality(Listed)
  <2>1. Experts \in 0 .. Experts
    BY <1>1
  <2>2. QED
    BY <1>1, <2>1, MetaReady, ListedWords DEF Total
<1>6. ASSUME NEW w \in Listed
      PROVE  At(meta.schedule, Cardinality(Before(w))) = w
  <2>1. PICK e \in Expert : \E b \in 0 .. BlockCount[e] - 1 :
               w = Word(b, e) /\ Cardinality(Before(w)) = Slot(e) + b
    BY <1>1, ListedWords
  <2>2. PICK b \in 0 .. BlockCount[e] - 1 : w = Word(b, e) /\ Cardinality(Before(w)) = Slot(e) + b
    BY <2>1
  <2>3. DOMAIN meta["schedule"] = 0 .. MaxBlocks - 1
    BY DEF MetaInv, MetaShape, Buffers, BufferRange
  <2>4. Slot(e) + b \in 0 .. MaxBlocks - 1
    BY <1>1, OwnSlots
  <2>5. meta["schedule"][Slot(e) + b] = Word(b, e)
    BY MetaReady
  <2>6. QED
    BY <2>2, <2>3, <2>4, <2>5 DEF At
<1>7. ASSUME NEW s \in Cardinality(Listed) .. MaxBlocks - 1
      PROVE  meta.schedule[s] = -1
  <2>1. Cardinality(Listed) = Total /\ Total \in Nat /\ MaxBlocks \in Nat
    BY <1>1, ListedWords, Schedule, CallNumbers
  <2>2. s \in 0 .. MaxBlocks - 1 /\ Total <= s
    BY <2>1
  <2>3. QED
    BY <2>2, MetaReady
<1>8. Listed = UNION {{Word(b, e) : b \in 0 .. (Cardinality({r \in Rows : ids[r] = e}) + BuildBlock - 1) \div BuildBlock - 1} : e \in Expert}
  BY DEF Listed, CeilDiv, Size, RowsOf, Rows
<1>9. QED
  BY <1>2, <1>3, <1>4, <1>5, <1>6, <1>7, <1>8 DEF MetadataExact, Before

\* Whatever the routing, on the fused and on the general path and in every
\* order of their programs, the metadata is that of a stable sort, bit for
\* bit.
THEOREM BothPathsExact == Spec => []MetadataExact
<1>1. MetaInv => MetadataExact
  <2>1. Prepared => kernel \in Ready
    <3>1. Len(Launches) = 7
      BY DEF Launches
    <3>2. ASSUME NEW i \in 1 .. 7 PROVE Launches[i] \in Ready
      BY DEF Launches, Ready
    <3>3. QED
      BY <3>1, <3>2 DEF Prepared
  <2>2. ~Prepared => MetadataExact
    BY DEF MetadataExact
  <2>3. QED
    BY <2>1, <2>2, ReadyIsExact
<1>2. QED
  BY <1>1, MetaInvariant, PTL

-----------------------------------------------------------------------------
(* The invariant of the row buffers.  A cell is unset or holds what its row *)
(* has to become; it holds that once the program that covers it has ended.  *)

TokenOf(r)  == RowAt(r) \div TopK
ExpertAt(r) == ids[RowAt(r)]

\* What row r of a buffer has to hold.
Value(b, r) ==
  CASE b = "rows" -> <<TokenOf(r)>>
    [] b \in {"hidden", "acts"} -> <<TokenOf(r), ExpertAt(r)>>
    [] b = "down" -> <<TokenOf(r), ExpertAt(r), ExpertAt(r)>>

\* The block of the schedule that covers row r.
BlockIn(r) == (r - First(ExpertAt(r))) \div GemmBlock
SlotAt(r)  == Slot(ExpertAt(r)) + BlockIn(r)

\* What may run when all programs of a launch have ended.
Behind == [gather  |-> {"gemm1", "act", "gemm2", "combine", "done"},
           gemm1   |-> {"act", "gemm2", "combine", "done"},
           act     |-> {"gemm2", "combine", "done"},
           gemm2   |-> {"combine", "done"},
           combine |-> {"done"}]
Stored(k, p) == kernel \in Behind[k] \/ (kernel = k /\ <<k, p>> \notin todo)

DataShape ==
  /\ DOMAIN data = {"rows", "hidden", "acts", "down", "out"}
  /\ DOMAIN data["rows"] = Rows /\ DOMAIN data["acts"] = Rows
  /\ DOMAIN data["hidden"] = Cells("gemm1") /\ DOMAIN data["down"] = Cells("gemm2")
  /\ DOMAIN data["out"] = Tokens /\ data["out"] = [t \in Tokens |-> data["out"][t]]

RowsRight ==
  \A r \in Rows : /\ data["rows"][r] \in {Unset, Value("rows", r)}
                  /\ Stored("gather", TokenOf(r)) => data["rows"][r] = Value("rows", r)
GemmRight(g, b) ==
  \A r \in Rows : \A j \in 0 .. TilesOf[g] - 1 :
    /\ data[b][<<r, j>>] \in {Unset, Value(b, r)}
    /\ \A pid \in 0 .. GridM * TilesOf[g] - 1 :
         TileOf(g, pid) = <<SlotAt(r), j>> /\ Stored(g, pid) => data[b][<<r, j>>] = Value(b, r)
ActsRight ==
  \A r \in Rows : Stored("act", r \div ActRows) => data["acts"][r] = Value("acts", r)
OutRight ==
  \A t \in Tokens : ~Stored("combine", t) => data["out"][t] = [k \in Choices |-> Unset]

DataInv ==
  /\ DataShape /\ RowsRight /\ GemmRight("gemm1", "hidden") /\ ActsRight
  /\ GemmRight("gemm2", "down") /\ OutRight

-----------------------------------------------------------------------------
(* Blocks and tiles. *)

\* The schedule is built with the block size that the GEMMs run with, though
\* two functions choose them.
LEMMA BlocksAgree ==
  ASSUME CallOK PROVE BuildBlock = GemmBlock
<1>1. n \in Nat /\ FusedWin \in Nat /\ SmallMax \in Nat /\ FusedWin <= SmallMax
  BY CallNumbers, PreprocessAssumption
<1>2. Fused => n <= SmallMax
  BY <1>1 DEF Fused
<1>3. QED
  BY <1>2 DEF BuildBlock, GemmBlock

\* Rows first to last of block b of expert e.
Start(e, b) == First(e) + b * GemmBlock
Stop(e, b)  == IF Start(e, b) + GemmBlock < First(e) + Size(e)
               THEN Start(e, b) + GemmBlock ELSE First(e) + Size(e)

\* A block holds rows of its expert, at least one and no more than fit.
LEMMA BlockRows ==
  ASSUME CallOK, NEW e \in Expert, NEW b \in 0 .. BlockCount[e] - 1
  PROVE  /\ Start(e, b) \in Int /\ Stop(e, b) \in Int
         /\ First(e) <= Start(e, b) /\ Start(e, b) < Stop(e, b)
         /\ Stop(e, b) <= Start(e, b) + GemmBlock /\ Stop(e, b) <= First(e) + Size(e)
         /\ First(e) + Size(e) <= n /\ First(e) \in Nat
<1> DEFINE x == b * GemmBlock
<1>1. GemmBlock \in Nat \ {0} /\ Experts \in Nat /\ n \in Nat
  BY CallNumbers
<1>2. e \in 0 .. Experts /\ e + 1 \in 0 .. Experts
  BY <1>1 DEF Expert
<1>3. First(e) \in Nat /\ Size(e) \in Nat /\ First(e + 1) = First(e) + Size(e) /\ First(e + 1) <= n
  BY <1>1, <1>2, Layout
<1>4. b \in Nat /\ b < CeilDiv(Size(e), GemmBlock)
  <2>1. BlockCount[e] = CeilDiv(Size(e), GemmBlock)
    BY Schedule, BlocksAgree
  <2>2. CeilDiv(Size(e), GemmBlock) \in Nat
    BY <1>1, <1>3, CeilDivFits
  <2>3. QED
    BY <2>1, <2>2
<1>5. GemmBlock * b < Size(e)
  BY <1>1, <1>3, <1>4, CeilDivFits
<1>6. x \in Nat /\ x < Size(e)
  <2>1. x = GemmBlock * b /\ x \in Int /\ 0 <= x
    BY <1>1, <1>4
  <2>2. QED
    BY <1>5, <2>1
<1> HIDE DEF x
<1>7. Start(e, b) = First(e) + x
  BY DEF Start, x
<1>8. QED
  BY <1>1, <1>3, <1>6, <1>7 DEF Stop

\* The rows of a block are the rows that the schedule puts there.
LEMMA RowsOfBlock ==
  ASSUME CallOK, NEW e \in Expert, NEW b \in 0 .. BlockCount[e] - 1,
         NEW r \in Start(e, b) .. Stop(e, b) - 1
  PROVE  r \in Rows /\ ExpertAt(r) = e
<1>1. /\ First(e) \in Nat /\ n \in Nat /\ Experts \in Nat /\ Size(e) \in Int
      /\ r \in Int /\ First(e) <= r /\ r < First(e) + Size(e) /\ First(e) + Size(e) <= n
  BY BlockRows, CallNumbers, Layout
<1>2. r \in Rows
  BY <1>1 DEF Rows
<1>3. e \in Int /\ e + 1 \in Int /\ First(e + 1) = First(e) + Size(e)
  BY <1>1, Layout DEF Expert
<1>4. (ids[RowAt(r)] < e <=> r < First(e)) /\ (ids[RowAt(r)] < e + 1 <=> r < First(e + 1))
  BY <1>2, <1>3, Places
<1>5. ids[RowAt(r)] \in Int
  <2>1. RowAt(r) \in Rows
    BY <1>2, Places
  <2>2. QED
    BY <1>1, <2>1 DEF CallOK, Expert
<1>6. ids[RowAt(r)] = e
  BY <1>1, <1>3, <1>4, <1>5
<1>7. QED
  BY <1>2, <1>6 DEF ExpertAt

\* Every row lies in the block that covers it.
LEMMA BlockOfRow ==
  ASSUME CallOK, NEW r \in Rows
  PROVE  /\ ExpertAt(r) \in Expert /\ BlockIn(r) \in 0 .. BlockCount[ExpertAt(r)] - 1
         /\ r \in Start(ExpertAt(r), BlockIn(r)) .. Stop(ExpertAt(r), BlockIn(r)) - 1
<1> DEFINE e == ExpertAt(r)
           q == BlockIn(r)
           x == q * GemmBlock
<1>1. GemmBlock \in Nat \ {0} /\ Experts \in Nat /\ n \in Nat /\ r \in Int
  BY CallNumbers DEF Rows
<1>2. e \in Expert /\ e \in Int /\ e \in 0 .. Experts
  <2>1. ids[RowAt(r)] \in Expert
    BY Places DEF CallOK
  <2>2. e \in Expert
    BY <2>1 DEF ExpertAt
  <2>3. e \in Int /\ e \in 0 .. Experts
    <3> HIDE DEF e
    <3>1. QED
      BY <1>1, <2>2 DEF Expert
  <2>4. QED
    BY <2>2, <2>3
<1>3. First(e) \in Nat /\ Size(e) \in Nat /\ First(e + 1) = First(e) + Size(e)
  BY <1>1, <1>2, Layout
<1>4. First(e) <= r /\ r < First(e) + Size(e)
  <2>1. (ids[RowAt(r)] < e <=> r < First(e)) /\ (ids[RowAt(r)] < e + 1 <=> r < First(e + 1))
    BY <1>2, Places
  <2>2. ids[RowAt(r)] = e
    BY DEF ExpertAt
  <2> HIDE DEF e
  <2>3. QED
    BY <1>1, <1>2, <1>3, <2>1, <2>2
<1>5. q = (r - First(e)) \div GemmBlock
  BY DEF BlockIn
<1>6. q \in Nat /\ GemmBlock * q <= r - First(e) /\ r - First(e) < GemmBlock * q + GemmBlock
  <2>1. r - First(e) \in Int /\ r - First(e) >= 0
    BY <1>1, <1>3, <1>4
  <2> HIDE DEF e, q
  <2>2. q \in Int /\ q >= 0 /\ GemmBlock * q <= r - First(e) /\ r - First(e) < GemmBlock * q + GemmBlock
    BY <1>1, <1>5, <2>1, Quotient
  <2>3. QED
    BY <2>2
<1> HIDE DEF e, q
<1>7. x = GemmBlock * q /\ x \in Int
  BY <1>1, <1>6
<1> HIDE DEF x
<1>8. GemmBlock * q < Size(e)
  BY <1>1, <1>3, <1>4, <1>6, <1>7
<1>9. q < CeilDiv(Size(e), GemmBlock) /\ CeilDiv(Size(e), GemmBlock) \in Nat
  BY <1>1, <1>3, <1>6, <1>8, CeilDivFits
<1>10. q \in 0 .. BlockCount[e] - 1
  <2>1. BlockCount[e] = CeilDiv(Size(e), GemmBlock)
    BY <1>2, Schedule, BlocksAgree
  <2>2. QED
    BY <1>6, <1>9, <2>1
<1>11. Start(e, q) = First(e) + x
  BY DEF Start, x
<1>12. r \in Start(e, q) .. Stop(e, q) - 1
  BY <1>1, <1>3, <1>4, <1>6, <1>7, <1>11 DEF Stop
<1>13. QED
  BY <1>2, <1>10, <1>12 DEF e, q

\* The grid of a GEMM has a row of tiles for every slot of the schedule.
LEMMA GridSize ==
  ASSUME CallOK, MetaShape
  PROVE  GridM = MaxBlocks /\ GridM \in Nat
<1>1. MaxBlocks \in Nat
  BY CallNumbers
<1>2. DOMAIN meta.schedule = 0 .. MaxBlocks - 1
  BY DEF MetaShape, Buffers, BufferRange
<1>3. QED
  BY <1>1, <1>2, IntervalCount DEF GridM

\* What program pid of a GEMM works on, and that every tile has a program.
LEMMA Tiles ==
  ASSUME CallOK, MetaShape, NEW g \in {"gemm1", "gemm2"}
  PROVE  /\ \A pid \in 0 .. GridM * TilesOf[g] - 1 :
              TileOf(g, pid) \in (0 .. GridM - 1) \X (0 .. TilesOf[g] - 1)
         /\ \A s \in 0 .. GridM - 1 : \A j \in 0 .. TilesOf[g] - 1 :
              \E pid \in 0 .. GridM * TilesOf[g] - 1 : TileOf(g, pid) = <<s, j>>
<1>1. GridM \in Nat /\ TilesOf[g] \in Nat \ {0} /\ Group \in Nat \ {0}
  BY GridSize, GemmAssumption
<1>2. \A pid : TileOf(g, pid) = TileAt(GridM, TilesOf[g], Group, pid)
  BY DEF TileOf, TileAt, GroupSize
<1>3. ASSUME NEW pid \in 0 .. GridM * TilesOf[g] - 1
      PROVE  TileOf(g, pid) \in (0 .. GridM - 1) \X (0 .. TilesOf[g] - 1)
  <2>1. TileAt(GridM, TilesOf[g], Group, pid) \in (0 .. GridM - 1) \X (0 .. TilesOf[g] - 1)
    BY <1>1, TileInGrid
  <2>2. QED
    BY <1>2, <2>1
<1>4. ASSUME NEW s \in 0 .. GridM - 1, NEW j \in 0 .. TilesOf[g] - 1
      PROVE  \E pid \in 0 .. GridM * TilesOf[g] - 1 : TileOf(g, pid) = <<s, j>>
  <2> DEFINE M == GridM
             T == TilesOf[g]
             grid == 0 .. M * T - 1
  <2>1. M \in Nat /\ T \in Nat \ {0} /\ Group \in Nat \ {0} /\ s \in 0 .. M - 1 /\ j \in 0 .. T - 1
    BY <1>1
  <2> HIDE DEF M, T
  <2>2. \E pid \in grid : TileAt(M, T, Group, pid) = <<s, j>>
    <3>1. HasProgram(M, T, Group, s, j)
      BY <2>1, EveryTile
    <3>2. QED
      BY <3>1 DEF HasProgram
  <2> HIDE DEF grid
  <2>3. PICK pid \in grid : TileAt(M, T, Group, pid) = <<s, j>>
    BY <2>2
  <2>4. TileOf(g, pid) = <<s, j>>
    BY <1>2, <2>3 DEF M, T
  <2>5. QED
    BY <2>3, <2>4 DEF grid, M, T
<1>5. QED
  BY <1>3, <1>4

\* What a GEMM program reads from the schedule is the block that lies there.
LEMMA BlockAt ==
  ASSUME MetaInv, kernel \in Ready, NEW e \in Expert, NEW b \in 0 .. BlockCount[e] - 1
  PROVE  /\ Block(Slot(e) + b) = [expert |-> e, start |-> Start(e, b), end |-> Stop(e, b)]
         /\ Slot(e) + b \in 0 .. GridM - 1 /\ Slot(e) + b < Total
<1>1. CallOK /\ MetaShape /\ Experts \in Nat /\ Experts <= WordExperts
  BY CallNumbers DEF MetaInv, WordExperts
<1>2. Slot(e) + b \in 0 .. MaxBlocks - 1 /\ Slot(e) + b < Total
  BY <1>1, OwnSlots
<1>3. e \in 0 .. Experts - 1 /\ e \in 0 .. Experts /\ b \in Nat
  BY <1>1 DEF Expert
<1>4. At(meta.schedule, Slot(e) + b) = Word(b, e)
  <2>1. DOMAIN meta["schedule"] = 0 .. MaxBlocks - 1
    BY <1>1 DEF MetaShape, Buffers, BufferRange
  <2>2. meta["schedule"][Slot(e) + b] = Word(b, e)
    BY MetaReady
  <2>3. QED
    BY <1>2, <2>1, <2>2 DEF At
<1>5. BlockOf(Word(b, e)) = b /\ ExpertOf(Word(b, e)) = e
  BY <1>1, <1>3, WordGivesBack
<1>6. At(meta.offs, e) = First(e)
  <2>1. DOMAIN meta["offs"] = 0 .. Experts
    BY <1>1 DEF MetaShape, Buffers, BufferRange
  <2>2. meta["offs"][e] = First(e)
    BY <1>3, MetaReady
  <2>3. QED
    BY <1>3, <2>1, <2>2 DEF At
<1>7. At(meta.counts, e) = Size(e)
  <2>1. DOMAIN meta["counts"] = Expert
    BY <1>1 DEF MetaShape, Buffers, BufferRange
  <2>2. meta["counts"][e] = Size(e)
    BY MetaReady
  <2>3. QED
    BY <2>1, <2>2 DEF At
<1>8. Block(Slot(e) + b) = [expert |-> e, start |-> Start(e, b), end |-> Stop(e, b)]
  BY <1>4, <1>5, <1>6, <1>7 DEF Block, Start, Stop
<1>9. QED
  BY <1>1, <1>2, <1>8, GridSize

\* A program that does not return at once has a block to work on.
LEMMA Busy ==
  ASSUME MetaInv, kernel \in Ready, NEW g \in {"gemm1", "gemm2"},
         NEW pid \in 0 .. GridM * TilesOf[g] - 1
  PROVE  /\ TileOf(g, pid)[1] \in 0 .. GridM - 1 /\ TileOf(g, pid)[2] \in 0 .. TilesOf[g] - 1
         /\ Idle(g, pid) <=> Total <= TileOf(g, pid)[1]
         /\ ~Idle(g, pid) =>
              \E e \in Expert : \E b \in 0 .. BlockCount[e] - 1 : TileOf(g, pid)[1] = Slot(e) + b
<1>1. CallOK /\ MetaShape /\ Total \in Nat /\ GridM \in Nat
  BY Schedule, GridSize DEF MetaInv
<1>2. TileOf(g, pid) \in (0 .. GridM - 1) \X (0 .. TilesOf[g] - 1)
  BY <1>1, Tiles
<1> DEFINE s == TileOf(g, pid)[1]
<1>3. s \in 0 .. GridM - 1 /\ TileOf(g, pid)[2] \in 0 .. TilesOf[g] - 1
  BY <1>2
<1>4. meta.blockOffs[Experts] = Total
  <2>1. Experts \in 0 .. Experts
    BY <1>1, CallNumbers
  <2>2. QED
    BY <2>1, MetaReady DEF Total
<1>5. Idle(g, pid) <=> s >= Total
  BY <1>4 DEF Idle
<1> HIDE DEF s
<1>6. s \in Nat /\ (Idle(g, pid) <=> Total <= s)
  BY <1>1, <1>3, <1>5
<1>7. ~Idle(g, pid) => s < Total
  BY <1>1, <1>6
<1>8. ~Idle(g, pid) => \E e \in Expert : \E b \in 0 .. BlockCount[e] - 1 : s = Slot(e) + b
  BY <1>1, <1>6, <1>7, SlotHolds
<1>9. QED
  BY <1>3, <1>6, <1>8 DEF s

\* A row outside the batch is never loaded: what lies behind the end of a
\* block is the first row of the block again.
LEMMA LoadsInside ==
  ASSUME MetaInv PROVE LoadsExist
<1> SUFFICES ASSUME NEW g \in DOMAIN TilesOf, NEW p \in todo, p[1] = g, ~Idle(g, p[2]),
                    NEW i \in 0 .. GemmBlock - 1
             PROVE  LoadedRow(Block(TileOf(g, p[2])[1]), i) \in Rows
  BY DEF LoadsExist
<1>1. g \in {"gemm1", "gemm2"} /\ CallOK
  BY GemmAssumption DEF MetaInv
<1>2. kernel \in Ready /\ p \in Launched(kernel)
  <2>1. CASE kernel \in Ready
    BY <2>1 DEF MetaInv, Running
  <2>2. CASE kernel \notin Ready
    <3>1. p \in Grid(kernel) /\ kernel \in Path
      BY <2>2 DEF MetaInv, Running
    <3>2. p[1] = kernel
      BY <3>1 DEF Grid
    <3>3. QED
      BY <1>1, <3>1, <3>2 DEF Path, General, FusedPhases
  <2>3. QED
    BY <2>1, <2>2
<1>3. kernel = g /\ p[2] \in 0 .. GridM * TilesOf[g] - 1
  BY <1>1, <1>2 DEF Ready, Launched
<1>4. PICK e \in Expert : \E b \in 0 .. BlockCount[e] - 1 : TileOf(g, p[2])[1] = Slot(e) + b
  BY <1>1, <1>2, <1>3, Busy
<1>5. PICK b \in 0 .. BlockCount[e] - 1 : TileOf(g, p[2])[1] = Slot(e) + b
  BY <1>4
<1>6. Block(TileOf(g, p[2])[1]) = [expert |-> e, start |-> Start(e, b), end |-> Stop(e, b)]
  BY <1>2, <1>5, BlockAt
<1>7. LoadedRow(Block(TileOf(g, p[2])[1]), i) =
        IF Start(e, b) + i < Stop(e, b) THEN Start(e, b) + i ELSE Start(e, b)
  BY <1>6 DEF LoadedRow
<1>8. /\ Start(e, b) \in Int /\ Stop(e, b) \in Int /\ Start(e, b) < Stop(e, b)
      /\ i \in Nat
  BY <1>1, BlockRows, CallNumbers
<1>9. LoadedRow(Block(TileOf(g, p[2])[1]), i) \in Start(e, b) .. Stop(e, b) - 1
  BY <1>7, <1>8
<1>10. QED
  BY <1>1, <1>9, RowsOfBlock

\* The GEMMs load rows that exist and no others, for every routing: the
\* schedule that sends them there is proved right, not assumed so.
THEOREM LoadsStayInside == Spec => []LoadsExist
<1>1. MetaInv => LoadsExist
  BY LoadsInside
<1>2. QED
  BY <1>1, MetaInvariant, PTL

-----------------------------------------------------------------------------
(* Which rows are whose. *)

DataBuffers == {"rows", "hidden", "acts", "down", "out"}

\* The rows that token t was routed to are the ones that its row is sorted to.
LEMMA TokenRows ==
  ASSUME CallOK, NEW t \in Tokens, NEW k \in Choices
  PROVE  /\ t * TopK + k \in Rows /\ Rank(t * TopK + k) \in Rows
         /\ TokenOf(Rank(t * TopK + k)) = t /\ ExpertAt(Rank(t * TopK + k)) = ids[t * TopK + k]
<1> DEFINE N == shape[1]
           K == TopK
           x == K * t
<1>1. N \in Nat /\ K \in Nat \ {0} /\ n = N * K /\ n \in Nat /\ t \in 0 .. N - 1 /\ k \in 0 .. K - 1
  BY CallNumbers DEF TopK, Tokens, Choices
<1> HIDE DEF N, K
<1>2. x \in Int /\ 0 <= x /\ t * K = x
  BY <1>1
<1>3. x + K <= n
  <2>1. t + 1 \in Int /\ t + 1 <= N
    BY <1>1
  <2>2. K * (t + 1) <= K * N
    BY <1>1, <2>1, Scaled
  <2>3. K * (t + 1) = x + K /\ K * N = n
    BY <1>1
  <2>4. QED
    BY <2>2, <2>3
<1>4. (x + k) \div K = t
  BY <1>1, Remainder
<1> HIDE DEF x
<1>5. x + k \in Rows
  BY <1>1, <1>2, <1>3 DEF Rows
<1>6. Rank(x + k) \in Rows /\ RowAt(Rank(x + k)) = x + k
  BY <1>5, Places
<1>7. TokenOf(Rank(x + k)) = t /\ ExpertAt(Rank(x + k)) = ids[x + k]
  BY <1>4, <1>6 DEF TokenOf, ExpertAt, K
<1>8. QED
  BY <1>2, <1>5, <1>6, <1>7 DEF K

\* Every row belongs to one of the choices of its token.
LEMMA RowsToken ==
  ASSUME CallOK, NEW r \in Rows
  PROVE  /\ TokenOf(r) \in Tokens
         /\ \E k \in Choices : r = Rank(TokenOf(r) * TopK + k)
<1> DEFINE N == shape[1]
           K == TopK
           x == RowAt(r)
           t == x \div K
           k == x - K * t
<1>1. N \in Nat /\ K \in Nat \ {0} /\ n = N * K /\ n \in Nat
  BY CallNumbers DEF TopK
<1>2. x \in 0 .. n - 1 /\ Rank(x) = r
  BY Places DEF Rows
<1>3. TokenOf(r) = t
  BY DEF TokenOf
<1> HIDE DEF N, K, x
<1>4. t \in Int /\ t >= 0 /\ K * t <= x /\ x < K * t + K
  BY <1>1, <1>2, Quotient
<1> HIDE DEF t
<1>5. t < N
  <2>1. K * t < K * N
    <3> DEFINE p == K * t
               q == K * N
    <3>1. q = n /\ p \in Int /\ p <= x
      BY <1>1, <1>4
    <3> HIDE DEF p, q
    <3>2. p < q
      BY <1>1, <1>2, <3>1
    <3>3. QED
      BY <3>2 DEF p, q
  <2>2. QED
    BY <1>1, <1>4, <2>1, Scaled
<1>6. t \in Tokens
  BY <1>1, <1>4, <1>5 DEF Tokens, N
<1>7. k \in 0 .. K - 1 /\ t * K + k = x
  <2> DEFINE p == K * t
  <2>1. p \in Int /\ t * K = p
    BY <1>1, <1>4
  <2> HIDE DEF p
  <2>2. k = x - p /\ p <= x /\ x < p + K
    BY <1>4 DEF p
  <2> HIDE DEF k
  <2>3. QED
    BY <1>1, <1>2, <2>1, <2>2
<1> HIDE DEF k
<1>8. k \in Choices
  BY <1>7 DEF Choices, K
<1>9. r = Rank(t * TopK + k)
  BY <1>2, <1>7 DEF K
<1>10. QED
  BY <1>3, <1>6, <1>8, <1>9

\* The slot of every row is one of the schedule's.
LEMMA RowSlots ==
  ASSUME CallOK, MetaShape, NEW r \in Rows
  PROVE  SlotAt(r) \in 0 .. GridM - 1 /\ SlotAt(r) \in Nat /\ SlotAt(r) < Total
<1>1. ExpertAt(r) \in Expert /\ BlockIn(r) \in 0 .. BlockCount[ExpertAt(r)] - 1
  BY BlockOfRow
<1>2. SlotAt(r) \in 0 .. MaxBlocks - 1 /\ SlotAt(r) < Total
  BY <1>1, OwnSlots DEF SlotAt
<1>3. QED
  BY <1>2, GridSize

\* What is said of the rows of a call stays true as long as the call does.
LEMMA SameRows ==
  ASSUME UNCHANGED <<shape, ids>>
  PROVE  /\ Tokens' = Tokens /\ TopK' = TopK /\ Choices' = Choices
         /\ \A g : Cells(g)' = Cells(g)
         /\ \A r : TokenOf(r)' = TokenOf(r) /\ ExpertAt(r)' = ExpertAt(r) /\ SlotAt(r)' = SlotAt(r)
         /\ \A b, r : Value(b, r)' = Value(b, r)
BY DEF Tokens, TopK, Choices, Cells, Rows, n, TokenOf, ExpertAt, SlotAt, BlockIn, Value, RowAt,
   Rank, Slot, First, BlockCount, Size, BuildBlock, GemmBlock, Fused

\* The grid of the GEMMs does not change while the metadata keeps its shape.
LEMMA SameTiles ==
  ASSUME MetaInv, MetaInv', UNCHANGED <<shape, ids>>
  PROVE  GridM' = GridM /\ \A g, pid : TileOf(g, pid)' = TileOf(g, pid)
<1>1. MaxBlocks \in Nat /\ MaxBlocks' = MaxBlocks
  BY CallNumbers, SameCall DEF MetaInv
<1>2. DOMAIN meta["schedule"] = 0 .. MaxBlocks - 1 /\ DOMAIN meta'["schedule"] = 0 .. MaxBlocks - 1
  BY <1>1 DEF MetaInv, MetaShape, Buffers, BufferRange
<1>3. GridM' = GridM
  BY <1>2 DEF GridM
<1>4. QED
  BY <1>3 DEF TileOf

-----------------------------------------------------------------------------
(* What a step leaves of the row buffers. *)

\* What was gathered stays right when a step leaves the rows alone; the lemmas
\* that follow say it of the other buffers.
LEMMA RowsStay ==
  ASSUME CallOK, UNCHANGED <<shape, ids>>, RowsRight, data'["rows"] = data["rows"],
         \A q \in Tokens : Stored("gather", q)' => Stored("gather", q)
  PROVE  RowsRight'
<1>1. Rows' = Rows /\ \A r : TokenOf(r)' = TokenOf(r) /\ Value("rows", r)' = Value("rows", r)
  BY SameCall, SameRows
<1>2. ASSUME NEW r \in Rows PROVE TokenOf(r) \in Tokens
  BY RowsToken
<1>3. ASSUME NEW r \in Rows
      PROVE  /\ data'["rows"][r] \in {Unset, Value("rows", r)}
             /\ Stored("gather", TokenOf(r))' => data'["rows"][r] = Value("rows", r)
  <2>1. Stored("gather", TokenOf(r))' => Stored("gather", TokenOf(r))
    <3> DEFINE q == TokenOf(r)
    <3>1. q' = q /\ q \in Tokens
      BY <1>1, <1>2
    <3> HIDE DEF q
    <3>2. Stored("gather", q)' => Stored("gather", q)
      BY <3>1
    <3>3. QED
      BY <1>1, <3>1, <3>2 DEF q, Stored
  <2>2. QED
    BY <2>1 DEF RowsRight
<1>4. QED
  BY <1>1, <1>3 DEF RowsRight, Unset

\* The output of a GEMM.
LEMMA GemmStays ==
  ASSUME NEW g \in {"gemm1", "gemm2"}, NEW b, UNCHANGED <<shape, ids>>,
         GridM' = GridM, \A pid : TileOf(g, pid)' = TileOf(g, pid),
         GemmRight(g, b), data'[b] = data[b],
         \A pid \in 0 .. GridM * TilesOf[g] - 1 : Stored(g, pid)' => Stored(g, pid)
  PROVE  GemmRight(g, b)'
<1>1. Rows' = Rows /\ \A r : SlotAt(r)' = SlotAt(r) /\ Value(b, r)' = Value(b, r)
  BY SameCall, SameRows
<1>2. QED
  BY <1>1 DEF GemmRight, Unset

\* The activation's tiles hold all rows.
LEMMA ActTiles ==
  ASSUME CallOK, NEW r \in Rows
  PROVE  r \div ActRows \in 0 .. CeilDiv(n, ActRows) - 1
<1> DEFINE q == r \div ActRows
<1>1. n \in Nat /\ ActRows \in Nat \ {0} /\ r \in 0 .. n - 1
  BY CallNumbers, GemmAssumption DEF Rows
<1>2. q \in Nat /\ ActRows * q <= r
  <2>1. q \in Int /\ q >= 0 /\ ActRows * q <= r
    BY <1>1, Quotient
  <2>2. QED
    BY <2>1
<1> HIDE DEF q
<1>3. ActRows * q < n
  <2> DEFINE p == ActRows * q
  <2>1. p \in Int /\ p <= r
    BY <1>1, <1>2
  <2> HIDE DEF p
  <2>2. p < n
    BY <1>1, <2>1
  <2>3. QED
    BY <2>2 DEF p
<1>4. q < CeilDiv(n, ActRows) /\ CeilDiv(n, ActRows) \in Nat
  BY <1>1, <1>2, <1>3, CeilDivFits
<1>5. QED
  BY <1>2, <1>4 DEF q

\* The activated rows.
LEMMA ActsStay ==
  ASSUME CallOK, UNCHANGED <<shape, ids>>, ActsRight, data'["acts"] = data["acts"],
         \A q \in 0 .. CeilDiv(n, ActRows) - 1 : Stored("act", q)' => Stored("act", q)
  PROVE  ActsRight'
<1>1. Rows' = Rows /\ \A r : Value("acts", r)' = Value("acts", r)
  BY SameCall, SameRows
<1>2. ASSUME NEW r \in Rows, Stored("act", r \div ActRows)'
      PROVE  data'["acts"][r] = Value("acts", r)
  <2>1. r \div ActRows \in 0 .. CeilDiv(n, ActRows) - 1
    BY ActTiles
  <2>2. Stored("act", r \div ActRows)
    BY <1>2, <2>1
  <2>3. QED
    BY <2>2 DEF ActsRight
<1>3. QED
  BY <1>1, <1>2 DEF ActsRight

\* The combined output.
LEMMA OutStays ==
  ASSUME UNCHANGED <<shape, ids>>, OutRight, data'["out"] = data["out"],
         \A q \in Tokens : Stored("combine", q) => Stored("combine", q)'
  PROVE  OutRight'
<1>1. Tokens' = Tokens /\ Choices' = Choices
  BY SameRows
<1>2. QED
  BY <1>1 DEF OutRight, Unset

\* A step that leaves the row buffers alone, and ends or forgets no program.
LEMMA DataStays ==
  ASSUME MetaInv, MetaInv', DataInv, UNCHANGED <<shape, ids, data>>,
         \A k \in {"gather", "gemm1", "act", "gemm2", "combine"} : \A p :
           <<k, p>> \in Launched(k) => (Stored(k, p)' <=> Stored(k, p))
  PROVE  DataInv'
<1>1. CallOK /\ GridM' = GridM /\ \A g, pid : TileOf(g, pid)' = TileOf(g, pid)
  BY SameTiles DEF MetaInv
<1>2. DataShape'
  <2>1. Rows' = Rows /\ Tokens' = Tokens /\ \A g : Cells(g)' = Cells(g)
    BY SameCall, SameRows
  <2>2. QED
    BY <2>1 DEF DataInv, DataShape
<1>3. RowsRight'
  <2>1. \A q \in Tokens : Stored("gather", q)' => Stored("gather", q)
    BY DEF Launched
  <2>2. QED
    BY <1>1, <2>1, RowsStay DEF DataInv
<1>4. ASSUME NEW g \in {"gemm1", "gemm2"}, NEW b, GemmRight(g, b) PROVE GemmRight(g, b)'
  <2>1. \A pid \in 0 .. GridM * TilesOf[g] - 1 : <<g, pid>> \in Launched(g)
    BY DEF Launched
  <2>2. \A pid \in 0 .. GridM * TilesOf[g] - 1 : Stored(g, pid)' => Stored(g, pid)
    BY <2>1
  <2>3. QED
    BY <1>1, <1>4, <2>2, GemmStays
<1>5. ActsRight'
  <2>1. \A q \in 0 .. CeilDiv(n, ActRows) - 1 : Stored("act", q)' => Stored("act", q)
    BY DEF Launched
  <2>2. QED
    BY <1>1, <2>1, ActsStay DEF DataInv
<1>6. OutRight'
  <2>1. \A q \in Tokens : Stored("combine", q) => Stored("combine", q)'
    BY DEF Launched
  <2>2. QED
    BY <2>1, OutStays DEF DataInv
<1>7. QED
  BY <1>2, <1>3, <1>4, <1>5, <1>6 DEF DataInv

\* The next launch of the forward pass: all programs of the one before have
\* ended, and none of its own.
LEMMA LaunchData ==
  ASSUME MetaInv, DataInv, Launch
  PROVE  DataInv'
<1>1. todo = {} /\ todo' = Launched(kernel') /\ UNCHANGED <<shape, ids, meta, probe, scan, data>>
  BY LaunchReady
<1>2. MetaInv'
  BY LaunchMeta
<1>3. PICK i \in 1 .. 6 : kernel = Launches[i] /\ kernel' = Launches[i + 1]
  BY DEF Launch, Launches
<1>4. ASSUME NEW k \in {"gather", "gemm1", "act", "gemm2", "combine"}, NEW p,
             <<k, p>> \in Launched(k)
      PROVE  Stored(k, p)' <=> Stored(k, p)
  <2>1. kernel' = k => <<k, p>> \in todo'
    BY <1>1, <1>4
  <2>2. kernel' \in Behind[k] <=> kernel \in Behind[k] \/ kernel = k
    BY <1>3 DEF Launches, Behind
  <2>3. kernel \in Behind[k] \/ kernel = k => kernel' # k
    BY <1>3 DEF Launches, Behind
  <2>4. QED
    BY <1>1, <2>1, <2>2, <2>3 DEF Stored
<1>5. QED
  BY <1>1, <1>2, <1>4, DataStays

\* The preprocess comes before all of it.
LEMMA PreData ==
  ASSUME MetaInv, DataInv, PreNext, UNCHANGED data
  PROVE  DataInv'
<1>1. NextLaunch \/ GeneralStep \/ FusedStep
  BY DEF PreNext, GeneralStep, FusedStep
<1>2. kernel \in Path /\ kernel' \in Path \cup {"ready"} /\ UNCHANGED <<shape, ids>>
  <2>1. CASE NextLaunch
    BY <2>1 DEF NextLaunch, MetaInv, Running, Path, Ready, After, General, FusedPhases
  <2>2. CASE GeneralStep
    BY <2>2, OwnPath DEF MetaInv, Path
  <2>3. CASE FusedStep
    BY <2>3, OwnPath DEF MetaInv, Path
  <2>4. QED
    BY <1>1, <2>1, <2>2, <2>3
<1>3. MetaInv'
  BY PreMeta
<1>4. ASSUME NEW k \in {"gather", "gemm1", "act", "gemm2", "combine"}, NEW p
      PROVE  ~Stored(k, p) /\ ~Stored(k, p)'
  BY <1>2 DEF Stored, Behind, Path, General, FusedPhases
<1>5. QED
  BY <1>2, <1>3, <1>4, DataStays

-----------------------------------------------------------------------------
(* The programs of the forward pass. *)

\* What a program may do to the rows: set a cell to what belongs there.
Grows ==
  /\ \A r \in Rows : data'["rows"][r] \in {data["rows"][r], Value("rows", r)}
  /\ \A r \in Rows : \A j \in 0 .. TilesOf["gemm1"] - 1 :
       data'["hidden"][<<r, j>>] \in {data["hidden"][<<r, j>>], Value("hidden", r)}
  /\ \A r \in Rows : \A j \in 0 .. TilesOf["gemm2"] - 1 :
       data'["down"][<<r, j>>] \in {data["down"][<<r, j>>], Value("down", r)}

\* A store into a row buffer, as StoreEffect.
LEMMA DataStore ==
  ASSUME NEW b \in DataBuffers, NEW w, StoresData(b, w), DataShape, UNCHANGED <<shape, ids>>,
         DOMAIN w \subseteq DOMAIN data[b]
  PROVE  /\ DataShape'
         /\ \A c \in DataBuffers : c # b => data'[c] = data[c]
         /\ \A i \in DOMAIN data[b] :
              data'[b][i] = IF i \in DOMAIN w THEN w[i] ELSE data[b][i]
         /\ data'[b] = [i \in DOMAIN data[b] |-> IF i \in DOMAIN w THEN w[i] ELSE data[b][i]]
<1>1. DOMAIN data = DataBuffers
  BY DEF DataShape, DataBuffers
<1>2. data' = [data EXCEPT ![b] = Put(data[b], w)]
  BY DEF StoresData
<1>3. DOMAIN data' = DataBuffers /\ data'[b] = Put(data[b], w)
  BY <1>1, <1>2
<1>4. \A c \in DataBuffers : c # b => data'[c] = data[c]
  BY <1>1, <1>2
<1>5. DOMAIN data[b] \cup DOMAIN w = DOMAIN data[b]
  OBVIOUS
<1>6. data'[b] = [i \in DOMAIN data[b] |-> IF i \in DOMAIN w THEN w[i] ELSE data[b][i]]
  BY <1>3, <1>5 DEF Put
<1>7. \A c \in DataBuffers : DOMAIN data'[c] = DOMAIN data[c]
  BY <1>4, <1>6
<1>8. DataShape'
  <2>1. Rows' = Rows /\ Tokens' = Tokens /\ \A g : Cells(g)' = Cells(g)
    BY SameCall, SameRows
  <2>2. data'["out"] = [t \in Tokens |-> data'["out"][t]]
    <3>1. CASE b = "out"
      <4>1. DOMAIN data["out"] = Tokens
        BY DEF DataShape
      <4>2. QED
        BY <1>6, <3>1, <4>1
    <3>2. CASE b # "out"
      BY <1>4, <3>2 DEF DataShape, DataBuffers
    <3>3. QED
      BY <3>1, <3>2
  <2>3. QED
    BY <1>3, <1>7, <2>1, <2>2 DEF DataShape, DataBuffers
<1>9. QED
  BY <1>4, <1>6, <1>8

\* The end of a program of the forward pass.
LEMMA DataProgramEnds ==
  ASSUME NEW k, NEW p, Ends(k, p), Settled, Running
  PROVE  /\ kernel = k /\ \A j, q : Stored(j, q) => Stored(j, q)'
         /\ \A j, q : Stored(j, q)' => Stored(j, q) \/ (j = k /\ q = p)
<1>1. <<k, p>> \in todo /\ todo' = todo \ {<<k, p>>} /\ kernel' = kernel
  BY DEF Ends, Settled
<1>2. kernel = k
  BY <1>1, InLaunch
<1>3. ASSUME NEW j, NEW q, Stored(j, q) PROVE Stored(j, q)'
  BY <1>1, <1>3 DEF Stored
<1>4. ASSUME NEW j, NEW q, Stored(j, q)' PROVE Stored(j, q) \/ (j = k /\ q = p)
  BY <1>1, <1>4 DEF Stored
<1>5. QED
  BY <1>2, <1>3, <1>4

\* A program of _pre_reorder_kernel.
LEMMA GatherStep ==
  ASSUME MetaInv, MetaInv', DataInv, NEW t \in Tokens, Gather(t)
  PROVE  DataInv' /\ Grows /\ data'["out"] = data["out"]
<1> DEFINE W == {meta.src2dst[t * TopK + k] : k \in Choices}
           w == [d \in W |-> <<t>>]
<1>1. CallOK /\ Running /\ DataShape /\ Ends("gather", t) /\ StoresData("rows", w) /\ Settled
  BY DEF MetaInv, DataInv, Gather
<1>2. UNCHANGED <<shape, ids, meta, kernel>>
  BY <1>1 DEF Settled
<1>3. /\ kernel = "gather" /\ \A j, q : Stored(j, q) => Stored(j, q)'
      /\ \A j, q : Stored(j, q)' => Stored(j, q) \/ (j = "gather" /\ q = t)
  BY <1>1, DataProgramEnds
<1>4. W = {Rank(t * TopK + k) : k \in Choices}
  <2>1. kernel \in Ready
    BY <1>3 DEF Ready
  <2>2. \A k \in Choices : meta.src2dst[t * TopK + k] = Rank(t * TopK + k)
    BY <1>1, <2>1, MetaReady, TokenRows
  <2>3. QED
    BY <2>2
<1>5. \A d \in W : d \in Rows /\ TokenOf(d) = t
  BY <1>1, <1>4, TokenRows
<1>6. ASSUME NEW r \in Rows PROVE TokenOf(r) \in Tokens /\ (TokenOf(r) = t => r \in W)
  BY <1>1, <1>4, RowsToken
<1>7. DOMAIN w = W /\ \A d \in W : w[d] = Value("rows", d)
  BY <1>5 DEF Value
<1>8. DOMAIN data["rows"] = Rows
  BY <1>1 DEF DataShape
<1> HIDE DEF w, W
<1>9. /\ DataShape' /\ \A c \in DataBuffers : c # "rows" => data'[c] = data[c]
      /\ \A r \in Rows : data'["rows"][r] = IF r \in W THEN w[r] ELSE data["rows"][r]
  <2>1. "rows" \in DataBuffers /\ DOMAIN w \subseteq DOMAIN data["rows"]
    BY <1>5, <1>7, <1>8 DEF DataBuffers
  <2>2. QED
    BY <1>1, <1>2, <1>7, <1>8, <2>1, DataStore
<1>10. \A r \in Rows : data'["rows"][r] = IF r \in W THEN Value("rows", r) ELSE data["rows"][r]
  BY <1>7, <1>9
<1>11. /\ data'["hidden"] = data["hidden"] /\ data'["acts"] = data["acts"]
       /\ data'["down"] = data["down"] /\ data'["out"] = data["out"]
  BY <1>9 DEF DataBuffers
<1>12. RowsRight'
  <2>1. Rows' = Rows /\ \A r : TokenOf(r)' = TokenOf(r) /\ Value("rows", r)' = Value("rows", r)
    BY <1>2, SameCall, SameRows
  <2>2. ASSUME NEW r \in Rows
        PROVE  /\ data'["rows"][r] \in {Unset, Value("rows", r)}
               /\ Stored("gather", TokenOf(r))' => data'["rows"][r] = Value("rows", r)
    <3>1. Stored("gather", TokenOf(r))' => Stored("gather", TokenOf(r)) \/ TokenOf(r) = t
      BY <1>3, <2>1 DEF Stored
    <3>2. /\ data["rows"][r] \in {Unset, Value("rows", r)}
          /\ Stored("gather", TokenOf(r)) => data["rows"][r] = Value("rows", r)
      BY DEF DataInv, RowsRight
    <3>3. QED
      BY <1>6, <1>10, <3>1, <3>2
  <2>3. QED
    BY <2>1, <2>2 DEF RowsRight, Unset
<1>13. /\ GemmRight("gemm1", "hidden")' /\ GemmRight("gemm2", "down")' /\ ActsRight' /\ OutRight'
  <2>1. GridM' = GridM /\ \A g, pid : TileOf(g, pid)' = TileOf(g, pid)
    BY <1>2, SameTiles
  <2>2. \A k, q : k # "gather" => (Stored(k, q)' => Stored(k, q))
    BY <1>3
  <2>3. GemmRight("gemm1", "hidden")' /\ GemmRight("gemm2", "down")'
    BY <1>2, <1>11, <2>1, <2>2, GemmStays DEF DataInv
  <2>4. ActsRight'
    BY <1>1, <1>2, <1>11, <2>2, ActsStay DEF DataInv
  <2>5. OutRight'
    BY <1>2, <1>3, <1>11, OutStays DEF DataInv
  <2>6. QED
    BY <2>3, <2>4, <2>5
<1>14. Grows
  BY <1>10, <1>11 DEF Grows
<1>15. QED
  BY <1>9, <1>11, <1>12, <1>13, <1>14 DEF DataInv

\* A history grows at its end.
LEMMA Longer ==
  ASSUME NEW t, NEW e, NEW f
  PROVE  Append(<<t>>, e) = <<t, e>> /\ Append(<<t, e>>, f) = <<t, e, f>>
<1> DEFINE S == {t, e, f}
           a == Append(<<t>>, e)
           b == Append(<<t, e>>, f)
<1>1. /\ <<t>> \in Seq(S) /\ <<t, e>> \in Seq(S) /\ <<t, e, f>> \in Seq(S) /\ e \in S /\ f \in S
      /\ Len(<<t>>) = 1 /\ Len(<<t, e>>) = 2 /\ Len(<<t, e, f>>) = 3
  OBVIOUS
<1>2. /\ <<t>>[1] = t /\ <<t, e>>[1] = t /\ <<t, e>>[2] = e
      /\ <<t, e, f>>[1] = t /\ <<t, e, f>>[2] = e /\ <<t, e, f>>[3] = f
  OBVIOUS
<1>3. a \in Seq(S) /\ Len(a) = 2 /\ a[1] = t /\ a[2] = e
  BY <1>1, <1>2, AppendProperties
<1>4. b \in Seq(S) /\ Len(b) = 3 /\ b[1] = t /\ b[2] = e /\ b[3] = f
  BY <1>1, <1>2, AppendProperties
<1>5. /\ \A i \in 1 .. 2 : a[i] = <<t, e>>[i]
      /\ \A i \in 1 .. 3 : b[i] = <<t, e, f>>[i]
  BY <1>2, <1>3, <1>4
<1> HIDE DEF a, b, S
<1>6. a = <<t, e>>
  BY <1>1, <1>3, <1>5, SeqEqual
<1>7. b = <<t, e, f>>
  BY <1>1, <1>4, <1>5, SeqEqual
<1>8. QED
  BY <1>6, <1>7 DEF a, b

\* What a GEMM reads has been stored: the launch before it has ended.
LEMMA InputHeld ==
  ASSUME MetaInv, DataInv, NEW g \in {"gemm1", "gemm2"}, kernel = g, NEW r \in Rows
  PROVE  Times(Held(Input[g], r), ExpertAt(r)) = Value(Output[g], r)
<1>1. CASE g = "gemm1"
  <2>1. Stored("gather", TokenOf(r))
    BY <1>1 DEF Stored, Behind
  <2>2. data["rows"][r] = <<TokenOf(r)>> /\ r \in DOMAIN data["rows"]
    BY <2>1 DEF DataInv, DataShape, RowsRight, Value
  <2>3. Held(Input[g], r) = <<TokenOf(r)>>
    BY <1>1, <2>2 DEF Held, Input
  <2>4. Value(Output[g], r) = <<TokenOf(r), ExpertAt(r)>>
    BY <1>1 DEF Output, Value
  <2>5. Held(Input[g], r) # Unset
    BY <2>3 DEF Unset
  <2>6. QED
    BY <2>3, <2>4, <2>5, Longer DEF Times
<1>2. CASE g = "gemm2"
  <2>1. Stored("act", r \div ActRows)
    BY <1>2 DEF Stored, Behind
  <2>2. data["acts"][r] = <<TokenOf(r), ExpertAt(r)>> /\ r \in DOMAIN data["acts"]
    BY <2>1 DEF DataInv, DataShape, ActsRight, Value
  <2>3. Held(Input[g], r) = <<TokenOf(r), ExpertAt(r)>>
    BY <1>2, <2>2 DEF Held, Input
  <2>4. Value(Output[g], r) = <<TokenOf(r), ExpertAt(r), ExpertAt(r)>>
    BY <1>2 DEF Output, Value
  <2>5. Held(Input[g], r) # Unset
    BY <2>3 DEF Unset
  <2>6. QED
    BY <2>3, <2>4, <2>5, Longer DEF Times
<1>3. QED
  BY <1>1, <1>2

\* What a program of a GEMM stores: the tile it was given, of the rows that
\* the schedule puts there, and of nobody else's.
LEMMA GemmStores ==
  ASSUME MetaInv, DataInv, NEW g \in {"gemm1", "gemm2"},
         NEW pid \in 0 .. GridM * TilesOf[g] - 1, Gemm(g, pid)
  PROVE  /\ DataShape' /\ \A c \in DataBuffers : c # Output[g] => data'[c] = data[c]
         /\ \A r \in Rows : \A j \in 0 .. TilesOf[g] - 1 :
              /\ data'[Output[g]][<<r, j>>] \in {data[Output[g]][<<r, j>>], Value(Output[g], r)}
              /\ TileOf(g, pid) = <<SlotAt(r), j>> =>
                   data'[Output[g]][<<r, j>>] = Value(Output[g], r)
<1>1. CallOK /\ Running /\ MetaShape /\ DataShape /\ Ends(g, pid) /\ Settled
  BY DEF MetaInv, DataInv, Gemm
<1>2. UNCHANGED <<shape, ids, meta, kernel>>
  BY <1>1 DEF Settled
<1>3. kernel = g /\ kernel \in Ready
  BY <1>1, DataProgramEnds DEF Ready
<1>4. Output[g] \in DataBuffers /\ DOMAIN data[Output[g]] = Cells(g)
  BY <1>1 DEF Output, DataBuffers, DataShape
<1>5. CASE Idle(g, pid)
  <2>1. data' = data
    BY <1>5 DEF Gemm
  <2>2. DataShape'
    <3>1. Rows' = Rows /\ Tokens' = Tokens /\ \A k : Cells(k)' = Cells(k)
      BY <1>2, SameCall, SameRows
    <3>2. QED
      BY <1>1, <2>1, <3>1 DEF DataShape
  <2>3. ASSUME NEW r \in Rows, NEW j PROVE TileOf(g, pid) # <<SlotAt(r), j>>
    <3>1. Total <= TileOf(g, pid)[1]
      BY <1>3, <1>5, Busy
    <3>2. SlotAt(r) \in Nat /\ SlotAt(r) < Total /\ Total \in Nat
      BY <1>1, RowSlots, Schedule
    <3> DEFINE s == SlotAt(r)
    <3> HIDE DEF s
    <3>3. ASSUME TileOf(g, pid) = <<s, j>> PROVE FALSE
      <4>1. TileOf(g, pid)[1] = s
        BY <3>3
      <4>2. QED
        BY <3>1, <3>2, <4>1 DEF s
    <3>4. QED
      BY <3>3 DEF s
  <2>4. QED
    BY <2>1, <2>2, <2>3
<1>6. CASE ~Idle(g, pid)
  <2> DEFINE s  == TileOf(g, pid)[1]
             jj == TileOf(g, pid)[2]
  <2>1. s \in 0 .. GridM - 1 /\ jj \in 0 .. TilesOf[g] - 1
    BY <1>3, Busy
  <2>2. PICK e \in Expert : \E b \in 0 .. BlockCount[e] - 1 : s = Slot(e) + b
    BY <1>3, <1>6, Busy
  <2>3. PICK b \in 0 .. BlockCount[e] - 1 : s = Slot(e) + b
    BY <2>2
  <2> DEFINE first == Start(e, b)
             last  == Stop(e, b)
             in    == {<<first + i, jj>> : i \in {i \in 0 .. GemmBlock - 1 : first + i < last}}
             w     == [c \in in |->
                        Times(Held(Input[g], LoadedRow(Block(s), c[1] - first)), e)]
  <2>4. Block(s) = [expert |-> e, start |-> first, end |-> last]
    BY <1>3, <2>3, BlockAt
  <2>5. StoresData(Output[g], w)
    BY <1>6, <2>4 DEF Gemm
  <2>6. /\ first \in Int /\ last \in Int /\ first < last /\ last <= first + GemmBlock
        /\ GemmBlock \in Nat
    BY <1>1, BlockRows, CallNumbers
  <2>7. \A r \in first .. last - 1 : r \in Rows /\ ExpertAt(r) = e
    BY <1>1, RowsOfBlock
  <2>8. DOMAIN w = in
    OBVIOUS
  <2>9. ASSUME NEW c \in in
        PROVE  c[1] \in first .. last - 1 /\ c = <<c[1], jj>>
               /\ w[c] = Value(Output[g], c[1])
    <3>1. PICK i \in 0 .. GemmBlock - 1 : first + i < last /\ c = <<first + i, jj>>
      OBVIOUS
    <3> DEFINE r == first + i
    <3>2. c[1] = r /\ r \in first .. last - 1 /\ r - first = i
      BY <2>6, <3>1
    <3>3. LoadedRow(Block(s), c[1] - first) = r
      <4>1. LoadedRow(Block(s), i) = IF first + i < last THEN first + i ELSE first
        BY <2>4 DEF LoadedRow
      <4>2. c[1] - first = i
        BY <3>2
      <4>3. QED
        BY <3>1, <4>1, <4>2
    <3>4. w[c] = Times(Held(Input[g], r), e)
      BY <3>3
    <3>5. r \in Rows /\ ExpertAt(r) = e
      BY <2>7, <3>2
    <3> HIDE DEF r, w, first, last
    <3>6. w[c] = Value(Output[g], r)
      BY <1>3, <3>4, <3>5, InputHeld
    <3>7. QED
      BY <3>1, <3>2, <3>6 DEF r
  <2>10. ASSUME NEW r \in first .. last - 1 PROVE <<r, jj>> \in in
    <3> DEFINE i == r - first
    <3>1. i \in 0 .. GemmBlock - 1 /\ first + i < last /\ first + i = r
      BY <2>6, <2>10
    <3> HIDE DEF i
    <3>2. QED
      BY <3>1
  <2> HIDE DEF w, in, first, last
  <2>11. in \subseteq Cells(g)
    <3>1. ASSUME NEW c \in in PROVE c \in Cells(g)
      <4> HIDE DEF jj
      <4>1. c[1] \in Rows /\ c = <<c[1], jj>>
        BY <2>7, <2>9
      <4>2. QED
        BY <2>1, <4>1 DEF Cells
    <3>2. QED
      BY <3>1
  <2>12. /\ DataShape' /\ \A c \in DataBuffers : c # Output[g] => data'[c] = data[c]
         /\ \A c \in Cells(g) :
              data'[Output[g]][c] = IF c \in in THEN w[c] ELSE data[Output[g]][c]
    BY <1>1, <1>2, <1>4, <2>5, <2>8, <2>11, DataStore
  <2>13. ASSUME NEW r \in Rows, NEW j \in 0 .. TilesOf[g] - 1
         PROVE  /\ data'[Output[g]][<<r, j>>] \in {data[Output[g]][<<r, j>>], Value(Output[g], r)}
                /\ TileOf(g, pid) = <<SlotAt(r), j>> =>
                     data'[Output[g]][<<r, j>>] = Value(Output[g], r)
    <3> DEFINE c == <<r, j>>
    <3>1. c \in Cells(g) /\ c[1] = r
      BY DEF Cells
    <3>2. data'[Output[g]][c] = IF c \in in THEN w[c] ELSE data[Output[g]][c]
      BY <2>12, <3>1
    <3>3. c \in in => w[c] = Value(Output[g], r)
      BY <2>9, <3>1
    <3>4. ASSUME TileOf(g, pid) = <<SlotAt(r), j>> PROVE c \in in
      <4>1. s = SlotAt(r) /\ jj = j
        BY <3>4
      <4>2. /\ ExpertAt(r) \in Expert /\ BlockIn(r) \in 0 .. BlockCount[ExpertAt(r)] - 1
            /\ r \in Start(ExpertAt(r), BlockIn(r)) .. Stop(ExpertAt(r), BlockIn(r)) - 1
        BY <1>1, BlockOfRow
      <4>3. Block(s) = [expert |-> ExpertAt(r), start |-> Start(ExpertAt(r), BlockIn(r)),
                        end |-> Stop(ExpertAt(r), BlockIn(r))]
        BY <1>3, <4>1, <4>2, BlockAt DEF SlotAt
      <4>4. first = Start(ExpertAt(r), BlockIn(r)) /\ last = Stop(ExpertAt(r), BlockIn(r))
        BY <2>4, <4>3
      <4>5. r \in first .. last - 1
        BY <4>2, <4>4
      <4>6. QED
        BY <2>10, <4>1, <4>5
    <3> HIDE DEF c
    <3>5. QED
      BY <3>2, <3>3, <3>4 DEF c
  <2>14. QED
    BY <2>12, <2>13
<1>7. QED
  BY <1>5, <1>6

\* A program of _grouped_gemm_kernel.
LEMMA GemmStep ==
  ASSUME MetaInv, MetaInv', DataInv, NEW g \in {"gemm1", "gemm2"},
         NEW pid \in 0 .. GridM * TilesOf[g] - 1, Gemm(g, pid)
  PROVE  DataInv' /\ Grows /\ data'["out"] = data["out"]
<1>1. CallOK /\ Running /\ Ends(g, pid) /\ Settled
  BY DEF MetaInv, Gemm
<1>2. UNCHANGED <<shape, ids, meta, kernel>>
  BY <1>1 DEF Settled
<1>3. /\ kernel = g /\ \A j, q : Stored(j, q) => Stored(j, q)'
      /\ \A j, q : Stored(j, q)' => Stored(j, q) \/ (j = g /\ q = pid)
  BY <1>1, DataProgramEnds
<1>4. GridM' = GridM /\ \A k, q : TileOf(k, q)' = TileOf(k, q)
  BY <1>2, SameTiles
<1>5. /\ DataShape' /\ \A c \in DataBuffers : c # Output[g] => data'[c] = data[c]
      /\ \A r \in Rows : \A j \in 0 .. TilesOf[g] - 1 :
           /\ data'[Output[g]][<<r, j>>] \in {data[Output[g]][<<r, j>>], Value(Output[g], r)}
           /\ TileOf(g, pid) = <<SlotAt(r), j>> =>
                data'[Output[g]][<<r, j>>] = Value(Output[g], r)
  BY GemmStores
<1>6. /\ data'["rows"] = data["rows"] /\ data'["acts"] = data["acts"]
      /\ data'["out"] = data["out"]
  BY <1>5 DEF DataBuffers, Output
<1>7. RowsRight' /\ ActsRight' /\ OutRight'
  <2>1. \A k, q : k # g => (Stored(k, q)' => Stored(k, q))
    BY <1>3
  <2>2. RowsRight'
    BY <1>1, <1>2, <1>6, <2>1, RowsStay DEF DataInv
  <2>3. ActsRight'
    BY <1>1, <1>2, <1>6, <2>1, ActsStay DEF DataInv
  <2>4. OutRight'
    BY <1>2, <1>3, <1>6, OutStays DEF DataInv
  <2>5. QED
    BY <2>2, <2>3, <2>4
<1>8. ASSUME NEW b, b = Output[g], GemmRight(g, b) PROVE GemmRight(g, b)'
  <2>1. Rows' = Rows /\ \A r : SlotAt(r)' = SlotAt(r) /\ Value(b, r)' = Value(b, r)
    BY <1>2, SameCall, SameRows
  <2>2. ASSUME NEW r \in Rows, NEW j \in 0 .. TilesOf[g] - 1
        PROVE  /\ data'[b][<<r, j>>] \in {Unset, Value(b, r)}
               /\ \A p \in 0 .. GridM * TilesOf[g] - 1 :
                    TileOf(g, p) = <<SlotAt(r), j>> /\ Stored(g, p)' =>
                      data'[b][<<r, j>>] = Value(b, r)
    <3>1. /\ data[b][<<r, j>>] \in {Unset, Value(b, r)}
          /\ \A p \in 0 .. GridM * TilesOf[g] - 1 :
               TileOf(g, p) = <<SlotAt(r), j>> /\ Stored(g, p) => data[b][<<r, j>>] = Value(b, r)
      BY <1>8 DEF GemmRight
    <3>2. /\ data'[b][<<r, j>>] \in {data[b][<<r, j>>], Value(b, r)}
          /\ TileOf(g, pid) = <<SlotAt(r), j>> => data'[b][<<r, j>>] = Value(b, r)
      BY <1>5, <1>8
    <3>3. ASSUME NEW p \in 0 .. GridM * TilesOf[g] - 1, TileOf(g, p) = <<SlotAt(r), j>>,
                 Stored(g, p)'
          PROVE  data'[b][<<r, j>>] = Value(b, r)
      <4>1. Stored(g, p) \/ p = pid
        BY <1>3, <3>3
      <4>2. QED
        BY <3>1, <3>2, <3>3, <4>1
    <3>4. QED
      BY <3>1, <3>2, <3>3
  <2>3. QED
    BY <1>4, <2>1, <2>2 DEF GemmRight, Unset
<1>9. CASE g = "gemm1"
  <2>1. Output[g] = "hidden"
    BY <1>9 DEF Output
  <2>2. data'["down"] = data["down"]
    BY <1>5, <2>1 DEF DataBuffers
  <2>3. GemmRight("gemm1", "hidden")'
    BY <1>8, <1>9, <2>1 DEF DataInv
  <2>4. GemmRight("gemm2", "down")'
    <3>1. \A q : Stored("gemm2", q)' => Stored("gemm2", q)
      BY <1>3, <1>9
    <3>2. QED
      BY <1>2, <1>4, <2>2, <3>1, GemmStays DEF DataInv
  <2>5. Grows
    BY <1>5, <1>6, <1>9, <2>1, <2>2 DEF Grows
  <2>6. QED
    BY <1>5, <1>6, <1>7, <2>3, <2>4, <2>5 DEF DataInv
<1>10. CASE g = "gemm2"
  <2>1. Output[g] = "down"
    BY <1>10 DEF Output
  <2>2. data'["hidden"] = data["hidden"]
    BY <1>5, <2>1 DEF DataBuffers
  <2>3. GemmRight("gemm2", "down")'
    BY <1>8, <1>10, <2>1 DEF DataInv
  <2>4. GemmRight("gemm1", "hidden")'
    <3>1. \A q : Stored("gemm1", q)' => Stored("gemm1", q)
      BY <1>3, <1>10
    <3>2. QED
      BY <1>2, <1>4, <2>2, <3>1, GemmStays DEF DataInv
  <2>5. Grows
    BY <1>5, <1>6, <1>10, <2>1, <2>2 DEF Grows
  <2>6. QED
    BY <1>5, <1>6, <1>7, <2>3, <2>4, <2>5 DEF DataInv
<1>11. QED
  BY <1>9, <1>10

\* When a GEMM has ended, all column tiles of a row have been stored.
LEMMA FullRow ==
  ASSUME MetaInv, NEW g \in {"gemm1", "gemm2"}, NEW b, GemmRight(g, b), kernel \in Behind[g],
         NEW r \in Rows
  PROVE  RowOf(b, g, r) = Value(b, r)
<1>1. CallOK /\ MetaShape
  BY DEF MetaInv
<1>2. TilesOf[g] \in Nat \ {0}
  BY GemmAssumption
<1>3. ASSUME NEW j \in 0 .. TilesOf[g] - 1 PROVE data[b][<<r, j>>] = Value(b, r)
  <2>1. SlotAt(r) \in 0 .. GridM - 1
    BY <1>1, RowSlots
  <2>2. PICK pid \in 0 .. GridM * TilesOf[g] - 1 : TileOf(g, pid) = <<SlotAt(r), j>>
    BY <1>1, <2>1, Tiles
  <2>3. Stored(g, pid)
    BY DEF Stored
  <2>4. QED
    BY <2>2, <2>3 DEF GemmRight
<1>4. {data[b][<<r, j>>] : j \in 0 .. TilesOf[g] - 1} = {Value(b, r)}
  <2>1. 0 \in 0 .. TilesOf[g] - 1
    BY <1>2
  <2>2. QED
    BY <1>3, <2>1
<1>5. Whole({Value(b, r)}) = Value(b, r)
  <2> DEFINE v == Value(b, r)
  <2> HIDE DEF v
  <2>1. Cardinality({v}) = 1
    BY FS_Singleton
  <2>2. (CHOOSE x \in {v} : TRUE) = v
    OBVIOUS
  <2>3. QED
    BY <2>1, <2>2 DEF Whole, v
<1>6. QED
  BY <1>4, <1>5 DEF RowOf

\* A tile of the activation.
LEMMA ActivateStep ==
  ASSUME MetaInv, MetaInv', DataInv, NEW p, Activate(p)
  PROVE  DataInv' /\ Grows /\ data'["out"] = data["out"]
<1> DEFINE W == {r \in Rows : r \div ActRows = p}
           w == [r \in W |-> RowOf("hidden", "gemm1", r)]
<1>1. CallOK /\ Running /\ DataShape /\ Ends("act", p) /\ StoresData("acts", w) /\ Settled
  BY DEF MetaInv, DataInv, Activate
<1>2. UNCHANGED <<shape, ids, meta, kernel>>
  BY <1>1 DEF Settled
<1>3. /\ kernel = "act" /\ \A j, q : Stored(j, q) => Stored(j, q)'
      /\ \A j, q : Stored(j, q)' => Stored(j, q) \/ (j = "act" /\ q = p)
  BY <1>1, DataProgramEnds
<1>4. DOMAIN w = W /\ W \subseteq Rows /\ \A r \in W : w[r] = Value("acts", r)
  <2>1. kernel \in Behind["gemm1"]
    BY <1>3 DEF Behind
  <2>2. \A r \in Rows : RowOf("hidden", "gemm1", r) = Value("hidden", r)
    BY <2>1, FullRow DEF DataInv
  <2>3. \A r : Value("hidden", r) = Value("acts", r)
    BY DEF Value
  <2>4. QED
    BY <2>2, <2>3
<1>5. DOMAIN data["acts"] = Rows
  BY <1>1 DEF DataShape
<1>6. \A r \in Rows : r \in W <=> r \div ActRows = p
  OBVIOUS
<1> HIDE DEF w, W
<1>7. /\ DataShape' /\ \A c \in DataBuffers : c # "acts" => data'[c] = data[c]
      /\ \A r \in Rows : data'["acts"][r] = IF r \in W THEN w[r] ELSE data["acts"][r]
  <2>1. "acts" \in DataBuffers /\ DOMAIN w \subseteq DOMAIN data["acts"]
    BY <1>4, <1>5 DEF DataBuffers
  <2>2. QED
    BY <1>1, <1>2, <1>4, <1>5, <2>1, DataStore
<1>8. /\ data'["rows"] = data["rows"] /\ data'["hidden"] = data["hidden"]
      /\ data'["down"] = data["down"] /\ data'["out"] = data["out"]
  BY <1>7 DEF DataBuffers
<1>9. ActsRight'
  <2>1. Rows' = Rows /\ \A r : Value("acts", r)' = Value("acts", r)
    BY <1>2, SameCall, SameRows
  <2>2. ASSUME NEW r \in Rows, Stored("act", r \div ActRows)'
        PROVE  data'["acts"][r] = Value("acts", r)
    <3>1. Stored("act", r \div ActRows) \/ r \in W
      BY <1>3, <1>6, <2>2
    <3>2. Stored("act", r \div ActRows) => data["acts"][r] = Value("acts", r)
      BY DEF DataInv, ActsRight
    <3>3. QED
      BY <1>4, <1>7, <3>1, <3>2
  <2>3. QED
    BY <2>1, <2>2 DEF ActsRight
<1>10. RowsRight' /\ GemmRight("gemm1", "hidden")' /\ GemmRight("gemm2", "down")' /\ OutRight'
  <2>1. GridM' = GridM /\ \A g, pid : TileOf(g, pid)' = TileOf(g, pid)
    BY <1>2, SameTiles
  <2>2. \A k, q : k # "act" => (Stored(k, q)' => Stored(k, q))
    BY <1>3
  <2>3. GemmRight("gemm1", "hidden")' /\ GemmRight("gemm2", "down")'
    BY <1>2, <1>8, <2>1, <2>2, GemmStays DEF DataInv
  <2>4. RowsRight'
    BY <1>1, <1>2, <1>8, <2>2, RowsStay DEF DataInv
  <2>5. OutRight'
    BY <1>2, <1>3, <1>8, OutStays DEF DataInv
  <2>6. QED
    BY <2>3, <2>4, <2>5
<1>11. Grows
  BY <1>8 DEF Grows
<1>12. QED
  BY <1>7, <1>8, <1>9, <1>10, <1>11 DEF DataInv

\* A program of _post_reorder_kernel takes the step that the contract allows.
LEMMA CombineStep ==
  ASSUME MetaInv, MetaInv', DataInv, NEW t \in Tokens, Combine(t)
  PROVE  DataInv' /\ Grows /\ Contract!Combine(t)
<1> DEFINE row == [k \in Choices |-> RowOf("down", "gemm2", meta.src2dst[t * TopK + k])]
           w   == [u \in {t} |-> row]
<1>1. CallOK /\ Running /\ DataShape /\ Ends("combine", t) /\ StoresData("out", w) /\ Settled
  BY DEF MetaInv, DataInv, Combine
<1>2. UNCHANGED <<shape, ids, meta, kernel>>
  BY <1>1 DEF Settled
<1>3. /\ kernel = "combine" /\ \A j, q : Stored(j, q) => Stored(j, q)'
      /\ \A j, q : Stored(j, q)' => Stored(j, q) \/ (j = "combine" /\ q = t)
  BY <1>1, DataProgramEnds
<1>4. ~Stored("combine", t) /\ Stored("combine", t)'
  BY <1>1, <1>2, <1>3 DEF Ends, Stored, Behind
<1>5. ASSUME NEW k \in Choices
      PROVE  RowOf("down", "gemm2", meta.src2dst[t * TopK + k]) = Contract!Routed(t, k)
  <2> DEFINE x == t * TopK + k
  <2>1. /\ x \in Rows /\ Rank(x) \in Rows /\ TokenOf(Rank(x)) = t /\ ExpertAt(Rank(x)) = ids[x]
    BY <1>1, TokenRows
  <2> HIDE DEF x
  <2>2. meta["src2dst"][x] = Rank(x)
    <3>1. kernel \in Ready
      BY <1>3 DEF Ready
    <3>2. QED
      BY <2>1, <3>1, MetaReady
  <2>3. RowOf("down", "gemm2", Rank(x)) = Value("down", Rank(x))
    <3>1. kernel \in Behind["gemm2"]
      BY <1>3 DEF Behind
    <3>2. QED
      BY <2>1, <3>1, FullRow DEF DataInv
  <2>4. Value("down", Rank(x)) = <<t, ids[x], ids[x]>>
    BY <2>1 DEF Value
  <2>5. Contract!Routed(t, k) = <<t, ids[x], ids[x]>>
    BY DEF Contract!Routed, x, TopK
  <2>6. RowOf("down", "gemm2", meta.src2dst[x]) = Contract!Routed(t, k)
    BY <2>2, <2>3, <2>4, <2>5
  <2>7. QED
    BY <2>6 DEF x
<1>6. row = [k \in Choices |-> Contract!Routed(t, k)]
  BY <1>5
<1>7. DOMAIN data["out"] = Tokens /\ data["out"][t] = [k \in Choices |-> Unset]
  BY <1>1, <1>4 DEF DataInv, DataShape, OutRight
<1> HIDE DEF row
<1>8. DOMAIN w = {t} /\ w[t] = row
  OBVIOUS
<1> HIDE DEF w
<1>9. /\ DataShape' /\ \A c \in DataBuffers : c # "out" => data'[c] = data[c]
      /\ data'["out"] = [u \in Tokens |-> IF u \in {t} THEN w[u] ELSE data["out"][u]]
  <2>1. "out" \in DataBuffers /\ DOMAIN w \subseteq DOMAIN data["out"]
    BY <1>7, <1>8 DEF DataBuffers
  <2>2. QED
    BY <1>1, <1>2, <1>7, <1>8, <2>1, DataStore
<1>10. data'["out"] = [data["out"] EXCEPT ![t] = row]
  <2>1. data["out"] = [u \in Tokens |-> data["out"][u]]
    BY <1>1 DEF DataShape
  <2>2. [data["out"] EXCEPT ![t] = row] = [u \in Tokens |-> IF u = t THEN row ELSE data["out"][u]]
    BY <2>1, <1>7
  <2>3. QED
    BY <1>8, <1>9, <2>2
<1>11. Contract!Combine(t)
  <2>1. Choices = 0 .. shape[2] - 1
    BY DEF Choices, TopK
  <2>2. QED
    BY <1>2, <1>6, <1>7, <1>10, <2>1 DEF Contract!Combine, Contract!Choices
<1>12. OutRight'
  <2>1. Tokens' = Tokens /\ Choices' = Choices
    BY <1>2, SameRows
  <2>2. ASSUME NEW u \in Tokens, ~Stored("combine", u)'
        PROVE  data'["out"][u] = [k \in Choices |-> Unset]
    <3>1. u # t
      BY <1>4, <2>2 DEF Stored
    <3>2. ~Stored("combine", u)
      BY <1>3, <2>2
    <3>3. data'["out"][u] = data["out"][u]
      BY <1>9, <3>1
    <3>4. QED
      BY <3>2, <3>3 DEF DataInv, OutRight
  <2>3. QED
    BY <2>1, <2>2 DEF OutRight, Unset
<1>13. /\ data'["rows"] = data["rows"] /\ data'["hidden"] = data["hidden"]
       /\ data'["acts"] = data["acts"] /\ data'["down"] = data["down"]
  BY <1>9 DEF DataBuffers
<1>14. RowsRight' /\ GemmRight("gemm1", "hidden")' /\ GemmRight("gemm2", "down")' /\ ActsRight'
  <2>1. GridM' = GridM /\ \A g, pid : TileOf(g, pid)' = TileOf(g, pid)
    BY <1>2, SameTiles
  <2>2. \A k, q : k # "combine" => (Stored(k, q)' => Stored(k, q))
    BY <1>3
  <2>3. GemmRight("gemm1", "hidden")' /\ GemmRight("gemm2", "down")'
    BY <1>2, <1>13, <2>1, <2>2, GemmStays DEF DataInv
  <2>4. RowsRight'
    BY <1>1, <1>2, <1>13, <2>2, RowsStay DEF DataInv
  <2>5. ActsRight'
    BY <1>1, <1>2, <1>13, <2>2, ActsStay DEF DataInv
  <2>6. QED
    BY <2>3, <2>4, <2>5
<1>15. Grows
  BY <1>13 DEF Grows
<1>16. QED
  BY <1>9, <1>11, <1>12, <1>14, <1>15 DEF DataInv

-----------------------------------------------------------------------------
(* The forward pass. *)

Inv == MetaInv /\ DataInv

\* The row buffers begin unset.
LEMMA InitData ==
  ASSUME Init PROVE DataInv
<1>1. PreInit /\ MetaInv
  BY InitMeta DEF Init
<1>2. data = [rows   |-> [r \in Rows |-> Unset],
              hidden |-> [c \in Cells("gemm1") |-> Unset],
              acts   |-> [r \in Rows |-> Unset],
              down   |-> [c \in Cells("gemm2") |-> Unset],
              out    |-> [t \in Tokens |-> [k \in Choices |-> Unset]]]
  BY DEF Init
<1>3. \A k \in {"gather", "gemm1", "act", "gemm2", "combine"} : \A p : ~Stored(k, p)
  <2>1. kernel \in {"fsort", "sort"}
    BY <1>1 DEF PreInit
  <2>2. QED
    BY <2>1 DEF Stored, Behind
<1>4. DataShape
  BY <1>2 DEF DataShape
<1>5. RowsRight
  BY <1>2, <1>3 DEF RowsRight
<1>6. GemmRight("gemm1", "hidden")
  <2>1. \A r \in Rows : \A j \in 0 .. TilesOf["gemm1"] - 1 : data["hidden"][<<r, j>>] = Unset
    BY <1>2 DEF Cells
  <2>2. QED
    BY <1>3, <2>1 DEF GemmRight
<1>7. GemmRight("gemm2", "down")
  <2>1. \A r \in Rows : \A j \in 0 .. TilesOf["gemm2"] - 1 : data["down"][<<r, j>>] = Unset
    BY <1>2 DEF Cells
  <2>2. QED
    BY <1>3, <2>1 DEF GemmRight
<1>8. ActsRight
  BY <1>3 DEF ActsRight
<1>9. OutRight
  BY <1>2 DEF OutRight
<1>10. QED
  BY <1>4, <1>5, <1>6, <1>7, <1>8, <1>9 DEF DataInv

\* A step keeps the invariant, sets cells to what belongs there, and takes
\* the contract's step or leaves the output alone.
LEMMA NextData ==
  ASSUME MetaInv, MetaInv', DataInv, [Next]_vars
  PROVE  /\ DataInv' /\ Grows
         /\ Contract!Next \/ UNCHANGED <<shape, ids, data["out"]>>
<1>1. CASE UNCHANGED vars
  <2>1. UNCHANGED <<shape, ids, kernel, todo, data>>
    BY <1>1 DEF vars, preVars
  <2>2. \A k, p : Stored(k, p)' <=> Stored(k, p)
    BY <2>1 DEF Stored
  <2>3. DataInv'
    BY <2>1, <2>2, DataStays
  <2>4. QED
    BY <2>1, <2>3 DEF Grows
<1>2. CASE PreNext /\ UNCHANGED data
  <2>1. NextLaunch \/ GeneralStep \/ FusedStep
    BY <1>2 DEF PreNext, GeneralStep, FusedStep
  <2>2. UNCHANGED <<shape, ids>>
    BY <2>1, OwnPath DEF NextLaunch, MetaInv
  <2>3. QED
    BY <1>2, <2>2, PreData DEF Grows
<1>3. CASE Launch
  <2>1. UNCHANGED <<shape, ids, data>>
    BY <1>3, LaunchReady
  <2>2. QED
    BY <1>3, <2>1, LaunchData DEF Grows
<1>4. CASE \E t \in Tokens : Gather(t)
  <2>1. UNCHANGED <<shape, ids>>
    BY <1>4 DEF Gather, Settled
  <2>2. QED
    BY <1>4, <2>1, GatherStep
<1>5. CASE \E t \in Tokens : Combine(t)
  <2>1. PICK t \in Tokens : Combine(t)
    BY <1>5
  <2>2. Contract!Next
    <3>1. t \in Contract!Tokens
      BY DEF Tokens, Contract!Tokens
    <3>2. QED
      BY <2>1, <3>1, CombineStep DEF Contract!Next
  <2>3. QED
    BY <2>1, <2>2, CombineStep
<1>6. CASE \E g \in DOMAIN TilesOf : \E pid \in 0 .. GridM * TilesOf[g] - 1 : Gemm(g, pid)
  <2>1. DOMAIN TilesOf = {"gemm1", "gemm2"}
    BY GemmAssumption
  <2>2. PICK g \in {"gemm1", "gemm2"} : \E pid \in 0 .. GridM * TilesOf[g] - 1 : Gemm(g, pid)
    BY <1>6, <2>1
  <2>3. PICK pid \in 0 .. GridM * TilesOf[g] - 1 : Gemm(g, pid)
    BY <2>2
  <2>4. UNCHANGED <<shape, ids>>
    BY <2>3 DEF Gemm, Settled
  <2>5. QED
    BY <2>3, <2>4, GemmStep
<1>7. CASE \E p \in 0 .. CeilDiv(n, ActRows) - 1 : Activate(p)
  <2>1. PICK p \in 0 .. CeilDiv(n, ActRows) - 1 : Activate(p)
    BY <1>7
  <2>2. UNCHANGED <<shape, ids>>
    BY <2>1 DEF Activate, Settled
  <2>3. QED
    BY <2>1, <2>2, ActivateStep
<1>8. Next => \/ UNCHANGED vars
              \/ PreNext /\ UNCHANGED data
              \/ Launch
              \/ \E t \in Tokens : Gather(t)
              \/ \E t \in Tokens : Combine(t)
              \/ \E g \in DOMAIN TilesOf : \E pid \in 0 .. GridM * TilesOf[g] - 1 : Gemm(g, pid)
              \/ \E p \in 0 .. CeilDiv(n, ActRows) - 1 : Activate(p)
  BY DEF Next, Returned
<1>9. QED
  BY <1>1, <1>2, <1>3, <1>4, <1>5, <1>6, <1>7, <1>8

\* The inductive invariant of the whole forward pass.
THEOREM ForwardInvariant == Spec => []Inv
<1>1. Init => Inv
  BY InitMeta, InitData DEF Inv, Init
<1>2. Inv /\ [Next]_vars => Inv'
  BY NextMeta, NextData DEF Inv
<1>3. QED
  BY <1>1, <1>2, PTL DEF Spec

\* Every buffer keeps the size it was allocated with: no routing makes a
\* program of either path, or of a GEMM, store behind the end of one.
THEOREM StoresStayInside == Spec => []StaysInBuffers
<1>1. Inv => StaysInBuffers
  BY DEF Inv, MetaInv, MetaShape, Buffers, BufferRange, DataInv, DataShape, StaysInBuffers
<1>2. QED
  BY <1>1, ForwardInvariant, PTL

\* What is stored in the gathered rows or by a GEMM stays: no two programs
\* of a launch store different things in one cell.
THEOREM CellsAreStoredOnce == Spec => StoredOnce
<1>1. Inv /\ Inv' /\ [Next]_vars =>
        [\A b \in {"rows", "hidden", "down"} : \A c \in DOMAIN data[b] :
           data[b][c] # Unset => data'[b][c] = data[b][c]]_vars
  <2> SUFFICES ASSUME Inv, Inv', [Next]_vars,
                      NEW b \in {"rows", "hidden", "down"}, NEW c \in DOMAIN data[b],
                      data[b][c] # Unset
               PROVE  data'[b][c] = data[b][c]
    OBVIOUS
  <2>1. Grows /\ DataInv
    BY NextData DEF Inv
  <2>2. CASE b = "rows"
    BY <2>1, <2>2 DEF Grows, DataInv, DataShape, RowsRight
  <2>3. CASE b = "hidden"
    <3>1. PICK r \in Rows : \E j \in 0 .. TilesOf["gemm1"] - 1 : c = <<r, j>>
      BY <2>1, <2>3 DEF DataInv, DataShape, Cells
    <3>2. PICK j \in 0 .. TilesOf["gemm1"] - 1 : c = <<r, j>>
      BY <3>1
    <3>3. QED
      BY <2>1, <2>3, <3>2 DEF Grows, DataInv, GemmRight
  <2>4. CASE b = "down"
    <3>1. PICK r \in Rows : \E j \in 0 .. TilesOf["gemm2"] - 1 : c = <<r, j>>
      BY <2>1, <2>4 DEF DataInv, DataShape, Cells
    <3>2. PICK j \in 0 .. TilesOf["gemm2"] - 1 : c = <<r, j>>
      BY <3>1
    <3>3. QED
      BY <2>1, <2>4, <3>2 DEF Grows, DataInv, GemmRight
  <2>5. QED
    BY <2>2, <2>3, <2>4
<1>2. QED
  BY <1>1, ForwardInvariant, PTL DEF Spec, StoredOnce

\* moe_tp_forward implements its contract: every token gets, once, its own
\* row through the experts that the gate chose for it, for every batch,
\* every routing and every order in which the programs of a launch run.
THEOREM ForwardKeepsContract == Spec => KeepsMoeContract
<1>1. Init => Contract!Init
  BY DEF Init, Contract!Init, Tokens, Choices, TopK, Contract!Tokens, Contract!Choices
<1>2. Inv /\ Inv' /\ [Next]_vars => [Contract!Next]_<<shape, ids, data.out>>
  BY NextData DEF Inv
<1>3. QED
  BY <1>1, <1>2, ForwardInvariant, PTL DEF Spec, KeepsMoeContract, Contract!Spec

=============================================================================
