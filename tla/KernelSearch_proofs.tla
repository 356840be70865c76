------------------------- MODULE KernelSearch_proofs -------------------------
(***************************************************************************)
(* What the arithmetic of KernelSearch gives back: packed words and keys   *)
(* return what was put in and sort by it, and the unrolled searches find   *)
(* what they look for in every range their rounds can resolve.             *)
(***************************************************************************)
EXTENDS KernelSearch, FiniteSetTheorems, TLAPS

\* The middle of a range, rounded down, as the first search takes it.
LEMMA LowerMiddle ==
  ASSUME NEW lo \in Nat, NEW hi \in Nat, lo <= hi, NEW w \in Nat, hi - lo <= w
  PROVE  LET mid == (lo + hi) \div 2
         IN  /\ mid \in Nat /\ lo <= mid /\ mid <= hi /\ mid - lo <= w \div 2
             /\ lo < hi => mid < hi /\ hi - (mid + 1) <= w \div 2
OBVIOUS

\* The middle of a range, rounded up, as the second search takes it.
LEMMA UpperMiddle ==
  ASSUME NEW lo \in Nat, NEW hi \in Nat, lo <= hi, NEW w \in Nat, hi - lo <= w
  PROVE  LET mid == (lo + hi + 1) \div 2
         IN  /\ mid \in Nat /\ lo <= mid /\ mid <= hi /\ hi - mid <= w \div 2
             /\ lo < hi => lo < mid /\ mid - 1 - lo <= w \div 2
OBVIOUS

\* A schedule word gives its block and its expert back, for every expert
\* number that fits the low half: what _compute_block_metadata_kernel packs is
\* what _compute_expert_attrs unpacks.
THEOREM WordsUnpack ==
  ASSUME NEW block \in Nat, NEW e \in Nat, e < 65536
  PROVE  BlockOf(Word(block, e)) = block /\ ExpertOf(Word(block, e)) = e
<1>1. BlockOf(Word(block, e)) = block
  BY DEF Word, BlockOf
<1>2. ExpertOf(Word(block, e)) = e
  BY DEF Word, ExpertOf
<1> QED  BY <1>1, <1>2

\* A sort key gives expert and position back, and keys are ordered by expert
\* and, within an expert, by position: sorting keys is a stable sort, as long
\* as positions fit in twelve bits.
THEOREM KeysSortStably ==
  ASSUME NEW id \in Nat, NEW pos \in Nat, pos < 4096,
         NEW id2 \in Nat, NEW pos2 \in Nat, pos2 < 4096
  PROVE  /\ IdOf(Key(id, pos)) = id /\ PosOf(Key(id, pos)) = pos
         /\ Key(id, pos) < Key(id2, pos2) <=> id < id2 \/ (id = id2 /\ pos < pos2)
<1>1. IdOf(Key(id, pos)) = id
  BY DEF Key, IdOf
<1>2. PosOf(Key(id, pos)) = pos
  BY DEF Key, PosOf
<1>3. Key(id, pos) < Key(id2, pos2) <=> id < id2 \/ (id = id2 /\ pos < pos2)
  BY DEF Key
<1> QED  BY <1>1, <1>2, <1>3

-----------------------------------------------------------------------------
(* Initial and final segments, and what is known of the range b of a       *)
(* search when it is w long at most: it holds what is looked for.          *)

Half(w) == w \div 2

Segment(Below, n) == \A i, j \in 0 .. n - 1 : i < j /\ j \in Below => i \in Below

FirstIn(Below, n, b, w) ==
  \E lo, hi \in 0 .. n :
    /\ b = <<lo, hi>> /\ lo <= hi /\ hi - lo <= w
    /\ \A i \in 0 .. n - 1 : (i < lo => i \in Below) /\ (i >= hi => i \notin Below)

\* A round keeps the answer in the range and halves the range.
LEMMA FirstRoundHalves ==
  ASSUME NEW n \in Nat, NEW Below \in SUBSET (0 .. n - 1), Segment(Below, n),
         NEW w \in Nat, NEW b, FirstIn(Below, n, b, w)
  PROVE  FirstIn(Below, n, FirstRound(Below, b), w \div 2)
<1>1. PICK lo, hi \in 0 .. n :
        /\ b = <<lo, hi>> /\ lo <= hi /\ hi - lo <= w
        /\ \A i \in 0 .. n - 1 : (i < lo => i \in Below) /\ (i >= hi => i \notin Below)
  BY DEF FirstIn
<1> DEFINE mid == (lo + hi) \div 2
<1>2. /\ mid \in Nat /\ lo <= mid /\ mid <= hi /\ mid - lo <= w \div 2
      /\ lo < hi => mid < hi /\ hi - (mid + 1) <= w \div 2
  <2>1. lo \in Nat /\ hi \in Nat /\ lo <= hi /\ hi - lo <= w
    BY <1>1
  <2> QED  BY <2>1, LowerMiddle
<1>3. /\ mid \in Below => FirstRound(Below, b) = <<mid + 1, hi>>
      /\ mid \notin Below => FirstRound(Below, b) = <<lo, mid>>
  <2>1. b[1] = lo /\ b[2] = hi
    BY <1>1
  <2>2. ASSUME mid \in Below  PROVE FirstRound(Below, b) = <<mid + 1, hi>>
    BY <2>1, <2>2, Zenon DEF FirstRound
  <2>3. ASSUME mid \notin Below  PROVE FirstRound(Below, b) = <<lo, mid>>
    BY <2>1, <2>3, Zenon DEF FirstRound
  <2> QED  BY <2>2, <2>3
<1> HIDE DEF mid
<1>4. CASE mid \in Below
  <2>1. mid \in 0 .. n - 1 /\ mid < hi
    BY <1>1, <1>2, <1>4
  <2>2. \A i \in 0 .. n - 1 : i < mid + 1 => i \in Below
    BY <1>2, <1>4, <2>1 DEF Segment
  <2>3. mid + 1 \in 0 .. n /\ mid + 1 <= hi /\ hi - (mid + 1) <= w \div 2
    BY <1>1, <1>2, <2>1
  <2> QED  BY <1>1, <1>3, <1>4, <2>2, <2>3 DEF FirstIn
<1>5. CASE mid \notin Below
  <2>1. \A i \in 0 .. n - 1 : i >= mid => i \notin Below
    BY <1>2, <1>5 DEF Segment
  <2>2. mid \in 0 .. n
    BY <1>1, <1>2
  <2> QED  BY <1>1, <1>2, <1>3, <1>5, <2>1, <2>2 DEF FirstIn
<1> QED  BY <1>4, <1>5

\* Twelve rounds halve a range twelve times.
LEMMA FirstRounds ==
  ASSUME NEW n \in Nat, NEW Below \in SUBSET (0 .. n - 1), Segment(Below, n),
         NEW w \in Nat, n <= w
  PROVE  \E b : /\ FirstOutside(Below, n) = b[1]
                /\ FirstIn(Below, n, b, Half(Half(Half(Half(Half(Half(Half(Half(Half(Half(Half(Half(w)))))))))))))
<1> DEFINE R == [b \in Int \X Int |-> FirstRound(Below, b)]
           In(b, v) == v \in Nat /\ FirstIn(Below, n, b, v)
           start == <<0, n>>
           middle == R[R[R[R[R[R[start]]]]]]
           end == R[R[R[R[R[R[middle]]]]]]
<1>1. In(start, w)
  BY DEF FirstIn
<1>2. ASSUME NEW b, NEW v, In(b, v)  PROVE In(R[b], Half(v))
  <2>1. b \in Int \X Int
    BY <1>2 DEF FirstIn
  <2>2. Half(v) \in Nat
    BY <1>2 DEF Half
  <2>3. FirstIn(Below, n, FirstRound(Below, b), Half(v))
    BY <1>2, FirstRoundHalves DEF Half
  <2> QED  BY <2>1, <2>2, <2>3
<1>3. In(middle, Half(Half(Half(Half(Half(Half(w)))))))
  <2> HIDE DEF In, R, start
  <2> QED  BY <1>1, <1>2, Zenon
<1>4. In(end, Half(Half(Half(Half(Half(Half(Half(Half(Half(Half(Half(Half(w)))))))))))))
  <2> HIDE DEF In, R, middle
  <2> QED  BY <1>2, <1>3, Zenon
<1>5. FirstOutside(Below, n) = end[1]
  BY DEF FirstOutside
<1> HIDE DEF end
<1> QED  BY <1>4, <1>5

\* A range of one candidate is the answer: the size of the initial segment.
LEMMA FirstFound ==
  ASSUME NEW n \in Nat, NEW Below \in SUBSET (0 .. n - 1),
         NEW b, FirstIn(Below, n, b, 0)
  PROVE  b[1] \in 0 .. n /\ Below = 0 .. b[1] - 1
<1>1. PICK lo, hi \in 0 .. n :
        /\ b = <<lo, hi>> /\ lo <= hi /\ hi - lo <= 0
        /\ \A i \in 0 .. n - 1 : (i < lo => i \in Below) /\ (i >= hi => i \notin Below)
  BY DEF FirstIn
<1>2. b[1] = lo
  BY <1>1
<1>3. lo = hi
  BY <1>1
<1>4. \A i \in 0 .. n - 1 : i \in Below <=> i < lo
  BY <1>1, <1>3
<1>5. Below \subseteq 0 .. lo - 1
  BY <1>4
<1>6. 0 .. lo - 1 \subseteq Below
  BY <1>4
<1>7. Below = 0 .. lo - 1
  BY <1>5, <1>6, Zenon
<1> QED  BY <1>2, <1>7

\* Twelve rounds find the first row that is not below an expert, in any batch
\* of at most 4095 rows: more than fused_moe_preprocess lets in, and one less
\* than the comment at the loop says.
THEOREM TwelveRoundsFind ==
  ASSUME NEW n \in Nat, n <= 4095, NEW Below \in SUBSET (0 .. n - 1), Segment(Below, n)
  PROVE  /\ FirstOutside(Below, n) \in 0 .. n
         /\ Below = 0 .. FirstOutside(Below, n) - 1
<1>1. Half(Half(Half(Half(Half(Half(Half(Half(Half(Half(Half(Half(4095)))))))))))) = 0
  BY DEF Half
<1>2. PICK b : FirstOutside(Below, n) = b[1] /\ FirstIn(Below, n, b, 0)
  BY <1>1, FirstRounds
<1> QED  BY <1>2, FirstFound

-----------------------------------------------------------------------------
\* The second search, for the last index not above.
FinalSegment(Above, top) ==
  \A i, j \in 0 .. top : i < j /\ i \in Above => j \in Above

LastIn(Above, top, b, w) ==
  \E lo, hi \in 0 .. top :
    /\ b = <<lo, hi>> /\ lo <= hi /\ hi - lo <= w
    /\ lo \notin Above
    /\ \A i \in 0 .. top : i > hi => i \in Above

\* A round of the second search halves its range too.
LEMMA LastRoundHalves ==
  ASSUME NEW top \in Nat, NEW Above \in SUBSET (0 .. top), FinalSegment(Above, top),
         NEW w \in Nat, NEW b, LastIn(Above, top, b, w)
  PROVE  LastIn(Above, top, LastRound(Above, b), w \div 2)
<1>1. PICK lo, hi \in 0 .. top :
        /\ b = <<lo, hi>> /\ lo <= hi /\ hi - lo <= w
        /\ lo \notin Above
        /\ \A i \in 0 .. top : i > hi => i \in Above
  BY DEF LastIn
<1> DEFINE mid == (lo + hi + 1) \div 2
<1>2. /\ mid \in Nat /\ lo <= mid /\ mid <= hi /\ hi - mid <= w \div 2
      /\ lo < hi => lo < mid /\ mid - 1 - lo <= w \div 2
  <2>1. lo \in Nat /\ hi \in Nat /\ lo <= hi /\ hi - lo <= w
    BY <1>1
  <2> QED  BY <2>1, UpperMiddle
<1>3. /\ mid \in Above => LastRound(Above, b) = <<lo, mid - 1>>
      /\ mid \notin Above => LastRound(Above, b) = <<mid, hi>>
  <2>1. b[1] = lo /\ b[2] = hi
    BY <1>1
  <2>2. ASSUME mid \in Above  PROVE LastRound(Above, b) = <<lo, mid - 1>>
    BY <2>1, <2>2, Zenon DEF LastRound
  <2>3. ASSUME mid \notin Above  PROVE LastRound(Above, b) = <<mid, hi>>
    BY <2>1, <2>3, Zenon DEF LastRound
  <2> QED  BY <2>2, <2>3
<1> HIDE DEF mid
<1>4. CASE mid \in Above
  <2>1. lo < mid /\ mid \in 0 .. top
    BY <1>1, <1>2, <1>4
  <2>2. \A i \in 0 .. top : i > mid - 1 => i \in Above
    BY <1>2, <1>4, <2>1 DEF FinalSegment
  <2>3. mid - 1 \in 0 .. top /\ lo <= mid - 1 /\ mid - 1 - lo <= w \div 2
    BY <1>1, <1>2, <2>1
  <2> QED  BY <1>1, <1>3, <1>4, <2>2, <2>3 DEF LastIn
<1>5. CASE mid \notin Above
  <2>1. mid \in 0 .. top
    BY <1>1, <1>2
  <2> QED  BY <1>1, <1>2, <1>3, <1>5, <2>1 DEF LastIn
<1> QED  BY <1>4, <1>5

\* Nine rounds halve a range nine times.
LEMMA LastRounds ==
  ASSUME NEW top \in Nat, NEW Above \in SUBSET (0 .. top), FinalSegment(Above, top), 0 \notin Above,
         NEW w \in Nat, top <= w
  PROVE  \E b : /\ LastOutside(Above, top) = b[1]
                /\ LastIn(Above, top, b, Half(Half(Half(Half(Half(Half(Half(Half(Half(w))))))))))
<1> DEFINE R == [b \in Int \X Int |-> LastRound(Above, b)]
           In(b, v) == v \in Nat /\ LastIn(Above, top, b, v)
           start == <<0, top>>
           middle == R[R[R[R[start]]]]
           end == R[R[R[R[R[middle]]]]]
<1>1. In(start, w)
  BY DEF LastIn
<1>2. ASSUME NEW b, NEW v, In(b, v)  PROVE In(R[b], Half(v))
  <2>1. b \in Int \X Int
    BY <1>2 DEF LastIn
  <2>2. Half(v) \in Nat
    BY <1>2 DEF Half
  <2>3. LastIn(Above, top, LastRound(Above, b), Half(v))
    BY <1>2, LastRoundHalves DEF Half
  <2> QED  BY <2>1, <2>2, <2>3
<1>3. In(middle, Half(Half(Half(Half(w)))))
  <2> HIDE DEF In, R, start
  <2> QED  BY <1>1, <1>2, Zenon
<1>4. In(end, Half(Half(Half(Half(Half(Half(Half(Half(Half(w))))))))))
  <2> HIDE DEF In, R, middle
  <2> QED  BY <1>2, <1>3, Zenon
<1>5. LastOutside(Above, top) = end[1]
  BY DEF LastOutside
<1> HIDE DEF end
<1> QED  BY <1>4, <1>5

\* Nine rounds find the expert a block of the schedule belongs to, the last
\* one whose blocks do not begin after it, among up to 511 experts; the kernel
\* is written for 256.
THEOREM NineRoundsFind ==
  ASSUME NEW top \in Nat, top <= 511, NEW Above \in SUBSET (0 .. top),
         FinalSegment(Above, top), 0 \notin Above
  PROVE  /\ LastOutside(Above, top) \in 0 .. top
         /\ Above = LastOutside(Above, top) + 1 .. top
<1>1. Half(Half(Half(Half(Half(Half(Half(Half(Half(511))))))))) = 0
  BY DEF Half
<1>2. PICK b : LastOutside(Above, top) = b[1] /\ LastIn(Above, top, b, 0)
  BY <1>1, LastRounds
<1>3. PICK lo, hi \in 0 .. top :
        /\ b = <<lo, hi>> /\ lo <= hi /\ hi - lo <= 0
        /\ lo \notin Above
        /\ \A i \in 0 .. top : i > hi => i \in Above
  BY <1>2 DEF LastIn
<1>4. LastOutside(Above, top) = lo
  BY <1>2, <1>3
<1>5. lo = hi
  BY <1>3
<1>6. \A i \in Above : i > lo
  BY <1>3 DEF FinalSegment
<1>7. \A i \in 0 .. top : i \in Above <=> i > lo
  BY <1>3, <1>5, <1>6
<1>8. Above = lo + 1 .. top
  <2>1. ASSUME NEW i \in Above  PROVE i \in lo + 1 .. top
    BY <1>7
  <2>2. ASSUME NEW i \in lo + 1 .. top  PROVE i \in Above
    BY <1>7
  <2> QED  BY <2>1, <2>2
<1> QED  BY <1>4, <1>8

-----------------------------------------------------------------------------
(* Counting.  Rows are the numbers below N, f gives each its expert.       *)

\* A set of numbers has a smallest one: what the proofs below use in the place
\* of induction.
LEMMA Least ==
  ASSUME NEW T \in SUBSET Nat, T # {}
  PROVE  \E x \in T : \A y \in T : x <= y
<1>1. PICK x \in T : \A y \in T : ~(<<y, x>> \in OpToRel(<, Nat))
  BY NatLessThanWellFounded, WFMin
<1>2. \A y \in T : ~(y < x)
  BY <1>1 DEF OpToRel
<1>3. QED
  BY <1>2

\* Sets that share nothing count together.
LEMMA DisjointCount ==
  ASSUME NEW A, IsFiniteSet(A), NEW B, IsFiniteSet(B), A \cap B = {}
  PROVE  IsFiniteSet(A \cup B) /\ Cardinality(A \cup B) = Cardinality(A) + Cardinality(B)
<1>1. Cardinality(A \cup B) = Cardinality(A) + Cardinality(B) - Cardinality(A \cap B)
  BY FS_Union, Zenon
<1>2. Cardinality(A \cap B) = 0
  BY FS_EmptySet, Zenon
<1>3. Cardinality(A) \in Nat /\ Cardinality(B) \in Nat
  BY FS_CardinalityType
<1>4. IsFiniteSet(A \cup B)
  BY FS_Union, Zenon
<1>5. QED
  BY <1>1, <1>2, <1>3, <1>4

\* The rows sorted before row r, those of the experts below e, those of e.
RowsBefore(f, N, r) == {s \in 0 .. N - 1 : f[s] < f[r] \/ (f[s] = f[r] /\ s < r)}
RowsBelow(f, N, e)  == {r \in 0 .. N - 1 : f[r] < e}
RowsOf(f, N, e)     == {r \in 0 .. N - 1 : f[r] = e}

\* Sets of rows can be counted.
LEMMA RowsFinite ==
  ASSUME NEW N \in Nat, NEW S \in SUBSET (0 .. N - 1)
  PROVE  IsFiniteSet(S) /\ Cardinality(S) \in 0 .. N
<1>1. IsFiniteSet(0 .. N - 1) /\ Cardinality(0 .. N - 1) = N
  BY FS_Interval
<1>2. IsFiniteSet(S) /\ Cardinality(S) <= N
  BY <1>1, FS_Subset
<1>3. QED
  BY <1>2, FS_CardinalityType

\* A row that comes before another has fewer rows before it.
LEMMA PlacesGrow ==
  ASSUME NEW N \in Nat, NEW f \in [0 .. N - 1 -> Int],
         NEW r \in 0 .. N - 1, NEW q \in 0 .. N - 1, q \in RowsBefore(f, N, r)
  PROVE  Cardinality(RowsBefore(f, N, q)) < Cardinality(RowsBefore(f, N, r))
<1>1. RowsBefore(f, N, q) \subseteq RowsBefore(f, N, r)
  BY DEF RowsBefore
<1>2. q \notin RowsBefore(f, N, q)
  BY DEF RowsBefore
<1>3. RowsBefore(f, N, r) \subseteq 0 .. N - 1 /\ RowsBefore(f, N, q) \subseteq 0 .. N - 1
  BY DEF RowsBefore
<1>4. IsFiniteSet(RowsBefore(f, N, r))
  BY <1>3, RowsFinite
<1>5. /\ Cardinality(RowsBefore(f, N, q)) <= Cardinality(RowsBefore(f, N, r))
      /\ Cardinality(RowsBefore(f, N, q)) # Cardinality(RowsBefore(f, N, r))
  BY <1>1, <1>2, <1>4, FS_Subset
<1>6. /\ Cardinality(RowsBefore(f, N, q)) \in Nat
      /\ Cardinality(RowsBefore(f, N, r)) \in Nat
  BY <1>3, RowsFinite
<1>7. QED
  BY <1>5, <1>6

\* The number of rows before it gives every row a place of its own, and leaves
\* no place empty.
THEOREM EveryPlaceOnce ==
  ASSUME NEW N \in Nat, NEW f \in [0 .. N - 1 -> Int]
  PROVE  /\ \A r \in 0 .. N - 1 : Cardinality(RowsBefore(f, N, r)) \in 0 .. N - 1
         /\ \A p \in 0 .. N - 1 : \E r \in 0 .. N - 1 : Cardinality(RowsBefore(f, N, r)) = p
         /\ \A r, q \in 0 .. N - 1 :
              Cardinality(RowsBefore(f, N, r)) = Cardinality(RowsBefore(f, N, q)) => r = q
<1> DEFINE g == [r \in 0 .. N - 1 |-> Cardinality(RowsBefore(f, N, r))]
<1>1. ASSUME NEW r \in 0 .. N - 1 PROVE Cardinality(RowsBefore(f, N, r)) \in 0 .. N - 1
  <2> DEFINE S == 0 .. N - 1
  <2>1. IsFiniteSet(S) /\ Cardinality(S) = N
    BY FS_Interval
  <2>2. RowsBefore(f, N, r) \subseteq S \ {r}
    BY DEF RowsBefore
  <2>3. IsFiniteSet(S \ {r}) /\ Cardinality(S \ {r}) = N - 1
    <3>1. r \in S
      OBVIOUS
    <3> HIDE DEF S
    <3>2. QED
      BY <2>1, <3>1, FS_RemoveElement
  <2>4. IsFiniteSet(RowsBefore(f, N, r)) /\ Cardinality(RowsBefore(f, N, r)) <= N - 1
    BY <2>2, <2>3, FS_Subset
  <2>5. QED
    BY <2>4, FS_CardinalityType
<1>2. ASSUME NEW r \in 0 .. N - 1, NEW q \in 0 .. N - 1, r # q
      PROVE  Cardinality(RowsBefore(f, N, r)) # Cardinality(RowsBefore(f, N, q))
  <2>1. r \in RowsBefore(f, N, q) \/ q \in RowsBefore(f, N, r)
    BY <1>2 DEF RowsBefore
  <2>2. /\ Cardinality(RowsBefore(f, N, r)) \in Nat
        /\ Cardinality(RowsBefore(f, N, q)) \in Nat
    BY <1>1
  <2>3. QED
    BY <2>1, <2>2, PlacesGrow
<1>3. g \in Injection(0 .. N - 1, 0 .. N - 1)
  <2>1. g \in [0 .. N - 1 -> 0 .. N - 1]
    BY <1>1
  <2>2. \A r, q \in 0 .. N - 1 : g[r] = g[q] => r = q
    BY <1>2
  <2>3. QED
    BY <2>1, <2>2 DEF Injection, IsInjective
<1>4. IsFiniteSet(0 .. N - 1)
  BY FS_Interval
<1>5. g \in Surjection(0 .. N - 1, 0 .. N - 1)
  BY <1>3, <1>4, FS_Injection
<1>6. \A p \in 0 .. N - 1 : \E r \in 0 .. N - 1 : g[r] = p
  BY <1>5 DEF Surjection
<1>7. QED
  BY <1>1, <1>2, <1>6

\* The places of an expert's rows begin behind those of the experts below it.
THEOREM PlacesSplit ==
  ASSUME NEW N \in Nat, NEW f \in [0 .. N - 1 -> Int], NEW r \in 0 .. N - 1, NEW e \in Int
  PROVE  f[r] < e <=> Cardinality(RowsBefore(f, N, r)) < Cardinality(RowsBelow(f, N, e))
<1>0. RowsBefore(f, N, r) \subseteq 0 .. N - 1 /\ RowsBelow(f, N, e) \subseteq 0 .. N - 1
  BY DEF RowsBefore, RowsBelow
<1>1. /\ IsFiniteSet(RowsBefore(f, N, r)) /\ Cardinality(RowsBefore(f, N, r)) \in Nat
      /\ IsFiniteSet(RowsBelow(f, N, e)) /\ Cardinality(RowsBelow(f, N, e)) \in Nat
  BY <1>0, RowsFinite
<1>2. CASE f[r] < e
  <2>1. RowsBefore(f, N, r) \subseteq RowsBelow(f, N, e)
    BY <1>2 DEF RowsBefore, RowsBelow
  <2>2. r \in RowsBelow(f, N, e) /\ r \notin RowsBefore(f, N, r)
    BY <1>2 DEF RowsBefore, RowsBelow
  <2>3. /\ Cardinality(RowsBefore(f, N, r)) <= Cardinality(RowsBelow(f, N, e))
        /\ Cardinality(RowsBefore(f, N, r)) # Cardinality(RowsBelow(f, N, e))
    BY <1>1, <2>1, <2>2, FS_Subset
  <2>4. QED
    BY <1>1, <1>2, <2>3
<1>3. CASE ~(f[r] < e)
  <2>1. RowsBelow(f, N, e) \subseteq RowsBefore(f, N, r)
    BY <1>3 DEF RowsBefore, RowsBelow
  <2>2. Cardinality(RowsBelow(f, N, e)) <= Cardinality(RowsBefore(f, N, r))
    BY <1>1, <2>1, FS_Subset
  <2>3. QED
    BY <1>1, <1>3, <2>2
<1>4. QED
  BY <1>2, <1>3

\* The first rows of the experts: one begins where the one before it ends.
THEOREM FirstRows ==
  ASSUME NEW N \in Nat, NEW E \in Nat, NEW f \in [0 .. N - 1 -> 0 .. E - 1]
  PROVE  /\ Cardinality(RowsBelow(f, N, 0)) = 0
         /\ Cardinality(RowsBelow(f, N, E)) = N
         /\ \A e \in 0 .. E : Cardinality(RowsBelow(f, N, e)) \in 0 .. N
         /\ \A e \in 0 .. E : Cardinality(RowsOf(f, N, e)) \in 0 .. N
         /\ \A e \in 0 .. E - 1 :
              Cardinality(RowsBelow(f, N, e + 1)) =
                Cardinality(RowsBelow(f, N, e)) + Cardinality(RowsOf(f, N, e))
<1>1. RowsBelow(f, N, 0) = {}
  BY DEF RowsBelow
<1>2. RowsBelow(f, N, E) = 0 .. N - 1
  BY DEF RowsBelow
<1>3. ASSUME NEW e \in 0 .. E
      PROVE  /\ Cardinality(RowsBelow(f, N, e)) \in 0 .. N /\ IsFiniteSet(RowsBelow(f, N, e))
             /\ Cardinality(RowsOf(f, N, e)) \in 0 .. N /\ IsFiniteSet(RowsOf(f, N, e))
  <2>1. RowsBelow(f, N, e) \subseteq 0 .. N - 1 /\ RowsOf(f, N, e) \subseteq 0 .. N - 1
    BY DEF RowsBelow, RowsOf
  <2>2. QED
    BY <2>1, RowsFinite
<1>4. ASSUME NEW e \in 0 .. E - 1
      PROVE  Cardinality(RowsBelow(f, N, e + 1)) =
               Cardinality(RowsBelow(f, N, e)) + Cardinality(RowsOf(f, N, e))
  <2>1. RowsBelow(f, N, e + 1) = RowsBelow(f, N, e) \cup RowsOf(f, N, e)
    BY DEF RowsBelow, RowsOf
  <2>2. RowsBelow(f, N, e) \cap RowsOf(f, N, e) = {}
    BY DEF RowsBelow, RowsOf
  <2>3. e \in 0 .. E
    OBVIOUS
  <2>4. IsFiniteSet(RowsBelow(f, N, e)) /\ IsFiniteSet(RowsOf(f, N, e))
    BY <1>3, <2>3
  <2>5. QED
    BY <2>1, <2>2, <2>4, DisjointCount
<1>5. Cardinality(0 .. N - 1) = N /\ Cardinality({}) = 0
  BY FS_Interval, FS_EmptySet
<1>6. QED
  BY <1>1, <1>2, <1>3, <1>4, <1>5

-----------------------------------------------------------------------------
(* Blocks.  Expert d has c[d] of them; the blocks of an expert begin       *)
(* behind those of the experts below it.                                   *)

\* k numbers from 0 on.
LEMMA IntervalCount ==
  ASSUME NEW k \in Nat PROVE IsFiniteSet(0 .. k - 1) /\ Cardinality(0 .. k - 1) = k
BY FS_Interval

BlocksUpTo(c, e) == UNION {{d} \X (0 .. c[d] - 1) : d \in 0 .. e - 1}
FirstBlock(c, e) == Cardinality(BlocksUpTo(c, e))

\* The first block of an expert is where the one below it ends.
LEMMA OneMoreExpert ==
  ASSUME NEW E \in Nat, NEW c \in [0 .. E - 1 -> Nat], NEW e \in 0 .. E - 1,
         IsFiniteSet(BlocksUpTo(c, e))
  PROVE  /\ IsFiniteSet(BlocksUpTo(c, e + 1))
         /\ FirstBlock(c, e + 1) = FirstBlock(c, e) + c[e]
<1> DEFINE own == {e} \X (0 .. c[e] - 1)
<1>1. BlocksUpTo(c, e + 1) = BlocksUpTo(c, e) \cup own
  <2>1. 0 .. (e + 1) - 1 = (0 .. e - 1) \cup {e}
    OBVIOUS
  <2>2. QED
    BY <2>1, Zenon DEF BlocksUpTo
<1>2. BlocksUpTo(c, e) \cap own = {}
  BY DEF BlocksUpTo
<1>3. IsFiniteSet(own) /\ Cardinality(own) = c[e]
  <2>1. c[e] \in Nat
    OBVIOUS
  <2>2. IsFiniteSet({e}) /\ Cardinality({e}) = 1
    BY FS_Singleton
  <2>3. IsFiniteSet(0 .. c[e] - 1) /\ Cardinality(0 .. c[e] - 1) = c[e]
    BY <2>1, IntervalCount
  <2>4. IsFiniteSet(own) /\ Cardinality(own) = Cardinality({e}) * Cardinality(0 .. c[e] - 1)
    BY <2>2, <2>3, FS_Product, Zenon
  <2>5. QED
    BY <2>1, <2>2, <2>3, <2>4
<1> HIDE DEF own
<1>4. QED
  BY <1>1, <1>2, <1>3, DisjointCount DEF FirstBlock

\* Sets of blocks can be counted.
LEMMA BlocksFinite ==
  ASSUME NEW E \in Nat, NEW c \in [0 .. E - 1 -> Nat], NEW e \in 0 .. E
  PROVE  IsFiniteSet(BlocksUpTo(c, e)) /\ FirstBlock(c, e) \in Nat
<1> DEFINE T == {x \in 0 .. E : ~IsFiniteSet(BlocksUpTo(c, x))}
<1>1. BlocksUpTo(c, 0) = {}
  BY DEF BlocksUpTo
<1>2. T = {}
  <2> SUFFICES ASSUME T # {} PROVE FALSE
    OBVIOUS
  <2>1. T \in SUBSET Nat
    OBVIOUS
  <2> HIDE DEF T
  <2>2. PICK x \in T : \A y \in T : x <= y
    BY <2>1, Least
  <2>3. x \in 0 .. E /\ ~IsFiniteSet(BlocksUpTo(c, x))
    BY <2>2 DEF T
  <2>4. x # 0
    BY <1>1, <2>3, FS_EmptySet
  <2>5. x - 1 \in 0 .. E - 1 /\ x - 1 \in 0 .. E /\ x - 1 \notin T /\ (x - 1) + 1 = x
    BY <2>2, <2>3, <2>4
  <2>6. IsFiniteSet(BlocksUpTo(c, x - 1))
    BY <2>5 DEF T
  <2>7. QED
    BY <2>3, <2>5, <2>6, OneMoreExpert
<1>3. QED
  BY <1>2, FS_CardinalityType DEF FirstBlock

\* The block offsets begin with 0 and grow by each expert's block count.
THEOREM FirstBlocks ==
  ASSUME NEW E \in Nat, NEW c \in [0 .. E - 1 -> Nat]
  PROVE  /\ FirstBlock(c, 0) = 0
         /\ \A e \in 0 .. E : FirstBlock(c, e) \in Nat
         /\ \A e \in 0 .. E - 1 : FirstBlock(c, e + 1) = FirstBlock(c, e) + c[e]
         /\ \A d, e \in 0 .. E : d <= e => FirstBlock(c, d) <= FirstBlock(c, e)
<1>1. FirstBlock(c, 0) = 0
  <2>1. BlocksUpTo(c, 0) = {}
    BY DEF BlocksUpTo
  <2>2. QED
    BY <2>1, FS_EmptySet DEF FirstBlock
<1>2. ASSUME NEW e \in 0 .. E
      PROVE  FirstBlock(c, e) \in Nat /\ IsFiniteSet(BlocksUpTo(c, e))
  BY BlocksFinite
<1>3. ASSUME NEW e \in 0 .. E - 1 PROVE FirstBlock(c, e + 1) = FirstBlock(c, e) + c[e]
  <2>1. e \in 0 .. E
    OBVIOUS
  <2>2. QED
    BY <1>2, <2>1, OneMoreExpert
<1>4. ASSUME NEW d \in 0 .. E, NEW e \in 0 .. E, d <= e
      PROVE  FirstBlock(c, d) <= FirstBlock(c, e)
  <2>1. 0 .. d - 1 \subseteq 0 .. e - 1
    BY <1>4
  <2>2. BlocksUpTo(c, d) \subseteq BlocksUpTo(c, e)
    BY <2>1, Zenon DEF BlocksUpTo
  <2>3. QED
    BY <1>2, <2>2, FS_Subset DEF FirstBlock
<1>5. QED
  BY <1>1, <1>2, <1>3, <1>4

-----------------------------------------------------------------------------
(* Division with a remainder. *)

\* What a quotient lies between.
LEMMA Quotient ==
  ASSUME NEW a \in Int, NEW b \in Nat \ {0}
  PROVE  /\ a \div b \in Int /\ b * (a \div b) <= a /\ a < b * (a \div b) + b
         /\ a >= 0 => a \div b >= 0
OBVIOUS

\* Quotient and remainder of a number put together from both.
LEMMA Remainder ==
  ASSUME NEW b \in Nat \ {0}, NEW q \in Int, NEW r \in 0 .. b - 1
  PROVE  (b * q + r) \div b = q /\ (b * q + r) % b = r
<1>1. (b * q + r) \div b = q
  OBVIOUS
<1>2. (b * q + r) % b = r
  OBVIOUS
<1>3. QED
  BY <1>1, <1>2

\* Comparisons survive a positive factor.
LEMMA Scaled ==
  ASSUME NEW b \in Nat \ {0}, NEW x \in Int, NEW y \in Int
  PROVE  /\ b * x < b * y => x < y
         /\ x <= y => b * x <= b * y
         /\ b * x \in Int
<1>1. b * x < b * y => x < y
  OBVIOUS
<1>2. x <= y => b * x <= b * y
  OBVIOUS
<1>3. QED
  BY <1>1, <1>2

\* How many blocks of b rows it takes for a rows.
LEMMA CeilDivFits ==
  ASSUME NEW a \in Nat, NEW b \in Nat \ {0}
  PROVE  /\ CeilDiv(a, b) \in Nat
         /\ a <= b * CeilDiv(a, b) /\ b * CeilDiv(a, b) <= a + b - 1
         /\ \A q \in Nat : q < CeilDiv(a, b) <=> b * q < a
<1> DEFINE k == (a + b - 1) \div b
<1>1. k \in Int /\ b * k <= a + b - 1 /\ a + b - 1 < b * k + b /\ k >= 0
  <2>1. a + b - 1 \in Int /\ a + b - 1 >= 0
    OBVIOUS
  <2>2. QED
    BY <2>1, Quotient
<1>2. CeilDiv(a, b) = k
  BY DEF CeilDiv
<1> HIDE DEF k
<1>3. ASSUME NEW q \in Nat PROVE q < k <=> b * q < a
  <2>1. q < k => b * q < a
    <3>1. ASSUME q < k PROVE b * q < a
      <4>1. b * (q + 1) <= b * k
        BY <1>1, <3>1, Scaled
      <4>2. b * (q + 1) = b * q + b
        OBVIOUS
      <4>3. QED
        BY <1>1, <4>1, <4>2, Scaled
    <3>2. QED
      BY <3>1
  <2>2. ~(q < k) => ~(b * q < a)
    <3>1. ASSUME k <= q PROVE a <= b * q
      <4>1. b * k <= b * q /\ b * k \in Int /\ b * q \in Int
        BY <1>1, <3>1, Scaled
      <4>2. QED
        BY <1>1, <4>1
    <3>2. b * q \in Int
      BY Scaled
    <3>3. QED
      BY <1>1, <3>1, <3>2
  <2>3. QED
    BY <2>1, <2>2
<1>4. b * k \in Int
  BY <1>1, Scaled
<1>5. QED
  BY <1>1, <1>2, <1>3, <1>4

\* One more expert wastes less than a block more.
LEMMA WasteAdds ==
  ASSUME NEW b \in Nat \ {0}, NEW F \in Nat, NEW k \in Nat, NEW x \in Nat,
         NEW f \in Int, NEW g \in Int,
         b * F <= f + (x - 1) * (b - 1), b * k <= g - f + b - 1
  PROVE  b * (F + k) <= g + x * (b - 1)
<1> DEFINE bF == b * F
           bk == b * k
           bx == (x - 1) * (b - 1)
<1>1. b * (F + k) = bF + bk /\ x * (b - 1) = bx + (b - 1)
  OBVIOUS
<1>2. bF \in Int /\ bk \in Int /\ bx \in Int
  OBVIOUS
<1>3. bF <= f + bx /\ bk <= g - f + b - 1
  OBVIOUS
<1> HIDE DEF bF, bk, bx
<1>4. bF + bk <= g + (bx + (b - 1))
  BY <1>2, <1>3
<1>5. QED
  BY <1>1, <1>4

\* The schedule is large enough, however n rows spread over the experts: each
\* expert wastes less than a block (inkling_moe.py:344).
THEOREM ScheduleFits ==
  ASSUME NEW E \in Nat \ {0}, NEW c \in [0 .. E - 1 -> Nat], NEW b \in Nat \ {0},
         NEW first \in [0 .. E -> Nat], first[0] = 0,
         \A e \in 0 .. E - 1 : b * c[e] <= first[e + 1] - first[e] + b - 1
  PROVE  FirstBlock(c, E) <= CeilDiv(first[E], b) + E - 1
<1> DEFINE Bound(e) == b * FirstBlock(c, e) <= first[e] + e * (b - 1)
           T == {e \in 0 .. E : ~Bound(e)}
<1>1. T = {}
  <2> SUFFICES ASSUME T # {} PROVE FALSE
    OBVIOUS
  <2>1. T \in SUBSET Nat
    OBVIOUS
  <2>2. \A e \in T : e \in 0 .. E /\ ~Bound(e)
    OBVIOUS
  <2>3. \A e \in 0 .. E : e \notin T => Bound(e)
    OBVIOUS
  <2> HIDE DEF T
  <2>4. PICK x \in T : \A y \in T : x <= y
    BY <2>1, Least
  <2>5. Bound(0)
    <3>1. FirstBlock(c, 0) = 0
      BY FirstBlocks
    <3>2. b * 0 = 0 /\ 0 * (b - 1) = 0
      OBVIOUS
    <3>3. QED
      BY <3>1, <3>2
  <2>6. x # 0 /\ x \in 0 .. E
    BY <2>2, <2>4, <2>5
  <2>7. x - 1 \in 0 .. E - 1 /\ x - 1 \in 0 .. E /\ x - 1 \notin T /\ (x - 1) + 1 = x
    BY <2>4, <2>6
  <2>8. b * FirstBlock(c, x - 1) <= first[x - 1] + (x - 1) * (b - 1)
    BY <2>3, <2>7
  <2> DEFINE F == FirstBlock(c, x - 1)
             k == c[x - 1]
  <2>9. FirstBlock(c, x) = F + k /\ F \in Nat /\ k \in Nat
    BY <2>7, FirstBlocks
  <2>10. b * k <= first[x] - first[x - 1] + b - 1
    BY <2>6, <2>7
  <2>11. ~(b * (F + k) <= first[x] + x * (b - 1))
    BY <2>2, <2>4, <2>9
  <2> HIDE DEF F, k, Bound
  <2>12. b * F <= first[x - 1] + (x - 1) * (b - 1)
    BY <2>8 DEF F
  <2>13. first[x] \in Int /\ first[x - 1] \in Int /\ x \in Nat /\ F \in Nat /\ k \in Nat
    BY <2>6, <2>7, <2>9
  <2>14. b * (F + k) <= first[x] + x * (b - 1)
    BY <2>10, <2>12, <2>13, WasteAdds, Zenon
  <2>15. QED
    BY <2>11, <2>14
<1>2. b * FirstBlock(c, E) <= first[E] + E * (b - 1)
  <2>1. E \in 0 .. E
    OBVIOUS
  <2>2. QED
    BY <1>1, <2>1
<1> DEFINE F == FirstBlock(c, E)
           q == CeilDiv(first[E], b)
<1>3. F \in Nat /\ q \in Nat /\ first[E] \in Nat /\ first[E] <= b * q
  <2>1. E \in 0 .. E
    OBVIOUS
  <2>2. first[E] \in Nat
    BY <2>1
  <2>3. F \in Nat
    BY <2>1, FirstBlocks
  <2>4. QED
    BY <2>2, <2>3, CeilDivFits
<1>4. b * F <= first[E] + E * (b - 1)
  BY <1>2
<1> HIDE DEF F, q
<1>5. E * (b - 1) = b * E - E /\ b * (q + E) = b * q + b * E
  BY <1>3
<1> DEFINE bF == b * F
           bq == b * q
           bE == b * E
<1>6. bF \in Int /\ bq \in Int /\ bE \in Int
  BY <1>3
<1>7. b * F < b * (q + E)
  <2>1. bF <= first[E] + (bE - E) /\ first[E] <= bq
    BY <1>3, <1>4, <1>5
  <2>2. bF < bq + bE
    <3> HIDE DEF bF, bq, bE
    <3>1. QED
      BY <1>3, <1>6, <2>1
  <2>3. QED
    BY <1>5, <2>2
<1>8. F < q + E
  BY <1>3, <1>7, Scaled
<1>9. QED
  BY <1>3, <1>8 DEF F, q

\* Every slot of the schedule belongs to one block of one expert.
THEOREM BlockOfSlot ==
  ASSUME NEW E \in Nat, NEW c \in [0 .. E - 1 -> Nat], NEW s \in Nat, s < FirstBlock(c, E)
  PROVE  \E e \in 0 .. E - 1 : \E b \in 0 .. c[e] - 1 : s = FirstBlock(c, e) + b
<1> DEFINE T == {e \in 0 .. E : s < FirstBlock(c, e)}
<1>1. E \in T
  OBVIOUS
<1>2. T \in SUBSET Nat
  OBVIOUS
<1>3. \A e \in 0 .. E : FirstBlock(c, e) \in Nat
  BY FirstBlocks
<1>4. PICK x \in T : \A y \in T : x <= y
  <2> HIDE DEF T
  <2>1. QED
    BY <1>1, <1>2, Least
<1>5. x \in 0 .. E /\ s < FirstBlock(c, x)
  BY <1>4
<1>6. x # 0
  <2>1. FirstBlock(c, 0) = 0
    BY FirstBlocks
  <2>2. QED
    BY <1>5, <2>1
<1>7. x - 1 \in 0 .. E - 1 /\ x - 1 \in 0 .. E /\ (x - 1) + 1 = x
  BY <1>5, <1>6
<1>8. x - 1 \notin T
  BY <1>4, <1>5
<1>9. ~(s < FirstBlock(c, x - 1))
  BY <1>7, <1>8
<1> HIDE DEF T
<1>10. FirstBlock(c, x) = FirstBlock(c, x - 1) + c[x - 1]
  BY <1>7, FirstBlocks
<1> DEFINE F == FirstBlock(c, x - 1)
           b == s - F
<1>11. F \in Nat /\ c[x - 1] \in Nat
  BY <1>3, <1>7
<1>12. s < F + c[x - 1] /\ ~(s < F)
  BY <1>5, <1>9, <1>10
<1> HIDE DEF F
<1>13. b \in 0 .. c[x - 1] - 1 /\ s = F + b
  BY <1>11, <1>12
<1>14. QED
  BY <1>7, <1>13 DEF F

\* A block's slot is one of the schedule's, behind the first slot of its own
\* expert and before that of the next.
LEMMA SlotsApart ==
  ASSUME NEW E \in Nat, NEW c \in [0 .. E - 1 -> Nat],
         NEW e \in 0 .. E - 1, NEW b \in 0 .. c[e] - 1
  PROVE  /\ FirstBlock(c, e) + b \in 0 .. FirstBlock(c, E) - 1
         /\ \A d \in 0 .. E : FirstBlock(c, d) <= FirstBlock(c, e) + b <=> d <= e
<1>1. /\ e \in 0 .. E /\ e + 1 \in 0 .. E /\ E \in 0 .. E /\ c[e] \in Nat
      /\ b \in Nat /\ b < c[e]
  OBVIOUS
<1>2. /\ FirstBlock(c, e) \in Nat /\ FirstBlock(c, e + 1) \in Nat /\ FirstBlock(c, E) \in Nat
      /\ FirstBlock(c, e + 1) = FirstBlock(c, e) + c[e]
      /\ FirstBlock(c, e + 1) <= FirstBlock(c, E)
  BY <1>1, FirstBlocks
<1>3. FirstBlock(c, e) + b \in 0 .. FirstBlock(c, E) - 1
  BY <1>1, <1>2
<1>4. ASSUME NEW d \in 0 .. E PROVE FirstBlock(c, d) <= FirstBlock(c, e) + b <=> d <= e
  <2>1. FirstBlock(c, d) \in Nat
    BY FirstBlocks
  <2>2. CASE d <= e
    <3>1. FirstBlock(c, d) <= FirstBlock(c, e)
      BY <1>1, <2>2, FirstBlocks
    <3>2. QED
      BY <1>1, <1>2, <2>1, <2>2, <3>1
  <2>3. CASE ~(d <= e)
    <3>1. e + 1 <= d
      BY <2>3
    <3>2. FirstBlock(c, e + 1) <= FirstBlock(c, d)
      BY <1>1, <3>1, FirstBlocks
    <3>3. QED
      BY <1>1, <1>2, <2>1, <2>3, <3>2
  <2>4. QED
    BY <2>2, <2>3
<1>5. QED
  BY <1>3, <1>4

\* The key of a lane, a row's or, behind the last row, a pad's.
LaneId(f, N, E, l) == IF l < N THEN f[l] ELSE E
LaneKey(f, N, E, l) == Key(LaneId(f, N, E, l), l)
KeysOf(f, N, E, S) == {LaneKey(f, N, E, l) : l \in S}
LaneKeys(f, N, E, L) == KeysOf(f, N, E, 0 .. L - 1)
KeyPositions == 4096
LanesOK(f, N, E, L) ==
  E \in Nat /\ N \in Nat /\ L \in Nat /\ L <= KeyPositions /\ f \in [0 .. N - 1 -> 0 .. E - 1]

\* Keys differ, and are ordered by expert, then by lane.
LEMMA LaneOrder ==
  ASSUME NEW f, NEW N, NEW E, NEW L, LanesOK(f, N, E, L), NEW l \in 0 .. L - 1, NEW m \in 0 .. L - 1
  PROVE  /\ LaneKey(f, N, E, l) = LaneKey(f, N, E, m) => l = m
         /\ LaneKey(f, N, E, l) < LaneKey(f, N, E, m) <=>
              \/ LaneId(f, N, E, l) < LaneId(f, N, E, m)
              \/ LaneId(f, N, E, l) = LaneId(f, N, E, m) /\ l < m
<1> DEFINE il == LaneId(f, N, E, l)
           im == LaneId(f, N, E, m)
<1>1. l \in Nat /\ l < 4096 /\ m \in Nat /\ m < 4096
  BY DEF LanesOK, KeyPositions
<1>2. il \in Nat /\ im \in Nat
  BY <1>1 DEF LanesOK, LaneId
<1>3. LaneKey(f, N, E, l) = Key(il, l) /\ LaneKey(f, N, E, m) = Key(im, m)
  BY DEF LaneKey
<1> HIDE DEF il, im
<1>4. /\ PosOf(Key(il, l)) = l /\ PosOf(Key(im, m)) = m
      /\ Key(il, l) < Key(im, m) <=> il < im \/ (il = im /\ l < m)
  BY <1>1, <1>2, KeysSortStably
<1>5. LaneKey(f, N, E, l) = LaneKey(f, N, E, m) => l = m
  BY <1>3, <1>4, Zenon
<1>6. QED
  BY <1>3, <1>4, <1>5 DEF il, im

\* As many keys as lanes, ...
LEMMA KeysCount ==
  ASSUME NEW f, NEW N, NEW E, NEW L, LanesOK(f, N, E, L), NEW S, S \subseteq 0 .. L - 1
  PROVE  /\ IsFiniteSet(KeysOf(f, N, E, S))
         /\ Cardinality(KeysOf(f, N, E, S)) = Cardinality(S)
<1> DEFINE W == KeysOf(f, N, E, S)
           g == [l \in S |-> LaneKey(f, N, E, l)]
<1>1. g \in Surjection(S, W)
  BY DEF Surjection, KeysOf
<1>2. \A l, m \in S : LaneKey(f, N, E, l) = LaneKey(f, N, E, m) => l = m
  BY LaneOrder
<1>3. g \in Injection(S, W)
  BY <1>1, <1>2 DEF Surjection, Injection, IsInjective
<1>4. IsFiniteSet(S)
  BY RowsFinite DEF LanesOK
<1> HIDE DEF W, g
<1>5. IsFiniteSet(W) /\ Cardinality(W) = Cardinality(S)
  BY <1>1, <1>3, <1>4, FS_Surjection
<1>6. QED
  BY <1>5 DEF W

\* ... so as many keys of rows as rows.
LEMMA RowKeysCount ==
  ASSUME NEW f, NEW N, NEW E, NEW L, LanesOK(f, N, E, L), N <= L
  PROVE  Cardinality(KeysOf(f, N, E, 0 .. N - 1)) = N
<1>1. N \in Nat /\ 0 .. N - 1 \subseteq 0 .. L - 1
  BY DEF LanesOK
<1>2. Cardinality(KeysOf(f, N, E, 0 .. N - 1)) = Cardinality(0 .. N - 1)
  BY <1>1, KeysCount
<1>3. QED
  BY <1>1, <1>2, IntervalCount

\* A sort by key puts the rows where a stable sort by expert puts them, and
\* the pads, whose expert is above all others, behind them.
THEOREM KeysInOrder ==
  ASSUME NEW f, NEW N, NEW E, NEW L, LanesOK(f, N, E, L), N <= L, NEW r \in 0 .. N - 1,
         NEW k \in LaneKeys(f, N, E, L)
  PROVE  Cardinality({j \in LaneKeys(f, N, E, L) : j < k}) = Cardinality(RowsBefore(f, N, r))
           <=> k = Key(f[r], r)
<1> DEFINE K == LaneKeys(f, N, E, L)
           Below(q) == {j \in K : j < LaneKey(f, N, E, q)}
<1>0. /\ E \in Nat /\ N \in Nat /\ L \in Nat /\ L <= KeyPositions
      /\ f \in [0 .. N - 1 -> 0 .. E - 1]
  BY DEF LanesOK
<1> USE <1>0
<1>1. ASSUME NEW q \in 0 .. N - 1
      PROVE  Below(q) = KeysOf(f, N, E, RowsBefore(f, N, q))
  <2>1. q \in 0 .. L - 1 /\ q < N /\ f[q] \in 0 .. E - 1
    OBVIOUS
  <2>2. ASSUME NEW l \in 0 .. L - 1
        PROVE  LaneKey(f, N, E, l) < LaneKey(f, N, E, q) <=> l \in RowsBefore(f, N, q)
    <3>1. CASE l < N
      <4>1. l \in 0 .. N - 1
        BY <3>1
      <4>2. LaneId(f, N, E, l) = f[l] /\ LaneId(f, N, E, q) = f[q]
        BY <2>1, <3>1 DEF LaneId
      <4>3. l \in RowsBefore(f, N, q) <=> f[l] < f[q] \/ (f[l] = f[q] /\ l < q)
        BY <4>1 DEF RowsBefore
      <4>4. QED
        BY <2>1, <4>2, <4>3, LaneOrder
    <3>2. CASE ~(l < N)
      <4>1. LaneId(f, N, E, l) = E /\ LaneId(f, N, E, q) = f[q]
        BY <2>1, <3>2 DEF LaneId
      <4>2. l \notin RowsBefore(f, N, q)
        BY <3>2 DEF RowsBefore
      <4>3. QED
        BY <2>1, <4>1, <4>2, LaneOrder
    <3>3. QED
      BY <3>1, <3>2
  <2>3. RowsBefore(f, N, q) \subseteq 0 .. L - 1
    BY DEF RowsBefore
  <2>4. ASSUME NEW j \in Below(q)
        PROVE  j \in KeysOf(f, N, E, RowsBefore(f, N, q))
    <3>1. PICK l \in 0 .. L - 1 : j = LaneKey(f, N, E, l)
      BY DEF LaneKeys, KeysOf
    <3>2. QED
      BY <2>2, <3>1 DEF KeysOf
  <2>5. ASSUME NEW l \in RowsBefore(f, N, q) PROVE LaneKey(f, N, E, l) \in Below(q)
    BY <2>2, <2>3 DEF LaneKeys, KeysOf
  <2>6. QED
    BY <2>4, <2>5 DEF KeysOf
<1>2. ASSUME NEW q \in 0 .. N - 1
      PROVE  Cardinality(Below(q)) = Cardinality(RowsBefore(f, N, q))
  <2>1. RowsBefore(f, N, q) \subseteq 0 .. L - 1
    BY DEF RowsBefore
  <2>2. Cardinality(KeysOf(f, N, E, RowsBefore(f, N, q))) = Cardinality(RowsBefore(f, N, q))
    BY <2>1, KeysCount
  <2>3. QED
    BY <1>1, <2>2
<1>3. Cardinality(RowsBefore(f, N, r)) \in 0 .. N - 1
  <2>1. f \in [0 .. N - 1 -> Int]
    OBVIOUS
  <2>2. QED
    BY <2>1, EveryPlaceOnce
<1>4. PICK m \in 0 .. L - 1 : k = LaneKey(f, N, E, m)
  BY DEF LaneKeys, KeysOf
<1>5. Key(f[r], r) = LaneKey(f, N, E, r) /\ r \in 0 .. L - 1
  BY DEF LaneKey, LaneId
<1>6. CASE m < N
  <2>1. m \in 0 .. N - 1
    BY <1>6
  <2>2. Cardinality(Below(m)) = Cardinality(RowsBefore(f, N, m))
    BY <1>2, <2>1
  <2>3. Cardinality(RowsBefore(f, N, m)) = Cardinality(RowsBefore(f, N, r)) <=> m = r
    <3>1. f \in [0 .. N - 1 -> Int]
      OBVIOUS
    <3>2. QED
      BY <2>1, <3>1, EveryPlaceOnce
  <2>4. LaneKey(f, N, E, m) = LaneKey(f, N, E, r) <=> m = r
    BY <1>5, LaneOrder
  <2>5. QED
    BY <1>4, <1>5, <2>2, <2>3, <2>4
<1>7. CASE ~(m < N)
  <2>1. 0 .. N - 1 \subseteq 0 .. L - 1
    OBVIOUS
  <2> DEFINE rows == KeysOf(f, N, E, 0 .. N - 1)
  <2>2. Cardinality(rows) = N
    BY RowKeysCount
  <2>3. rows \subseteq Below(m)
    <3>1. ASSUME NEW l \in 0 .. N - 1 PROVE LaneKey(f, N, E, l) \in Below(m)
      <4>1. l \in 0 .. L - 1 /\ l < N /\ f[l] \in 0 .. E - 1
        OBVIOUS
      <4>2. LaneId(f, N, E, l) = f[l] /\ LaneId(f, N, E, m) = E
        BY <1>7, <4>1 DEF LaneId
      <4>3. LaneKey(f, N, E, l) < LaneKey(f, N, E, m)
        BY <4>1, <4>2, LaneOrder
      <4>4. QED
        BY <4>1, <4>3 DEF LaneKeys, KeysOf
    <3>2. QED
      BY <3>1 DEF KeysOf
  <2>4. IsFiniteSet(Below(m))
    <3>1. IsFiniteSet(K)
      BY KeysCount DEF LaneKeys
    <3>2. QED
      BY <3>1, FS_Subset
  <2>5. Cardinality(rows) <= Cardinality(Below(m)) /\ Cardinality(Below(m)) \in Nat
    BY <2>3, <2>4, FS_Subset, FS_CardinalityType
  <2>6. Cardinality(Below(m)) # Cardinality(RowsBefore(f, N, r))
    BY <1>3, <2>2, <2>5
  <2>7. k # Key(f[r], r)
    BY <1>4, <1>5, <1>7, LaneOrder
  <2>8. QED
    BY <1>4, <2>6, <2>7
<1>8. QED
  BY <1>6, <1>7

\* Words of different blocks differ, so they are as many as the blocks.
PairWord(p) == Word(p[2], p[1])
WordExperts == 65536

\* A word of the schedule gives back its block and its expert, ...
LEMMA WordGivesBack ==
  ASSUME NEW E \in Nat, E <= WordExperts, NEW e \in 0 .. E - 1, NEW b \in Nat
  PROVE  BlockOf(Word(b, e)) = b /\ ExpertOf(Word(b, e)) = e
<1>1. e \in Nat /\ e < 65536
  BY DEF WordExperts
<1>2. QED
  BY <1>1, WordsUnpack

\* ... so different blocks have different words ...
LEMMA WordsDiffer ==
  ASSUME NEW E \in Nat, E <= WordExperts,
         NEW p \in (0 .. E - 1) \X Nat, NEW q \in (0 .. E - 1) \X Nat, PairWord(p) = PairWord(q)
  PROVE  p = q
<1>1. PICK e \in 0 .. E - 1, b \in Nat : p = <<e, b>>
  OBVIOUS
<1>2. PICK d \in 0 .. E - 1, a \in Nat : q = <<d, a>>
  OBVIOUS
<1>3. Word(b, e) = Word(a, d)
  BY <1>1, <1>2 DEF PairWord
<1>5. /\ BlockOf(Word(b, e)) = b /\ ExpertOf(Word(b, e)) = e
      /\ BlockOf(Word(a, d)) = a /\ ExpertOf(Word(a, d)) = d
  BY WordGivesBack
<1>6. b = a /\ e = d
  BY <1>3, <1>5, Zenon
<1>7. QED
  BY <1>1, <1>2, <1>6

\* ... and there are as many words as blocks.
LEMMA WordsCount ==
  ASSUME NEW E \in Nat, E <= WordExperts, NEW S, IsFiniteSet(S), S \subseteq (0 .. E - 1) \X Nat
  PROVE  Cardinality({PairWord(p) : p \in S}) = Cardinality(S)
<1> DEFINE W == {PairWord(p) : p \in S}
           g == [p \in S |-> PairWord(p)]
<1>1. g \in Surjection(S, W)
  BY DEF Surjection
<1>2. \A p, q \in S : g[p] = g[q] => p = q
  BY WordsDiffer
<1>3. g \in Injection(S, W)
  BY <1>1, <1>2 DEF Surjection, Injection, IsInjective
<1> HIDE DEF W, g
<1>4. Cardinality(W) = Cardinality(S)
  BY <1>1, <1>3, FS_Surjection
<1>5. QED
  BY <1>4 DEF W

\* The words of all blocks, in the order of the schedule.
WordsOf(c, E) == UNION {{Word(b, e) : b \in 0 .. c[e] - 1} : e \in 0 .. E - 1}
WordsBefore(c, E, w) ==
  {v \in WordsOf(c, E) : \/ ExpertOf(v) < ExpertOf(w)
                         \/ ExpertOf(v) = ExpertOf(w) /\ v < w}

\* Sorted by expert and block, a word stands where the running sum of the
\* block counts puts it.
THEOREM WordsInOrder ==
  ASSUME NEW E \in Nat, E <= WordExperts, NEW c \in [0 .. E - 1 -> Nat]
  PROVE  /\ Cardinality(WordsOf(c, E)) = FirstBlock(c, E)
         /\ \A e \in 0 .. E - 1 : \A b \in 0 .. c[e] - 1 :
              Cardinality(WordsBefore(c, E, Word(b, e))) = FirstBlock(c, e) + b
<1>1. ASSUME NEW e \in 0 .. E PROVE BlocksUpTo(c, e) \subseteq (0 .. E - 1) \X Nat
  BY <1>1 DEF BlocksUpTo
<1>2. WordsOf(c, E) = {PairWord(p) : p \in BlocksUpTo(c, E)}
  <2>1. ASSUME NEW e \in 0 .. E - 1, NEW b \in 0 .. c[e] - 1
        PROVE  <<e, b>> \in BlocksUpTo(c, E) /\ PairWord(<<e, b>>) = Word(b, e)
    BY DEF BlocksUpTo, PairWord
  <2>2. ASSUME NEW p \in BlocksUpTo(c, E)
        PROVE  \E e \in 0 .. E - 1 : \E b \in 0 .. c[e] - 1 : p = <<e, b>>
    BY DEF BlocksUpTo
  <2>3. ASSUME NEW v \in WordsOf(c, E) PROVE \E p \in BlocksUpTo(c, E) : v = PairWord(p)
    <3>1. PICK e \in 0 .. E - 1 : \E b \in 0 .. c[e] - 1 : v = Word(b, e)
      BY DEF WordsOf
    <3>2. QED
      BY <2>1, <3>1
  <2>4. ASSUME NEW p \in BlocksUpTo(c, E) PROVE PairWord(p) \in WordsOf(c, E)
    BY <2>1, <2>2 DEF WordsOf
  <2>5. QED
    BY <2>3, <2>4
<1>3. Cardinality(WordsOf(c, E)) = FirstBlock(c, E)
  <2>1. E \in 0 .. E
    OBVIOUS
  <2>2. IsFiniteSet(BlocksUpTo(c, E))
    BY <2>1, BlocksFinite
  <2>3. QED
    BY <1>1, <1>2, <2>1, <2>2, WordsCount DEF FirstBlock
<1>4. ASSUME NEW e \in 0 .. E - 1, NEW b \in 0 .. c[e] - 1
      PROVE  Cardinality(WordsBefore(c, E, Word(b, e))) = FirstBlock(c, e) + b
  <2> DEFINE own == {e} \X (0 .. b - 1)
             S == BlocksUpTo(c, e) \cup own
  <2>1. e \in 0 .. E /\ b \in Nat /\ c[e] \in Nat
    OBVIOUS
  <2>2. IsFiniteSet(BlocksUpTo(c, e))
    BY <2>1, BlocksFinite
  <2>3. IsFiniteSet(own) /\ Cardinality(own) = b
    <3>1. IsFiniteSet({e}) /\ Cardinality({e}) = 1
      BY FS_Singleton
    <3>2. IsFiniteSet(0 .. b - 1) /\ Cardinality(0 .. b - 1) = b
      BY <2>1, IntervalCount
    <3>3. IsFiniteSet(own) /\ Cardinality(own) = Cardinality({e}) * Cardinality(0 .. b - 1)
      BY <3>1, <3>2, FS_Product, Zenon
    <3>4. QED
      BY <2>1, <3>1, <3>2, <3>3
  <2>4. BlocksUpTo(c, e) \cap own = {}
    BY DEF BlocksUpTo
  <2>5. IsFiniteSet(S) /\ Cardinality(S) = FirstBlock(c, e) + b
    <3> HIDE DEF own
    <3>1. QED
      BY <2>2, <2>3, <2>4, DisjointCount DEF FirstBlock
  <2>6. S \subseteq (0 .. E - 1) \X Nat
    BY <1>1, <2>1
  <2>7. ASSUME NEW d \in 0 .. E - 1, NEW a \in 0 .. c[d] - 1
        PROVE  Word(a, d) \in WordsBefore(c, E, Word(b, e)) <=> <<d, a>> \in S
    <3>1. d \in Nat /\ a \in Nat /\ e \in Nat
      OBVIOUS
    <3>2. ExpertOf(Word(a, d)) = d /\ ExpertOf(Word(b, e)) = e
      BY <2>1, <3>1, WordGivesBack
    <3>3. d = e => (Word(a, d) < Word(b, e) <=> a < b)
      BY <2>1, <3>1 DEF Word
    <3>4. Word(a, d) \in WordsOf(c, E)
      BY DEF WordsOf
    <3>5. Word(a, d) \in WordsBefore(c, E, Word(b, e)) <=> d < e \/ (d = e /\ a < b)
      BY <3>2, <3>3, <3>4, Zenon DEF WordsBefore
    <3>6. <<d, a>> \in BlocksUpTo(c, e) <=> d < e
      BY <2>1, <3>1 DEF BlocksUpTo
    <3>7. <<d, a>> \in own <=> d = e /\ a < b
      BY <2>1, <3>1
    <3>8. QED
      BY <3>5, <3>6, <3>7
  <2>8. WordsBefore(c, E, Word(b, e)) = {PairWord(p) : p \in S}
    <3>1. ASSUME NEW v \in WordsBefore(c, E, Word(b, e))
          PROVE  \E p \in S : v = PairWord(p)
      <4>1. PICK d \in 0 .. E - 1 : \E a \in 0 .. c[d] - 1 : v = Word(a, d)
        BY DEF WordsBefore, WordsOf
      <4>2. PICK a \in 0 .. c[d] - 1 : v = Word(a, d)
        BY <4>1
      <4>3. <<d, a>> \in S
        BY <2>7, <4>2
      <4>4. PairWord(<<d, a>>) = Word(a, d)
        BY DEF PairWord
      <4> HIDE DEF S
      <4>5. QED
        BY <4>2, <4>3, <4>4
    <3>2. ASSUME NEW p \in S PROVE PairWord(p) \in WordsBefore(c, E, Word(b, e))
      <4>1. \E d \in 0 .. E - 1 : \E a \in 0 .. c[d] - 1 : p = <<d, a>>
        BY <2>1 DEF BlocksUpTo
      <4>2. PICK d \in 0 .. E - 1 : \E a \in 0 .. c[d] - 1 : p = <<d, a>>
        BY <4>1
      <4>3. PICK a \in 0 .. c[d] - 1 : p = <<d, a>>
        BY <4>2
      <4>4. PairWord(p) = Word(a, d)
        BY <4>3 DEF PairWord
      <4> HIDE DEF S
      <4>5. QED
        BY <2>7, <4>3, <4>4
    <3> HIDE DEF S
    <3>3. QED
      BY <3>1, <3>2
  <2> HIDE DEF S
  <2>9. QED
    BY <2>5, <2>6, <2>8, WordsCount
<1>5. QED
  BY <1>3, <1>4

-----------------------------------------------------------------------------
(* Tiles.  The programs of a GEMM's grid, M row blocks by T column tiles,  *)
(* are numbered in groups of G row blocks, and in a group column by        *)
(* column; the last group may be smaller.                                  *)

GroupSize(M, G, first) == IF M - first < G THEN M - first ELSE G
TileAt(M, T, G, pid) ==
  LET first == (pid \div (G * T)) * G
      size  == GroupSize(M, G, first)
  IN  <<first + ((pid % (G * T)) % size), (pid % (G * T)) \div size>>

\* What is known of a group that begins inside the grid.
LEMMA GroupFits ==
  ASSUME NEW M \in Nat, NEW G \in Nat \ {0}, NEW first \in Nat, first < M
  PROVE  /\ GroupSize(M, G, first) \in Nat \ {0}
         /\ GroupSize(M, G, first) <= G /\ first + GroupSize(M, G, first) <= M
         /\ GroupSize(M, G, first) = G \/ GroupSize(M, G, first) = M - first
BY DEF GroupSize

\* A grid that has rows and columns has programs.
LEMMA Product ==
  ASSUME NEW x \in Nat \ {0}, NEW y \in Nat \ {0}
  PROVE  x * y \in Nat \ {0}
OBVIOUS

\* A program's tile lies in the grid, ...
THEOREM TileInGrid ==
  ASSUME NEW M \in Nat, NEW T \in Nat \ {0}, NEW G \in Nat \ {0}, NEW pid \in 0 .. M * T - 1
  PROVE  TileAt(M, T, G, pid) \in (0 .. M - 1) \X (0 .. T - 1)
<1> DEFINE w == G * T
           q == pid \div w
           r == pid % w
           first == q * G
           size == GroupSize(M, G, first)
<1>1. w \in Nat \ {0} /\ pid \in Nat /\ pid < M * T
  <2>1. M * T \in Int
    OBVIOUS
  <2>2. QED
    BY <2>1, Product
<1>2. q \in Nat /\ r \in 0 .. w - 1 /\ pid = w * q + r
  <2> HIDE DEF w
  <2>1. QED
    BY <1>1
<1>3. w * q = T * first /\ first \in Nat
  <2> HIDE DEF q
  <2>1. QED
    BY <1>2
<1> HIDE DEF q, r
<1>4. first < M
  <2>1. T * first <= pid /\ T * M = M * T /\ T * first \in Int /\ T * M \in Int
    BY <1>1, <1>2, <1>3
  <2>2. T * first < T * M
    BY <1>1, <2>1
  <2> HIDE DEF first
  <2>3. QED
    BY <1>3, <2>2, Scaled
<1>5. size \in Nat \ {0} /\ size <= G /\ first + size <= M /\ (size = G \/ size = M - first)
  <2> HIDE DEF first
  <2>1. QED
    BY <1>3, <1>4, GroupFits
<1> HIDE DEF first, size
<1>6. r < T * size /\ r \in Nat /\ T * size \in Int
  <2>1. T * size = w \/ T * size = T * M - T * first
    <3>1. size = G => T * size = w
      OBVIOUS
    <3>2. size = M - first => T * size = T * M - T * first
      BY <1>3
    <3>3. QED
      BY <1>5, <3>1, <3>2
  <2>2. r = pid - T * first /\ pid < T * M /\ r < w /\ r \in Nat
    <3>1. w \in Nat /\ w * q = T * first /\ pid \in Nat /\ r \in 0 .. w - 1 /\ pid = w * q + r
      BY <1>1, <1>2, <1>3
    <3>2. T * M = M * T
      OBVIOUS
    <3> DEFINE x == T * first
    <3>3. x \in Int /\ w * q = x
      BY <1>3
    <3> HIDE DEF x, w
    <3>4. pid = x + r /\ r \in Nat /\ r < w
      BY <3>1, <3>3
    <3>5. QED
      BY <1>1, <3>1, <3>2, <3>3, <3>4 DEF x
  <2>3. T * first \in Int /\ T * M \in Int /\ w \in Int /\ T * size \in Int
    BY <1>1, <1>3, <1>5
  <2> DEFINE x == T * first
             y == T * M
             z == T * size
  <2>4. /\ z = w \/ z = y - x
        /\ r = pid - x /\ pid < y /\ r < w /\ r \in Nat
        /\ x \in Int /\ y \in Int /\ z \in Int /\ w \in Int
    BY <2>1, <2>2, <2>3
  <2> HIDE DEF x, y, z, w
  <2>5. r < z
    BY <1>1, <2>4
  <2>6. QED
    BY <2>4, <2>5 DEF z
<1> HIDE DEF w
<1>7. r % size \in 0 .. size - 1
  BY <1>5, <1>6
<1>8. r \div size \in 0 .. T - 1
  <2>1. r \div size \in Int /\ size * (r \div size) <= r /\ r \div size >= 0
    BY <1>5, <1>6, Quotient
  <2>2. size * (r \div size) \in Int /\ size * T = T * size
    BY <1>5, <2>1
  <2>3. size * (r \div size) < size * T
    BY <1>6, <2>1, <2>2
  <2>4. r \div size < T
    BY <1>5, <2>1, <2>3, Scaled
  <2>5. QED
    BY <2>1, <2>4
<1>9. first + (r % size) \in 0 .. M - 1
  BY <1>3, <1>5, <1>7
<1>10. TileAt(M, T, G, pid) = <<first + (r % size), r \div size>>
  BY DEF TileAt, first, size, q, r, w
<1>11. QED
  BY <1>8, <1>9, <1>10

HasProgram(M, T, G, s, j) == \E pid \in 0 .. M * T - 1 : TileAt(M, T, G, pid) = <<s, j>>

\* ... and every tile of the grid is some program's.
THEOREM EveryTile ==
  ASSUME NEW M \in Nat, NEW T \in Nat \ {0}, NEW G \in Nat \ {0},
         NEW s \in 0 .. M - 1, NEW j \in 0 .. T - 1
  PROVE  HasProgram(M, T, G, s, j)
<1> DEFINE w == G * T
           q == s \div G
           i == s % G
           first == q * G
           size == GroupSize(M, G, first)
           r == size * j + i
           pid == w * q + r
<1>1. q \in Nat /\ i \in 0 .. G - 1 /\ s = first + i
  BY DEF first
<1>2. first \in Nat /\ first < M
  <2> HIDE DEF q, i
  <2>1. first \in Nat
    BY <1>1
  <2> HIDE DEF first
  <2>2. QED
    BY <1>1, <2>1
<1>3. size \in Nat \ {0} /\ size <= G /\ first + size <= M /\ i < size
  <2> HIDE DEF q, i, first
  <2>1. /\ size \in Nat \ {0} /\ size <= G /\ first + size <= M
        /\ size = G \/ size = M - first
    BY <1>2, GroupFits
  <2> HIDE DEF size
  <2>2. QED
    BY <1>1, <1>2, <2>1
<1>4. w * q = T * first /\ w \in Nat \ {0}
  <2> HIDE DEF q, i
  <2>1. w \in Nat \ {0}
    BY Product
  <2>2. QED
    BY <1>1, <2>1
<1> HIDE DEF q, i, first, size
<1>5. r \in Nat /\ r < T * size /\ T * size <= w
  <2>1. size * j \in Nat
    BY <1>3
  <2>2. size * (j + 1) = size * j + size /\ size * T = T * size /\ w = T * G
    BY <1>3
  <2>3. size * (j + 1) <= size * T /\ T * size <= T * G
    BY <1>3, Scaled
  <2> DEFINE x == size * j
             y == T * size
  <2>4. x \in Nat /\ x + size <= y /\ y \in Int
    BY <1>3, <2>1, <2>2, <2>3
  <2> HIDE DEF x
  <2>5. x + i \in Nat /\ x + i < y
    <3> HIDE DEF y
    <3>1. QED
      BY <1>1, <1>3, <2>4
  <2>6. QED
    BY <2>2, <2>3, <2>5 DEF x
<1>6. r % size = i /\ r \div size = j
  <2>1. size \in Nat \ {0} /\ j \in Int /\ i \in 0 .. size - 1
    BY <1>1, <1>3
  <2>2. QED
    BY <2>1, Remainder, Zenon
<1> HIDE DEF r
<1>7. r \in 0 .. w - 1
  <2> DEFINE y == T * size
  <2>1. y \in Int /\ r < y /\ y <= w
    BY <1>3, <1>5
  <2> HIDE DEF y, w
  <2>2. QED
    BY <1>4, <1>5, <2>1
<1>8. pid \div w = q /\ pid % w = r
  <2> HIDE DEF w
  <2>1. q \in Int
    BY <1>1
  <2>2. QED
    BY <1>4, <1>7, <2>1, Remainder, Zenon
<1>9. pid \in 0 .. M * T - 1
  <2>1. T * (first + size) = T * first + T * size /\ M * T = T * M
    BY <1>2, <1>3
  <2>2. T * (first + size) <= T * M
    BY <1>2, <1>3, Scaled
  <2> DEFINE x == T * first
             y == T * size
             z == T * M
  <2>3. x \in Nat /\ y \in Int /\ z \in Int /\ x + y <= z /\ r < y /\ pid = x + r
    BY <1>2, <1>3, <1>4, <1>5, <2>1, <2>2
  <2>4. M * T = z
    BY <2>1
  <2> HIDE DEF x, y, z, pid
  <2>5. pid \in 0 .. z - 1
    BY <1>5, <2>3
  <2>6. QED
    BY <2>4, <2>5
<1>10. TileAt(M, T, G, pid) = <<first + ((pid % w) % size), (pid % w) \div size>>
  <2>1. TileAt(M, T, G, pid) =
          <<((pid \div w) * G) + ((pid % w) % GroupSize(M, G, (pid \div w) * G)),
            (pid % w) \div GroupSize(M, G, (pid \div w) * G)>>
    BY DEF TileAt
  <2>2. QED
    BY <1>8, <2>1 DEF first, size
<1> HIDE DEF pid, w
<1>11. TileAt(M, T, G, pid) = <<s, j>>
  BY <1>1, <1>6, <1>8, <1>10
<1>12. QED
  BY <1>9, <1>11 DEF HasProgram

=============================================================================
