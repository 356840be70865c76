------------------------ MODULE SnapshotVerify_proofs ------------------------
(***************************************************************************)
(* With a clock that tells changes apart, a file that is accepted is what  *)
(* the manifest says at the moment it is accepted, for every manifest,     *)
(* every number of blocks and every sequence of changes.  The invariant    *)
(* says what the identity of the open file is worth: as long as the time   *)
(* stamp is the one of the first fstat, what has been read is still there. *)
(***************************************************************************)
EXTENDS SnapshotVerify, FiniteSetTheorems, TLAPS

\* The types the argument needs.
HashTypes ==
  /\ entry \in [Names -> Nodes \cup {None}]
  /\ data \in [Nodes -> [1 .. Blocks -> BOOLEAN]]
  /\ stamp \in [Nodes -> Nat] /\ now \in Nat
  /\ item \in Nat \ {0}
  /\ held \in [node : Regular \cup {None}, stamp : Nat, links : {0, 1}]
  /\ blocks \in 0 .. Blocks
  /\ clean \in BOOLEAN

\* No node is stamped later than the clock shows.
StampsPast == \A n \in Nodes : stamp[n] <= now

\* Between files nothing is read yet.
AtStart == pc \in {"open", "list", "stat", "item", "fstat"} => blocks = 0 /\ clean = TRUE

InFile == pc \in {"fstat", "read", "named"} =>
            held.node \in Regular /\ item <= Len(Expected)

\* What has been read well is still there, unless the time stamp has moved.
ReadHolds ==
  pc \in {"read", "named"} =>
    /\ held.links = 1 /\ held.stamp <= stamp[held.node]
    /\ stamp[held.node] = held.stamp /\ clean =>
         \A b \in 1 .. blocks : data[held.node][b]

ReadAll == pc = "named" => blocks = Blocks

HashInv == HashTypes /\ StampsPast /\ AtStart /\ InFile /\ ReadHolds /\ ReadAll

\* The manifest lists names of the tree.
LEMMA ExpectedNames == \A i \in 1 .. Len(Expected) : Expected[i] \in Names
  BY SnapshotAssumption DEF Paths, Tree

\* What is known of the file being read holds at the start,
LEMMA InitHash == Init => HashInv
<1> SUFFICES ASSUME Init PROVE HashInv
  OBVIOUS
<1>1. PICK s \in Start : entry = s.entry /\ data = s.data
  BY DEF Init
<1>2. HashTypes
  BY <1>1, SnapshotAssumption DEF Init, HashTypes, Closed, Regular
<1> QED
  BY <1>2 DEF Init, HashInv, StampsPast, AtStart, InFile, ReadHolds, ReadAll

\* A file that is done with leaves the reader as it was before it.
LEMMA NextItemHash ==
  ASSUME HashInv, NEW mismatch, NextItem(mismatch),
         UNCHANGED <<entry, data, stamp, now>>
  PROVE  HashInv'
<1>1. HashTypes'
  BY SnapshotAssumption DEF HashInv, HashTypes, NextItem, Closed, Goto
<1> QED
  BY <1>1 DEF HashInv, HashTypes, NextItem, Closed, Goto, StampsPast, AtStart, InFile,
     ReadHolds, ReadAll

\* Steps of the verifier outside a file touch nothing the argument is about.
LEMMA QuietHash ==
  ASSUME HashInv, UNCHANGED <<treeVars, hashVars>>,
         pc' \notin {"fstat", "read", "named"},
         pc' \in {"open", "list", "stat", "item"} =>
           pc \in {"open", "list", "stat", "item"}
  PROVE  HashInv'
  BY DEF HashInv, HashTypes, treeVars, hashVars, StampsPast, AtStart, InFile, ReadHolds,
     ReadAll

\* through every step of the verifier,
LEMMA VerifierHash == ASSUME HashInv, Verifier PROVE HashInv'
<1>1. CASE OpenRoot
  BY <1>1, QuietHash DEF OpenRoot, Goto, treeVars, hashVars
<1>2. CASE List
  BY <1>2, QuietHash DEF List, Goto
<1>3. CASE StatEntry
  BY <1>3, QuietHash DEF StatEntry
<1>4. CASE Compare
  BY <1>4, QuietHash DEF Compare, Goto
<1>5. CASE SkipItem
  BY <1>5, NextItemHash DEF SkipItem, treeVars
<1>6. CASE Open
  <2> DEFINE n == entry[Expected[item]]
  <2>1. CASE n \in Regular
    <3>1. /\ held' = [held EXCEPT !.node = n] /\ pc' = "fstat"
          /\ UNCHANGED <<item, blocks, clean, entry, data, stamp, now>>
      BY <1>6, <2>1 DEF Open, Goto, treeVars
    <3>2. HashTypes'
      BY <2>1, <3>1 DEF HashInv, HashTypes
    <3>3. /\ pc = "item" /\ item <= Len(Expected)
      BY <1>6 DEF Open
    <3> QED
      BY <2>1, <3>1, <3>2, <3>3 DEF HashInv, HashTypes, StampsPast, AtStart, InFile,
         ReadHolds, ReadAll
  <2>2. CASE n \notin Regular
    BY <1>6, <2>2, NextItemHash DEF Open, treeVars
  <2> QED
    BY <2>1, <2>2
<1>7. CASE FstatBefore
  <2> DEFINE n == held.node
  <2>1. CASE Links(n) = 1
    <3>1. /\ held' = [node |-> n, stamp |-> stamp[n], links |-> 1] /\ pc' = "read"
          /\ UNCHANGED <<item, blocks, clean, entry, data, stamp, now>>
      BY <1>7, <2>1 DEF FstatBefore, Goto, treeVars
    <3>2. pc = "fstat" /\ n \in Regular /\ item <= Len(Expected) /\ blocks = 0
      BY <1>7 DEF FstatBefore, HashInv, InFile, AtStart
    <3>3. HashTypes'
      BY <3>1, <3>2 DEF HashInv, HashTypes, Regular
    <3>4. ReadHolds'
      BY <3>1, <3>2 DEF HashInv, HashTypes, ReadHolds, Regular
    <3> QED
      BY <3>1, <3>2, <3>3, <3>4 DEF HashInv, StampsPast, AtStart, InFile, ReadAll
  <2>2. CASE Links(n) # 1
    BY <1>7, <2>2, NextItemHash DEF FstatBefore, treeVars
  <2> QED
    BY <2>1, <2>2
<1>8. CASE ReadBlock
  <2>1. /\ pc = "read" /\ blocks < Blocks /\ blocks' = blocks + 1
        /\ clean' = (clean /\ data[held.node][blocks + 1])
        /\ UNCHANGED <<pc, item, held, entry, data, stamp, now>>
    BY <1>8 DEF ReadBlock, treeVars
  <2>2. held.node \in Nodes /\ blocks + 1 \in 1 .. Blocks
    BY <2>1, SnapshotAssumption DEF HashInv, HashTypes, InFile, Regular
  <2>3. data[held.node][blocks + 1] \in BOOLEAN
    BY <2>2 DEF HashInv, HashTypes
  <2>4. HashTypes'
    BY <2>1, <2>2, <2>3, SnapshotAssumption DEF HashInv, HashTypes
  <2>5. \A b \in 1 .. blocks' : b \in 1 .. blocks \/ b = blocks + 1
    BY <2>1 DEF HashInv, HashTypes
  <2>6. ReadHolds'
    BY <2>1, <2>5 DEF HashInv, ReadHolds
  <2> QED
    BY <2>1, <2>4, <2>6 DEF HashInv, StampsPast, AtStart, InFile, ReadAll
<1>9. CASE FstatAfter
  <2>1. CASE Unchanged(held.node)
    BY <1>9, <2>1 DEF FstatAfter, Goto, treeVars, hashVars, HashInv, HashTypes, StampsPast,
       AtStart, InFile, ReadHolds, ReadAll
  <2>2. CASE ~Unchanged(held.node)
    BY <1>9, <2>2, NextItemHash DEF FstatAfter, treeVars
  <2> QED
    BY <2>1, <2>2
<1>10. CASE StatNamed
  BY <1>10, NextItemHash DEF StatNamed, treeVars
<1>11. CASE LastItem
  BY <1>11, QuietHash DEF LastItem, Goto
<1>12. CASE Recompare
  BY <1>12, QuietHash DEF Recompare, Goto
<1>13. CASE Conclude
  BY <1>13, QuietHash DEF Conclude, Goto
<1> QED
  BY <1>1, <1>2, <1>3, <1>4, <1>5, <1>6, <1>7, <1>8, <1>9, <1>10, <1>11, <1>12, <1>13
     DEF Verifier

\* A change of the nodes ns moves their time stamps past any that was noted,
\* and leaves the other nodes as they were.
LEMMA TouchHash ==
  ASSUME HashInv, Fine, NEW ns, Touch(ns),
         entry' \in [Names -> Nodes \cup {None}],
         data' \in [Nodes -> [1 .. Blocks -> BOOLEAN]],
         \A n \in Nodes \ ns : data'[n] = data[n]
  PROVE  HashInv'
<1>1. /\ now' = now + 1
      /\ stamp' = [n \in Nodes |-> IF n \in ns THEN now' ELSE stamp[n]]
      /\ UNCHANGED <<pc, item, held, blocks, clean>>
  BY DEF Touch, hashVars
<1>2. HashTypes'
  BY <1>1 DEF HashInv, HashTypes
<1>3. StampsPast'
  BY <1>1 DEF HashInv, HashTypes, StampsPast
<1>4. ReadHolds'
  <2> SUFFICES ASSUME pc' \in {"read", "named"}
               PROVE  /\ held.links = 1 /\ held.stamp <= stamp'[held.node]
                      /\ stamp'[held.node] = held.stamp /\ clean =>
                           \A b \in 1 .. blocks : data'[held.node][b]
    BY <1>1 DEF ReadHolds
  <2>1. /\ held.node \in Nodes /\ held.links = 1 /\ held.stamp <= stamp[held.node]
        /\ stamp[held.node] \in Nat /\ held.stamp \in Nat /\ stamp[held.node] <= now
    BY <1>1 DEF HashInv, HashTypes, InFile, ReadHolds, StampsPast, Regular
  <2>2. CASE held.node \in ns
    BY <1>1, <2>1, <2>2 DEF HashInv, HashTypes
  <2>3. CASE held.node \notin ns
    <3>1. stamp'[held.node] = stamp[held.node] /\ data'[held.node] = data[held.node]
      BY <1>1, <2>1, <2>3
    <3> QED
      BY <1>1, <2>1, <3>1 DEF HashInv, ReadHolds
  <2> QED
    BY <2>2, <2>3
<1> QED
  BY <1>1, <1>2, <1>3, <1>4 DEF HashInv, AtStart, InFile, ReadAll

\* and through every change that somebody else makes to the tree.
LEMMA MutatorHash == ASSUME HashInv, Fine, Mutator PROVE HashInv'
<1>0. /\ entry \in [Names -> Nodes \cup {None}]
      /\ data \in [Nodes -> [1 .. Blocks -> BOOLEAN]]
  BY DEF HashInv, HashTypes
<1>1. ASSUME NEW n \in Regular, NEW b \in 1 .. Blocks, Overwrite(n, b) PROVE HashInv'
  <2>1. n \in Nodes /\ data[n] \in [1 .. Blocks -> BOOLEAN]
    BY <1>0 DEF Regular
  <2>2. /\ data' = [data EXCEPT ![n][b] = ~@] /\ UNCHANGED entry /\ Touch({n})
    BY <1>1 DEF Overwrite
  <2>3. data' \in [Nodes -> [1 .. Blocks -> BOOLEAN]]
    BY <1>0, <2>1, <2>2
  <2> QED
    BY <1>0, <2>2, <2>3, TouchHash
<1>2. ASSUME NEW f \in Names, NEW g \in Names, Rename(f, g) PROVE HashInv'
  <2>1. entry' = [entry EXCEPT ![g] = entry[f], ![f] = None] /\ UNCHANGED data
    BY <1>2 DEF Rename
  <2>2. entry' \in [Names -> Nodes \cup {None}]
    BY <1>0, <2>1
  <2> QED
    BY <1>0, <1>2, <2>1, <2>2, TouchHash DEF Rename
<1>3. ASSUME NEW f \in Names, NEW g \in Names, Link(f, g) PROVE HashInv'
  <2>1. entry' \in [Names -> Nodes \cup {None}] /\ UNCHANGED data
    BY <1>0, <1>3 DEF Link
  <2> QED
    BY <1>0, <1>3, <2>1, TouchHash DEF Link
<1>4. ASSUME NEW f \in Names, Unlink(f) PROVE HashInv'
  <2>1. entry' \in [Names -> Nodes \cup {None}] /\ UNCHANGED data
    BY <1>0, <1>4 DEF Unlink
  <2> QED
    BY <1>0, <1>4, <2>1, TouchHash DEF Unlink
<1>5. CASE MoveRoot
  BY <1>0, <1>5, TouchHash DEF MoveRoot
<1> QED
  BY <1>1, <1>2, <1>3, <1>4, <1>5 DEF Mutator

\* What accepting a file needs of the invariant.
LEMMA AcceptIsCurrent ==
  ASSUME HashInv, Next, pc = "named", pc' = "item", ~faulty'
  PROVE  IsRegular(Expected[item]) /\ Good(entry[Expected[item]])
<1>1. StatNamed
  <2>1. Verifier
    BY DEF Next, Mutator, Touch, Overwrite, Rename, Link, Unlink, MoveRoot
  <2> QED
    BY <2>1 DEF Verifier, OpenRoot, List, StatEntry, Compare, SkipItem, Open, FstatBefore,
       ReadBlock, FstatAfter, LastItem, Recompare, Conclude
<1>2. clean /\ entry[Expected[item]] = held.node /\ Unchanged(held.node)
  BY <1>1 DEF StatNamed, NextItem
<1> QED
  BY <1>2 DEF HashInv, InFile, ReadHolds, ReadAll, Unchanged, IsRegular, Good

\* Whatever else happens to the tree, a file whose digest is accepted is then,
\* under its name, a regular file of one link with every block as the manifest
\* has it (secure_tree.py:136-171), given a clock that tells changes apart.
THEOREM AcceptedIsCurrent == ASSUME Fine PROVE Spec => HashIsCurrent
<1>1. Init => HashInv
  BY InitHash
<1>2. HashInv /\ [Next]_vars => HashInv'
  <2>1. ASSUME HashInv, UNCHANGED vars PROVE HashInv'
    BY <2>1 DEF vars, treeVars, hashVars, HashInv, HashTypes, StampsPast, AtStart, InFile,
       ReadHolds, ReadAll
  <2> QED
    BY <2>1, VerifierHash, MutatorHash DEF Next
<1>3. HashInv /\ [Next]_vars =>
        [pc = "named" /\ pc' = "item" /\ ~faulty' =>
           IsRegular(Expected[item]) /\ Good(entry[Expected[item]])]_vars
  BY AcceptIsCurrent
<1> QED
  BY <1>1, <1>2, <1>3, PTL DEF Spec, HashIsCurrent

-----------------------------------------------------------------------------
(* The rest holds on a clock of any kind. *)

Hashing == {"fstat", "read", "named"}

\* What the control point says of the verifier's own variables.
FlowInv ==
  /\ AtStart /\ InFile /\ ReadAll
  /\ pc \in {"open", "list", "stat"} => item = 1 /\ ~faulty
  /\ verdict = "PASS" => pc = "done" /\ ~faulty

\* The step to the next file of the manifest keeps types and flow.
LEMMA NextItemType ==
  ASSUME TypeOK, FlowInv, pc \in {"item"} \cup Hashing, item <= Len(Expected),
         NEW mismatch \in BOOLEAN, NextItem(mismatch),
         UNCHANGED <<treeVars, walkVars, verdict, ghostVars>>
  PROVE  (TypeOK /\ FlowInv)'
<1>1. Len(Expected) \in Nat
  BY SnapshotAssumption
<1>2. TypeOK'
  BY <1>1, SnapshotAssumption
     DEF TypeOK, NextItem, Closed, Goto, treeVars, walkVars, ghostVars
<1>3. FlowInv'
  BY DEF FlowInv, AtStart, InFile, ReadAll, NextItem, Closed, Goto, Hashing
<1>4. QED
  BY <1>2, <1>3

\* So do all other steps of the verifier.
LEMMA VerifierType == ASSUME TypeOK, FlowInv, Verifier PROVE (TypeOK /\ FlowInv)'
<1> USE SnapshotAssumption
    DEF TypeOK, FlowInv, AtStart, InFile, ReadAll, Goto, treeVars, walkVars, hashVars, ghostVars
<1>1. CASE OpenRoot
  BY <1>1 DEF OpenRoot
<1>2. CASE List
  <2>1. walk' \subseteq Tree
    BY <1>2 DEF List, Listed, Tree
  <2>2. found' \in [regular : SUBSET Tree, rejected : SUBSET Tree]
    BY <1>2 DEF List, Empty
  <2>3. QED
    BY <1>2, <2>1, <2>2 DEF List
<1>3. CASE StatEntry
  <2>1. PICK f \in walk :
          /\ walk' = walk \ {f}
          /\ found' = IF IsRegular(f)
                        THEN [found EXCEPT !.regular = @ \cup {f}]
                        ELSE [found EXCEPT !.rejected = @ \cup {f}]
    BY <1>3 DEF StatEntry
  <2>2. found' \in [regular : SUBSET Tree, rejected : SUBSET Tree]
    BY <2>1
  <2>3. QED
    BY <1>3, <2>1, <2>2 DEF StatEntry
<1>4. CASE Compare
  BY <1>4 DEF Compare
<1>5. CASE SkipItem
  BY <1>5, NextItemType DEF SkipItem
<1>6. CASE Open
  <2> DEFINE n == entry[Expected[item]]
  <2>1. CASE n \in Regular
    <3>1. /\ held' = [held EXCEPT !.node = n] /\ pc' = "fstat" /\ pc = "item"
          /\ item <= Len(Expected)
          /\ UNCHANGED <<item, blocks, clean, faulty, treeVars, walkVars, verdict, ghostVars>>
      BY <1>6, <2>1 DEF Open
    <3>2. held' \in [node : Regular \cup {None}, stamp : Nat, links : {0, 1}]
      BY <2>1, <3>1
    <3>3. held'.node \in Regular
      BY <2>1, <3>1
    <3> HIDE DEF n
    <3>4. QED
      BY <3>1, <3>2, <3>3
  <2>2. CASE n \notin Regular
    BY <1>6, <2>2, NextItemType DEF Open
  <2>3. QED
    BY <2>1, <2>2
<1>7. CASE FstatBefore
  <2> DEFINE n == held.node
  <2>1. CASE Links(n) = 1
    <3>1. /\ held' = [node |-> n, stamp |-> stamp[n], links |-> 1] /\ pc' = "read"
          /\ pc = "fstat"
          /\ UNCHANGED <<item, blocks, clean, faulty, treeVars, walkVars, verdict, ghostVars>>
      BY <1>7, <2>1 DEF FstatBefore
    <3>2. n \in Regular /\ stamp[n] \in Nat
      BY <3>1 DEF Regular
    <3>3. held' \in [node : Regular \cup {None}, stamp : Nat, links : {0, 1}]
      BY <3>1, <3>2
    <3>4. held'.node \in Regular
      BY <3>1, <3>2
    <3>5. QED
      BY <3>1, <3>3, <3>4
  <2>2. CASE Links(n) # 1
    BY <1>7, <2>2, NextItemType DEF FstatBefore, Hashing
  <2>3. QED
    BY <2>1, <2>2
<1>8. CASE ReadBlock
  <2>1. data[held.node][blocks + 1] \in BOOLEAN
    BY <1>8 DEF ReadBlock, Regular
  <2>2. blocks' \in 0 .. Blocks
    BY <1>8 DEF ReadBlock
  <2>3. QED
    BY <1>8, <2>1, <2>2 DEF ReadBlock
<1>9. CASE FstatAfter
  <2>1. CASE Unchanged(held.node)
    BY <1>9, <2>1 DEF FstatAfter
  <2>2. CASE ~Unchanged(held.node)
    BY <1>9, <2>2, NextItemType DEF FstatAfter, Hashing
  <2>3. QED
    BY <2>1, <2>2
<1>10. CASE StatNamed
  BY <1>10, NextItemType DEF StatNamed, Hashing
<1>11. CASE LastItem
  BY <1>11 DEF LastItem
<1>12. CASE Recompare
  BY <1>12 DEF Recompare
<1>13. CASE Conclude
  BY <1>13 DEF Conclude
<1>14. QED
  BY <1>1, <1>2, <1>3, <1>4, <1>5, <1>6, <1>7, <1>8, <1>9, <1>10, <1>11, <1>12, <1>13
     DEF Verifier

\* A change of the tree leaves the verifier alone.
LEMMA MutatorType == ASSUME TypeOK, FlowInv, Mutator PROVE (TypeOK /\ FlowInv)'
<1> USE SnapshotAssumption DEF walkVars, hashVars
<1>1. ASSUME NEW ns, Touch(ns),
             entry' \in [Names -> Nodes \cup {None}],
             data' \in [Nodes -> [1 .. Blocks -> BOOLEAN]], rooted' \in BOOLEAN
      PROVE  (TypeOK /\ FlowInv)'
  <2>1. now' \in Nat /\ stamp' \in [Nodes -> Nat]
    BY <1>1 DEF Touch, TypeOK
  <2>2. changes' \in 0 .. MaxChanges
    BY <1>1 DEF Touch, TypeOK
  <2>3. exact' \in BOOLEAN
    BY <1>1 DEF Touch, TypeOK
  <2>4. UNCHANGED <<pc, walk, found, before, item, held, blocks, clean, faulty, verdict>>
    BY <1>1 DEF Touch
  <2>5. TypeOK'
    BY <1>1, <2>1, <2>2, <2>3, <2>4 DEF TypeOK
  <2>6. FlowInv'
    BY <2>4 DEF FlowInv, AtStart, InFile, ReadAll
  <2>7. QED
    BY <2>5, <2>6
<1>2. ASSUME NEW n \in Regular, NEW b \in 1 .. Blocks, Overwrite(n, b)
      PROVE  (TypeOK /\ FlowInv)'
  <2>1. n \in Nodes /\ data[n] \in [1 .. Blocks -> BOOLEAN]
    BY DEF Regular, TypeOK
  <2>2. data' \in [Nodes -> [1 .. Blocks -> BOOLEAN]]
    BY <1>2, <2>1 DEF Overwrite, TypeOK
  <2>3. QED
    BY <1>1, <1>2, <2>2 DEF Overwrite, TypeOK
<1>3. ASSUME NEW f \in Names, NEW g \in Names, Rename(f, g) \/ Link(f, g)
      PROVE  (TypeOK /\ FlowInv)'
  <2>1. entry' \in [Names -> Nodes \cup {None}]
    BY <1>3 DEF Rename, Link, TypeOK
  <2>2. QED
    BY <1>1, <1>3, <2>1 DEF Rename, Link, TypeOK
<1>4. ASSUME NEW f \in Names, Unlink(f) PROVE (TypeOK /\ FlowInv)'
  <2>1. entry' \in [Names -> Nodes \cup {None}]
    BY <1>4 DEF Unlink, TypeOK
  <2>2. QED
    BY <1>1, <1>4, <2>1 DEF Unlink, TypeOK
<1>5. CASE MoveRoot
  BY <1>1, <1>5 DEF MoveRoot, TypeOK
<1>6. QED
  BY <1>2, <1>3, <1>4, <1>5 DEF Mutator

(* Every variable stays in its set: in particular an inventory never holds *)
(* an ignored name, and only regular files are ever read.                  *)
THEOREM TypeCorrect == Spec => [](TypeOK /\ FlowInv)
<1>1. Init => TypeOK /\ FlowInv
  <2> SUFFICES ASSUME Init PROVE TypeOK /\ FlowInv
    OBVIOUS
  <2>1. PICK s \in Start : entry = s.entry /\ data = s.data
    BY DEF Init
  <2>2. /\ entry \in [Names -> Nodes \cup {None}]
        /\ data \in [Nodes -> [1 .. Blocks -> BOOLEAN]]
    BY <2>1, SnapshotAssumption
  <2>3. exact \in BOOLEAN
    BY DEF Init, Matches
  <2>4. TypeOK
    <3>1. /\ stamp \in [Nodes -> Nat] /\ now \in Nat
          /\ held \in [node : Regular \cup {None}, stamp : Nat, links : {0, 1}]
      BY DEF Init, Closed
    <3>2. /\ found \in [regular : SUBSET Tree, rejected : SUBSET Tree]
          /\ before \in [regular : SUBSET Tree, rejected : SUBSET Tree]
      BY DEF Init, Empty
    <3>3. /\ item \in 1 .. Len(Expected) + 1 /\ blocks \in 0 .. Blocks
          /\ changes \in 0 .. MaxChanges
      BY SnapshotAssumption DEF Init
    <3>4. QED
      BY <2>2, <2>3, <3>1, <3>2, <3>3 DEF Init, TypeOK
  <2>5. FlowInv
    BY DEF Init, FlowInv, AtStart, InFile, ReadAll
  <2>6. QED
    BY <2>4, <2>5
<1>2. TypeOK /\ FlowInv /\ [Next]_vars => (TypeOK /\ FlowInv)'
  <2>1. ASSUME TypeOK, FlowInv, UNCHANGED vars PROVE (TypeOK /\ FlowInv)'
    BY <2>1 DEF vars, treeVars, walkVars, hashVars, ghostVars, TypeOK, FlowInv, AtStart,
       InFile, ReadAll
  <2>2. QED
    BY <2>1, VerifierType, MutatorType DEF Next
<1>3. QED
  BY <1>1, <1>2, PTL DEF Spec

-----------------------------------------------------------------------------
\* What the record of exact trees says of the tree as it is.
GhostInv ==
  /\ Matches => exact
  /\ changes = 0 => (exact => Matches) /\ rooted

\* The verifier changes nothing of the tree, ...
LEMMA VerifierKeepsTree ==
  ASSUME Verifier
  PROVE  UNCHANGED <<entry, data, stamp, now, rooted, changes, exact>>
  BY DEF Verifier, OpenRoot, List, StatEntry, Compare, SkipItem, Open, FstatBefore,
     ReadBlock, FstatAfter, StatNamed, LastItem, Recompare, Conclude, treeVars, ghostVars

\* ... and whatever is said of a tree that does not change stays as true.
LEMMA SameTree ==
  ASSUME UNCHANGED <<entry, data>>
  PROVE  /\ Matches' <=> Matches
         /\ \A f : IsRegular(f)' <=> IsRegular(f)
         /\ \A n : (Good(n)' <=> Good(n)) /\ Links(n)' = Links(n)
  BY DEF Matches, IsRegular, Good, Links

\* Every other change is dated and counted.
LEMMA MutatorTouches ==
  ASSUME Mutator
  PROVE  /\ changes' = changes + 1 /\ pc # "done"
         /\ exact' = (exact \/ Matches')
         /\ UNCHANGED <<pc, walkVars, hashVars, faulty, verdict>>
  BY DEF Mutator, Overwrite, Rename, Link, Unlink, MoveRoot, Touch

\* A tree that never changed is what it was at the start.
LEMMA GhostInvariant == Spec => []GhostInv
<1>1. Init => GhostInv
  BY DEF Init, GhostInv
<1>2. TypeOK /\ GhostInv /\ [Next]_vars => GhostInv'
  <2> SUFFICES ASSUME TypeOK, GhostInv, [Next]_vars PROVE GhostInv'
    OBVIOUS
  <2>1. CASE Verifier \/ UNCHANGED vars
    <3>1. UNCHANGED <<entry, data, rooted, changes, exact>>
      BY <2>1, VerifierKeepsTree DEF vars, treeVars, ghostVars
    <3>2. Matches' <=> Matches
      BY <3>1, SameTree
    <3>3. QED
      BY <3>1, <3>2 DEF GhostInv
  <2>2. CASE Mutator
    <3>1. changes' # 0
      BY <2>2, MutatorTouches DEF TypeOK
    <3>2. Matches' => exact'
      BY <2>2, MutatorTouches
    <3>3. QED
      BY <3>1, <3>2 DEF GhostInv
  <2>3. QED
    BY <2>1, <2>2 DEF Next
<1>3. QED
  BY <1>1, <1>2, TypeCorrect, PTL DEF Spec

-----------------------------------------------------------------------------
\* The inventory of a tree that matches.
Full == [regular |-> Paths, rejected |-> {}]

\* What a verification of a matching tree that is left alone looks like.
QuietInv ==
  changes = 0 /\ Matches =>
    /\ ~faulty /\ verdict # "FAIL"
    /\ pc \in {"stat", "restat"} =>
         found.rejected = {} /\ walk \cup found.regular = Paths
    /\ pc \in {"item", "relist", "restat", "revalidate"} \cup Hashing => before = Full
    /\ pc \in Hashing => held.node = entry[Expected[item]] /\ clean
    /\ pc \in {"read", "named"} =>
         Unchanged(held.node)

\* In such a tree exactly the manifest's paths are listed.
LEMMA MatchingListed ==
  ASSUME TypeOK, Matches
  PROVE  {f \in Names : Listed(f)} = Paths
<1>1. \A f \in Paths : f \in Names /\ Listed(f)
  BY SnapshotAssumption DEF Matches, IsRegular, Listed, Regular, Tree
<1>2. \A f \in Names : Listed(f) => f \in Paths
  BY DEF Matches, Listed, Tree
<1>3. QED
  BY <1>1, <1>2

\* In a quiet tree that matches, no step of the verifier finds a fault.
LEMMA QuietVerifier ==
  ASSUME TypeOK, FlowInv, GhostInv, QuietInv, Verifier
  PROVE  QuietInv'
<1> SUFFICES ASSUME changes = 0, Matches
             PROVE  /\ ~faulty' /\ verdict' # "FAIL"
                    /\ pc' \in {"stat", "restat"} =>
                         found'.rejected = {} /\ walk' \cup found'.regular = Paths
                    /\ pc' \in {"item", "relist", "restat", "revalidate"} \cup Hashing =>
                         before' = Full
                    /\ pc' \in Hashing => held'.node = entry[Expected[item']] /\ clean'
                    /\ pc' \in {"read", "named"} => Unchanged(held.node)'
  BY VerifierKeepsTree, SameTree DEF QuietInv
<1> USE DEF Hashing, Goto, treeVars, walkVars, hashVars, ghostVars
<1>0. /\ ~faulty /\ verdict # "FAIL" /\ rooted
      /\ pc \in {"stat", "restat"} =>
           found.rejected = {} /\ walk \cup found.regular = Paths
      /\ pc \in {"item", "relist", "restat", "revalidate"} \cup Hashing => before = Full
      /\ pc \in Hashing => held.node = entry[Expected[item]] /\ clean
      /\ pc \in {"read", "named"} => Unchanged(held.node)
  BY DEF QuietInv, GhostInv
\* Reading on leaves what has been found of the file as it is.
<1>a. ASSUME UNCHANGED <<entry, stamp, held>> PROVE \A n : Unchanged(n)' <=> Unchanged(n)
  BY <1>a DEF Unchanged, Links
<1>b. item <= Len(Expected) => Expected[item] \in Paths
  BY SnapshotAssumption DEF TypeOK, Paths
<1>c. Full.regular = Paths /\ Full.rejected = {}
  BY DEF Full
<1> HIDE DEF Full
<1>1. CASE OpenRoot
  BY <1>0, <1>1 DEF OpenRoot
<1>2. CASE List
  <2>1. walk' = Paths /\ found' = Empty
    BY <1>2, MatchingListed DEF List
  <2>2. QED
    BY <1>0, <1>2, <2>1 DEF List, Empty
<1>3. CASE StatEntry
  <2>1. PICK f \in walk :
          /\ walk' = walk \ {f}
          /\ found' = IF IsRegular(f)
                        THEN [found EXCEPT !.regular = @ \cup {f}]
                        ELSE [found EXCEPT !.rejected = @ \cup {f}]
    BY <1>3 DEF StatEntry
  <2>2. pc \in {"stat", "restat"} /\ UNCHANGED <<pc, before, hashVars, faulty, verdict>>
    BY <1>3 DEF StatEntry
  <2>3. f \in Paths /\ IsRegular(f)
    BY <1>0, <2>1, <2>2 DEF Matches
  <2>4. found'.rejected = {} /\ found'.regular = found.regular \cup {f}
    BY <1>0, <2>1, <2>2, <2>3 DEF TypeOK
  <2>5. walk' \cup found'.regular = Paths
    BY <1>0, <2>1, <2>2, <2>4
  <2>6. QED
    BY <1>0, <2>2, <2>4, <2>5
<1>4. CASE Compare
  <2>1. found.rejected = {} /\ found.regular = Paths
    BY <1>0, <1>4 DEF Compare
  <2>2. found = Full
    BY <2>1 DEF TypeOK, Full
  <2>3. QED
    BY <1>0, <1>4, <2>1, <2>2 DEF Compare
<1>5. CASE SkipItem
  BY <1>0, <1>5, <1>b, <1>c DEF SkipItem
<1>6. CASE Open
  <2>1. entry[Expected[item]] \in Regular
    BY <1>6, <1>b DEF Open, Matches, IsRegular
  <2>2. /\ held' = [held EXCEPT !.node = entry[Expected[item]]] /\ pc' = "fstat"
        /\ pc = "item"
        /\ UNCHANGED <<item, blocks, clean, faulty, walkVars, verdict>>
    BY <1>6, <2>1 DEF Open
  <2>3. held'.node = entry[Expected[item']]
    BY <2>2 DEF TypeOK
  <2>4. clean
    BY <2>2 DEF FlowInv, AtStart
  <2>5. QED
    BY <1>0, <2>2, <2>3, <2>4
<1>7. CASE FstatBefore
  <2>1. item <= Len(Expected) /\ pc = "fstat"
    BY <1>7 DEF FstatBefore, FlowInv, InFile
  <2>2. Links(held.node) = 1
    BY <1>0, <1>b, <2>1 DEF Matches, IsRegular
  <2>3. /\ held' = [node |-> held.node, stamp |-> stamp[held.node], links |-> 1]
        /\ pc' = "read"
        /\ UNCHANGED <<item, blocks, clean, faulty, walkVars, verdict, treeVars>>
    BY <1>7, <2>2 DEF FstatBefore
  <2>4. Unchanged(held.node)'
    BY <2>2, <2>3 DEF Unchanged, Links
  <2>5. QED
    BY <1>0, <2>1, <2>3, <2>4
<1>8. CASE ReadBlock
  <2>1. pc = "read" /\ item <= Len(Expected)
    BY <1>8 DEF ReadBlock, FlowInv, InFile
  <2>2. Good(held.node)
    BY <1>0, <1>b, <2>1 DEF Matches
  <2>3. blocks + 1 \in 1 .. Blocks
    BY <1>8, SnapshotAssumption DEF ReadBlock, TypeOK
  <2>4. data[held.node][blocks + 1]
    BY <2>2, <2>3 DEF Good
  <2>5. UNCHANGED <<entry, stamp, held, item>>
    BY <1>8 DEF ReadBlock
  <2>6. QED
    BY <1>0, <1>8, <1>a, <2>1, <2>4, <2>5 DEF ReadBlock
<1>9. CASE FstatAfter
  BY <1>0, <1>9, <1>a DEF FstatAfter
<1>10. CASE StatNamed
  <2>1. NextItem(FALSE) /\ UNCHANGED <<walkVars, verdict>> /\ pc = "named"
    BY <1>0, <1>10 DEF StatNamed
  <2>2. QED
    BY <1>0, <2>1 DEF NextItem
<1>11. CASE LastItem
  BY <1>0, <1>11 DEF LastItem
<1>12. CASE Recompare
  <2>1. found.rejected = {} /\ found.regular = Paths /\ before = Full
    BY <1>0, <1>12 DEF Recompare
  <2>2. found = Full
    BY <2>1 DEF TypeOK, Full
  <2>3. QED
    BY <1>0, <1>12, <2>1, <2>2 DEF Recompare
<1>13. CASE Conclude
  BY <1>0, <1>13 DEF Conclude
<1>14. QED
  BY <1>1, <1>2, <1>3, <1>4, <1>5, <1>6, <1>7, <1>8, <1>9, <1>10, <1>11, <1>12, <1>13
     DEF Verifier

(* A matching tree that is left alone is never failed, for any manifest,   *)
(* any number of files and blocks, and whatever is ignored next to it.     *)
THEOREM MatchingTreePasses == Spec => []QuietPasses
<1>1. Init => QuietInv
  BY DEF Init, QuietInv, Hashing
<1>2. TypeOK /\ FlowInv /\ GhostInv /\ QuietInv /\ [Next]_vars => QuietInv'
  <2> SUFFICES ASSUME TypeOK, FlowInv, GhostInv, QuietInv, [Next]_vars PROVE QuietInv'
    OBVIOUS
  <2>1. CASE Mutator
    <3>1. changes' # 0
      BY <2>1, MutatorTouches DEF TypeOK
    <3>2. QED
      BY <3>1 DEF QuietInv
  <2>2. CASE UNCHANGED vars
    <3>1. (Matches' <=> Matches) /\ (\A n : Unchanged(n)' <=> Unchanged(n))
      BY <2>2, SameTree DEF vars, treeVars, hashVars, Unchanged, Links
    <3>2. QED
      BY <2>2, <3>1 DEF QuietInv, vars, treeVars, walkVars, hashVars, ghostVars
  <2>3. QED
    BY <2>1, <2>2, QuietVerifier DEF Next
<1>3. GhostInv /\ QuietInv => QuietPasses
  BY DEF GhostInv, QuietInv, QuietPasses
<1>4. QED
  BY <1>1, <1>2, <1>3, TypeCorrect, GhostInvariant, PTL DEF Spec

-----------------------------------------------------------------------------
(* One change alone.  Until it happens, what the verifier has found is     *)
(* what is there; when it has happened and the tree matches neither before *)
(* nor after, something that is still wrong lies ahead of the verifier.    *)

\* Exactly the manifest's paths are there, each a regular file of one link.
InventoryRight ==
  /\ \A f \in Paths : IsRegular(f)
  /\ \A f \in Tree \ Paths : entry[f] = None

\* The inventory that is being taken misses no name, and calls regular what is.
Listing ==
  /\ \A f \in Tree :
       entry[f] # None => f \in walk \/ f \in found.regular \/ f \in found.rejected
  /\ \A f \in found.regular : IsRegular(f)

\* All that was read is there and was judged rightly.
Accurate ==
  /\ InventoryRight
  /\ \A k \in 1 .. Len(Expected) : k < item => Good(entry[Expected[k]])
  /\ pc \in Hashing =>
       /\ held.node = entry[Expected[item]]
       /\ clean => \A b \in 1 .. blocks : data[held.node][b]

\* A bad file that the verifier has not accepted yet, and will not: if it is
\* open, it is another one by now, or a bad block has been or will be read.
StillBad(i) ==
  /\ ~Good(entry[Expected[i]])
  /\ i = item /\ pc \in Hashing =>
       \/ entry[Expected[i]] # held.node
       \/ ~clean
       \/ \E b \in 1 .. Blocks : b > blocks /\ ~data[held.node][b]

BadAhead == \E i \in 1 .. Len(Expected) : i >= item /\ StillBad(i)

\* While the files are hashed, what has been hashed is right, or something
\* that is not lies ahead.
Hashed ==
  /\ before = Full
  /\ changes = 0 => Accurate
  /\ changes = 1 => ~InventoryRight \/ BadAhead

OneInv ==
  changes <= 1 /\ ~exact /\ ~faulty =>
    /\ pc = "restat" \/ (pc = "stat" /\ changes = 0) => Listing
    /\ pc \in {"item"} \cup Hashing => Hashed
    /\ pc \in {"relist", "restat"} => changes = 1 /\ before = Full /\ ~InventoryRight
    /\ pc # "revalidate" /\ verdict # "PASS"

\* The listing of a tree that did not change stays right.
LEMMA SameInventory ==
  ASSUME UNCHANGED <<entry, data>> PROVE InventoryRight' <=> InventoryRight
  BY SameTree DEF InventoryRight

\* What a tree that does not match can suffer from.
LEMMA Mismatch ==
  ASSUME InventoryRight, ~Matches
  PROVE  \E i \in 1 .. Len(Expected) : ~Good(entry[Expected[i]])
<1>1. PICK f \in Paths : ~Good(entry[f])
  BY DEF InventoryRight, Matches
<1>2. PICK i \in DOMAIN Expected : f = Expected[i]
  BY <1>1 DEF Paths
<1>3. QED
  BY <1>1, <1>2, SnapshotAssumption

\* A complete inventory that finds the manifest's paths only is right.
LEMMA ListingComplete ==
  ASSUME TypeOK, Listing, walk = {}, found.regular = Paths, found.rejected = {}
  PROVE  InventoryRight
  BY DEF Listing, InventoryRight

\* No two names lead to a node of one link.
LEMMA OneLink ==
  ASSUME NEW n, Links(n) = 1, NEW f \in Names, NEW g \in Names, entry[f] = n, entry[g] = n
  PROVE  f = g
<1>1. IsFiniteSet(Names)
  <2>1. DOMAIN Sorted = 1 .. Len(Sorted) /\ Len(Sorted) \in Nat
    BY SnapshotAssumption
  <2>2. Sorted \in [1 .. Len(Sorted) -> Names]
    BY SnapshotAssumption
  <2>3. \A x \in Names : \E i \in 1 .. Len(Sorted) : Sorted[i] = x
    BY <2>1 DEF Names
  <2>4. Sorted \in Surjection(1 .. Len(Sorted), Names)
    BY <2>2, <2>3 DEF Surjection
  <2>5. IsFiniteSet(1 .. Len(Sorted))
    BY <2>1, FS_Interval
  <2>6. QED
    BY <2>4, <2>5, FS_Surjection
<1> DEFINE L == {x \in Names : entry[x] = n}
<1>2. IsFiniteSet(L)
  BY <1>1, FS_Subset
<1>3. Cardinality(L) = 1
  BY DEF Links
<1> HIDE DEF L
<1>4. \E x : L = {x}
  BY <1>2, <1>3, FS_Singleton
<1>5. f \in L /\ g \in L
  BY DEF L
<1>6. QED
  BY <1>4, <1>5

\* What a change leaves of a path, and what a write into its file does to it.
Kept(p) == entry'[p] = entry[p] /\ data'[entry[p]] = data[entry[p]]
Flipped(q, b) ==
  entry'[q] = entry[q] /\ data'[entry[q]] = [data[entry[q]] EXCEPT ![b] = ~@]

\* A change that leaves the inventory right touches one path at most.
LEMMA LoneChange ==
  ASSUME TypeOK, Mutator, InventoryRight, InventoryRight'
  PROVE  \/ \A p \in Paths : Kept(p)
         \/ \E q \in Paths :
              /\ \A p \in Paths \ {q} : Kept(p)
              /\ entry'[q] # entry[q] \/ \E b \in 1 .. Blocks : Flipped(q, b)
<1>0. /\ \A p \in Paths : entry[p] # None /\ entry'[p] # None /\ entry[p] \in Nodes
      /\ Paths \subseteq Names
  BY SnapshotAssumption DEF InventoryRight, IsRegular, Regular, Tree
<1>1. ASSUME NEW n \in Regular, NEW b \in 1 .. Blocks, Overwrite(n, b)
      PROVE  \/ \A p \in Paths : Kept(p)
             \/ \E q \in Paths : (\A p \in Paths \ {q} : Kept(p)) /\ Flipped(q, b)
  <2>1. data' = [data EXCEPT ![n][b] = ~@] /\ entry' = entry /\ n \in Nodes
    BY <1>1 DEF Overwrite, Regular
  <2>2. \A m \in Nodes \ {n} : data'[m] = data[m]
    BY <2>1 DEF TypeOK
  <2>3. data'[n] = [data[n] EXCEPT ![b] = ~@]
    BY <2>1 DEF TypeOK
  <2>4. CASE \A p \in Paths : entry[p] # n
    BY <1>0, <2>1, <2>2, <2>4 DEF Kept
  <2>5. ASSUME NEW q \in Paths, entry[q] = n
        PROVE  \A p \in Paths \ {q} : entry[p] # n
    <3>1. Links(n) = 1
      BY <2>5 DEF InventoryRight, IsRegular
    <3>2. QED
      BY <1>0, <2>5, <3>1, OneLink
  <2>6. QED
    BY <1>0, <2>1, <2>2, <2>3, <2>4, <2>5 DEF Kept, Flipped
<1>2. ASSUME NEW f \in Names, NEW g \in Names, Rename(f, g)
      PROVE  \/ \A p \in Paths : Kept(p)
             \/ \E q \in Paths : (\A p \in Paths \ {q} : Kept(p)) /\ entry'[q] # entry[q]
  <2>1. /\ entry' = [entry EXCEPT ![g] = entry[f], ![f] = None] /\ data' = data
        /\ entry[f] # entry[g]
    BY <1>2 DEF Rename
  <2>2. entry'[f] = None /\ entry'[g] = entry[f]
    BY <2>1 DEF TypeOK
  <2>3. f \notin Paths
    BY <1>0, <2>2
  <2>4. \A p \in Paths \ {g} : entry'[p] = entry[p]
    BY <1>0, <2>1, <2>3 DEF TypeOK
  <2>5. QED
    BY <2>1, <2>2, <2>4 DEF Kept
<1>3. ASSUME NEW f \in Names, NEW g \in Names, Link(f, g)
      PROVE  \A p \in Paths : Kept(p)
  <2>1. entry' = [entry EXCEPT ![g] = entry[f]] /\ data' = data /\ entry[g] = None
    BY <1>3 DEF Link
  <2>2. QED
    BY <1>0, <2>1 DEF TypeOK, Kept
<1>4. ASSUME NEW f \in Names, Unlink(f)
      PROVE  \A p \in Paths : Kept(p)
  <2>1. entry' = [entry EXCEPT ![f] = None] /\ data' = data
    BY <1>4 DEF Unlink
  <2>2. f \notin Paths
    BY <1>0, <2>1 DEF TypeOK
  <2>3. QED
    BY <1>0, <2>1, <2>2 DEF TypeOK, Kept
<1>5. CASE MoveRoot
  BY <1>5 DEF MoveRoot, Kept
<1>6. CASE \E n \in Regular, b \in 1 .. Blocks : Overwrite(n, b)
  BY <1>1, <1>6
<1>7. CASE \E f, g \in Names : Rename(f, g) \/ Link(f, g)
  <2>1. PICK f \in Names, g \in Names : Rename(f, g) \/ Link(f, g)
    BY <1>7
  <2>2. CASE Rename(f, g)
    BY <1>2, <2>2
  <2>3. CASE Link(f, g)
    BY <1>3, <2>3
  <2>4. QED
    BY <2>1, <2>2, <2>3
<1>8. QED
  BY <1>4, <1>5, <1>6, <1>7 DEF Mutator

\* If the tree matches neither before nor after the one change, something that
\* is bad after it lies ahead: what lies behind was good, and is not looked at
\* again.
LEMMA ChangeKeepsBad ==
  ASSUME TypeOK, FlowInv, Mutator, pc \in {"item"} \cup Hashing, Accurate, ~Matches,
         InventoryRight', ~Matches'
  PROVE  BadAhead'
<1>0. UNCHANGED <<pc, item, held, blocks, clean>> /\ item \in Nat
  BY MutatorTouches, SnapshotAssumption DEF hashVars, TypeOK
<1>1. PICK i \in 1 .. Len(Expected) : ~Good(entry[Expected[i]])
  BY Mismatch DEF Accurate
<1>2. PICK j \in 1 .. Len(Expected) : (~Good(entry[Expected[j]]))'
  <2>1. PICK f \in Paths : (~Good(entry[f]))'
    BY DEF InventoryRight, Matches
  <2>2. QED
    BY <2>1, SnapshotAssumption DEF Paths
\* What was bad before and is untouched is bad after, and lies ahead.
<1>3. ASSUME NEW k \in 1 .. Len(Expected), ~Good(entry[Expected[k]])
      PROVE  /\ k >= item
             /\ k = item /\ pc \in Hashing =>
                  /\ held.node = entry[Expected[k]]
                  /\ clean => \A b \in 1 .. Blocks :
                                ~data[held.node][b] => b > blocks
  BY <1>0, <1>3 DEF Accurate, TypeOK
<1>4. ASSUME NEW k \in 1 .. Len(Expected), Kept(Expected[k])
      PROVE  (~Good(entry[Expected[k]]))' <=> ~Good(entry[Expected[k]])
  BY <1>4 DEF Kept, Good
<1>5. ASSUME NEW k \in 1 .. Len(Expected), Kept(Expected[k]), ~Good(entry[Expected[k]])
      PROVE  BadAhead'
  <2>1. (~Good(entry[Expected[k]]))'
    BY <1>4, <1>5
  <2>2. PICK b \in 1 .. Blocks : ~data[entry[Expected[k]]][b]
    BY <1>5 DEF Good
  <2>3. StillBad(k)'
    BY <1>0, <1>3, <1>5, <2>1, <2>2 DEF StillBad, Kept
  <2>4. QED
    BY <1>0, <1>3, <1>5, <2>3 DEF BadAhead
<1>6. CASE \A p \in Paths : Kept(p)
  BY <1>1, <1>5, <1>6, SnapshotAssumption DEF Paths
<1>7. ASSUME NEW q \in Paths, \A p \in Paths \ {q} : Kept(p),
             entry'[q] # entry[q] \/ \E b \in 1 .. Blocks : Flipped(q, b)
      PROVE  BadAhead'
  <2>0. Expected[i] \in Paths /\ Expected[j] \in Paths
    BY SnapshotAssumption DEF Paths
  <2>1. CASE Expected[i] # q
    BY <1>1, <1>5, <1>7, <2>0, <2>1
  <2>2. CASE Expected[j] # q
    BY <1>2, <1>4, <1>5, <1>7, <2>0, <2>2
  <2>3. CASE Expected[i] = q /\ Expected[j] = q
    <3>1. (~Good(entry[Expected[i]]))'
      BY <1>2, <2>3
    <3>2. CASE entry'[q] # entry[q]
      <4>1. StillBad(i)'
        BY <1>0, <1>1, <1>3, <2>3, <3>1, <3>2 DEF StillBad
      <4>2. QED
        BY <1>0, <1>1, <1>3, <4>1 DEF BadAhead
    <3>3. ASSUME NEW b \in 1 .. Blocks, Flipped(q, b) PROVE BadAhead'
      <4>1. PICK b0 \in 1 .. Blocks : ~data[entry[q]][b0]
        BY <1>1, <2>3 DEF Good
      <4>2. PICK b1 \in 1 .. Blocks : ~data'[entry'[q]][b1]
        BY <1>2, <2>3 DEF Good
      <4>3. entry'[q] = entry[q] /\ data[entry[q]] \in [1 .. Blocks -> BOOLEAN]
            /\ data'[entry[q]] = [data[entry[q]] EXCEPT ![b] = ~@]
        <5>1. entry[q] \in Nodes
          BY <1>7 DEF Accurate, InventoryRight, IsRegular, Regular
        <5>2. QED
          BY <3>3, <5>1 DEF Flipped, TypeOK
      <4>4. \E c \in 1 .. Blocks : ~data[entry[q]][c] /\ ~data'[entry[q]][c]
        <5>1. CASE b0 # b
          BY <4>1, <4>3, <5>1
        <5>2. CASE b0 = b
          BY <4>1, <4>2, <4>3, <5>2
        <5>3. QED
          BY <5>1, <5>2
      <4>5. StillBad(i)'
        BY <1>0, <1>1, <1>3, <2>3, <3>1, <4>3, <4>4 DEF StillBad
      <4>6. QED
        BY <1>0, <1>1, <1>3, <4>5 DEF BadAhead
    <3>4. QED
      BY <1>7, <3>2, <3>3
  <2>4. QED
    BY <2>1, <2>2, <2>3
<1>8. InventoryRight
  BY DEF Accurate
<1>9. QED
  BY <1>6, <1>7, <1>8, LoneChange

\* Steps that leave the tree, the open file and what was read of it alone.
LEMMA SameHashed ==
  ASSUME Hashed, pc' \in {"item"} \cup Hashing, pc \in {"item"} \cup Hashing,
         pc' \in Hashing <=> pc \in Hashing,
         UNCHANGED <<entry, data, before, changes, item, blocks, clean>>,
         held'.node = held.node
  PROVE  Hashed'
<1>1. (InventoryRight' <=> InventoryRight) /\ \A n : Good(n)' <=> Good(n)
  BY SameInventory, SameTree
<1>2. Accurate' <=> Accurate
  BY <1>1 DEF Accurate, Good
<1>3. \A i : StillBad(i)' <=> StillBad(i)
  BY <1>1 DEF StillBad, Good
<1>4. BadAhead' <=> BadAhead
  BY <1>3 DEF BadAhead
<1>5. Full' = Full
  BY DEF Full
<1>6. QED
  BY <1>1, <1>2, <1>4, <1>5 DEF Hashed

\* A file is only left without a mismatch when it is there, and good.
LEMMA AcceptHashed ==
  ASSUME TypeOK, FlowInv, Hashed, StatNamed, ~faulty'
  PROVE  Hashed'
<1>1. /\ pc = "named" /\ pc' = "item" /\ item' = item + 1
      /\ entry[Expected[item]] = held.node /\ clean
      /\ UNCHANGED <<entry, data, before, changes>>
  BY DEF StatNamed, NextItem, Goto, treeVars, walkVars, ghostVars
<1>2. /\ blocks = Blocks /\ item \in 1 .. Len(Expected) /\ Len(Expected) \in Nat
      /\ Blocks \in Nat
  BY <1>1, SnapshotAssumption DEF FlowInv, ReadAll, InFile, TypeOK
<1>3. (InventoryRight' <=> InventoryRight) /\ \A n : Good(n)' <=> Good(n)
  BY <1>1, SameInventory, SameTree
<1>4. Accurate => Accurate'
  <2> SUFFICES ASSUME Accurate PROVE Accurate'
    OBVIOUS
  <2>1. Good(entry[Expected[item]])
    BY <1>1, <1>2 DEF Accurate, Good, Hashing
  <2>2. \A k \in 1 .. Len(Expected) : k < item' => k < item \/ k = item
    BY <1>1, <1>2
  <2>3. QED
    BY <1>1, <1>3, <2>1, <2>2 DEF Accurate, Hashing
<1>5. ~StillBad(item)
  BY <1>1, <1>2 DEF StillBad, Good, Hashing
<1>6. BadAhead => BadAhead'
  <2> SUFFICES ASSUME NEW i \in 1 .. Len(Expected), i >= item, StillBad(i) PROVE BadAhead'
    BY DEF BadAhead
  <2>1. i >= item'
    BY <1>1, <1>2, <1>5
  <2>2. StillBad(i)'
    BY <1>1, <1>3 DEF StillBad, Hashing
  <2>3. QED
    BY <2>1, <2>2 DEF BadAhead
<1>7. QED
  BY <1>1, <1>3, <1>4, <1>6 DEF Hashed, Full

\* Opening the next file, and reading a block of it.
LEMMA OpenHashed ==
  ASSUME TypeOK, FlowInv, Hashed, Open, ~faulty'
  PROVE  Hashed'
<1> DEFINE n == entry[Expected[item]]
<1>1. /\ held' = [held EXCEPT !.node = n] /\ pc = "item" /\ pc' = "fstat"
      /\ UNCHANGED <<item, blocks, clean, entry, data, before, changes>>
  BY DEF Open, NextItem, Goto, treeVars, walkVars, ghostVars
<1>2. held'.node = n /\ blocks = 0 /\ item \in Nat
  BY <1>1, SnapshotAssumption DEF TypeOK, FlowInv, AtStart
<1>3. (InventoryRight' <=> InventoryRight) /\ \A m : Good(m)' <=> Good(m)
  BY <1>1, SameInventory, SameTree
<1>4. Accurate => Accurate'
  BY <1>1, <1>2, <1>3 DEF Accurate
<1>5. ASSUME NEW i \in 1 .. Len(Expected), StillBad(i) PROVE StillBad(i)'
  <2>1. ~Good(entry[Expected[i]]) /\ (~Good(entry[Expected[i]]))'
    BY <1>1, <1>3, <1>5 DEF StillBad
  <2>2. PICK b \in 1 .. Blocks : ~data[entry[Expected[i]]][b]
    BY <2>1 DEF Good
  <2>3. b > 0
    BY SnapshotAssumption
  <2>4. QED
    BY <1>1, <1>2, <2>1, <2>2, <2>3 DEF StillBad
<1>6. BadAhead => BadAhead'
  BY <1>1, <1>5 DEF BadAhead
<1>7. QED
  BY <1>1, <1>3, <1>4, <1>6 DEF Hashed, Full

\* A block that is read is the block that lies there.
LEMMA ReadHashed ==
  ASSUME TypeOK, FlowInv, Hashed, ReadBlock
  PROVE  Hashed'
<1>1. /\ pc = "read" /\ blocks' = blocks + 1
      /\ clean' = (clean /\ data[held.node][blocks + 1])
      /\ UNCHANGED <<pc, item, held, entry, data, before, changes>>
  BY DEF ReadBlock, treeVars, walkVars, ghostVars
<1>2. blocks \in Nat
  BY SnapshotAssumption DEF TypeOK
<1>3. (InventoryRight' <=> InventoryRight) /\ \A n : Good(n)' <=> Good(n)
  BY <1>1, SameInventory, SameTree
<1>4. \A b \in 1 .. blocks' : b \in 1 .. blocks \/ b = blocks + 1
  BY <1>1, <1>2
<1>5. Accurate => Accurate'
  BY <1>1, <1>3, <1>4 DEF Accurate
<1>6. ASSUME NEW i \in 1 .. Len(Expected), StillBad(i) PROVE StillBad(i)'
  <2>1. (~Good(entry[Expected[i]]))'
    BY <1>1, <1>3, <1>6 DEF StillBad
  <2>2. CASE i = item /\ entry[Expected[i]] = held.node /\ clean
    <3>1. PICK b \in 1 .. Blocks : b > blocks /\ ~data[held.node][b]
      BY <1>1, <1>6, <2>2 DEF StillBad, Hashing
    <3>2. b > blocks + 1 \/ b = blocks + 1
      BY <1>2, <3>1, SnapshotAssumption
    <3>3. QED
      BY <1>1, <2>1, <3>1, <3>2 DEF StillBad
  <2>3. CASE ~(i = item /\ entry[Expected[i]] = held.node /\ clean)
    BY <1>1, <2>1, <2>3 DEF StillBad
  <2>4. QED
    BY <2>2, <2>3
<1>7. BadAhead => BadAhead'
  BY <1>1, <1>6 DEF BadAhead
<1>8. QED
  BY <1>1, <1>3, <1>5, <1>7 DEF Hashed, Full

\* With one change at most, a step of the verifier misses nothing that it
\* should have seen,
LEMMA OneVerifier ==
  ASSUME TypeOK, FlowInv, GhostInv, OneInv, Verifier
  PROVE  OneInv'
<1> USE DEF Goto, treeVars, walkVars, hashVars, ghostVars
<1>0. UNCHANGED <<entry, data, changes, exact>> /\ (InventoryRight' <=> InventoryRight)
  BY VerifierKeepsTree, SameInventory
<1>1. faulty => faulty'
  BY DEF FlowInv, Verifier, OpenRoot, List, StatEntry, Compare, SkipItem, Open, FstatBefore,
     ReadBlock, FstatAfter, StatNamed, LastItem, Recompare, Conclude, NextItem
<1> SUFFICES ASSUME changes <= 1, ~exact, ~faulty, ~faulty'
             PROVE  /\ pc' = "restat" \/ (pc' = "stat" /\ changes = 0) => Listing'
                    /\ pc' \in {"item"} \cup Hashing => Hashed'
                    /\ pc' \in {"relist", "restat"} =>
                         changes = 1 /\ before' = Full /\ ~InventoryRight
                    /\ pc' # "revalidate" /\ verdict' # "PASS"
  BY <1>0, <1>1 DEF OneInv, Full
<1>2. /\ pc = "restat" \/ (pc = "stat" /\ changes = 0) => Listing
      /\ pc \in {"item"} \cup Hashing => Hashed
      /\ pc \in {"relist", "restat"} => changes = 1 /\ before = Full /\ ~InventoryRight
      /\ pc # "revalidate" /\ verdict # "PASS"
  BY DEF OneInv
<1>3. changes \in {0, 1} /\ item \in Nat /\ Len(Expected) \in Nat
  BY SnapshotAssumption DEF TypeOK
<1>4. ~Matches
  BY DEF GhostInv
<1>5. found.regular = Paths /\ found.rejected = {} => found = Full
  BY DEF TypeOK, Full
<1>6. Full.regular = Paths /\ Full.rejected = {}
  BY DEF Full
<1> HIDE DEF Full
<1>7. CASE OpenRoot
  BY <1>2, <1>7 DEF OpenRoot, Hashing
<1>8. CASE List
  <2>1. Listing'
    BY <1>0, <1>8 DEF List, Listing, Listed, Empty, Tree
  <2>2. QED
    BY <1>2, <1>8, <2>1 DEF List, Hashing
<1>9. CASE StatEntry
  <2>1. PICK f \in walk :
          /\ walk' = walk \ {f}
          /\ found' = IF IsRegular(f)
                        THEN [found EXCEPT !.regular = @ \cup {f}]
                        ELSE [found EXCEPT !.rejected = @ \cup {f}]
    BY <1>9 DEF StatEntry
  <2>2. pc \in {"stat", "restat"} /\ UNCHANGED <<pc, before, verdict>>
    BY <1>9 DEF StatEntry
  <2>3. found'.regular = IF IsRegular(f) THEN found.regular \cup {f} ELSE found.regular
    BY <2>1 DEF TypeOK
  <2>4. found'.rejected = IF IsRegular(f) THEN found.rejected ELSE found.rejected \cup {f}
    BY <2>1 DEF TypeOK
  <2>5. \A g : IsRegular(g)' <=> IsRegular(g)
    BY <1>0, SameTree
  <2>6. Listing => Listing'
    BY <1>0, <2>1, <2>3, <2>4, <2>5 DEF Listing
  <2>7. QED
    BY <1>2, <2>2, <2>6 DEF Hashing
<1>10. CASE Compare
  <2>1. /\ pc = "stat" /\ walk = {} /\ before' = found /\ pc' = "item"
        /\ found.rejected = {} /\ found.regular = Paths
        /\ UNCHANGED <<item, verdict>>
    BY <1>10 DEF Compare
  <2>2. item = 1
    BY <2>1 DEF FlowInv
  <2>3. changes = 0 => InventoryRight
    BY <1>2, <2>1, ListingComplete
  <2>4. changes = 0 => Accurate'
    BY <1>0, <1>3, <2>1, <2>2, <2>3 DEF Accurate, Hashing
  <2>5. InventoryRight => BadAhead'
    <3>1. SUFFICES ASSUME InventoryRight PROVE BadAhead'
      OBVIOUS
    <3>2. PICK i \in 1 .. Len(Expected) : ~Good(entry[Expected[i]])
      BY <1>4, <3>1, Mismatch
    <3>3. StillBad(i)'
      BY <1>0, <2>1, <3>2 DEF StillBad, Hashing, Good
    <3>4. QED
      BY <2>1, <2>2, <3>2, <3>3 DEF BadAhead
  <2>6. Hashed'
    BY <1>0, <1>5, <2>1, <2>4, <2>5 DEF Hashed, Full
  <2>7. QED
    BY <1>2, <2>1, <2>6 DEF Hashing
<1>11. CASE SkipItem
  <2>1. Expected[item] \in Paths
    BY <1>3, <1>11, SnapshotAssumption DEF SkipItem, Paths, TypeOK
  <2>2. QED
    BY <1>2, <1>6, <1>11, <2>1 DEF SkipItem, Hashed
<1>12. CASE Open
  <2>1. Hashed'
    BY <1>2, <1>12, OpenHashed DEF Open
  <2>2. pc' = "fstat" /\ verdict' = verdict
    BY <1>12 DEF Open, NextItem
  <2>3. QED
    BY <1>2, <2>1, <2>2 DEF Hashing
<1>13. CASE FstatBefore
  <2>1. /\ pc = "fstat" /\ pc' = "read" /\ held'.node = held.node
        /\ UNCHANGED <<item, blocks, clean, before, verdict>>
    <3>1. Links(held.node) = 1
      BY <1>13 DEF FstatBefore, NextItem
    <3>2. QED
      BY <1>13, <3>1 DEF FstatBefore
  <2>2. Hashed'
    BY <1>0, <1>2, <2>1, SameHashed DEF Hashing
  <2>3. QED
    BY <1>2, <2>1, <2>2 DEF Hashing
<1>14. CASE ReadBlock
  <2>1. Hashed'
    BY <1>2, <1>14, ReadHashed DEF ReadBlock, Hashing
  <2>2. QED
    BY <1>2, <1>14, <2>1 DEF ReadBlock, Hashing
<1>15. CASE FstatAfter
  <2>1. /\ pc = "read" /\ pc' = "named" /\ UNCHANGED <<held, item, blocks, clean, before, verdict>>
    BY <1>15 DEF FstatAfter, NextItem
  <2>2. Hashed'
    BY <1>0, <1>2, <2>1, SameHashed DEF Hashing
  <2>3. QED
    BY <1>2, <2>1, <2>2 DEF Hashing
<1>16. CASE StatNamed
  <2>1. Hashed'
    BY <1>2, <1>16, AcceptHashed DEF StatNamed, Hashing
  <2>2. QED
    BY <1>2, <1>16, <2>1 DEF StatNamed, NextItem, Hashing
<1>17. CASE LastItem
  <2>1. /\ pc = "item" /\ item > Len(Expected) /\ pc' = "relist"
        /\ UNCHANGED <<before, verdict>>
    BY <1>17 DEF LastItem
  <2>2. ~BadAhead
    BY <1>3, <2>1 DEF BadAhead
  <2>3. ~Accurate
    BY <1>3, <1>4, <2>1, Mismatch DEF Accurate
  <2>4. QED
    BY <1>2, <1>3, <2>1, <2>2, <2>3 DEF Hashing, Hashed
<1>18. CASE Recompare
  <2>1. pc = "restat" /\ walk = {} /\ found = before
    BY <1>18 DEF Recompare
  <2>2. InventoryRight
    BY <1>2, <1>6, <2>1, ListingComplete
  <2>3. QED
    BY <1>2, <2>1, <2>2
<1>19. CASE Conclude
  BY <1>2, <1>19 DEF Conclude
<1>20. QED
  BY <1>7, <1>8, <1>9, <1>10, <1>11, <1>12, <1>13, <1>14, <1>15, <1>16, <1>17, <1>18, <1>19
     DEF Verifier

\* and the change itself leaves enough for it to be seen.
LEMMA OneMutator ==
  ASSUME TypeOK, FlowInv, GhostInv, OneInv, Mutator
  PROVE  OneInv'
<1>1. /\ changes' = changes + 1 /\ changes \in Nat /\ exact' = (exact \/ Matches')
      /\ UNCHANGED <<pc, before, faulty, verdict>>
  BY MutatorTouches DEF walkVars, TypeOK
<1> SUFFICES ASSUME changes' <= 1, ~exact', ~faulty'
             PROVE  /\ pc' = "restat" \/ (pc' = "stat" /\ changes' = 0) => Listing'
                    /\ pc' \in {"item"} \cup Hashing => Hashed'
                    /\ pc' \in {"relist", "restat"} =>
                         changes' = 1 /\ before' = Full' /\ ~InventoryRight'
                    /\ pc' # "revalidate" /\ verdict' # "PASS"
  BY DEF OneInv, Hashing
<1>2. changes = 0 /\ ~exact /\ ~faulty /\ ~Matches /\ ~Matches'
  <2>1. changes = 0
    BY <1>1
  <2>2. exact \/ Matches' => exact'
    BY <1>1
  <2>3. ~exact /\ ~faulty /\ ~Matches'
    BY <1>1, <2>2
  <2>4. QED
    BY <2>1, <2>3 DEF GhostInv
<1>3. ASSUME pc \in {"item"} \cup Hashing PROVE Hashed'
  <2>1. before = Full /\ Accurate
    BY <1>2, <1>3 DEF OneInv, Hashed
  <2>2. InventoryRight' => BadAhead'
    BY <1>2, <1>3, <2>1, ChangeKeepsBad
  <2>3. QED
    BY <1>1, <1>2, <2>1, <2>2 DEF Hashed, Full
<1>4. /\ pc \notin {"relist", "restat", "revalidate"} /\ verdict # "PASS"
      /\ changes' # 0
  BY <1>1, <1>2 DEF OneInv
<1>5. QED
  BY <1>1, <1>3, <1>4

(* A tree that changes once during the verification, in whatever way and   *)
(* between whichever two steps, is only passed when it was, as a whole and *)
(* before or after that change, what the manifest says: on a clock of any  *)
(* kind, for every manifest and any number of files and blocks.            *)
THEOREM OneChangeCaught == Spec => []OneChangeIsSeen
<1>1. Init => OneInv
  BY DEF Init, OneInv, Hashing
<1>2. TypeOK /\ FlowInv /\ GhostInv /\ OneInv /\ [Next]_vars => OneInv'
  <2> SUFFICES ASSUME TypeOK, FlowInv, GhostInv, OneInv, UNCHANGED vars PROVE OneInv'
    BY OneVerifier, OneMutator DEF Next
  <2>1. UNCHANGED <<entry, data, pc, walk, found, before, item, held, blocks, clean,
                    faulty, verdict, changes, exact>>
    BY DEF vars, treeVars, walkVars, hashVars, ghostVars
  <2>2. (InventoryRight' <=> InventoryRight) /\ \A f : IsRegular(f)' <=> IsRegular(f)
    BY <2>1, SameInventory, SameTree
  <2>3. Listing' <=> Listing
    BY <2>1, <2>2 DEF Listing
  <2>4. pc \in {"item"} \cup Hashing /\ Hashed => Hashed'
    BY <2>1, SameHashed
  <2>5. QED
    BY <2>1, <2>2, <2>3, <2>4 DEF OneInv, Full
<1>3. FlowInv /\ OneInv => OneChangeIsSeen
  BY DEF FlowInv, OneInv, OneChangeIsSeen
<1>4. QED
  BY <1>1, <1>2, <1>3, TypeCorrect, GhostInvariant, PTL DEF Spec
=============================================================================
