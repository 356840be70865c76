-------------------------- MODULE AtomicWrite_proofs --------------------------
(***************************************************************************)
(* Proofs about AtomicWrite: for any number of calls, one at a time, the   *)
(* fixed temporary name and the bare rename do give an atomic file.        *)
(***************************************************************************)
EXTENDS AtomicWrite, TLAPS

\* The two directory entries never share a node, and hand-outs are recorded.
NodeInv ==
  /\ dest \in Nodes => dest \in used
  /\ tmp \in Nodes => tmp \in used
  /\ dest \in Nodes => tmp # dest

\* One call at a time owns the temporary from its open to its rename.
OwnerInv ==
  Serial =>
    \A w \in Writers :
      /\ pc[w] \in Busy =>
           /\ ~Refused(dest)
           /\ \A v \in Writers \ {w} : pc[v] \notin Busy
      /\ pc[w] \in {"opened", "written", "chmodded"} =>
           tmp \in Nodes /\ fd[w] = tmp
      /\ pc[w] = "opened" => content[tmp] = "empty"
      /\ pc[w] \in {"written", "chmodded"} => content[tmp] = w
      /\ pc[w] = "chmodded" => tmp \in private

-----------------------------------------------------------------------------
(* The variables of AtomicWrite stay in their sets, with the two directory *)
(* entries and the opened nodes always among the nodes handed out.         *)
THEOREM TypeCorrect == Spec => [](TypeOK /\ NodeInv)
<1> USE WriteAssumption DEF TypeOK, NodeInv, Entries, Contents, Busy, Ended
<1>1. Init => TypeOK /\ NodeInv
  BY DEF Init
<1>2. TypeOK /\ NodeInv /\ [Next]_vars => (TypeOK /\ NodeInv)'
  <2> SUFFICES ASSUME TypeOK, NodeInv, [Next]_vars PROVE (TypeOK /\ NodeInv)'
    OBVIOUS
  <2> USE DEF Goto
  <2>1. ASSUME NEW w \in Writers, Check(w) PROVE (TypeOK /\ NodeInv)'
    BY <2>1 DEF Check
  <2>2. ASSUME NEW w \in Writers, OpenTmp(w) PROVE (TypeOK /\ NodeInv)'
    BY <2>2 DEF OpenTmp
  <2>3. ASSUME NEW w \in Writers, WriteTmp(w) PROVE (TypeOK /\ NodeInv)'
    <3>1. PICK c \in Contents : content' = [content EXCEPT ![fd[w]] = c]
      BY <2>3 DEF WriteTmp
    <3>2. content' \in [Nodes -> Contents]
      BY <3>1
    <3>3. QED
      BY <2>3, <3>2 DEF WriteTmp
  <2>4. ASSUME NEW w \in Writers, WriteFails(w) PROVE (TypeOK /\ NodeInv)'
    BY <2>4 DEF WriteFails
  <2>5. ASSUME NEW w \in Writers, Chmod(w) PROVE (TypeOK /\ NodeInv)'
    BY <2>5 DEF Chmod
  <2>6. ASSUME NEW w \in Writers, Replace(w) PROVE (TypeOK /\ NodeInv)'
    BY <2>6 DEF Replace
  <2>7. ASSUME NEW w \in Writers, Crash(w) PROVE (TypeOK /\ NodeInv)'
    BY <2>7 DEF Crash
  <2>8. CASE UNCHANGED vars
    BY <2>8 DEF vars
  <2>9. QED
    BY <2>1, <2>2, <2>3, <2>4, <2>5, <2>6, <2>7, <2>8 DEF Next
<1>3. QED
  BY <1>1, <1>2, PTL DEF Spec

\* No two serial calls own the temporary at once.
LEMMA OwnerInvariant == Spec => []OwnerInv
<1> USE WriteAssumption DEF OwnerInv, Busy
<1>1. Init => OwnerInv
  BY DEF Init
<1>2. TypeOK /\ NodeInv /\ OwnerInv /\ [Next]_vars => OwnerInv'
  <2> SUFFICES ASSUME TypeOK, NodeInv, OwnerInv, [Next]_vars, Serial
               PROVE  OwnerInv'
    OBVIOUS
  <2> USE DEF TypeOK, NodeInv, Entries, Goto, Ended, Refused
  <2>1. ASSUME NEW w \in Writers, Check(w) PROVE OwnerInv'
    BY <2>1 DEF Check
  <2>2. ASSUME NEW w \in Writers, OpenTmp(w) PROVE OwnerInv'
    BY <2>2 DEF OpenTmp
  <2>3. ASSUME NEW w \in Writers, WriteTmp(w) PROVE OwnerInv'
    BY <2>3 DEF WriteTmp
  <2>4. ASSUME NEW w \in Writers, WriteFails(w) PROVE OwnerInv'
    BY <2>4 DEF WriteFails
  <2>5. ASSUME NEW w \in Writers, Chmod(w) PROVE OwnerInv'
    BY <2>5 DEF Chmod
  <2>6. ASSUME NEW w \in Writers, Replace(w) PROVE OwnerInv'
    BY <2>6 DEF Replace
  <2>7. ASSUME NEW w \in Writers, Crash(w) PROVE OwnerInv'
    BY <2>7 DEF Crash
  <2>8. CASE UNCHANGED vars
    BY <2>8 DEF vars
  <2>9. QED
    BY <2>1, <2>2, <2>3, <2>4, <2>5, <2>6, <2>7, <2>8 DEF Next
<1>3. QED
  BY <1>1, <1>2, TypeCorrect, PTL DEF Spec

-----------------------------------------------------------------------------
(* With one call at a time, whatever is published is private, for any      *)
(* number of calls and wherever they die.                                  *)
THEOREM PublishedPrivate == Spec => []PublishedIsPrivate
<1> USE WriteAssumption DEF PublishedIsPrivate
<1>1. Init => PublishedIsPrivate
  BY DEF Init
<1>2. TypeOK /\ NodeInv /\ OwnerInv /\ PublishedIsPrivate /\ [Next]_vars
        => PublishedIsPrivate'
  <2> SUFFICES ASSUME TypeOK, NodeInv, OwnerInv, PublishedIsPrivate,
                      [Next]_vars, Serial
               PROVE  PublishedIsPrivate'
    OBVIOUS
  <2> USE DEF TypeOK, NodeInv, OwnerInv, Entries, Busy
  <2>1. ASSUME NEW w \in Writers, OpenTmp(w) PROVE PublishedIsPrivate'
    BY <2>1 DEF OpenTmp
  <2>2. ASSUME NEW w \in Writers, WriteTmp(w) \/ WriteFails(w)
        PROVE  PublishedIsPrivate'
    BY <2>2 DEF WriteTmp, WriteFails
  <2>3. ASSUME NEW w \in Writers, Chmod(w) PROVE PublishedIsPrivate'
    BY <2>3 DEF Chmod
  <2>4. ASSUME NEW w \in Writers, Replace(w) PROVE PublishedIsPrivate'
    BY <2>4 DEF Replace
  <2>5. ASSUME NEW w \in Writers, Check(w) \/ Crash(w)
        PROVE  PublishedIsPrivate'
    BY <2>5 DEF Check, Crash
  <2>6. CASE UNCHANGED vars
    BY <2>6 DEF vars
  <2>7. QED
    BY <2>1, <2>2, <2>3, <2>4, <2>5, <2>6 DEF Next
<1>3. QED
  BY <1>1, <1>2, TypeCorrect, OwnerInvariant, PTL DEF Spec

(* One call at a time, the write implements the atomic file: crashes and   *)
(* full disks included, and for both callers' symlink checks.              *)
THEOREM SerialIsAtomic ==
  ASSUME Serial
  PROVE  Spec => IsAtomic
<1> USE WriteAssumption
<1> DEFINE val == ValueOf(dest)
           out == [w \in Writers |-> OutcomeOf(w)]
<1>1. Init => File!Init
  <2> SUFFICES ASSUME Init PROVE File!Init
    OBVIOUS
  <2>1. val \in {"none", "link", "old"}
    BY DEF Init, ValueOf
  <2>2. \A w \in Writers : OutcomeOf(w) = "open"
    BY DEF Init, OutcomeOf
  <2>3. QED
    BY <2>1, <2>2 DEF File!Init
<1>2. TypeOK /\ NodeInv /\ OwnerInv /\ [Next]_vars => [File!Next]_(File!vars)
  <2> SUFFICES ASSUME TypeOK, NodeInv, OwnerInv, [Next]_vars
               PROVE  File!Next \/ (val' = val /\ out' = out)
    BY DEF File!vars
  <2> USE DEF TypeOK, NodeInv, OwnerInv, Entries, Busy, Ended, Goto
  <2>a. ASSUME NEW w \in Writers, pc[w] \in {"start"} \cup Busy, val' = val,
               Goto(w, "error") \/ Goto(w, "crashed")
        PROVE  File!Next
    <3>1. OutcomeOf(w) = "open" /\ OutcomeOf(w)' = "failed"
      BY <2>a DEF OutcomeOf
    <3>2. \A v \in Writers \ {w} : OutcomeOf(v)' = OutcomeOf(v)
      BY <2>a DEF OutcomeOf
    <3>3. out[w] = "open" /\ out' = [out EXCEPT ![w] = "failed"]
      BY <3>1, <3>2
    <3>4. QED
      BY <2>a, <3>3 DEF File!Next, File!Fail
  <2>b. ASSUME NEW w \in Writers, pc[w] \in {"start"} \cup Busy,
               NEW to \in Busy, Goto(w, to)
        PROVE  out' = out
    BY <2>b DEF OutcomeOf
  <2>1. ASSUME NEW w \in Writers, Check(w)
        PROVE  File!Next \/ (val' = val /\ out' = out)
    <3>1. val' = val
      BY <2>1 DEF Check, ValueOf
    <3>2. QED
      BY <2>1, <3>1, <2>a, <2>b DEF Check
  <2>2. ASSUME NEW w \in Writers, OpenTmp(w) PROVE val' = val /\ out' = out
    <3>1. val' = val
      BY <2>2 DEF OpenTmp, ValueOf
    <3>2. QED
      BY <2>2, <3>1, <2>b DEF OpenTmp
  <2>3. ASSUME NEW w \in Writers, WriteTmp(w) PROVE val' = val /\ out' = out
    <3>1. val' = val
      BY <2>3 DEF WriteTmp, ValueOf
    <3>2. QED
      BY <2>3, <3>1, <2>b DEF WriteTmp
  <2>4. ASSUME NEW w \in Writers, WriteFails(w) PROVE File!Next
    <3>1. val' = val
      BY <2>4 DEF WriteFails, ValueOf
    <3>2. QED
      BY <2>4, <3>1, <2>a DEF WriteFails
  <2>5. ASSUME NEW w \in Writers, Chmod(w)
        PROVE  File!Next \/ (val' = val /\ out' = out)
    <3>1. val' = val
      BY <2>5 DEF Chmod, ValueOf
    <3>2. QED
      BY <2>5, <3>1, <2>a, <2>b DEF Chmod
  <2>6. ASSUME NEW w \in Writers, Replace(w) PROVE File!Next
    <3>1. /\ tmp \in Nodes /\ content[tmp] = w
          /\ ~Refused(dest)
      BY <2>6 DEF Replace
    <3>2. dest' = tmp /\ content' = content /\ Goto(w, "done")
      BY <2>6, <3>1 DEF Replace
    <3>3. val' = w
      BY <3>1, <3>2 DEF ValueOf
    <3>4. val # "link"
      BY <3>1 DEF ValueOf, Refused, Contents
    <3>5. out[w] = "open" /\ out' = [out EXCEPT ![w] = "published"]
      BY <2>6, <3>2 DEF Replace, OutcomeOf
    <3>6. QED
      BY <3>3, <3>4, <3>5 DEF File!Next, File!Publish
  <2>7. ASSUME NEW w \in Writers, Crash(w) PROVE File!Next
    <3>1. val' = val
      BY <2>7 DEF Crash, ValueOf
    <3>2. QED
      BY <2>7, <3>1, <2>a DEF Crash
  <2>8. CASE UNCHANGED vars
    BY <2>8 DEF vars, ValueOf, OutcomeOf
  <2>9. QED
    BY <2>1, <2>2, <2>3, <2>4, <2>5, <2>6, <2>7, <2>8 DEF Next
<1>3. QED
  BY <1>1, <1>2, TypeCorrect, OwnerInvariant, PTL DEF Spec, IsAtomic, File!Spec

-----------------------------------------------------------------------------
\* Without faults, and as long as no call got through, no call has failed
\* either, and the temporary is there for every call that has opened it: only
\* a rename takes it away, and that call got through.
PendingInv ==
  Faults = {} /\ ~Refused(dest) /\ (\A w \in Writers : pc[w] # "done")
    => \A w \in Writers :
         /\ pc[w] \in {"start"} \cup Busy
         /\ pc[w] \in {"opened", "written", "chmodded"} => tmp \in Nodes

\* The temporary waits for its calls as long as none got through.
LEMMA PendingInvariant == Spec => []PendingInv
<1> USE WriteAssumption DEF PendingInv, Busy
<1>1. Init => PendingInv
  BY DEF Init
<1>2. TypeOK /\ PendingInv /\ [Next]_vars => PendingInv'
  <2> SUFFICES ASSUME TypeOK, PendingInv, [Next]_vars, Faults = {},
                      ~Refused(dest'), \A w \in Writers : pc'[w] # "done"
               PROVE  \A w \in Writers :
                        /\ pc'[w] \in {"start"} \cup Busy
                        /\ pc'[w] \in {"opened", "written", "chmodded"}
                             => tmp' \in Nodes
    BY DEF Refused
  <2> USE DEF TypeOK, Entries, Goto, Ended
  \* No call leaves "done", and only a call that gets there replaces.
  <2>1. /\ \A w \in Writers : pc[w] # "done"
        /\ dest' = dest
    <3>1. ASSUME NEW w \in Writers,
                 Check(w) \/ OpenTmp(w) \/ WriteTmp(w) \/ WriteFails(w)
                   \/ Chmod(w) \/ Crash(w)
          PROVE  (\A v \in Writers : pc[v] # "done") /\ dest' = dest
      BY <3>1 DEF Check, OpenTmp, WriteTmp, WriteFails, Chmod, Crash
    <3>2. ASSUME NEW w \in Writers, Replace(w)
          PROVE  (\A v \in Writers : pc[v] # "done") /\ dest' = dest
      <4>1. tmp = Absent
        BY <3>2 DEF Replace
      <4>2. QED
        BY <3>2, <4>1 DEF Replace
    <3>3. CASE UNCHANGED vars
      BY <3>3 DEF vars
    <3>4. QED
      BY <3>1, <3>2, <3>3 DEF Next
  <2>2. ~Refused(dest)
    BY <2>1
  <2>3. \A w \in Writers :
          /\ pc[w] \in {"start"} \cup Busy
          /\ pc[w] \in {"opened", "written", "chmodded"} => tmp \in Nodes
    BY <2>1, <2>2
  <2>4. ASSUME NEW w \in Writers, Check(w)
        PROVE  Goto(w, "checked") /\ tmp' = tmp
    BY <2>2, <2>4 DEF Check
  <2>5. ASSUME NEW w \in Writers, OpenTmp(w)
        PROVE  Goto(w, "opened") /\ tmp' \in Nodes
    BY <2>5 DEF OpenTmp
  <2>6. ASSUME NEW w \in Writers, WriteTmp(w)
        PROVE  pc[w] = "opened" /\ Goto(w, "written") /\ tmp' = tmp
    BY <2>6 DEF WriteTmp
  <2>7. ASSUME NEW w \in Writers, Chmod(w)
        PROVE  pc[w] = "written" /\ Goto(w, "chmodded") /\ tmp' = tmp
    BY <2>3, <2>7 DEF Chmod
  <2>8. ASSUME NEW w \in Writers, WriteFails(w) \/ Crash(w) \/ Replace(w)
        PROVE  FALSE
    BY <2>3, <2>8 DEF WriteFails, Crash, Replace
  <2>9. CASE UNCHANGED vars
    BY <2>3, <2>9 DEF vars
  <2>10. QED
    BY <2>3, <2>4, <2>5, <2>6, <2>7, <2>8, <2>9 DEF Next
<1>3. QED
  BY <1>1, <1>2, TypeCorrect, PTL DEF Spec

(* Any number of concurrent calls may spoil each other's temporary, but    *)
(* not all of them lose: when all have ended, one has published.           *)
THEOREM OneGetsThrough ==
  ASSUME Writers # {}
  PROVE  Spec => []OnePublishes
<1>1. PendingInv => OnePublishes
  BY DEF PendingInv, OnePublishes, Busy, Ended
<1>2. QED
  BY <1>1, PendingInvariant, PTL
=============================================================================
