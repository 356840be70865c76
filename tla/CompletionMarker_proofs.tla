----------------------- MODULE CompletionMarker_proofs -----------------------
(***************************************************************************)
(* Proofs about CompletionMarker, for any number of calls and directories, *)
(* any combination of faults, and with or without removals.  The           *)
(* invariant ties a marker to the call that made it: to the directory it   *)
(* verified, to what it has written and to where it has got.               *)
(***************************************************************************)
EXTENDS CompletionMarker, TLAPS

\* After the link the call still answers for its marker.
Linked == {"linked", "checked", "cleanup", "unlink", "returned"}
Opened == {"opened", "created", "written"} \cup Linked

\* What a call holds open is the complete directory of its report.
RootInv ==
  \A w \in Writers :
    /\ pc[w] = "verified" => report[w] \in Complete
    /\ pc[w] \in Opened => root[w] \in Complete

\* From the write on, a call's inode is whole.
ContentInv ==
  \A w \in Writers : pc[w] \in {"written"} \cup Linked => content[w] = "full"

\* A marker's call has linked it, whole, in the directory it holds.
MarkerInv ==
  \A d \in Dirs : \A w \in Writers :
    marker[d] = w =>
      /\ d = root[w] /\ d \in Complete /\ content[w] = "full"
      /\ pc[w] \in Linked \cup {"left", "crashed"}

SafeInv == TypeOK /\ RootInv /\ ContentInv /\ MarkerInv

\* The invariant of marker and calls holds at the start ...
LEMMA InitSafe == Init => SafeInv
  BY MarkerAssumption DEF Init, SafeInv, TypeOK, RootInv, ContentInv, MarkerInv, Opened,
     Linked

\* A call moves on without touching anything but its control point.
LEMMA MovesOn ==
  ASSUME SafeInv, NEW w \in Writers, NEW to, Goto(w, to),
         UNCHANGED <<named, marker, content, report, root, world>>,
         to \in {"checked", "cleanup", "unlink"} \cup Ended,
         to \in Linked => pc[w] \in Linked,
         to = "raised" => \A d \in Dirs : marker[d] # w
  PROVE  SafeInv'
<1>1. TypeOK'
  BY DEF SafeInv, TypeOK, Goto, Linked, Ended, world
<1>2. RootInv' /\ ContentInv'
  BY DEF SafeInv, TypeOK, RootInv, ContentInv, Goto, Linked, Opened, Ended, world
<1>3. MarkerInv'
  BY DEF SafeInv, TypeOK, MarkerInv, Goto, Linked, Ended
<1> QED
  BY <1>1, <1>2, <1>3 DEF SafeInv

\* ... and after every step of every call, crash and operator.
LEMMA StepSafe == SafeInv /\ [Next]_vars => SafeInv'
<1> SUFFICES ASSUME SafeInv, [Next]_vars PROVE SafeInv'
  OBVIOUS
<1> USE MarkerAssumption DEF world
<1>1. ASSUME NEW w \in Writers, Verify(w) PROVE SafeInv'
  <2>1. TypeOK'
    BY <1>1 DEF SafeInv, TypeOK, Verify, Goto, Ended
  <2>2. RootInv' /\ ContentInv' /\ MarkerInv'
    BY <1>1 DEF SafeInv, TypeOK, RootInv, ContentInv, MarkerInv, Verify, Goto, Linked, Opened
  <2> QED
    BY <2>1, <2>2 DEF SafeInv
<1>2. ASSUME NEW w \in Writers, OpenRoot(w) PROVE SafeInv'
  <2>1. TypeOK'
    BY <1>2 DEF SafeInv, TypeOK, OpenRoot, Goto, Ended
  <2>2. RootInv' /\ ContentInv' /\ MarkerInv'
    BY <1>2 DEF SafeInv, TypeOK, RootInv, ContentInv, MarkerInv, OpenRoot, Goto, Linked,
       Opened
  <2> QED
    BY <2>1, <2>2 DEF SafeInv
<1>3. ASSUME NEW w \in Writers, CreateTmp(w) PROVE SafeInv'
  <2>1. TypeOK'
    BY <1>3 DEF SafeInv, TypeOK, CreateTmp, Goto, Ended
  <2>2. RootInv' /\ ContentInv' /\ MarkerInv'
    BY <1>3 DEF SafeInv, TypeOK, RootInv, ContentInv, MarkerInv, CreateTmp, Goto, Linked,
       Opened
  <2> QED
    BY <2>1, <2>2 DEF SafeInv
<1>4. ASSUME NEW w \in Writers, WriteMarker(w) PROVE SafeInv'
  <2>1. TypeOK'
    BY <1>4 DEF SafeInv, TypeOK, WriteMarker, Goto, Ended
  <2>2. RootInv' /\ ContentInv' /\ MarkerInv'
    BY <1>4 DEF SafeInv, TypeOK, RootInv, ContentInv, MarkerInv, WriteMarker, Goto, Linked,
       Opened
  <2> QED
    BY <2>1, <2>2 DEF SafeInv
<1>5. ASSUME NEW w \in Writers, LinkMarker(w) PROVE SafeInv'
  <2>1. TypeOK'
    BY <1>5 DEF SafeInv, TypeOK, LinkMarker, Goto, Ended
  <2>2. RootInv' /\ ContentInv'
    BY <1>5 DEF SafeInv, TypeOK, RootInv, ContentInv, LinkMarker, Goto, Linked, Opened
  <2>3. MarkerInv'
    BY <1>5 DEF SafeInv, TypeOK, RootInv, ContentInv, MarkerInv, LinkMarker, Goto, Linked,
       Opened
  <2> QED
    BY <2>1, <2>2, <2>3 DEF SafeInv
<1>6. ASSUME NEW w \in Writers, CheckInstalled(w) PROVE SafeInv'
  BY <1>6, MovesOn DEF CheckInstalled, Linked
<1>7. ASSUME NEW w \in Writers, Revalidate(w) PROVE SafeInv'
  BY <1>7, MovesOn DEF Revalidate, Linked, Ended
<1>8. ASSUME NEW w \in Writers, StatOwn(w) PROVE SafeInv'
  <2>1. CASE marker[root[w]] = w
    BY <1>8, <2>1, MovesOn DEF StatOwn, Linked
  <2>2. CASE marker[root[w]] # w
    <3>1. \A d \in Dirs : marker[d] # w
      BY <2>2 DEF SafeInv, MarkerInv
    <3> QED
      BY <1>8, <2>2, <3>1, MovesOn DEF StatOwn, Linked, Ended
  <2> QED
    BY <2>1, <2>2
<1>9. ASSUME NEW w \in Writers, UnlinkMarker(w) PROVE SafeInv'
  <2>1. TypeOK'
    BY <1>9 DEF SafeInv, TypeOK, UnlinkMarker, Goto, Ended
  <2>2. RootInv' /\ ContentInv' /\ MarkerInv'
    BY <1>9 DEF SafeInv, TypeOK, RootInv, ContentInv, MarkerInv, UnlinkMarker, Goto, Linked,
       Opened
  <2> QED
    BY <2>1, <2>2 DEF SafeInv
<1>10. ASSUME NEW w \in Writers, IOFails(w) PROVE SafeInv'
  <2>1. pc[w] \in {"start", "verified", "opened", "created", "written"} =>
          \A d \in Dirs : marker[d] # w
    BY DEF SafeInv, MarkerInv, Linked
  <2> QED
    BY <1>10, <2>1, MovesOn DEF IOFails, Linked, Ended
<1>11. ASSUME NEW w \in Writers, Crash(w) PROVE SafeInv'
  BY <1>11, MovesOn DEF Crash, Linked, Ended
<1>12. CASE MoveRoot
  <2>1. TypeOK'
    BY <1>12 DEF SafeInv, TypeOK, MoveRoot
  <2> QED
    BY <1>12, <2>1 DEF SafeInv, RootInv, ContentInv, MarkerInv, MoveRoot
<1>13. ASSUME NEW d \in Dirs, RemoveMarker(d) PROVE SafeInv'
  <2>1. TypeOK'
    BY <1>13 DEF SafeInv, TypeOK, RemoveMarker
  <2> QED
    BY <1>13, <2>1 DEF SafeInv, TypeOK, RootInv, ContentInv, MarkerInv, RemoveMarker
<1>14. CASE UNCHANGED vars
  BY <1>14 DEF SafeInv, TypeOK, RootInv, ContentInv, MarkerInv, vars
<1> QED
  BY <1>1, <1>2, <1>3, <1>4, <1>5, <1>6, <1>7, <1>8, <1>9, <1>10, <1>11, <1>12, <1>13,
     <1>14 DEF Next, Call

\* Every variable keeps its type; a PASS report is about a complete directory.
THEOREM TypeCorrect == Spec => []TypeOK
<1>1. SafeInv => TypeOK
  BY DEF SafeInv
<1> QED
  BY <1>1, InitSafe, StepSafe, PTL DEF Spec

\* A marker only ever sits in a directory that was verified complete, whatever
\* the root path names and whoever dies between the steps (verify_model_snapshot.py:284-290).
THEOREM MarkersVerified == Spec => []MarkerIsVerified
<1>1. SafeInv => MarkerIsVerified
  BY DEF SafeInv, TypeOK, MarkerInv, MarkerIsVerified
<1> QED
  BY <1>1, InitSafe, StepSafe, PTL DEF Spec

\* A marker that can be read is whole, after any crash 
\* (verify_model_snapshot.py:305-318).
THEOREM MarkersWhole == Spec => []MarkerIsWhole
<1>1. SafeInv => MarkerIsWhole
  BY DEF SafeInv, TypeOK, MarkerInv, MarkerIsWhole
<1> QED
  BY <1>1, InitSafe, StepSafe, PTL DEF Spec

-----------------------------------------------------------------------------
\* As long as nobody else removes markers, a call that has linked one still has it
\* in the directory it holds, through its own cleanup and everybody else's.
KeptInv ==
  removals = 0 => \A w \in Writers : pc[w] \in Linked => marker[root[w]] = w

\* What was linked stays, step by step.
LEMMA StepKept == SafeInv /\ KeptInv /\ [Next]_vars => KeptInv'
<1> SUFFICES ASSUME SafeInv, KeptInv, [Next]_vars, removals' = 0,
                    NEW w \in Writers, pc'[w] \in Linked
             PROVE  marker'[root'[w]] = w
  BY DEF KeptInv
<1> USE MarkerAssumption
<1>0. removals = 0
  <2>1. removals \in Nat
    BY DEF SafeInv, TypeOK
  <2> QED
    BY <2>1 DEF Next, Call, Verify, OpenRoot, CreateTmp, WriteMarker, LinkMarker,
       CheckInstalled, Revalidate, StatOwn, UnlinkMarker, IOFails, Crash, MoveRoot,
       RemoveMarker, vars, world
<1>1. /\ pc \in [Writers -> {"start", "verified", "opened", "created", "written",
                             "linked", "checked", "cleanup", "unlink"} \cup Ended]
      /\ marker \in [Dirs -> Writers \cup {None}]
      /\ \A v \in Writers : pc[v] \in Opened => root[v] \in Dirs
      /\ root \in [Writers -> Dirs \cup {None}]
  BY DEF SafeInv, TypeOK, RootInv
<1>2. \A v \in Writers : pc[v] \in Linked => marker[root[v]] = v /\ root[v] \in Dirs
  BY <1>0, <1>1 DEF KeptInv, Opened
<1>3. ASSUME NEW v \in Writers, Call(v) PROVE marker'[root'[w]] = w
  <2>1. CASE Verify(v) \/ OpenRoot(v) \/ CreateTmp(v) \/ WriteMarker(v)
    BY <1>1, <1>2, <2>1 DEF Verify, OpenRoot, CreateTmp, WriteMarker, Goto, Linked, Ended
  <2>2. CASE LinkMarker(v)
    BY <1>1, <1>2, <2>2 DEF LinkMarker, Goto, Linked, Opened, Ended
  <2>3. CASE CheckInstalled(v) \/ Revalidate(v) \/ StatOwn(v)
    BY <1>1, <1>2, <2>3 DEF CheckInstalled, Revalidate, StatOwn, Goto, Linked, Ended
  <2>4. CASE UnlinkMarker(v)
    <3>1. v # w /\ pc[w] \in Linked
      BY <1>1, <2>4 DEF UnlinkMarker, Goto, Linked, Ended
    <3>2. marker[root[v]] = v /\ marker[root[w]] = w
      BY <1>2, <2>4, <3>1 DEF UnlinkMarker, Linked
    <3> QED
      BY <1>1, <1>2, <2>4, <3>1, <3>2 DEF UnlinkMarker
  <2>5. CASE IOFails(v) \/ Crash(v)
    BY <1>1, <1>2, <2>5 DEF IOFails, Crash, Goto, Linked, Ended
  <2> QED
    BY <1>3, <2>1, <2>2, <2>3, <2>4, <2>5 DEF Call
<1>4. CASE MoveRoot
  BY <1>2, <1>4 DEF MoveRoot
<1>5. CASE UNCHANGED vars
  BY <1>2, <1>5 DEF vars
<1>6. ASSUME NEW d \in Dirs PROVE ~RemoveMarker(d)
  BY <1>0 DEF RemoveMarker
<1> QED
  BY <1>3, <1>4, <1>5, <1>6 DEF Next

\* A call that returned keeps its marker among any number of other calls, for
\* linkat refuses a taken name and a cleanup reaches only its own marker.
THEOREM ReturnedKept == Spec => []ReturnedStays
<1>1. Init => KeptInv
  BY DEF Init, KeptInv, Linked
<1>2. KeptInv => ReturnedStays
  BY DEF KeptInv, ReturnedStays, Linked
<1> QED
  BY <1>1, <1>2, InitSafe, StepSafe, StepKept, PTL DEF Spec

-----------------------------------------------------------------------------
\* A call that raises leaves no marker of its own in any directory, unless the
\* cleanup failed as well (verify_model_snapshot.py:331-341).
THEOREM RaisedClean == Spec => []RaisedLeavesNothing
<1>1. SafeInv => RaisedLeavesNothing
  BY DEF SafeInv, MarkerInv, RaisedLeavesNothing, Linked
<1> QED
  BY <1>1, InitSafe, StepSafe, PTL DEF Spec
=============================================================================
