--------------------------- MODULE CompletionMarker ---------------------------
(***************************************************************************)
(* scripts/verify_model_snapshot.py write_completion_marker: several calls *)
(* verify a snapshot and install .r0b0tlab-snapshot.json in it, while the  *)
(* path of the snapshot may be made to name another directory, an operator *)
(* may remove the marker, and a call may fail or die between any two of    *)
(* its system calls.                                                       *)
(*                                                                         *)
(* The verification itself is SnapshotVerify; here it is one step that     *)
(* passes on a directory whose tree is complete.  A marker is an inode     *)
(* that one call created, so it is named by that call.                     *)
(***************************************************************************)
EXTENDS Naturals

CONSTANTS
  Writers,   \* calls of write_completion_marker
  Dirs,      \* directories that the root path may come to name
  Complete,  \* those that hold the snapshot
  None,      \* no directory, no marker
  Faults,    \* "io": a system call fails; "crash": a call dies
  MaxMoves,  \* bound on the changes of the root path
  MaxRemovals \* bound on the markers that an operator removes

ASSUME MarkerAssumption ==
  /\ Complete \subseteq Dirs
  /\ None \notin Dirs /\ None \notin Writers
  /\ Faults \subseteq {"io", "crash"}
  /\ MaxMoves \in Nat /\ MaxRemovals \in Nat

VARIABLES
  named,    \* directory that the root path names
  marker,   \* marker of each directory
  content,  \* what each call has written to its inode
  pc,       \* control point of each call
  report,   \* directory of each call's PASS report
  root,     \* directory each call holds open
  moves,    \* changes of the root path so far
  removals  \* markers an operator has removed so far

world == <<moves, removals>>
vars == <<named, marker, content, pc, report, root, world>>

\* "left": raised, and the cleanup failed too.
Ended == {"returned", "raised", "left", "crashed"}

Init ==
  /\ named \in Dirs \cup {None}
  /\ marker = [d \in Dirs |-> None]
  /\ content = [w \in Writers |-> "none"]
  /\ pc = [w \in Writers |-> "start"]
  /\ report = [w \in Writers |-> None]
  /\ root = [w \in Writers |-> None]
  /\ moves = 0 /\ removals = 0

Goto(w, to) == pc' = [pc EXCEPT ![w] = to]

-----------------------------------------------------------------------------
(* Wrong variants of definitions below, one mistake each. *)

\* The status of the report is not looked at.
VerifyAny(w) ==
  /\ pc[w] = "start" /\ named # None
  /\ report' = [report EXCEPT ![w] = named] /\ Goto(w, "verified")
  /\ UNCHANGED <<named, marker, content, root, world>>

\* The directory is not compared with the one of the report.
OpenAnyRoot(w) ==
  /\ pc[w] = "verified"
  /\ IF named # None
       THEN root' = [root EXCEPT ![w] = named] /\ Goto(w, "opened")
       ELSE Goto(w, "raised") /\ UNCHANGED root
  /\ UNCHANGED <<named, marker, content, report, world>>

\* The marker is created under its name and filled afterwards.
CreateNamed(w) ==
  /\ pc[w] = "opened" /\ marker[root[w]] = None
  /\ content' = [content EXCEPT ![w] = "empty"]
  /\ marker' = [marker EXCEPT ![root[w]] = w]
  /\ Goto(w, "created")
  /\ UNCHANGED <<named, report, root, world>>

\* A call that finds a marker cleans up like one that installed its own.
LinkCleansUp(w) ==
  /\ pc[w] = "written"
  /\ IF marker[root[w]] = None
       THEN marker' = [marker EXCEPT ![root[w]] = w] /\ Goto(w, "linked")
       ELSE Goto(w, "unlink") /\ UNCHANGED marker
  /\ UNCHANGED <<named, content, report, root, world>>

\* A root that moved is reported and the marker left behind.
RevalidateRaises(w) ==
  /\ pc[w] = "checked"
  /\ Goto(w, IF named = root[w] THEN "returned" ELSE "raised")
  /\ UNCHANGED <<named, marker, content, report, root, world>>

-----------------------------------------------------------------------------
(* One call. *)

\* verify_snapshot: anything but PASS raises.
Verify(w) ==
  /\ pc[w] = "start"
  /\ IF named \in Complete
       THEN report' = [report EXCEPT ![w] = named] /\ Goto(w, "verified")
       ELSE Goto(w, "raised") /\ UNCHANGED report
  /\ UNCHANGED <<named, marker, content, root, world>>

\* The root is opened again and must be the directory of the report.
OpenRoot(w) ==
  /\ pc[w] = "verified"
  /\ IF named = report[w]
       THEN root' = [root EXCEPT ![w] = named] /\ Goto(w, "opened")
       ELSE Goto(w, "raised") /\ UNCHANGED root
  /\ UNCHANGED <<named, marker, content, report, world>>

\* An inode without a name, mode 0400.
CreateTmp(w) ==
  /\ pc[w] = "opened"
  /\ content' = [content EXCEPT ![w] = "empty"]
  /\ Goto(w, "created")
  /\ UNCHANGED <<named, marker, report, root, world>>

\* The write loop and fsync.
WriteMarker(w) ==
  /\ pc[w] = "created"
  /\ content' = [content EXCEPT ![w] = "full"]
  /\ Goto(w, "written")
  /\ UNCHANGED <<named, marker, report, root, world>>

\* linkat gives the inode its name, unless the name is taken.
LinkMarker(w) ==
  /\ pc[w] = "written"
  /\ IF marker[root[w]] = None
       THEN marker' = [marker EXCEPT ![root[w]] = w] /\ Goto(w, "linked")
       ELSE Goto(w, "raised") /\ UNCHANGED marker
  /\ UNCHANGED <<named, content, report, root, world>>

\* What carries the marker's name must be the inode that was linked.
CheckInstalled(w) ==
  /\ pc[w] = "linked"
  /\ Goto(w, IF marker[root[w]] = w THEN "checked" ELSE "cleanup")
  /\ UNCHANGED <<named, marker, content, report, root, world>>

\* revalidate_root: the path still names the directory.
Revalidate(w) ==
  /\ pc[w] = "checked"
  /\ Goto(w, IF named = root[w] THEN "returned" ELSE "cleanup")
  /\ UNCHANGED <<named, marker, content, report, root, world>>

\* The exception handler first looks whether the name is still its own, ...
StatOwn(w) ==
  /\ pc[w] = "cleanup"
  /\ Goto(w, IF marker[root[w]] = w THEN "unlink" ELSE "raised")
  /\ UNCHANGED <<named, marker, content, report, root, world>>

\* ... then unlinks it, by name.
UnlinkMarker(w) ==
  /\ pc[w] = "unlink"
  /\ marker' = [marker EXCEPT ![root[w]] = None]
  /\ Goto(w, "raised")
  /\ UNCHANGED <<named, content, report, root, world>>

\* A system call fails.  Before linkat succeeds the inode vanishes with its
\* descriptor; after it the handler runs, and swallows its own failures.
IOFails(w) ==
  /\ "io" \in Faults
  /\ \/ /\ pc[w] \in {"start", "verified", "opened", "created", "written"}
        /\ Goto(w, "raised")
     \/ pc[w] \in {"linked", "checked"} /\ Goto(w, "cleanup")
     \/ pc[w] \in {"cleanup", "unlink"} /\ Goto(w, "left")
  /\ UNCHANGED <<named, marker, content, report, root, world>>

Crash(w) ==
  /\ "crash" \in Faults
  /\ pc[w] \notin Ended \cup {"start"}
  /\ Goto(w, "crashed")
  /\ UNCHANGED <<named, marker, content, report, root, world>>

Call(w) ==
  \/ Verify(w) \/ OpenRoot(w) \/ CreateTmp(w) \/ WriteMarker(w)
  \/ LinkMarker(w) \/ CheckInstalled(w) \/ Revalidate(w)
  \/ StatOwn(w) \/ UnlinkMarker(w) \/ IOFails(w) \/ Crash(w)

-----------------------------------------------------------------------------
(* Everybody else. *)

\* The path is made to name another directory, or none.
MoveRoot ==
  /\ moves < MaxMoves
  /\ named' \in (Dirs \cup {None}) \ {named}
  /\ moves' = moves + 1
  /\ UNCHANGED <<marker, content, pc, report, root, removals>>

RemoveMarker(d) ==
  /\ removals < MaxRemovals
  /\ marker[d] # None
  /\ marker' = [marker EXCEPT ![d] = None]
  /\ removals' = removals + 1
  /\ UNCHANGED <<named, content, pc, report, root, moves>>

Next ==
  \/ \E w \in Writers : Call(w)
  \/ MoveRoot
  \/ \E d \in Dirs : RemoveMarker(d)

Spec == Init /\ [][Next]_vars

-----------------------------------------------------------------------------
(* Properties. *)

TypeOK ==
  /\ named \in Dirs \cup {None}
  /\ marker \in [Dirs -> Writers \cup {None}]
  /\ content \in [Writers -> {"none", "empty", "full"}]
  /\ pc \in [Writers -> {"start", "verified", "opened", "created", "written",
                         "linked", "checked", "cleanup", "unlink"} \cup Ended]
  /\ report \in [Writers -> Complete \cup {None}]
  /\ root \in [Writers -> Dirs \cup {None}]
  /\ moves \in 0 .. MaxMoves /\ removals \in 0 .. MaxRemovals

\* A marker only ever sits in a directory whose tree was verified complete,
\* though the path that was verified and the path in which the marker is
\* installed are looked up at different times, and whoever crashes in between.
MarkerIsVerified == \A d \in Dirs : marker[d] # None => d \in Complete

\* A reader of the marker never sees an empty or partial one, at any point of
\* any call and after any crash ("atomically install",
\* verify_model_snapshot.py:279).
MarkerIsWhole == \A d \in Dirs : marker[d] # None => content[marker[d]] = "full"

\* As long as nobody else removes markers, of concurrent calls the one that
\* returned keeps its own: no other call replaces it, and none removes it while
\* cleaning up after itself (verify_model_snapshot.py:317-341).
ReturnedStays ==
  removals = 0 =>
    \A w \in Writers : pc[w] = "returned" => marker[root[w]] = w

\* A call that raised has left no marker of its own behind, wherever the root
\* has moved to, unless its cleanup failed as well
\* (verify_model_snapshot.py:331-341).
RaisedLeavesNothing ==
  \A w \in Writers : pc[w] = "raised" => \A d \in Dirs : marker[d] # w
=============================================================================
