----------------------------- MODULE AtomicWrite -----------------------------
(***************************************************************************)
(* How the release tooling writes a JSON file that others read: into a     *)
(* temporary of the fixed name <file>.tmp, chmod, rename over the file     *)
(* (launch.py _atomic_write_json for receipts, the end of preflight.py     *)
(* bind_admission for admissions).                                         *)
(*                                                                         *)
(* The temporary's name is the same for every call, its open truncates     *)
(* what it finds, the bytes go to the file that was opened while chmod and *)
(* rename go by name.  So nodes (inodes) and names are kept apart here.    *)
(***************************************************************************)
CONSTANTS
  Writers,   \* calls of the function for one path
  Nodes,     \* inodes the file system can hand out
  OldNode,   \* the one of a file that is there at the start
  Absent, Link, Dangling,  \* no entry; a symlink to something; a broken one
  Caller,    \* "launch" or "bind": whose check of the path is modelled
  Serial,    \* TRUE: one call at a time, as when one process owns the path
  Faults     \* what may go wrong: "full" disk, "crash" of a caller

ASSUME WriteAssumption ==
  /\ OldNode \in Nodes
  /\ Absent \notin Nodes /\ Link \notin Nodes /\ Dangling \notin Nodes
  /\ Absent # Link /\ Absent # Dangling /\ Link # Dangling
  /\ Caller \in {"launch", "bind"}
  /\ Serial \in BOOLEAN
  /\ Faults \subseteq {"full", "crash"}
  /\ Writers \cap {"none", "link", "old", "empty", "torn"} = {}

VARIABLES
  pc,       \* control point of each call
  fd,       \* the node a call has opened
  dest,     \* directory entry of the path
  tmp,      \* directory entry of <path>.tmp
  content,  \* content of each node: whole values, "empty" or "torn"
  private,  \* nodes with mode 0600
  used      \* nodes that have ever been handed out

vars == <<pc, fd, dest, tmp, content, private, used>>

Busy  == {"checked", "opened", "written", "chmodded"}
Ended == {"done", "error", "crashed"}
Entries  == Nodes \cup {Absent}
Contents == Writers \cup {"old", "empty", "torn"}

Init ==
  /\ pc = [w \in Writers |-> "start"]
  /\ fd = [w \in Writers |-> Absent]
  /\ dest \in {OldNode, Absent, Link, Dangling}
  /\ tmp = Absent
  /\ content = [n \in Nodes |-> IF n = OldNode THEN "old" ELSE "empty"]
  /\ private = {}
  /\ used = {OldNode}

Goto(w, to) == pc' = [pc EXCEPT ![w] = to]

\* A call starts, serially or not, and the check of the path refuses it.
Refused(path) ==
  IF Caller = "launch" THEN path = Link ELSE path \in {Link, Dangling}

-----------------------------------------------------------------------------
(* Wrong variants of definitions below, one mistake each, as in            *)
(* LaunchLifecycle.                                                        *)

\* The file itself is opened: no temporary.
OpenInPlace(w) ==
  /\ pc[w] = "checked"
  /\ \E n \in Nodes :
       /\ IF dest \in Nodes THEN n = dest ELSE n \notin used
       /\ dest' = n
       /\ fd' = [fd EXCEPT ![w] = n]
       /\ used' = used \cup {n}
       /\ content' = [content EXCEPT ![n] = "empty"]
  /\ Goto(w, "opened")
  /\ UNCHANGED <<tmp, private>>

\* A chmod that finds no file goes unnoticed.
ChmodUnchecked(w) ==
  /\ pc[w] = "written"
  /\ Goto(w, "chmodded") /\ private' = private \cup {tmp}
  /\ UNCHANGED <<fd, dest, tmp, content, used>>

\* Rename first, chmod afterwards.
ReplaceBeforeChmod(w) ==
  /\ pc[w] = "written"
  /\ tmp # Absent
  /\ dest' = tmp
  /\ tmp' = Absent
  /\ Goto(w, "done")
  /\ UNCHANGED <<fd, content, private, used>>

\* link() for rename(): it does not replace.
ReplaceByLink(w) ==
  /\ pc[w] = "chmodded"
  /\ IF tmp = Absent \/ dest # Absent
       THEN Goto(w, "error") /\ UNCHANGED <<dest, tmp>>
       ELSE Goto(w, "done") /\ dest' = tmp /\ tmp' = Absent
  /\ UNCHANGED <<fd, content, private, used>>

-----------------------------------------------------------------------------
Check(w) ==
  /\ pc[w] = "start"
  /\ Serial => \A v \in Writers : pc[v] \notin Busy
  /\ Goto(w, IF Refused(dest) THEN "error" ELSE "checked")
  /\ UNCHANGED <<fd, dest, tmp, content, private, used>>

\* write_text opens with O_CREAT | O_TRUNC: a new node, or the one a call
\* before left behind or a concurrent call is using.
OpenTmp(w) ==
  /\ pc[w] = "checked"
  /\ \E n \in Nodes :
       /\ IF tmp = Absent THEN n \notin used ELSE n = tmp
       /\ tmp' = n
       /\ fd' = [fd EXCEPT ![w] = n]
       /\ used' = used \cup {n}
       /\ content' = [content EXCEPT ![n] = "empty"]
  /\ Goto(w, "opened")
  /\ UNCHANGED <<dest, private>>

\* The bytes go to the opened node.  Over another call's bytes they leave
\* either this value (it is as long or longer) or a mix of both.
WriteTmp(w) ==
  /\ pc[w] = "opened"
  /\ \E c \in {w} \cup (IF content[fd[w]] = "empty" THEN {} ELSE {"torn"}) :
       content' = [content EXCEPT ![fd[w]] = c]
  /\ Goto(w, "written")
  /\ UNCHANGED <<fd, dest, tmp, private, used>>

\* A full disk: part of the value is in the node, the exception leaves it.
WriteFails(w) ==
  /\ "full" \in Faults
  /\ pc[w] = "opened"
  /\ content' = [content EXCEPT ![fd[w]] = "torn"]
  /\ Goto(w, "error")
  /\ UNCHANGED <<fd, dest, tmp, private, used>>

\* temporary.chmod(0o600), by name.
Chmod(w) ==
  /\ pc[w] = "written"
  /\ IF tmp = Absent
       THEN Goto(w, "error") /\ UNCHANGED private
       ELSE Goto(w, "chmodded") /\ private' = private \cup {tmp}
  /\ UNCHANGED <<fd, dest, tmp, content, used>>

\* temporary.replace(path), by name, whoever's bytes the temporary holds.
Replace(w) ==
  /\ pc[w] = "chmodded"
  /\ IF tmp = Absent
       THEN Goto(w, "error") /\ UNCHANGED <<dest, tmp>>
       ELSE Goto(w, "done") /\ dest' = tmp /\ tmp' = Absent
  /\ UNCHANGED <<fd, content, private, used>>

Crash(w) ==
  /\ "crash" \in Faults
  /\ pc[w] \in Busy
  /\ Goto(w, "crashed")
  /\ UNCHANGED <<fd, dest, tmp, content, private, used>>

Next ==
  \E w \in Writers :
    \/ Check(w) \/ OpenTmp(w) \/ WriteTmp(w) \/ WriteFails(w)
    \/ Chmod(w) \/ Replace(w) \/ Crash(w)

Spec == Init /\ [][Next]_vars

-----------------------------------------------------------------------------
TypeOK ==
  /\ pc \in [Writers -> {"start"} \cup Busy \cup Ended]
  /\ fd \in [Writers -> Entries]
  /\ dest \in Nodes \cup {Absent, Link, Dangling}
  /\ tmp \in Entries
  /\ content \in [Nodes -> Contents]
  /\ private \subseteq Nodes
  /\ used \subseteq Nodes

\* What the tooling has published is readable by its owner only, also when
\* the call dies at any point (launch.py:262, preflight.py:169).
PublishedIsPrivate ==
  Serial => (dest \in Nodes /\ content[dest] \in Writers => dest \in private)

\* Whatever calls interleave, the file is not lost to their competition for
\* the temporary: unless all were refused for a symlink, or the disk was full
\* or a call killed, one of them got through (launch.py:261-263).
OnePublishes ==
  Faults = {} /\ ~Refused(dest) /\ (\A w \in Writers : pc[w] \in Ended)
    => \E w \in Writers : pc[w] = "done"

-----------------------------------------------------------------------------
(* One call at a time, a path behaves like an atomic file.                 *)

ValueOf(entry) ==
  IF entry \in Nodes THEN content[entry]
  ELSE IF entry = Link THEN "link"
  ELSE IF entry = Dangling /\ Caller = "bind" THEN "link" ELSE "none"

OutcomeOf(w) ==
  CASE pc[w] = "done" -> "published"
    [] pc[w] \in {"error", "crashed"} -> "failed"
    [] OTHER -> "open"

File ==
  INSTANCE AtomicFile WITH
    value <- ValueOf(dest),
    outcome <- [w \in Writers |-> OutcomeOf(w)]

\* A reader finds the old value or a new one, never a part of one and never
\* the value of a call that failed, wherever the calls before it stopped
\* (launch.py:256-263, preflight.py:164-170).
IsAtomic == File!Spec
=============================================================================
