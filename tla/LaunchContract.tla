---------------------------- MODULE LaunchContract ----------------------------
(***************************************************************************)
(* What the receipt of a launch promises its reader, with neither files    *)
(* nor Docker: `run` is the process a launch started, `rec` what the       *)
(* receipt says of it.  A receipt appears only after the attempt to start, *)
(* gives one verdict, never takes it back, and says FAILED only of a       *)
(* process that is over or never was.                                      *)
(***************************************************************************)
CONSTANT Launchers

VARIABLES
  rec,  \* "none", then "STARTED", then a verdict
  run   \* "never" started, "up" or "down"

vars == <<rec, run>>

Init ==
  /\ rec = [l \in Launchers |-> "none"]
  /\ run = [l \in Launchers |-> "never"]

Start(l) ==
  /\ run[l] = "never" /\ rec[l] = "none"
  /\ run' = [run EXCEPT ![l] = "up"]
  /\ UNCHANGED rec

Die(l) ==
  /\ run[l] = "up"
  /\ run' = [run EXCEPT ![l] = "down"]
  /\ UNCHANGED rec

\* Popen raised: there is nothing to wait for.
ReportUnstarted(l) ==
  /\ run[l] = "never" /\ rec[l] = "none"
  /\ rec' = [rec EXCEPT ![l] = "FAILED"]
  /\ UNCHANGED run

ReportStarted(l) ==
  /\ run[l] # "never" /\ rec[l] = "none"
  /\ rec' = [rec EXCEPT ![l] = "STARTED"]
  /\ UNCHANGED run

ReportVerdict(l) ==
  /\ rec[l] = "STARTED"
  /\ \E verdict \in {"READY", "TIMEOUT", "FAILED"} :
       /\ verdict = "FAILED" => run[l] = "down"
       /\ rec' = [rec EXCEPT ![l] = verdict]
  /\ UNCHANGED run

Next ==
  \E l \in Launchers :
    Start(l) \/ Die(l) \/ ReportUnstarted(l) \/ ReportStarted(l)
      \/ ReportVerdict(l)

Spec == Init /\ [][Next]_vars
=============================================================================
