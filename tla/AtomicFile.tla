------------------------------ MODULE AtomicFile ------------------------------
(***************************************************************************)
(* A file as its readers would have it: every call to write it either      *)
(* publishes the caller's whole value at one instant or changes nothing,   *)
(* and a path that is a symbolic link to something is never replaced.      *)
(***************************************************************************)
CONSTANT Writers  \* calls; a call publishes its own value, named like it

VARIABLES
  value,   \* what a reader finds: "none", "link", "old" or a call's value
  outcome  \* "open", "published" or "failed", per call

vars == <<value, outcome>>

Init ==
  /\ value \in {"none", "link", "old"}
  /\ outcome = [w \in Writers |-> "open"]

Publish(w) ==
  /\ outcome[w] = "open"
  /\ value # "link"
  /\ value' = w
  /\ outcome' = [outcome EXCEPT ![w] = "published"]

Fail(w) ==
  /\ outcome[w] = "open"
  /\ outcome' = [outcome EXCEPT ![w] = "failed"]
  /\ UNCHANGED value

Next == \E w \in Writers : Publish(w) \/ Fail(w)

Spec == Init /\ [][Next]_vars
=============================================================================
