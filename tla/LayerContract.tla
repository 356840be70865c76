---------------------------- MODULE LayerContract ----------------------------
(***************************************************************************)
(* What a call of InklingMoE promises its caller: after the reduction over *)
(* the ranks, every part of every expert a token was sent to, and every    *)
(* part of the shared experts, has been added exactly once, scaled by the  *)
(* weight the gate gave that token for it.                                 *)
(***************************************************************************)
CONSTANT None

VARIABLES
  asked,   \* the parts the call under way has to add up, {} between calls
  given    \* the sum the last call came to, or None

Init == asked = {} /\ given = None

Ask ==
  /\ asked = {}
  /\ asked' # {}
  /\ given' = None

Give ==
  /\ asked # {}
  /\ given' = [part \in asked |-> 1]
  /\ asked' = {}

Next == Ask \/ Give

Spec == Init /\ [][Next]_<<asked, given>>
=============================================================================
