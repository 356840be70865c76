----------------------------- MODULE MoeContract -----------------------------
(***************************************************************************)
(* What moe_tp_forward promises: every token's output appears once and is  *)
(* the combination, choice by choice, of what the chosen experts make of   *)
(* that very token, whatever the other rows of the batch are.              *)
(***************************************************************************)
EXTENDS Integers

CONSTANT Unset     \* an output that has not been stored

VARIABLES
  shape,   \* tokens and experts per token
  ids,     \* expert of each routed row
  out      \* per token and choice, what went into the sum

Tokens  == 0 .. shape[1] - 1
Choices == 0 .. shape[2] - 1

\* Through the first GEMM and the second one with the weights of its expert.
Routed(t, k) == LET e == ids[t * shape[2] + k] IN <<t, e, e>>

Init == out = [t \in Tokens |-> [k \in Choices |-> Unset]]

Combine(t) ==
  /\ out[t] = [k \in Choices |-> Unset]
  /\ out' = [out EXCEPT ![t] = [k \in Choices |-> Routed(t, k)]]
  /\ UNCHANGED <<shape, ids>>

Next == \E t \in Tokens : Combine(t)

Spec == Init /\ [][Next]_<<shape, ids, out>>
=============================================================================
