---------------------------- MODULE MCGroupedMoe ----------------------------
(* Instances of GroupedMoe for TLC. *)
EXTENDS GroupedMoe

\* One choice per token up to five tokens, two choices up to two.
SmallShapes == ((0 .. 5) \X {1}) \cup ((1 .. 2) \X {2})

\* w13's output is two column tiles wide, w2's one.
TwoAndOne == [gemm1 |-> 2, gemm2 |-> 1]
=============================================================================
