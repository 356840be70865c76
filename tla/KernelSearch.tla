---------------------------- MODULE KernelSearch ----------------------------
(***************************************************************************)
(* The arithmetic the MoE kernels of inkling_moe.py share: the packed      *)
(* words they exchange and the two branch-free binary searches of          *)
(* _fused_moe_preprocess_kernel.  tl.static_range unrolls a search into a  *)
(* fixed number of rounds, so it is written as that many applications of   *)
(* its round; how long a range the rounds resolve is proved in             *)
(* KernelSearch_proofs.                                                    *)
(***************************************************************************)
EXTENDS Integers

\* triton.cdiv / tl.cdiv
CeilDiv(a, b) == (a + b - 1) \div b

\* One word of the block schedule, (block << 16) + expert, and its two
\* halves as the GEMM reads them: >> 16 is arithmetic, & 0xFFFF is not.
Word(block, e) == block * 65536 + e
BlockOf(w)     == w \div 65536
ExpertOf(w)    == w % 65536

\* The sort key (id << 12) | position of a routed row.
Key(id, pos) == id * 4096 + pos
IdOf(key)    == key \div 4096
PosOf(key)   == key % 4096

-----------------------------------------------------------------------------
(* A search keeps the range b = <<low, high>> and looks up the middle in   *)
(* the set the comparison selects.                                         *)

\* First index outside an initial segment Below of 0 .. n-1.
FirstRound(Below, b) ==
  LET mid == (b[1] + b[2]) \div 2
  IN  IF mid \in Below THEN <<mid + 1, b[2]>> ELSE <<b[1], mid>>

FirstOutside(Below, n) ==
  LET R == [b \in Int \X Int |-> FirstRound(Below, b)]
  IN  R[R[R[R[R[R[R[R[R[R[R[R[<<0, n>>]]]]]]]]]]]][1]      \* 12 rounds

\* Last index not in a final segment Above of 0 .. top.
LastRound(Above, b) ==
  LET mid == (b[1] + b[2] + 1) \div 2
  IN  IF mid \in Above THEN <<b[1], mid - 1>> ELSE <<mid, b[2]>>

LastOutside(Above, top) ==
  LET R == [b \in Int \X Int |-> LastRound(Above, b)]
  IN  R[R[R[R[R[R[R[R[R[<<0, top>>]]]]]]]]][1]               \* 9 rounds
=============================================================================
