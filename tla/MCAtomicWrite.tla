---------------------------- MODULE MCAtomicWrite ----------------------------
(* Instances of AtomicWrite for TLC. *)
EXTENDS AtomicWrite, TLC

CONSTANTS w1, w2, w3

\* Writers are interchangeable and no property names one.
WriterSymmetry == Permutations(Writers)
=============================================================================
