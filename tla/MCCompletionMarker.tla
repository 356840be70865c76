-------------------------- MODULE MCCompletionMarker --------------------------
(* Instances of CompletionMarker for TLC. *)
EXTENDS CompletionMarker, TLC

CONSTANTS w1, w2

\* Calls are interchangeable and no property names one.
WriterSymmetry == Permutations(Writers)
=============================================================================
