----------------------------- MODULE MCAdmission -----------------------------
(* Instances of Admission for TLC: a gate run, a binding of its output, and *)
(* a launch with the bound file.                                           *)
EXTENDS Admission, TLC

CONSTANTS gate, bind, launch, phase0, bound, root, A, B

Inputs  == bind :> phase0 @@ launch :> bound
Outputs == gate :> phase0 @@ bind :> bound

\* No action tells one digest from another.
DigestSymmetry == Permutations(Digests)

BothRooted == bind :> root @@ launch :> root
============================================================================
