-------------------------- MODULE MCLaunchLifecycle --------------------------
(* Instances of LaunchLifecycle for TLC. *)
EXTENDS LaunchLifecycle, TLC

CONSTANTS l1, l2, rank0, rank1, default, other

TwoLaunchers == {l1, l2}

\* A relaunch: the same rank and the default receipt path, one after the other.
SameName    == [l \in Launchers |-> rank0]
SharedPath  == [l \in Launchers |-> default]
PrivatePath == l1 :> default @@ l2 :> other

AllButCli      == FaultKinds \ {"cli"}
=============================================================================
