------------------------- MODULE MCOwnedSupervisor -------------------------
(***************************************************************************)
(* Instances of OwnedSupervisor for TLC.                                   *)
(***************************************************************************)
EXTENDS OwnedSupervisor, TLC

CONSTANTS s1, s2    \* the supervisors

\* Any supervisor runs any command ...
AnyCommand == [s \in Supervisor |-> {"launch", "cancel", "reconcile"}]
\* ... and then the supervisors are interchangeable.
Symmetry == Permutations(Supervisor)

\* A launch by the one, a cancellation or a recovery by the other.
OnlyLaunch == [s \in Supervisor |-> {"launch"}]
LaunchAndCancel == (s1 :> {"launch"}) @@ (s2 :> {"cancel"})
LaunchAndReconcile == (s1 :> {"launch"}) @@ (s2 :> {"reconcile"})
=============================================================================
