-------------------------- MODULE MCDriverLifecycle --------------------------
(***************************************************************************)
(* The instances of DriverLifecycle that TLC checks: what the drivers are  *)
(* called.  Workers are interchangeable.                                   *)
(***************************************************************************)
EXTENDS DriverLifecycle, TLC

MCOwnNames == [d \in Drivers |-> d]       \* each has a name of its own
MCSameName == [d \in Drivers |-> "name"]  \* all have the same

Symmetry == Permutations(Workers)

=============================================================================
