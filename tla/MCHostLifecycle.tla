--------------------------- MODULE MCHostLifecycle ---------------------------
(***************************************************************************)
(* HostLifecycle for TLC: machines and workers are interchangeable, and so *)
(* are hosts.                                                              *)
(***************************************************************************)
EXTENDS HostLifecycle, TLC

Symmetry == Permutations(VMs) \cup Permutations(Workers)
SymmetryOfAll == Permutations(VMs) \cup Permutations(Workers) \cup Permutations(Hosts)

=============================================================================
