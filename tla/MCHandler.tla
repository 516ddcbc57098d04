------------------------------ MODULE MCHandler ------------------------------
(* Instances of Handler for TLC. *)
EXTENDS Handler, TLC

ConnSymmetry == Permutations(Conns)
Symmetry == Permutations(Conns) \cup Permutations(Users)

=============================================================================
