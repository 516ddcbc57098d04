-------------------------- MODULE MCMessageDelivery --------------------------
(* Instances of MessageDelivery for TLC. *)
EXTENDS MessageDelivery, TLC

Symmetry == Permutations(Conns) \cup Permutations(Users) \cup Permutations(Cookies)

=============================================================================
