------------------------------- MODULE MCUsers ------------------------------
(* Instances of Users for TLC. *)
EXTENDS Users, TLC

Symmetry == Permutations(Workers) \cup Permutations(Passwords) \cup Permutations(Names)

=============================================================================
