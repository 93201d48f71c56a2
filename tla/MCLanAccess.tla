---------------------------- MODULE MCLanAccess -----------------------------
(* Instances of LanAccess for TLC. *)
EXTENDS LanAccess, TLC

Symmetry == Permutations(Commands) \cup Permutations(Ports)

=============================================================================
