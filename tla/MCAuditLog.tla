----------------------------- MODULE MCAuditLog -----------------------------
(* Instances of AuditLog for TLC. *)
EXTENDS AuditLog, TLC

Symmetry == Permutations(Calls)

(* Every combination of the limits *)
AllPolicies == [days : BOOLEAN, max : {0, 1, 2}]

(* Rows only *)
RowsPolicy == {[days |-> FALSE, max |-> 1]}

=============================================================================
