-------------------------- MODULE MCLoginThrottle --------------------------
(* Small instances of LoginThrottle for model checking.  Accounts share an *)
(* address, so that the address key counts the failures of several of them. *)
EXTENDS LoginThrottle, TLC

(* Requests and accounts are interchangeable; no property orders them. *)
Symmetry == Permutations(Attempts) \cup Permutations(Users)

=============================================================================
