--------------------------- MODULE MCRegistrations ---------------------------
(* Finite instances of Registrations. *)
EXTENDS Registrations, TLC

CONSTANTS p1, p2, r1, r2, s1

Symmetric == Permutations(Proxy)
=============================================================================
