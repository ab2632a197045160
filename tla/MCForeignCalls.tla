--------------------------- MODULE MCForeignCalls ---------------------------
(* Finite instances of ForeignCalls. *)
EXTENDS ForeignCalls

CONSTANTS o1, o2
=============================================================================
