--------------------------- MODULE MCNestedProxies ---------------------------
(* Finite instances of NestedProxies. *)
EXTENDS NestedProxies
CONSTANTS t1, t2
=============================================================================
