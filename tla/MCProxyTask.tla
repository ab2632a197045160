----------------------------- MODULE MCProxyTask -----------------------------
(* Finite instances of ProxyTask. *)
EXTENDS ProxyTask

CONSTANTS t1, t2, f, q, x

(* f belongs to the proxy, q to its parent, x to an unrelated loop. *)
Loops == [o \in Future |-> CASE o = f -> "proxy" [] o = q -> "parent" [] OTHER -> "other"]
=============================================================================
