--------------------------- MODULE MCProxyContext ---------------------------
(* Finite instances of ProxyContext. *)
EXTENDS ProxyContext
=============================================================================
