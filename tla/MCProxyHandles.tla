--------------------------- MODULE MCProxyHandles ---------------------------
(* Finite instances of ProxyHandles. *)
EXTENDS ProxyHandles, TLC

CONSTANTS h1, h2, h3

(* Every handle has a callback of its own. *)
OwnKeys == [h \in Handle |-> h]

(* All handles have the same callback and arguments. *)
OneKey == [h \in Handle |-> h1]

(* The handles created on the loop's own thread are interchangeable. *)
LoopThread == Permutations(Handle \ ThreadHandle)

BackAndForth == {-1, 1}
Forward == {1}
=============================================================================
