---------------------------- MODULE MCConnections ----------------------------
(* Finite instances of Connections. *)
EXTENDS Connections
CONSTANTS a, d, w

MCGenerations == [t \in {a, d, w} |-> IF t = d THEN 2 ELSE 1]
MCBelow == [t \in {w} |-> a]
=============================================================================
