------------------------- MODULE MCCheckAndShutdown -------------------------
(* Finite instances of CheckAndShutdown. *)
EXTENDS CheckAndShutdown

CONSTANTS ta, tb, tc, sv, si, ac, tr, sg, rd, wr, hd, he

Classes == [r \in Resource |->
  CASE r \in {ta, tb, tc} -> "tasks"
    [] r \in {sv, si} -> "servers"
    [] r = ac -> "accepted"
    [] r = tr -> "transports"
    [] r = sg -> "signals"
    [] r = rd -> "readers"
    [] r = wr -> "writers"
    [] r \in {hd, he} -> "handles"]

(* The two timers are equal. *)
Keys == [r \in {hd, he} |-> 1]

(* sv accepts the connection, or si in instances without sv. *)
Servers == [r \in {ac} |-> IF sv \in Resource THEN sv ELSE si]
=============================================================================
