----------------------------- MODULE Coroutines -----------------------------
(***************************************************************************)
(* What a program may rely on when its coroutines run as tasks of a proxy  *)
(* loop: one runs at a time, until it ends, yields or waits; one that      *)
(* waits runs again only after it was woken; one that is runnable does run *)
(* as long as the loop is not closed; and the end is final.                *)
(***************************************************************************)
EXTENDS Naturals

CONSTANT Task

VARIABLES phase,   \* where each coroutine is
          closed   \* the loop accepts no more work

vars == <<phase, closed>>

Running(t) == phase[t] = "running"

Init ==
  /\ phase = [t \in Task |-> "absent"]
  /\ closed = FALSE

Create(t) ==
  /\ phase[t] = "absent"
  /\ ~closed
  /\ phase' = [phase EXCEPT ![t] = "runnable"]
  /\ UNCHANGED closed

Resume(t) ==
  /\ phase[t] = "runnable"
  /\ \A u \in Task : ~Running(u)
  /\ phase' = [phase EXCEPT ![t] = "running"]
  /\ UNCHANGED closed

(* Some of the waiting coroutines become runnable, the others stay. *)
Woken(t) == phase[t] = "waiting" /\ phase'[t] = "runnable"

Wake ==
  /\ \E t \in Task : Woken(t)
  /\ phase' \in [Task -> {"absent", "runnable", "running", "waiting", "done"}]
  /\ \A t \in Task : phase'[t] = phase[t] \/ Woken(t)
  /\ UNCHANGED closed

(* The running coroutine leaves, which may wake others. *)
Leave(t) ==
  /\ Running(t)
  /\ phase' \in [Task -> {"absent", "runnable", "running", "waiting", "done"}]
  /\ phase'[t] \in {"runnable", "waiting", "done"}
  /\ \A u \in Task \ {t} : phase'[u] = phase[u] \/ Woken(u)
  /\ UNCHANGED closed

Close ==
  /\ ~closed
  /\ closed' = TRUE
  /\ UNCHANGED phase

Next ==
  \/ \E t \in Task : Create(t) \/ Resume(t) \/ Leave(t)
  \/ Wake
  \/ Close

Fairness ==
  \A t \in Task : WF_vars(Leave(t)) /\ SF_vars(~closed /\ Resume(t))

Spec == Init /\ [][Next]_vars /\ Fairness
=============================================================================
