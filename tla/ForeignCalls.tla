---------------------------- MODULE ForeignCalls ----------------------------
(***************************************************************************)
(* Calls that cross from a LoopProxy into its parent loop and back: a      *)
(* future of one loop (the source) answers a future of the other (the      *)
(* target) through the two callbacks of _chain_future().                   *)
(*                                                                         *)
(* The callbacks of a future are queued by its own loop, and a proxy that  *)
(* is closed refuses to queue them.                                        *)
(***************************************************************************)
EXTENDS FiniteSets

CONSTANT Op  \* the calls, each made at most once

VARIABLES kind,      \* "coroutine": _wrap_async() around a coroutine of the parent;
                     \* "executor": run_in_executor(); "main": run_until_complete()
          caller,    \* what the coroutine that made the call has heard
          target,    \* the future it awaits
          source,    \* the future or task that answers
          asked,     \* calls whose source is a task with a pending cancellation
          must,      \* calls whose caller is to be cancelled although it was answered
          queued,    \* the callbacks queued in the parent loop
          lost,      \* the callbacks that were refused, or cancelled in the queue
          cancelled, \* history: the calls the program cancelled
          closed     \* LoopProxy._closed

vars == <<kind, caller, target, source, asked, must, queued, lost, cancelled, closed>>

Outcome  == {"result", "error", "cancelled"}
Callback == {"check",   \* _call_check_cancel(), of the target
             "wakeup",  \* Task.__wakeup() of the caller, of the target
             "set"}     \* _call_set_state(), of the source

(* The type of the state.  The future of an executor cannot defer a *)
(* cancellation, so only tasks have a pending one.                  *)
TypeOK ==
  /\ kind \in [Op -> {"none", "coroutine", "executor", "main"}]
  /\ caller \in [Op -> Outcome \cup {"absent", "waiting"}]
  /\ target \in [Op -> Outcome \cup {"absent", "pending"}]
  /\ source \in [Op -> Outcome \cup {"absent", "pending"}]
  /\ asked \subseteq {op \in Op : kind[op] \in {"coroutine", "main"}}
  /\ must \subseteq cancelled
  /\ queued \subseteq Op \X Callback
  /\ lost \subseteq (Op \X Callback) \ queued
  /\ cancelled \subseteq Op
  /\ closed \in BOOLEAN

Init ==
  /\ kind = [op \in Op |-> "none"]
  /\ caller = [op \in Op |-> "absent"]
  /\ target = [op \in Op |-> "absent"]
  /\ source = [op \in Op |-> "absent"]
  /\ asked = {}
  /\ must = {}
  /\ queued = {}
  /\ lost = {}
  /\ cancelled = {}
  /\ closed = FALSE

-----------------------------------------------------------------------------

(* Whether the callback goes through call_soon() of the proxy: the source of *)
(* run_until_complete() is a task of the proxy, elsewhere the target is.     *)
ByProxy(op, c) == (kind[op] = "main") = (c = "set")

(* __schedule_callbacks(): the callbacks C of one future of the call join *)
(* the rest of the queue, unless the proxy is closed.                     *)
Schedule(op, C, rest) ==
  IF closed /\ \E c \in C : ByProxy(op, c)
  THEN queued' = rest /\ lost' = lost \cup ({op} \X C)
  ELSE queued' = rest \cup ({op} \X C) /\ UNCHANGED lost

(* Both futures are made and chained, and the caller awaits the target. *)
ChainFuture(op, k) ==
  /\ kind[op] = "none"
  /\ kind' = [kind EXCEPT ![op] = k]
  /\ caller' = [caller EXCEPT ![op] = "waiting"]
  /\ target' = [target EXCEPT ![op] = "pending"]
  /\ source' = [source EXCEPT ![op] = "pending"]
  /\ UNCHANGED <<asked, must, queued, lost, cancelled, closed>>

(* The coroutine becomes a task of the parent.  The methods of the loop   *)
(* check first that it is not closed, the ones of its servers do not.     *)
WrapAsync(op) == ChainFuture(op, "coroutine")

LoopMethod(op)   == ~closed /\ WrapAsync(op)
ServerMethod(op) == WrapAsync(op)

RunInExecutor(op) == ~closed /\ ChainFuture(op, "executor")

(* The loop runs in one run_until_complete() at a time; create_task() of *)
(* a closed proxy raises.                                                *)
RunUntilComplete(op) ==
  /\ \A o \in Op : kind[o] = "main" => caller[o] \in Outcome
  /\ ~closed
  /\ ChainFuture(op, "main")

(* The source ends: a task also may end by its own CancelledError. *)
SourceEnds(op) ==
  /\ source[op] = "pending"
  /\ \E s \in (IF kind[op] = "executor" THEN {"result", "error"} ELSE Outcome) :
       source' = [source EXCEPT ![op] = s]
  /\ Schedule(op, {"set"}, queued)
  /\ UNCHANGED <<kind, caller, target, asked, must, cancelled, closed>>

(* The program cancels the caller: the request goes to the target, or, *)
(* when that is done, waits for the next step of the caller.           *)
CancelCaller(op) ==
  /\ caller[op] = "waiting"
  /\ cancelled' = cancelled \cup {op}
  /\ IF target[op] = "pending"
     THEN /\ target' = [target EXCEPT ![op] = "cancelled"]
          /\ Schedule(op, {"check", "wakeup"}, queued)
          /\ UNCHANGED must
     ELSE /\ must' = must \cup {op}
          /\ UNCHANGED <<target, queued, lost>>
  /\ UNCHANGED <<kind, caller, source, asked, closed>>

-----------------------------------------------------------------------------
(* The callbacks *)

Take(op, c) == <<op, c>> \in queued
Rest(op, c) == queued \ {<<op, c>>}

(* Faulty variant: an executor's future is asked like a task. *)
CheckCancel_AlwaysAsks(op) ==
  /\ Take(op, "check")
  /\ queued' = Rest(op, "check")
  /\ asked' = IF target[op] = "cancelled" /\ source[op] = "pending"
              THEN asked \cup {op} ELSE asked
  /\ UNCHANGED <<kind, caller, target, source, must, lost, cancelled, closed>>

(* Faulty variant: it looks at the source, not at the target. *)
CheckCancel_OfSource(op) ==
  /\ Take(op, "check")
  /\ queued' = Rest(op, "check")
  /\ asked' = IF source[op] = "cancelled" THEN asked \cup {op} ELSE asked
  /\ UNCHANGED <<kind, caller, target, source, must, lost, cancelled, closed>>

(* _call_check_cancel(): cancel() of a task that runs is a request, cancel() *)
(* of a future that is pending is its end.                                   *)
CheckCancel(op) ==
  /\ Take(op, "check")
  /\ IF target[op] = "cancelled" /\ source[op] = "pending"
     THEN IF kind[op] = "executor"
          THEN /\ source' = [source EXCEPT ![op] = "cancelled"]
               /\ Schedule(op, {"set"}, Rest(op, "check"))
               /\ UNCHANGED asked
          ELSE /\ asked' = asked \cup {op}
               /\ queued' = Rest(op, "check")
               /\ UNCHANGED <<source, lost>>
     ELSE queued' = Rest(op, "check") /\ UNCHANGED <<source, asked, lost>>
  /\ UNCHANGED <<kind, caller, target, must, cancelled, closed>>

(* Faulty variant: the cancellation of the source is not passed on. *)
SetState_CancelIgnored(op) ==
  /\ Take(op, "set")
  /\ IF target[op] = "pending" /\ source[op] # "cancelled"
     THEN /\ target' = [target EXCEPT ![op] = source[op]]
          /\ Schedule(op, {"check", "wakeup"}, Rest(op, "set"))
     ELSE queued' = Rest(op, "set") /\ UNCHANGED <<target, lost>>
  /\ UNCHANGED <<kind, caller, source, asked, must, cancelled, closed>>

(* Faulty variant: whatever the source has is set as a result. *)
SetState_Result(op) ==
  /\ Take(op, "set")
  /\ IF target[op] = "pending"
     THEN /\ target' = [target EXCEPT ![op] = "result"]
          /\ Schedule(op, {"check", "wakeup"}, Rest(op, "set"))
     ELSE queued' = Rest(op, "set") /\ UNCHANGED <<target, lost>>
  /\ UNCHANGED <<kind, caller, source, asked, must, cancelled, closed>>

(* _call_set_state(): a target that was cancelled meanwhile raises *)
(* InvalidStateError, or keeps its state if the source was, too.   *)
SetState(op) ==
  /\ Take(op, "set")
  /\ IF target[op] = "pending"
     THEN /\ target' = [target EXCEPT ![op] = source[op]]
          /\ Schedule(op, {"check", "wakeup"}, Rest(op, "set"))
     ELSE queued' = Rest(op, "set") /\ UNCHANGED <<target, lost>>
  /\ UNCHANGED <<kind, caller, source, asked, must, cancelled, closed>>

Wakeup(op) ==
  /\ Take(op, "wakeup")
  /\ queued' = Rest(op, "wakeup")
  /\ caller' = [caller EXCEPT ![op] = IF op \in must THEN "cancelled" ELSE target[op]]
  /\ UNCHANGED <<kind, target, source, asked, must, lost, cancelled, closed>>

-----------------------------------------------------------------------------
(* The end of the proxy *)

Swept == {q \in queued : ByProxy(q[1], q[2])}

(* check_and_shutdown() cancels what the proxy has queued. *)
SweepHandles ==
  /\ queued' = queued \ Swept
  /\ lost' = lost \cup Swept
  /\ UNCHANGED <<kind, caller, target, source, asked, must, cancelled, closed>>

Close ==
  /\ closed' = TRUE
  /\ UNCHANGED <<kind, caller, target, source, asked, must, queued, lost, cancelled>>

NewCall(op) ==
  \/ LoopMethod(op)
  \/ ServerMethod(op)
  \/ RunInExecutor(op)
  \/ RunUntilComplete(op)

RunCallback(op) == CheckCancel(op) \/ SetState(op) \/ Wakeup(op)

Next ==
  \/ \E op \in Op : NewCall(op) \/ SourceEnds(op) \/ CancelCaller(op) \/ RunCallback(op)
  \/ SweepHandles
  \/ Close

Spec == Init /\ [][Next]_vars

(* The parent loop calls what it has queued.  Nothing says that a source ends. *)
FairSpec == Spec /\ \A op \in Op : WF_vars(RunCallback(op))

-----------------------------------------------------------------------------
(* Properties *)

Lost(op, c)  == <<op, c>> \in lost
OnItsWay(op, c) == <<op, c>> \in queued \cup lost

(* What a caller hears is what the source had to say, and a cancellation    *)
(* is the one the program asked for or the source's own, however the two    *)
(* callbacks of _chain_future() and the caller's __wakeup() are interleaved.*)
AnswerIsSources ==
  \A op \in Op :
    /\ caller[op] \in {"result", "error"} => source[op] = caller[op]
    /\ caller[op] = "cancelled" => op \in cancelled \/ source[op] = "cancelled"

(* A caller that waits is never forgotten: its source is running, or the    *)
(* callback that carries the answer on is queued, or was thrown away by the *)
(* shutdown or by the closed proxy.                                         *)
CallIsAnswered ==
  \A op \in Op :
    /\ target[op] = "pending" => source[op] = "pending" \/ OnItsWay(op, "set")
    /\ target[op] \in Outcome /\ caller[op] = "waiting" => OnItsWay(op, "wakeup")

(* The end of the source reaches the caller unless the proxy was shut down  *)
(* or closed between: a transport that the parent opened is registered with *)
(* the proxy only then.                                                     *)
AnswerReachesCaller ==
  \A op \in Op :
    source[op] \in Outcome ~>
      caller[op] \in Outcome \/ Lost(op, "set") \/ Lost(op, "wakeup")

(* A call that the program cancelled does not go on in the parent unnoticed:*)
(* the source ends or is asked to, unless the callback was thrown away.     *)
CancelReachesSource ==
  \A op \in Op :
    target[op] = "cancelled" ~> source[op] \in Outcome \/ op \in asked \/ Lost(op, "check")
=============================================================================
