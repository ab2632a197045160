------------------------------ MODULE ProxyTask ------------------------------
(***************************************************************************)
(* The pure-Python Future and Task of _task.py that a LoopProxy creates.   *)
(*                                                                         *)
(* A task owns a coroutine.  Whenever the coroutine is to be resumed there *)
(* is one callback queued in the parent loop: __step(), or __wakeup() of   *)
(* the future it awaited.  The coroutine itself is the environment: while  *)
(* it runs (`current') the program may create tasks, complete or cancel    *)
(* anything; then the coroutine returns, raises, yields or awaits.         *)
(*                                                                         *)
(* What tells this task from the one of asyncio: it may await futures of   *)
(* the parent loop (_check_loop()), whose callbacks the parent calls       *)
(* without the proxy's handle around them.                                 *)
(***************************************************************************)
EXTENDS Naturals, FiniteSets

CONSTANTS Task,     \* the tasks the program creates, each at most once
          Future,   \* plain futures
          LoopOf,   \* LoopOf[f]: the loop of the future f, "proxy", "parent" or "other"
          None      \* no task, no future

Awaitable == Task \cup Future
(* What the argument of a queued callback can be: __step(), __step(error), *)
(* or __wakeup(o).                                                         *)
Call == {"step", "error"} \cup Awaitable

ASSUME TaskAssumption ==
  /\ Task \cap Future = {}
  /\ None \notin Call
  /\ {"step", "error"} \cap Awaitable = {}
  /\ LoopOf \in [Future -> {"proxy", "parent", "other"}]
  /\ IsFiniteSet(Task)

VARIABLES state,      \* Future._state and the kind of result it holds
          callbacks,  \* Future._callbacks: the tasks whose __wakeup() is registered
          waiter,     \* Task._fut_waiter
          mustCancel, \* Task._must_cancel
          calls,      \* calls[t][c]: handles queued in the parent loop for t
          current,    \* the task whose coroutine is executing
          closed,     \* LoopProxy._closed
          resumedOn,  \* history: the running loop when the coroutine was last resumed
          owed        \* history: tasks a cancellation is on its way to

vars == <<state, callbacks, waiter, mustCancel, calls, current, closed, resumedOn, owed>>

Done(o) == state[o] \in {"result", "error", "cancelled"}
LoopOfAny(o) == IF o \in Task THEN "proxy" ELSE LoopOf[o]

(* _check_loop(): the future belongs to the task's loop or to an ancestor. *)
CheckLoop(o) == LoopOfAny(o) \in {"proxy", "parent"}

(* The type of the state; no task waits for itself (__step() refuses). *)
TypeOK ==
  /\ state \in [Awaitable -> {"absent", "pending", "result", "error", "cancelled"}]
  /\ \A f \in Future : state[f] # "absent"
  /\ callbacks \in [Awaitable -> SUBSET Task]
  /\ waiter \in [Task -> Awaitable \cup {None}]
  /\ \A t \in Task : waiter[t] # t
  /\ mustCancel \in [Task -> BOOLEAN]
  /\ calls \in [Task -> [Call -> Nat]]
  /\ current \in Task \cup {None}
  /\ closed \in BOOLEAN
  /\ resumedOn \in [Task -> {"none", "proxy", "parent"}]
  /\ owed \subseteq Task

Init ==
  /\ state = [o \in Awaitable |-> IF o \in Task THEN "absent" ELSE "pending"]
  /\ callbacks = [o \in Awaitable |-> {}]
  /\ waiter = [t \in Task |-> None]
  /\ mustCancel = [t \in Task |-> FALSE]
  /\ calls = [t \in Task |-> [c \in Call |-> 0]]
  /\ current = None
  /\ closed = FALSE
  /\ resumedOn = [t \in Task |-> "none"]
  /\ owed = {}

-----------------------------------------------------------------------------
(* Future *)

(* The tasks that wait for o, by the waiters w. *)
Awaiting(o, w) == {t \in Task : w[t] = o}

(* call_soon() of the proxy raises once the proxy is closed, and nothing is *)
(* queued; the parent's own call_soon() goes on working.                    *)
Queue(t, c) == IF closed THEN calls ELSE [calls EXCEPT ![t][c] = @ + 1]

(* __schedule_callbacks(): the callbacks of o, with the waiting tasks W. *)
Refused(o, W) == closed /\ LoopOfAny(o) = "proxy" /\ W # {}

Scheduled(o, W) ==
  IF Refused(o, W)
  THEN calls
  ELSE [t \in Task |-> IF t \in W THEN [calls[t] EXCEPT ![o] = @ + 1] ELSE calls[t]]

(* Faulty variant: the state changes and the callbacks stay. *)
Complete_CallbacksKept(o, s, W) ==
  /\ state' = [state EXCEPT ![o] = s]
  /\ callbacks' = [callbacks EXCEPT ![o] = W]
  /\ calls' = calls

(* The state of o changes to s, its callbacks W are queued and forgotten. *)
Complete(o, s, W) ==
  /\ state' = [state EXCEPT ![o] = s]
  /\ callbacks' = [callbacks EXCEPT ![o] = {}]
  /\ calls' = Scheduled(o, W)

SetResult(f) ==
  /\ state[f] = "pending"
  /\ LoopOf[f] # "other"
  /\ Complete(f, "result", callbacks[f])
  /\ UNCHANGED <<waiter, mustCancel, current, closed, resumedOn, owed>>

SetException(f) ==
  /\ state[f] = "pending"
  /\ LoopOf[f] # "other"
  /\ Complete(f, "error", callbacks[f])
  /\ UNCHANGED <<waiter, mustCancel, current, closed, resumedOn, owed>>

CancelFuture(f) ==
  /\ state[f] = "pending"
  /\ LoopOf[f] # "other"
  /\ Complete(f, "cancelled", callbacks[f])
  /\ owed' = owed \cup Awaiting(f, waiter)
  /\ UNCHANGED <<waiter, mustCancel, current, closed, resumedOn>>

-----------------------------------------------------------------------------
(* Task.cancel() *)

(* Where the request stops: cancel() of a task hands it to the future it   *)
(* waits for unless there is none or that one is done already.             *)
Stops(o) == o \in Task => (waiter[o] # None => Done(waiter[o]))

(* The object a cancel() of o ends at, down the chain of waiters. *)
CancelTarget(o) ==
  LET follow[n \in 0..Cardinality(Task)] ==
        IF n = 0 THEN o
        ELSE IF Stops(follow[n - 1]) THEN follow[n - 1] ELSE waiter[follow[n - 1]]
  IN follow[Cardinality(Task)]

(* The tasks that have to hear of a cancel() that ended at e: the task at  *)
(* the end of the chain, or those that wait for the future cancelled there. *)
OwedBy(e, w) == IF e \in Task THEN {e} ELSE Awaiting(e, w)

(* Faulty variant: a waiting task is stepped at once, its __wakeup() stays. *)
CancelTask_Stepped(t) ==
  /\ state[t] = "pending"
  /\ waiter[t] # None
  /\ mustCancel' = [mustCancel EXCEPT ![t] = TRUE]
  /\ waiter' = [waiter EXCEPT ![t] = None]
  /\ calls' = Queue(t, "step")
  /\ owed' = owed \cup {t}
  /\ UNCHANGED <<state, callbacks, current, closed, resumedOn>>

CancelTask(t) ==
  LET e == CancelTarget(t) IN
  /\ state[t] = "pending"
  /\ owed' = owed \cup OwedBy(e, waiter)
  /\ IF e \in Task
     THEN /\ mustCancel' = [mustCancel EXCEPT ![e] = TRUE]
          /\ UNCHANGED <<state, callbacks, calls>>
     ELSE /\ Complete(e, "cancelled", callbacks[e])
          /\ UNCHANGED mustCancel
  /\ UNCHANGED <<waiter, current, closed, resumedOn>>

-----------------------------------------------------------------------------
(* Task.__init__() and the first half of Task.__step() *)

CreateTask(t) ==
  /\ state[t] = "absent"
  /\ ~closed
  /\ state' = [state EXCEPT ![t] = "pending"]
  /\ calls' = Queue(t, "step")
  /\ UNCHANGED <<callbacks, waiter, mustCancel, current, closed, resumedOn, owed>>

(* What resuming by the callback c hands to the coroutine. *)
Delivered(t, c) ==
  IF mustCancel[t] \/ (c \in Awaitable /\ state[c] = "cancelled") THEN "cancel" ELSE "other"

(* __step() or __wakeup() runs: a call for a task that is done raises *)
(* InvalidStateError into the loop's exception handler.               *)
Step(t, c) ==
  /\ current = None
  /\ calls[t][c] > 0
  /\ calls' = [calls EXCEPT ![t][c] = @ - 1]
  /\ IF Done(t)
     THEN UNCHANGED <<mustCancel, waiter, current, resumedOn, owed>>
     ELSE /\ mustCancel' = [mustCancel EXCEPT ![t] = FALSE]
          /\ waiter' = [waiter EXCEPT ![t] = None]
          /\ current' = t
          /\ resumedOn' = [resumedOn EXCEPT ![t] =
               IF c \in Awaitable /\ LoopOfAny(c) = "parent" THEN "parent" ELSE "proxy"]
          /\ owed' = IF Delivered(t, c) = "cancel" THEN owed \ {t} ELSE owed
  /\ UNCHANGED <<state, callbacks, closed>>

-----------------------------------------------------------------------------
(* The second half of __step(): what the coroutine did.  mustCancel may *)
(* have been set while it ran.                                          *)

Leave(t) == current = t /\ current' = None

Return(t) ==
  /\ Leave(t)
  /\ Complete(t, IF mustCancel[t] THEN "cancelled" ELSE "result", callbacks[t])
  /\ mustCancel' = [mustCancel EXCEPT ![t] = FALSE]
  /\ owed' = (owed \ {t}) \cup IF mustCancel[t] THEN Awaiting(t, waiter) ELSE {}
  /\ UNCHANGED <<waiter, closed, resumedOn>>

Raise(t, s) ==
  /\ Leave(t)
  /\ Complete(t, s, callbacks[t])
  /\ owed' = (owed \ {t}) \cup IF s = "cancelled" THEN Awaiting(t, waiter) ELSE {}
  /\ UNCHANGED <<waiter, mustCancel, closed, resumedOn>>

(* `yield', a yield of something that cannot be awaited, a future of a *)
(* foreign loop: the coroutine is resumed in the next iteration.       *)
Yield(t) ==
  /\ Leave(t)
  /\ calls' = Queue(t, "step")
  /\ UNCHANGED <<state, callbacks, waiter, mustCancel, closed, resumedOn, owed>>

YieldWrong(t) ==
  /\ Leave(t)
  /\ calls' = Queue(t, "error")
  /\ UNCHANGED <<state, callbacks, waiter, mustCancel, closed, resumedOn, owed>>

(* Programs whose tasks wait for each other in a ring never progress under *)
(* asyncio either: they are left out.                                      *)
NoAwaitCycle(t, o) == CancelTarget(o) # t

(* Faulty variant: __step() without its test for `result is self'. *)
Await_Self(t, o) ==
  /\ Leave(t)
  /\ state[o] = "pending" /\ o \in {t} \cup Future
  /\ waiter' = [waiter EXCEPT ![t] = o]
  /\ callbacks' = [callbacks EXCEPT ![o] = @ \cup {t}]
  /\ UNCHANGED <<state, calls, mustCancel, closed, resumedOn, owed>>

(* Faulty variant: _must_cancel is cleared, but the future is not cancelled. *)
Await_CancelDropped(t, o) ==
  /\ Leave(t)
  /\ state[o] = "pending" /\ o \in Future
  /\ waiter' = [waiter EXCEPT ![t] = o]
  /\ callbacks' = [callbacks EXCEPT ![o] = @ \cup {t}]
  /\ mustCancel' = [mustCancel EXCEPT ![t] = FALSE]
  /\ UNCHANGED <<state, calls, closed, resumedOn, owed>>

(* Faulty variant: a request that came while the coroutine ran waits for *)
(* the next step, although the task now waits for o.                     *)
Await_CancelLater(t, o) ==
  /\ Leave(t)
  /\ state[o] = "pending" /\ o \in Future
  /\ waiter' = [waiter EXCEPT ![t] = o]
  /\ callbacks' = [callbacks EXCEPT ![o] = @ \cup {t}]
  /\ UNCHANGED <<state, calls, mustCancel, closed, resumedOn, owed>>

(* `await o': __wakeup() is registered; a cancellation that arrived while *)
(* the coroutine ran is handed to o at once, and ends at e.  It stays with *)
(* the task if the closed proxy refuses the callbacks of e.                *)
Registered(t, o) == [callbacks EXCEPT ![o] = @ \cup {t}]

HandOn(t, o, e) ==
  /\ IF e \in Task
     THEN /\ mustCancel' = [mustCancel EXCEPT ![t] = FALSE, ![e] = TRUE]
          /\ callbacks' = Registered(t, o)
          /\ UNCHANGED <<state, calls>>
     ELSE /\ mustCancel' = [mustCancel EXCEPT ![t] = Refused(e, Registered(t, o)[e])]
          /\ state' = [state EXCEPT ![e] = "cancelled"]
          /\ callbacks' = [Registered(t, o) EXCEPT ![e] = {}]
          /\ calls' = Scheduled(e, Registered(t, o)[e])
  /\ owed' = (owed \ {t}) \cup OwedBy(e, [waiter EXCEPT ![t] = o])

Await(t, o) ==
  /\ Leave(t)
  /\ state[o] = "pending" /\ o # t
  /\ CheckLoop(o)
  /\ NoAwaitCycle(t, o)
  /\ waiter' = [waiter EXCEPT ![t] = o]
  /\ IF mustCancel[t]
     THEN HandOn(t, o, CancelTarget(o))
     ELSE callbacks' = Registered(t, o) /\ UNCHANGED <<state, calls, mustCancel, owed>>
  /\ UNCHANGED <<closed, resumedOn>>

Close ==
  /\ current = None
  /\ ~closed
  /\ closed' = TRUE
  /\ UNCHANGED <<state, callbacks, waiter, mustCancel, calls, current, resumedOn, owed>>

-----------------------------------------------------------------------------

Resume(t) == \E c \in Call : Step(t, c)

Finish(t) ==
  \/ Return(t)
  \/ Raise(t, "error")
  \/ Raise(t, "cancelled")
  \/ Yield(t)
  \/ YieldWrong(t)
  \/ \E o \in Awaitable : Await(t, o)

Next ==
  \/ \E f \in Future : SetResult(f) \/ SetException(f) \/ CancelFuture(f)
  \/ \E t \in Task : CreateTask(t) \/ CancelTask(t) \/ Resume(t) \/ Finish(t)
  \/ Close

Spec == Init /\ [][Next]_vars

(* The parent loop calls its queue in order, so a queued callback has its turn *)
(* however many others are queued after it; no coroutine computes for ever.    *)
Fairness ==
  /\ \A t \in Task : SF_vars(Resume(t))
  /\ \A t \in Task : WF_vars(Finish(t))

FairSpec == Spec /\ Fairness

-----------------------------------------------------------------------------
(* Properties *)

NoCall(t)      == \A c \in Call : calls[t][c] = 0
OnlyCall(t, c) == \A d \in Call : calls[t][d] = IF d = c THEN 1 ELSE 0

ToBeStepped(t) == waiter[t] = None /\ \E c \in {"step", "error"} : OnlyCall(t, c)
Waiting(t)     == /\ waiter[t] # None
                  /\ state[waiter[t]] = "pending"
                  /\ t \in callbacks[waiter[t]]
                  /\ NoCall(t)
ToBeWoken(t)   == waiter[t] # None /\ Done(waiter[t]) /\ OnlyCall(t, waiter[t])

(* The invariant the comment at the head of Task states, made precise: a    *)
(* suspended task is stepped by exactly one queued __step(), or it waits    *)
(* for a pending future that has its __wakeup(), or that future is done and *)
(* exactly one __wakeup() is queued.  A task that runs, ended, or does not  *)
(* exist has nothing queued.  A closed proxy refuses call_soon(), so it     *)
(* strands tasks, but still no task has more than one call to come.         *)
StepOrWait ==
  \A t \in Task :
    /\ t = current \/ state[t] # "pending" => NoCall(t)
    /\ t # current /\ state[t] = "pending" =>
         \/ ToBeStepped(t) \/ Waiting(t) \/ ToBeWoken(t)
         \/ closed /\ NoCall(t)

(* No future keeps a __wakeup() of a task that does not wait for it: such a *)
(* callback would resume the coroutine at some later await of its own.      *)
NoStaleWakeup ==
  \A o \in Awaitable : \A t \in callbacks[o] :
    waiter[t] = o /\ state[o] = "pending" /\ state[t] = "pending" /\ t # current

(* A cancellation is never lost on its way.  A cancel() goes down the chain *)
(* of tasks that await each other and is carried at its end: by the task    *)
(* there, in _must_cancel, or by those that wait for the future it          *)
(* cancelled, in their waiter; through an await that begins meanwhile.  And *)
(* it comes up the chain: when a task ends as cancelled, those that await   *)
(* it carry the cancellation in turn.                                       *)
OwedCancelIsCarried ==
  \A t \in owed :
    /\ state[t] = "pending"
    /\ mustCancel[t] \/ (waiter[t] # None /\ state[waiter[t]] = "cancelled")

(* A task that carries a cancellation hears of it (CancelledError is thrown *)
(* into its coroutine), hands it on or ends, unless the proxy is closed.    *)
CancelIsHeard == \A t \in Task : t \in owed ~> t \notin owed \/ closed

(* The code of a task runs with its own loop as the running loop.  It does  *)
(* not after the future of a parent loop resumed it: what get_running_loop()*)
(* and _wrap_async() see then is the parent.                                *)
ResumedOnProxy == \A t \in Task : resumedOn[t] # "parent"

-----------------------------------------------------------------------------
(* The abstract view: what a program sees of its coroutines. *)

AbstractPhase == [t \in Task |->
  IF state[t] = "absent" THEN "absent"
  ELSE IF Done(t) THEN "done"
  ELSE IF current = t THEN "running"
  ELSE IF waiter[t] # None /\ state[waiter[t]] = "pending" THEN "waiting"
  ELSE "runnable"]

Abstract ==
  INSTANCE Coroutines WITH Task <- Task, phase <- AbstractPhase, closed <- closed

(* Tasks of the proxy implement coroutines as a program knows them. *)
ImplementsCoroutines == Abstract!Spec
=============================================================================
