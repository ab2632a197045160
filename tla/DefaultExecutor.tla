--------------------------- MODULE DefaultExecutor ---------------------------
(***************************************************************************)
(* The default executor of a LoopProxy: the jobs that run_in_executor()    *)
(* gives to a pool of threads, and shutdown_default_executor(), which has  *)
(* a thread of its own wait for the pool and then joins that thread in the *)
(* thread of the loop.                                                     *)
(*                                                                         *)
(* Three kinds of threads move: the loop's, those of the pools, and one    *)
(* thread per shutdown, which reads and clears _default_executor whenever  *)
(* it happens to run.                                                      *)
(***************************************************************************)

CONSTANTS Job,        \* calls of run_in_executor(None, ...)
          Own,        \* executors that run_in_executor() makes
          User,       \* executors that the program makes
          Call,       \* calls of shutdown_default_executor()
          NeedsLoop,  \* jobs that end only after the loop did something for them
          Faulty,     \* executors whose shutdown() raises
          None        \* no executor

Pool == Own \cup User

ASSUME ExecutorAssumption ==
  /\ NeedsLoop \subseteq Job
  /\ Faulty \subseteq User
  /\ Own \cap User = {}
  /\ {None, "new", "done"} \cap Pool = {}

VARIABLES default,    \* LoopProxy._default_executor
          called,     \* LoopProxy._executor_shutdown_called
          closed,     \* LoopProxy._closed
          job,        \* job[j]: the executor that works on j, or "new" or "done"
          down,       \* the executors whose shutdown() was called
          pc,         \* pc[s]: where the coroutine of the call s is
          future,     \* future[s]: the future it awaits
          thread,     \* thread[s]: where _do_shutdown() is
          target,     \* target[s]: the executor it shuts down
          posted,     \* what call_soon_threadsafe() queued: <<s, outcome>>, or
                      \* <<s, "swept">> once the handle was cancelled
          strict,     \* the warnings filter turns RuntimeWarning into an exception
          used,       \* history: the executors that ever were the default one
          replaced,   \* history: the executors that set_default_executor() replaced
          cancelled,  \* history: calls the program cancelled
          stranded    \* history: calls whose wake-up was refused or swept

callVars   == <<pc, future, cancelled>>
threadVars == <<thread, target>>
vars == <<default, called, closed, job, down, posted, strict, used, replaced, stranded,
          callVars, threadVars>>

Outcome == {"result", "error"}

(* The type of the state. *)
TypeOK ==
  /\ default \in Pool \cup {None}
  /\ called \in BOOLEAN /\ closed \in BOOLEAN /\ strict \in BOOLEAN
  /\ job \in [Job -> Pool \cup {"new", "done"}]
  /\ down \subseteq used \ Faulty
  /\ pc \in [Call -> {"idle", "waiting", "joining", "returned", "raised", "cancelled"}]
  /\ future \in [Call -> Outcome \cup {"pending", "cancelled"}]
  /\ thread \in [Call -> {"none", "started", "waiting", "shut", "failed", "clearing", "ended"}]
  /\ target \in [Call -> Pool \cup {None}]
  /\ posted \subseteq Call \X (Outcome \cup {"swept"})
  /\ used \subseteq Pool /\ replaced \subseteq used
  /\ cancelled \subseteq Call /\ stranded \subseteq Call

Init ==
  /\ default = None
  /\ called = FALSE /\ closed = FALSE
  /\ strict \in BOOLEAN
  /\ job = [j \in Job |-> "new"]
  /\ down = {}
  /\ pc = [s \in Call |-> "idle"]
  /\ future = [s \in Call |-> "pending"]
  /\ thread = [s \in Call |-> "none"]
  /\ target = [s \in Call |-> None]
  /\ posted = {}
  /\ used = {} /\ replaced = {}
  /\ cancelled = {} /\ stranded = {}

(* thread.join() stops the loop's thread: no callback and no coroutine runs. *)
LoopFree   == \A s \in Call : pc[s] # "joining"
Working(j) == job[j] \in Pool

-----------------------------------------------------------------------------
(* The program, in the loop's thread *)

(* Faulty variant: without _check_default_executor(). *)
RunInExecutor_Unchecked(j) ==
  /\ LoopFree /\ job[j] = "new"
  /\ ~closed
  /\ \/ default # None /\ UNCHANGED <<default, used>>
     \/ default = None /\ default' \in Own \ used /\ used' = used \cup {default'}
  /\ job' = [job EXCEPT ![j] = default']
  /\ UNCHANGED <<called, closed, down, posted, strict, replaced, stranded,
                 callVars, threadVars>>

(* run_in_executor(None, ...): the first call makes an executor, and none is *)
(* accepted once a shutdown was called.                                      *)
RunInExecutor(j) ==
  /\ LoopFree /\ job[j] = "new"
  /\ ~closed /\ ~called
  /\ \/ default # None /\ UNCHANGED <<default, used>>
     \/ default = None /\ default' \in Own \ used /\ used' = used \cup {default'}
  /\ job' = [job EXCEPT ![j] = default']
  /\ UNCHANGED <<called, closed, down, posted, strict, replaced, stranded,
                 callVars, threadVars>>

(* Faulty variant: whatever the program passes is taken. *)
SetDefaultExecutor_Any(p) ==
  /\ LoopFree /\ p \in User \ used
  /\ default' \in {p, "no executor"}
  /\ used' = used \cup {p}
  /\ replaced' = replaced \cup ({default} \ {None})
  /\ UNCHANGED <<called, closed, job, down, posted, strict, stranded, callVars, threadVars>>

(* Accepted at any time, after a shutdown and on a closed proxy as well. *)
SetDefaultExecutor(p) ==
  /\ LoopFree /\ p \in User \ used
  /\ default' = p
  /\ used' = used \cup {p}
  /\ replaced' = replaced \cup ({default} \ {None})
  /\ UNCHANGED <<called, closed, down, posted, strict, stranded,
                 job, callVars, threadVars>>

(* Faulty variant: the proxy lets go of the executor before the thread reads it. *)
ShutdownDefaultExecutor_Cleared(s) ==
  /\ LoopFree /\ pc[s] = "idle"
  /\ called' = TRUE
  /\ IF default = None
     THEN pc' = [pc EXCEPT ![s] = "returned"] /\ UNCHANGED thread
     ELSE pc' = [pc EXCEPT ![s] = "waiting"] /\ thread' = [thread EXCEPT ![s] = "started"]
  /\ default' = None
  /\ UNCHANGED <<closed, down, posted, strict, replaced, stranded, job, used,
                 future, cancelled, target>>

(* The coroutine up to its await: the thread is started. *)
ShutdownDefaultExecutor(s) ==
  /\ LoopFree /\ pc[s] = "idle"
  /\ called' = TRUE
  /\ IF default = None
     THEN pc' = [pc EXCEPT ![s] = "returned"] /\ UNCHANGED thread
     ELSE pc' = [pc EXCEPT ![s] = "waiting"] /\ thread' = [thread EXCEPT ![s] = "started"]
  /\ UNCHANGED <<default, closed, down, posted, strict, replaced, stranded, job,
                 used, future, cancelled, target>>

(* The end of a future queues the wake-up of the coroutine with call_soon() *)
(* of the proxy, which refuses it once the proxy is closed.                 *)
Complete(s, outcome) ==
  /\ future' = [future EXCEPT ![s] = outcome]
  /\ stranded' = IF closed THEN stranded \cup {s} ELSE stranded

(* The task that awaits the shutdown is cancelled. *)
Cancel(s) ==
  /\ LoopFree /\ pc[s] = "waiting" /\ s \notin cancelled
  /\ cancelled' = cancelled \cup {s}
  /\ IF future[s] = "pending" THEN Complete(s, "cancelled") ELSE UNCHANGED <<future, stranded>>
  /\ UNCHANGED <<default, called, closed, down, posted, strict, replaced, pc,
                 job, threadVars, used>>

(* Faulty variant: the executor is forgotten, its threads go on waiting for jobs. *)
Close_Forgets ==
  /\ LoopFree /\ ~closed
  /\ closed' = TRUE /\ called' = TRUE
  /\ default' = None
  /\ UNCHANGED <<job, down, posted, strict, used, replaced, stranded, callVars, threadVars>>

(* close() lets the executor's threads finish by themselves, after a warning *)
(* that may be an exception; shutdown() of the executor may be one as well.  *)
CloseRaises == default # None /\ (strict \/ default \in Faulty)

Close ==
  /\ LoopFree /\ ~closed
  /\ closed' = TRUE /\ called' = TRUE
  /\ IF default = None \/ strict
     THEN UNCHANGED <<default, down>>
     ELSE default' = None /\ down' = down \cup ({default} \ Faulty)
  /\ UNCHANGED <<job, posted, strict, used, replaced, stranded, callVars, threadVars>>

-----------------------------------------------------------------------------
(* The loop *)

(* future.set_result() or set_exception(): refused if it was cancelled. *)
RunPosted(s) ==
  /\ LoopFree
  /\ \E o \in Outcome :
       /\ <<s, o>> \in posted
       /\ posted' = posted \ {<<s, o>>}
       /\ IF future[s] = "pending" THEN Complete(s, o) ELSE UNCHANGED <<future, stranded>>
  /\ UNCHANGED <<default, called, closed, down, strict, replaced, pc, cancelled,
                 job, threadVars, used>>

(* check_and_shutdown() cancels the handles of the proxy: answers, and the *)
(* wake-ups of the calls whose future is done already.                     *)
SweepHandles ==
  /\ LoopFree
  /\ posted' = {<<a[1], "swept">> : a \in posted}
  /\ stranded' = stranded \cup {s \in Call : pc[s] = "waiting" /\ future[s] # "pending"}
  /\ UNCHANGED <<default, called, closed, down, strict, replaced, job, callVars,
                 threadVars, used>>

(* Faulty variant: the thread is joined without waiting for the future. *)
Resume_Join(s) ==
  /\ LoopFree /\ pc[s] = "waiting" /\ s \notin stranded
  /\ pc' = [pc EXCEPT ![s] = "joining"]
  /\ UNCHANGED <<default, called, closed, down, posted, strict, replaced, stranded,
                 job, threadVars, used, future, cancelled>>

(* The await ends: `finally: thread.join()'. *)
Resume(s) ==
  /\ LoopFree /\ pc[s] = "waiting" /\ s \notin stranded
  /\ future[s] # "pending"
  /\ pc' = [pc EXCEPT ![s] = "joining"]
  /\ UNCHANGED <<default, called, closed, down, posted, strict, replaced, stranded,
                 job, threadVars, used, future, cancelled>>

Join(s) ==
  /\ pc[s] = "joining" /\ thread[s] = "ended"
  /\ pc' = [pc EXCEPT ![s] = IF s \in cancelled THEN "cancelled"
                             ELSE IF future[s] = "error" THEN "raised" ELSE "returned"]
  /\ UNCHANGED <<default, called, closed, down, posted, strict, replaced, stranded,
                 job, threadVars, used, future, cancelled>>

-----------------------------------------------------------------------------
(* Other threads: the jobs, and _do_shutdown() *)

JobEnds(j) ==
  /\ Working(j)
  /\ j \in NeedsLoop => LoopFree
  /\ job' = [job EXCEPT ![j] = "done"]
  /\ UNCHANGED <<default, called, closed, down, posted, strict, replaced, stranded, used,
                 callVars, threadVars>>

ThreadStep(s, from, to) ==
  /\ thread[s] = from
  /\ thread' = [thread EXCEPT ![s] = to]
  /\ UNCHANGED <<called, closed, strict, replaced, stranded, job, callVars, used>>

(* self._default_executor.shutdown(): AttributeError if there is none any more. *)
ReadExecutor(s) ==
  /\ ThreadStep(s, "started", IF default \in Pool \ Faulty THEN "waiting" ELSE "failed")
  /\ target' = [target EXCEPT ![s] = default]
  /\ down' = down \cup (({default} \ Faulty) \ {None})
  /\ UNCHANGED <<default, posted>>

(* ... with wait=True: it returns when the executor's threads have ended. *)
ExecutorEnds(s) ==
  /\ \A j \in Job : job[j] # target[s]
  /\ ThreadStep(s, "waiting", "shut")
  /\ UNCHANGED <<default, posted, target, down>>

(* Faulty variant: without the except clause. *)
Answer_OnlyResult(s) ==
  /\ posted' = IF thread[s] = "shut" /\ ~closed THEN posted \cup {<<s, "result">>} ELSE posted
  /\ ThreadStep(s, "shut", "clearing") \/ ThreadStep(s, "failed", "clearing")
  /\ UNCHANGED <<default, target, down>>

(* call_soon_threadsafe(), which a closed proxy refuses twice. *)
Answer(s) ==
  /\ \/ ThreadStep(s, "shut", "clearing")
        /\ posted' = IF closed THEN posted ELSE posted \cup {<<s, "result">>}
     \/ ThreadStep(s, "failed", "clearing")
        /\ posted' = IF closed THEN posted ELSE posted \cup {<<s, "error">>}
  /\ UNCHANGED <<default, target, down>>

(* `finally: self._default_executor = None', whichever executor that is by now. *)
ClearExecutor(s) ==
  /\ ThreadStep(s, "clearing", "ended")
  /\ default' = None
  /\ UNCHANGED <<posted, target, down>>

-----------------------------------------------------------------------------

DoShutdown(s) == ReadExecutor(s) \/ ExecutorEnds(s) \/ Answer(s) \/ ClearExecutor(s)
LoopStep(s)   == RunPosted(s) \/ Resume(s)

Program ==
  \/ \E j \in Job : RunInExecutor(j)
  \/ \E p \in User : SetDefaultExecutor(p)
  \/ \E s \in Call : ShutdownDefaultExecutor(s) \/ Cancel(s)
  \/ SweepHandles

Next ==
  \/ Program
  \/ Close
  \/ \E j \in Job : JobEnds(j)
  \/ \E s \in Call : DoShutdown(s) \/ LoopStep(s) \/ Join(s)

Spec == Init /\ [][Next]_vars

-----------------------------------------------------------------------------
(* Properties *)

Leftover(j) == Working(j) /\ job[j] \notin replaced \cup Faulty

(* Once a shutdown_default_executor() returned no job of a default executor *)
(* runs, and none will until close(), unless set_default_executor() had     *)
(* replaced the executor, or its own shutdown() failed.                     *)
NoWorkAfterShutdown ==
  ~closed /\ (\E s \in Call : pc[s] = "returned") => \A j \in Job : ~Leftover(j)

(* The thread that runs the loop waits for another one only for the moment   *)
(* between the answer and the end of that thread: it waits for the jobs only *)
(* if the task was cancelled, and then a job that needs the loop never ends. *)
JoinIsShort ==
  \A s \in Call : pc[s] = "joining" => thread[s] \in {"clearing", "ended"} \/ s \in cancelled

(* A shutdown fails only because of the executor or of a second shutdown    *)
(* that overlaps: the thread of the one that is first takes the executor    *)
(* away before the other thread reads it.                                   *)
SoleShutdownSucceeds ==
  \A s \in Call : pc[s] = "raised" =>
    target[s] \in Faulty \/ \E r \in Call \ {s} : thread[r] = "ended"

(* An executor the proxy made itself does not outlive the proxy: its threads *)
(* were told to end, unless the program replaced it or an exception came in  *)
(* between (a strict warnings filter, a shutdown() that failed).             *)
MadeExecutorsEnd ==
  closed /\ ~strict => used \cap Own \subseteq down \cup replaced

(* A job that waits for the loop while the loop's thread waits for the job. *)
Deadlock ==
  \E s \in Call, j \in NeedsLoop :
    pc[s] = "joining" /\ thread[s] = "waiting" /\ job[j] = target[s]
=============================================================================
