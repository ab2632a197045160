---------------------------- MODULE ProxyContext ----------------------------
(***************************************************************************)
(* proxy() as a context manager: what happens to the default executor, to  *)
(* the settings of the parent loop and to the exception of the body when   *)
(* the with statement is left.                                             *)
(*                                                                         *)
(* The program goes on while the two coroutines of the finally clause run, *)
(* since tasks of the body may be left.  Of check_and_shutdown() only its  *)
(* end is seen here: it returns, it raises, or neither (CheckAndShutdown). *)
(***************************************************************************)
EXTENDS DefaultExecutor

CONSTANTS Exit,     \* the call of shutdown_default_executor() that proxy() makes
          Setting   \* debug flag, exception handler, slow_callback_duration

ASSUME ContextAssumption == Exit \in Call

VARIABLES at,           \* where proxy() is
          error,        \* the body raised
          changed,      \* settings of the parent that are not as they were
          parentClosed, \* the parent loop is closed
          outcome       \* how the with statement ended

contextVars == <<at, error, changed, parentClosed, outcome>>
allVars == <<vars, contextVars>>

(* The type of the state of both modules. *)
ContextTypeOK ==
  /\ TypeOK
  /\ at \in {"body", "shutdown", "check", "restore", "left"}
  /\ error \in BOOLEAN /\ parentClosed \in BOOLEAN
  /\ changed \subseteq Setting
  /\ outcome \in {"none", "normal", "error", "replaced"}

ContextInit ==
  /\ Init
  /\ at = "body"
  /\ error = FALSE /\ parentClosed = FALSE
  /\ changed = {}
  /\ outcome = "none"

-----------------------------------------------------------------------------
(* The body and its tasks *)

OthersRun == at \in {"body", "shutdown", "check"} /\ ~parentClosed

Body ==
  /\ OthersRun /\ Program
  /\ pc'[Exit] = pc[Exit]
  /\ UNCHANGED contextVars

(* set_debug() and its kind, of the proxy or of the parent. *)
ChangeSetting(x) ==
  /\ OthersRun /\ LoopFree
  /\ changed' = changed \cup {x}
  /\ UNCHANGED <<vars, at, error, parentClosed, outcome>>

(* Neither loop can be closed while it runs, so only the body itself does it. *)
BodyCloses ==
  /\ at = "body"
  /\ Close
  /\ UNCHANGED contextVars

CloseParent ==
  /\ at = "body" /\ LoopFree
  /\ parentClosed' = TRUE
  /\ UNCHANGED <<vars, at, error, changed, outcome>>

-----------------------------------------------------------------------------
(* The finally clause *)

(* The last step is close(): what it raises replaces the body's exception. *)
Left(e) == /\ at' = "left"
           /\ outcome' = IF CloseRaises THEN "replaced" ELSE IF e THEN "error" ELSE "normal"

(* A proxy that the body closed is left alone, and `return' in the finally *)
(* clause drops the exception; over a closed parent nothing can run.       *)
Leave ==
  /\ at = "body" /\ LoopFree
  /\ error' \in BOOLEAN
  /\ \/ closed /\ at' = "left" /\ outcome' = "normal" /\ UNCHANGED vars
     \/ ~closed /\ parentClosed /\ Left(error') /\ Close
     \/ ~closed /\ ~parentClosed /\ at' = "shutdown" /\ UNCHANGED <<vars, outcome>>
  /\ UNCHANGED <<changed, parentClosed>>

StartShutdown ==
  /\ at = "shutdown"
  /\ ShutdownDefaultExecutor(Exit)
  /\ UNCHANGED contextVars

(* An exception of either coroutine skips all that comes after it. *)
Skip == at' = "left" /\ outcome' = "replaced"

EndShutdown ==
  /\ at = "shutdown"
  /\ \/ pc[Exit] = "returned" /\ at' = "check" /\ UNCHANGED outcome
     \/ pc[Exit] \in {"raised", "cancelled"} /\ Skip
  /\ UNCHANGED <<vars, error, changed, parentClosed>>

EndCheck ==
  /\ at = "check" /\ LoopFree
  /\ \/ at' = "restore" /\ UNCHANGED outcome /\ SweepHandles
     \/ Skip /\ UNCHANGED vars
  /\ UNCHANGED <<error, changed, parentClosed>>

(* Faulty variant: without the settings. *)
RestoreAndClose_OnlyClose ==
  /\ at = "restore"
  /\ Left(error) /\ Close
  /\ UNCHANGED <<error, changed, parentClosed>>

RestoreAndClose ==
  /\ at = "restore"
  /\ changed' = {}
  /\ Left(error) /\ Close
  /\ UNCHANGED <<error, parentClosed>>

-----------------------------------------------------------------------------

(* A job that needs the loop, and the loop itself, stop with the parent. *)
Others ==
  \/ \E j \in Job : (j \in NeedsLoop => ~parentClosed) /\ JobEnds(j)
  \/ \E s \in Call : DoShutdown(s) \/ Join(s) \/ (~parentClosed /\ LoopStep(s))

ContextNext ==
  \/ Body
  \/ \E x \in Setting : ChangeSetting(x)
  \/ BodyCloses
  \/ CloseParent
  \/ Leave
  \/ StartShutdown
  \/ EndShutdown
  \/ EndCheck
  \/ RestoreAndClose
  \/ Others /\ UNCHANGED contextVars

ContextSpec == ContextInit /\ [][ContextNext]_allVars

(* Threads are scheduled, jobs come to an end, a loop that is neither closed *)
(* nor blocked runs what it has queued, and the finally clause goes on.  Each*)
(* of these steps is taken a bounded number of times, so that one of them is *)
(* not put off for ever by the others.                                       *)
Progress == (Others /\ UNCHANGED contextVars) \/ StartShutdown \/ EndShutdown \/ RestoreAndClose

ContextFairSpec == ContextSpec /\ WF_allVars(Progress)

-----------------------------------------------------------------------------
(* Properties *)

(* When the finally clause ran to its end, the proxy is closed, the parent  *)
(* has its settings back, no job of the default executor runs, and the      *)
(* exception of the body gets out, whatever the tasks that were left did    *)
(* while the two coroutines were waiting.  None of this holds if the body   *)
(* closed one of the loops, or if one of the coroutines raised.             *)
ExitIsClean ==
  at = "left" /\ outcome # "replaced" /\ pc[Exit] = "returned" =>
    /\ closed /\ changed = {}
    /\ \A j \in Job : ~Leftover(j)
    /\ outcome = IF error THEN "error" ELSE "normal"

(* A shutdown ends although threads, answers and cancellations cross, unless *)
(* its answer or its wake-up was thrown away with the proxy or by            *)
(* check_and_shutdown(), the parent loop was closed, or the loop is blocked. *)
(* So leaving proxy() gets past the executor.                                *)
ShutdownEnds ==
  \A s \in Call :
    pc[s] = "waiting" ~>
      \/ pc[s] \in {"returned", "raised", "cancelled"}
      \/ closed \/ parentClosed \/ Deadlock
      \/ s \in stranded \/ (<<s, "swept">> \in posted /\ future[s] = "pending")
=============================================================================
