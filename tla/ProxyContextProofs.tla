-------------------------- MODULE ProxyContextProofs --------------------------
(* Proofs about ProxyContext and the DefaultExecutor it composes, for any     *)
(* jobs, executors, shutdowns and settings.                                   *)
EXTENDS ProxyContext, TLAPS

-----------------------------------------------------------------------------
(* The inductive invariant of DefaultExecutor, in parts *)

(* What was called, made or replaced is on record. *)
Recorded ==
  /\ default # None => default \in used
  /\ \A s \in Call : pc[s] # "idle" => called
  /\ \A s \in Call : pc[s] = "idle" => thread[s] = "none"
  /\ \A s \in Call : pc[s] \in {"joining", "raised"} => future[s] # "pending"
  /\ \A s \in Call : future[s] = "cancelled" => s \in cancelled

(* The answer of a thread comes after all its work but the last assignment. *)
Answered(s) == \/ future[s] \in Outcome
               \/ \E o \in Outcome : <<s, o>> \in posted
AnswerIsLast == \A s \in Call : Answered(s) => thread[s] \in {"clearing", "ended"}

(* A thread finds an executor when it starts to run, or another thread has  *)
(* come to its end meanwhile, or the proxy is closed and hears no answer.   *)
AnotherEnded(s) == \E r \in Call \ {s} : thread[r] = "ended"
Excused(s) == target[s] \in Faulty \/ AnotherEnded(s)
StartedFinds  == \A s \in Call : thread[s] = "started" => default # None \/ closed \/ AnotherEnded(s)
FailedExcused == \A s \in Call : thread[s] = "failed" => closed \/ Excused(s)
ErrorExcused  == \A s \in Call : <<s, "error">> \in posted \/ future[s] = "error" => Excused(s)
RaisedIsError == \A s \in Call : pc[s] = "raised" => future[s] = "error"

FailureIsExcused == StartedFinds /\ FailedExcused /\ ErrorExcused /\ RaisedIsError

(* Jobs are left to the current executor, then to the one a thread waits for, *)
(* and to none once a thread is past that.                                    *)
JobsAreWaitedFor ==
  ~closed =>
    /\ \A j \in Job : Leftover(j) => job[j] = default
    /\ \A s \in Call, j \in Job : thread[s] = "waiting" /\ Leftover(j) => job[j] = target[s]
    /\ \A s \in Call, j \in Job : thread[s] \in {"shut", "failed", "clearing", "ended"} => ~Leftover(j)

(* An executor of the proxy is the current one until it was shut down. *)
MadeAreKept ==
  /\ used \cap Own \subseteq down \cup replaced \cup {default}
  /\ \A s \in Call : thread[s] \notin {"none", "started", "ended"} /\ default \in Own => default \in down
  /\ closed /\ ~strict => default \notin Own

Inv == /\ TypeOK
       /\ Recorded
       /\ AnswerIsLast
       /\ FailureIsExcused
       /\ JobsAreWaitedFor
       /\ MadeAreKept
       /\ NoWorkAfterShutdown

(* Where proxy() is and what the executor's shutdown of its own has done. *)
ContextInv ==
  /\ at = "body" => pc[Exit] = "idle"
  /\ at \in {"check", "restore"} => pc[Exit] = "returned"
  /\ at = "left" /\ outcome # "replaced" /\ pc[Exit] # "idle" =>
       /\ closed /\ changed = {}
       /\ \A j \in Job : ~Leftover(j)
       /\ outcome = IF error THEN "error" ELSE "normal"
-----------------------------------------------------------------------------
(* One step per action *)

(* Every step keeps the type of the state. *)
LEMMA TypeStep == TypeOK /\ Recorded /\ [Next]_vars => TypeOK'
<1> SUFFICES ASSUME TypeOK, Recorded, [Next]_vars PROVE TypeOK'
  OBVIOUS
<1> USE ExecutorAssumption DEF TypeOK, Recorded, Pool, Outcome
<1>1. ASSUME NEW j \in Job, RunInExecutor(j) PROVE TypeOK'
  BY <1>1 DEF RunInExecutor, callVars, threadVars
<1>2. ASSUME NEW p \in User, SetDefaultExecutor(p) PROVE TypeOK'
  BY <1>2 DEF SetDefaultExecutor, callVars, threadVars
<1>3. ASSUME NEW s \in Call, ShutdownDefaultExecutor(s) PROVE TypeOK'
  BY <1>3 DEF ShutdownDefaultExecutor, callVars, threadVars
<1>4. ASSUME NEW s \in Call, Cancel(s) PROVE TypeOK'
  BY <1>4 DEF Cancel, Complete, callVars, threadVars
<1>5. ASSUME SweepHandles PROVE TypeOK'
  BY <1>5 DEF SweepHandles, callVars, threadVars
<1>6. ASSUME Close PROVE TypeOK'
  BY <1>6 DEF Close, callVars, threadVars
<1>7. ASSUME NEW j \in Job, JobEnds(j) PROVE TypeOK'
  BY <1>7 DEF JobEnds, Working, callVars, threadVars
<1>8. ASSUME NEW s \in Call, ReadExecutor(s) PROVE TypeOK'
  BY <1>8 DEF ReadExecutor, ThreadStep, callVars, threadVars
<1>9. ASSUME NEW s \in Call, ExecutorEnds(s) PROVE TypeOK'
  BY <1>9 DEF ExecutorEnds, ThreadStep, callVars, threadVars
<1>10. ASSUME NEW s \in Call, Answer(s) PROVE TypeOK'
  BY <1>10 DEF Answer, ThreadStep, callVars, threadVars
<1>11. ASSUME NEW s \in Call, ClearExecutor(s) PROVE TypeOK'
  BY <1>11 DEF ClearExecutor, ThreadStep, callVars, threadVars
<1>12. ASSUME NEW s \in Call, RunPosted(s) PROVE TypeOK'
  BY <1>12 DEF RunPosted, Complete, callVars, threadVars
<1>13. ASSUME NEW s \in Call, Resume(s) PROVE TypeOK'
  BY <1>13 DEF Resume, callVars, threadVars
<1>14. ASSUME NEW s \in Call, Join(s) PROVE TypeOK'
  BY <1>14 DEF Join, callVars, threadVars
<1>15. CASE UNCHANGED vars
  BY <1>15 DEF vars, callVars, threadVars
<1> QED
  BY <1>1, <1>2, <1>3, <1>4, <1>5, <1>6, <1>7, <1>8, <1>9, <1>10, <1>11, <1>12, <1>13, <1>14, <1>15
  DEF Next, Program, DoShutdown, LoopStep

(* Every step keeps the record of what was called, made and completed. *)
LEMMA RecordedStep == TypeOK /\ Recorded /\ [Next]_vars => Recorded'
<1> SUFFICES ASSUME TypeOK, Recorded, [Next]_vars PROVE Recorded'
  OBVIOUS
<1> USE ExecutorAssumption DEF TypeOK, Recorded, Pool, Outcome
<1>1. ASSUME NEW j \in Job, RunInExecutor(j) PROVE Recorded'
  BY <1>1 DEF RunInExecutor, callVars, threadVars
<1>2. ASSUME NEW p \in User, SetDefaultExecutor(p) PROVE Recorded'
  BY <1>2 DEF SetDefaultExecutor, callVars, threadVars
<1>3. ASSUME NEW s \in Call, ShutdownDefaultExecutor(s) PROVE Recorded'
  BY <1>3 DEF ShutdownDefaultExecutor, callVars, threadVars
<1>4. ASSUME NEW s \in Call, Cancel(s) PROVE Recorded'
  BY <1>4 DEF Cancel, Complete, callVars, threadVars
<1>5. ASSUME SweepHandles PROVE Recorded'
  BY <1>5 DEF SweepHandles, callVars, threadVars
<1>6. ASSUME Close PROVE Recorded'
  BY <1>6 DEF Close, callVars, threadVars
<1>7. ASSUME NEW j \in Job, JobEnds(j) PROVE Recorded'
  BY <1>7 DEF JobEnds, Working, callVars, threadVars
<1>8. ASSUME NEW s \in Call, ReadExecutor(s) PROVE Recorded'
  BY <1>8 DEF ReadExecutor, ThreadStep, callVars, threadVars
<1>9. ASSUME NEW s \in Call, ExecutorEnds(s) PROVE Recorded'
  BY <1>9 DEF ExecutorEnds, ThreadStep, callVars, threadVars
<1>10. ASSUME NEW s \in Call, Answer(s) PROVE Recorded'
  BY <1>10 DEF Answer, ThreadStep, callVars, threadVars
<1>11. ASSUME NEW s \in Call, ClearExecutor(s) PROVE Recorded'
  BY <1>11 DEF ClearExecutor, ThreadStep, callVars, threadVars
<1>12. ASSUME NEW s \in Call, RunPosted(s) PROVE Recorded'
  BY <1>12 DEF RunPosted, Complete, callVars, threadVars
<1>13. ASSUME NEW s \in Call, Resume(s) PROVE Recorded'
  BY <1>13 DEF Resume, callVars, threadVars
<1>14. ASSUME NEW s \in Call, Join(s) PROVE Recorded'
  BY <1>14 DEF Join, callVars, threadVars
<1>15. CASE UNCHANGED vars
  BY <1>15 DEF vars, callVars, threadVars
<1> QED
  BY <1>1, <1>2, <1>3, <1>4, <1>5, <1>6, <1>7, <1>8, <1>9, <1>10, <1>11, <1>12, <1>13, <1>14, <1>15
  DEF Next, Program, DoShutdown, LoopStep

(* A future gets an outcome, and a queued answer exists, only from a thread *)
(* that has nothing left to do but to clear _default_executor.              *)
LEMMA AnswerStep == TypeOK /\ Recorded /\ AnswerIsLast /\ [Next]_vars => AnswerIsLast'
<1> SUFFICES ASSUME TypeOK, Recorded, AnswerIsLast, [Next]_vars PROVE AnswerIsLast'
  OBVIOUS
<1> USE ExecutorAssumption DEF TypeOK, Recorded, AnswerIsLast, Answered, Outcome
<1>1. ASSUME NEW j \in Job, RunInExecutor(j) PROVE AnswerIsLast'
  BY <1>1 DEF RunInExecutor, callVars, threadVars
<1>2. ASSUME NEW p \in User, SetDefaultExecutor(p) PROVE AnswerIsLast'
  BY <1>2 DEF SetDefaultExecutor, callVars, threadVars
<1>3. ASSUME NEW s \in Call, ShutdownDefaultExecutor(s) PROVE AnswerIsLast'
  BY <1>3 DEF ShutdownDefaultExecutor, callVars, threadVars
<1>4. ASSUME NEW s \in Call, Cancel(s) PROVE AnswerIsLast'
  BY <1>4 DEF Cancel, Complete, callVars, threadVars
<1>5. ASSUME SweepHandles PROVE AnswerIsLast'
  BY <1>5 DEF SweepHandles, callVars, threadVars
<1>6. ASSUME Close PROVE AnswerIsLast'
  BY <1>6 DEF Close, callVars, threadVars
<1>7. ASSUME NEW j \in Job, JobEnds(j) PROVE AnswerIsLast'
  BY <1>7 DEF JobEnds, Working, callVars, threadVars
<1>8. ASSUME NEW s \in Call, ReadExecutor(s) PROVE AnswerIsLast'
  BY <1>8 DEF ReadExecutor, ThreadStep, callVars, threadVars
<1>9. ASSUME NEW s \in Call, ExecutorEnds(s) PROVE AnswerIsLast'
  BY <1>9 DEF ExecutorEnds, ThreadStep, callVars, threadVars
<1>10. ASSUME NEW s \in Call, Answer(s) PROVE AnswerIsLast'
  BY <1>10 DEF Answer, ThreadStep, callVars, threadVars
<1>11. ASSUME NEW s \in Call, ClearExecutor(s) PROVE AnswerIsLast'
  BY <1>11 DEF ClearExecutor, ThreadStep, callVars, threadVars
<1>12. ASSUME NEW s \in Call, RunPosted(s) PROVE AnswerIsLast'
  BY <1>12 DEF RunPosted, Complete, callVars, threadVars
<1>13. ASSUME NEW s \in Call, Resume(s) PROVE AnswerIsLast'
  BY <1>13 DEF Resume, callVars, threadVars
<1>14. ASSUME NEW s \in Call, Join(s) PROVE AnswerIsLast'
  BY <1>14 DEF Join, callVars, threadVars
<1>15. CASE UNCHANGED vars
  BY <1>15 DEF vars, callVars, threadVars
<1> QED
  BY <1>1, <1>2, <1>3, <1>4, <1>5, <1>6, <1>7, <1>8, <1>9, <1>10, <1>11, <1>12, <1>13, <1>14, <1>15
  DEF Next, Program, DoShutdown, LoopStep

(* A thread that has ended stays so: a call starts one thread only. *)
LEMMA EndedStays ==
  TypeOK /\ Recorded /\ [Next]_vars => \A r \in Call : thread[r] = "ended" => thread'[r] = "ended"
<1> SUFFICES ASSUME TypeOK, Recorded, [Next]_vars PROVE \A r \in Call : thread[r] = "ended" => thread'[r] = "ended"
  OBVIOUS
<1> USE DEF TypeOK, Recorded
<1>1. ASSUME NEW j \in Job, RunInExecutor(j) PROVE \A r \in Call : thread[r] = "ended" => thread'[r] = "ended"
  BY <1>1 DEF RunInExecutor, callVars, threadVars
<1>2. ASSUME NEW p \in User, SetDefaultExecutor(p) PROVE \A r \in Call : thread[r] = "ended" => thread'[r] = "ended"
  BY <1>2 DEF SetDefaultExecutor, callVars, threadVars
<1>3. ASSUME NEW s \in Call, ShutdownDefaultExecutor(s) PROVE \A r \in Call : thread[r] = "ended" => thread'[r] = "ended"
  BY <1>3 DEF ShutdownDefaultExecutor, callVars, threadVars
<1>4. ASSUME NEW s \in Call, Cancel(s) PROVE \A r \in Call : thread[r] = "ended" => thread'[r] = "ended"
  BY <1>4 DEF Cancel, Complete, callVars, threadVars
<1>5. ASSUME SweepHandles PROVE \A r \in Call : thread[r] = "ended" => thread'[r] = "ended"
  BY <1>5 DEF SweepHandles, callVars, threadVars
<1>6. ASSUME Close PROVE \A r \in Call : thread[r] = "ended" => thread'[r] = "ended"
  BY <1>6 DEF Close, callVars, threadVars
<1>7. ASSUME NEW j \in Job, JobEnds(j) PROVE \A r \in Call : thread[r] = "ended" => thread'[r] = "ended"
  BY <1>7 DEF JobEnds, Working, callVars, threadVars
<1>8. ASSUME NEW s \in Call, ReadExecutor(s) PROVE \A r \in Call : thread[r] = "ended" => thread'[r] = "ended"
  BY <1>8 DEF ReadExecutor, ThreadStep, callVars, threadVars
<1>9. ASSUME NEW s \in Call, ExecutorEnds(s) PROVE \A r \in Call : thread[r] = "ended" => thread'[r] = "ended"
  BY <1>9 DEF ExecutorEnds, ThreadStep, callVars, threadVars
<1>10. ASSUME NEW s \in Call, Answer(s) PROVE \A r \in Call : thread[r] = "ended" => thread'[r] = "ended"
  BY <1>10 DEF Answer, ThreadStep, callVars, threadVars
<1>11. ASSUME NEW s \in Call, ClearExecutor(s) PROVE \A r \in Call : thread[r] = "ended" => thread'[r] = "ended"
  BY <1>11 DEF ClearExecutor, ThreadStep, callVars, threadVars
<1>12. ASSUME NEW s \in Call, RunPosted(s) PROVE \A r \in Call : thread[r] = "ended" => thread'[r] = "ended"
  BY <1>12 DEF RunPosted, Complete, callVars, threadVars
<1>13. ASSUME NEW s \in Call, Resume(s) PROVE \A r \in Call : thread[r] = "ended" => thread'[r] = "ended"
  BY <1>13 DEF Resume, callVars, threadVars
<1>14. ASSUME NEW s \in Call, Join(s) PROVE \A r \in Call : thread[r] = "ended" => thread'[r] = "ended"
  BY <1>14 DEF Join, callVars, threadVars
<1>15. CASE UNCHANGED vars
  BY <1>15 DEF vars, callVars, threadVars
<1> QED
  BY <1>1, <1>2, <1>3, <1>4, <1>5, <1>6, <1>7, <1>8, <1>9, <1>10, <1>11, <1>12, <1>13, <1>14, <1>15
  DEF Next, Program, DoShutdown, LoopStep

(* What takes the executor away from a thread that was started is the end of *)
(* another thread, or close().                                               *)
LEMMA StartedStep == TypeOK /\ Recorded /\ AnswerIsLast /\ FailureIsExcused /\ [Next]_vars => StartedFinds'
<1> SUFFICES ASSUME TypeOK, Recorded, AnswerIsLast, FailureIsExcused, [Next]_vars PROVE StartedFinds'
  OBVIOUS
<1>0. \A r \in Call : AnotherEnded(r) => AnotherEnded(r)'
  BY EndedStays DEF AnotherEnded
<1> USE ExecutorAssumption DEF TypeOK, Recorded, AnswerIsLast, Answered, Outcome, Pool, FailureIsExcused, StartedFinds
<1>1. ASSUME NEW j \in Job, RunInExecutor(j) PROVE StartedFinds'
  BY <1>0, <1>1 DEF RunInExecutor, callVars, threadVars
<1>2. ASSUME NEW p \in User, SetDefaultExecutor(p) PROVE StartedFinds'
  BY <1>0, <1>2 DEF SetDefaultExecutor, callVars, threadVars
<1>3. ASSUME NEW s \in Call, ShutdownDefaultExecutor(s) PROVE StartedFinds'
  BY <1>0, <1>3 DEF ShutdownDefaultExecutor, callVars, threadVars
<1>4. ASSUME NEW s \in Call, Cancel(s) PROVE StartedFinds'
  BY <1>0, <1>4 DEF Cancel, Complete, callVars, threadVars
<1>5. ASSUME SweepHandles PROVE StartedFinds'
  BY <1>0, <1>5 DEF SweepHandles, callVars, threadVars
<1>6. ASSUME Close PROVE StartedFinds'
  BY <1>0, <1>6 DEF Close, callVars, threadVars
<1>7. ASSUME NEW j \in Job, JobEnds(j) PROVE StartedFinds'
  BY <1>0, <1>7 DEF JobEnds, Working, callVars, threadVars
<1>8. ASSUME NEW s \in Call, ReadExecutor(s) PROVE StartedFinds'
  BY <1>0, <1>8 DEF ReadExecutor, ThreadStep, callVars, threadVars
<1>9. ASSUME NEW s \in Call, ExecutorEnds(s) PROVE StartedFinds'
  BY <1>0, <1>9 DEF ExecutorEnds, ThreadStep, callVars, threadVars
<1>10. ASSUME NEW s \in Call, Answer(s) PROVE StartedFinds'
  BY <1>0, <1>10 DEF Answer, ThreadStep, callVars, threadVars
<1>11. ASSUME NEW s \in Call, ClearExecutor(s) PROVE StartedFinds'
  BY <1>0, <1>11 DEF ClearExecutor, ThreadStep, AnotherEnded, callVars, threadVars
<1>12. ASSUME NEW s \in Call, RunPosted(s) PROVE StartedFinds'
  BY <1>0, <1>12 DEF RunPosted, Complete, callVars, threadVars
<1>13. ASSUME NEW s \in Call, Resume(s) PROVE StartedFinds'
  BY <1>0, <1>13 DEF Resume, callVars, threadVars
<1>14. ASSUME NEW s \in Call, Join(s) PROVE StartedFinds'
  BY <1>0, <1>14 DEF Join, callVars, threadVars
<1>15. CASE UNCHANGED vars
  BY <1>0, <1>15 DEF vars, callVars, threadVars
<1> QED
  BY <1>1, <1>2, <1>3, <1>4, <1>5, <1>6, <1>7, <1>8, <1>9, <1>10, <1>11, <1>12, <1>13, <1>14, <1>15
  DEF Next, Program, DoShutdown, LoopStep

(* A thread fails only for the executor's sake, or because another ended. *)
LEMMA FailedStep == TypeOK /\ Recorded /\ AnswerIsLast /\ FailureIsExcused /\ [Next]_vars => FailedExcused'
<1> SUFFICES ASSUME TypeOK, Recorded, AnswerIsLast, FailureIsExcused, [Next]_vars PROVE FailedExcused'
  OBVIOUS
<1>0. \A r \in Call : AnotherEnded(r) => AnotherEnded(r)'
  BY EndedStays DEF AnotherEnded
<1> USE ExecutorAssumption DEF TypeOK, Recorded, AnswerIsLast, Answered, Outcome, Pool, FailureIsExcused, StartedFinds, FailedExcused, Excused
<1>1. ASSUME NEW j \in Job, RunInExecutor(j) PROVE FailedExcused'
  BY <1>0, <1>1 DEF RunInExecutor, callVars, threadVars
<1>2. ASSUME NEW p \in User, SetDefaultExecutor(p) PROVE FailedExcused'
  BY <1>0, <1>2 DEF SetDefaultExecutor, callVars, threadVars
<1>3. ASSUME NEW s \in Call, ShutdownDefaultExecutor(s) PROVE FailedExcused'
  BY <1>0, <1>3 DEF ShutdownDefaultExecutor, callVars, threadVars
<1>4. ASSUME NEW s \in Call, Cancel(s) PROVE FailedExcused'
  BY <1>0, <1>4 DEF Cancel, Complete, callVars, threadVars
<1>5. ASSUME SweepHandles PROVE FailedExcused'
  BY <1>0, <1>5 DEF SweepHandles, callVars, threadVars
<1>6. ASSUME Close PROVE FailedExcused'
  BY <1>0, <1>6 DEF Close, callVars, threadVars
<1>7. ASSUME NEW j \in Job, JobEnds(j) PROVE FailedExcused'
  BY <1>0, <1>7 DEF JobEnds, Working, callVars, threadVars
<1>8. ASSUME NEW s \in Call, ReadExecutor(s) PROVE FailedExcused'
  BY <1>0, <1>8 DEF ReadExecutor, ThreadStep, callVars, threadVars
<1>9. ASSUME NEW s \in Call, ExecutorEnds(s) PROVE FailedExcused'
  BY <1>0, <1>9 DEF ExecutorEnds, ThreadStep, callVars, threadVars
<1>10. ASSUME NEW s \in Call, Answer(s) PROVE FailedExcused'
  BY <1>0, <1>10 DEF Answer, ThreadStep, callVars, threadVars
<1>11. ASSUME NEW s \in Call, ClearExecutor(s) PROVE FailedExcused'
  BY <1>0, <1>11 DEF ClearExecutor, ThreadStep, callVars, threadVars
<1>12. ASSUME NEW s \in Call, RunPosted(s) PROVE FailedExcused'
  BY <1>0, <1>12 DEF RunPosted, Complete, callVars, threadVars
<1>13. ASSUME NEW s \in Call, Resume(s) PROVE FailedExcused'
  BY <1>0, <1>13 DEF Resume, callVars, threadVars
<1>14. ASSUME NEW s \in Call, Join(s) PROVE FailedExcused'
  BY <1>0, <1>14 DEF Join, callVars, threadVars
<1>15. CASE UNCHANGED vars
  BY <1>0, <1>15 DEF vars, callVars, threadVars
<1> QED
  BY <1>1, <1>2, <1>3, <1>4, <1>5, <1>6, <1>7, <1>8, <1>9, <1>10, <1>11, <1>12, <1>13, <1>14, <1>15
  DEF Next, Program, DoShutdown, LoopStep

(* An error is answered only by a thread that failed while the proxy was open. *)
LEMMA ErrorStep == TypeOK /\ Recorded /\ AnswerIsLast /\ FailureIsExcused /\ [Next]_vars => ErrorExcused'
<1> SUFFICES ASSUME TypeOK, Recorded, AnswerIsLast, FailureIsExcused, [Next]_vars PROVE ErrorExcused'
  OBVIOUS
<1>0. \A r \in Call : AnotherEnded(r) => AnotherEnded(r)'
  BY EndedStays DEF AnotherEnded
<1> USE ExecutorAssumption DEF TypeOK, Recorded, AnswerIsLast, Answered, Outcome, Pool, FailureIsExcused, FailedExcused, ErrorExcused, Excused
<1>1. ASSUME NEW j \in Job, RunInExecutor(j) PROVE ErrorExcused'
  BY <1>0, <1>1 DEF RunInExecutor, callVars, threadVars
<1>2. ASSUME NEW p \in User, SetDefaultExecutor(p) PROVE ErrorExcused'
  BY <1>0, <1>2 DEF SetDefaultExecutor, callVars, threadVars
<1>3. ASSUME NEW s \in Call, ShutdownDefaultExecutor(s) PROVE ErrorExcused'
  BY <1>0, <1>3 DEF ShutdownDefaultExecutor, callVars, threadVars
<1>4. ASSUME NEW s \in Call, Cancel(s) PROVE ErrorExcused'
  BY <1>0, <1>4 DEF Cancel, Complete, callVars, threadVars
<1>5. ASSUME SweepHandles PROVE ErrorExcused'
  BY <1>0, <1>5 DEF SweepHandles, callVars, threadVars
<1>6. ASSUME Close PROVE ErrorExcused'
  BY <1>0, <1>6 DEF Close, callVars, threadVars
<1>7. ASSUME NEW j \in Job, JobEnds(j) PROVE ErrorExcused'
  BY <1>0, <1>7 DEF JobEnds, Working, callVars, threadVars
<1>8. ASSUME NEW s \in Call, ReadExecutor(s) PROVE ErrorExcused'
  BY <1>0, <1>8 DEF ReadExecutor, ThreadStep, callVars, threadVars
<1>9. ASSUME NEW s \in Call, ExecutorEnds(s) PROVE ErrorExcused'
  BY <1>0, <1>9 DEF ExecutorEnds, ThreadStep, callVars, threadVars
<1>10. ASSUME NEW s \in Call, Answer(s) PROVE ErrorExcused'
  BY <1>0, <1>10 DEF Answer, ThreadStep, callVars, threadVars
<1>11. ASSUME NEW s \in Call, ClearExecutor(s) PROVE ErrorExcused'
  BY <1>0, <1>11 DEF ClearExecutor, ThreadStep, callVars, threadVars
<1>12. ASSUME NEW s \in Call, RunPosted(s) PROVE ErrorExcused'
  BY <1>0, <1>12 DEF RunPosted, Complete, callVars, threadVars
<1>13. ASSUME NEW s \in Call, Resume(s) PROVE ErrorExcused'
  BY <1>0, <1>13 DEF Resume, callVars, threadVars
<1>14. ASSUME NEW s \in Call, Join(s) PROVE ErrorExcused'
  BY <1>0, <1>14 DEF Join, callVars, threadVars
<1>15. CASE UNCHANGED vars
  BY <1>0, <1>15 DEF vars, callVars, threadVars
<1> QED
  BY <1>1, <1>2, <1>3, <1>4, <1>5, <1>6, <1>7, <1>8, <1>9, <1>10, <1>11, <1>12, <1>13, <1>14, <1>15
  DEF Next, Program, DoShutdown, LoopStep

(* A call raises what its future holds. *)
LEMMA RaisedStep == TypeOK /\ Recorded /\ FailureIsExcused /\ [Next]_vars => RaisedIsError'
<1> SUFFICES ASSUME TypeOK, Recorded, FailureIsExcused, [Next]_vars PROVE RaisedIsError'
  OBVIOUS
<1> USE DEF TypeOK, Recorded, FailureIsExcused, RaisedIsError
<1>1. ASSUME NEW j \in Job, RunInExecutor(j) PROVE RaisedIsError'
  BY <1>1 DEF RunInExecutor, callVars, threadVars
<1>2. ASSUME NEW p \in User, SetDefaultExecutor(p) PROVE RaisedIsError'
  BY <1>2 DEF SetDefaultExecutor, callVars, threadVars
<1>3. ASSUME NEW s \in Call, ShutdownDefaultExecutor(s) PROVE RaisedIsError'
  BY <1>3 DEF ShutdownDefaultExecutor, callVars, threadVars
<1>4. ASSUME NEW s \in Call, Cancel(s) PROVE RaisedIsError'
  BY <1>4 DEF Cancel, Complete, callVars, threadVars
<1>5. ASSUME SweepHandles PROVE RaisedIsError'
  BY <1>5 DEF SweepHandles, callVars, threadVars
<1>6. ASSUME Close PROVE RaisedIsError'
  BY <1>6 DEF Close, callVars, threadVars
<1>7. ASSUME NEW j \in Job, JobEnds(j) PROVE RaisedIsError'
  BY <1>7 DEF JobEnds, Working, callVars, threadVars
<1>8. ASSUME NEW s \in Call, ReadExecutor(s) PROVE RaisedIsError'
  BY <1>8 DEF ReadExecutor, ThreadStep, callVars, threadVars
<1>9. ASSUME NEW s \in Call, ExecutorEnds(s) PROVE RaisedIsError'
  BY <1>9 DEF ExecutorEnds, ThreadStep, callVars, threadVars
<1>10. ASSUME NEW s \in Call, Answer(s) PROVE RaisedIsError'
  BY <1>10 DEF Answer, ThreadStep, callVars, threadVars
<1>11. ASSUME NEW s \in Call, ClearExecutor(s) PROVE RaisedIsError'
  BY <1>11 DEF ClearExecutor, ThreadStep, callVars, threadVars
<1>12. ASSUME NEW s \in Call, RunPosted(s) PROVE RaisedIsError'
  BY <1>12 DEF RunPosted, Complete, callVars, threadVars
<1>13. ASSUME NEW s \in Call, Resume(s) PROVE RaisedIsError'
  BY <1>13 DEF Resume, callVars, threadVars
<1>14. ASSUME NEW s \in Call, Join(s) PROVE RaisedIsError'
  BY <1>14 DEF Join, callVars, threadVars
<1>15. CASE UNCHANGED vars
  BY <1>15 DEF vars, callVars, threadVars
<1> QED
  BY <1>1, <1>2, <1>3, <1>4, <1>5, <1>6, <1>7, <1>8, <1>9, <1>10, <1>11, <1>12, <1>13, <1>14, <1>15
  DEF Next, Program, DoShutdown, LoopStep

(* After the first call no job is accepted, so what a thread waits for covers *)
(* all the jobs that no other executor is answerable for.                     *)
LEMMA JobsStep == TypeOK /\ Recorded /\ JobsAreWaitedFor /\ [Next]_vars => JobsAreWaitedFor'
<1> SUFFICES ASSUME TypeOK, Recorded, JobsAreWaitedFor, [Next]_vars PROVE JobsAreWaitedFor'
  OBVIOUS
<1> USE ExecutorAssumption DEF TypeOK, Recorded, JobsAreWaitedFor, Leftover, Working, Pool
<1>1. ASSUME NEW j \in Job, RunInExecutor(j) PROVE JobsAreWaitedFor'
  BY <1>1 DEF RunInExecutor, callVars, threadVars
<1>2. ASSUME NEW p \in User, SetDefaultExecutor(p) PROVE JobsAreWaitedFor'
  BY <1>2 DEF SetDefaultExecutor, callVars, threadVars
<1>3. ASSUME NEW s \in Call, ShutdownDefaultExecutor(s) PROVE JobsAreWaitedFor'
  BY <1>3 DEF ShutdownDefaultExecutor, callVars, threadVars
<1>4. ASSUME NEW s \in Call, Cancel(s) PROVE JobsAreWaitedFor'
  BY <1>4 DEF Cancel, Complete, callVars, threadVars
<1>5. ASSUME SweepHandles PROVE JobsAreWaitedFor'
  BY <1>5 DEF SweepHandles, callVars, threadVars
<1>6. ASSUME Close PROVE JobsAreWaitedFor'
  BY <1>6 DEF Close, callVars, threadVars
<1>7. ASSUME NEW j \in Job, JobEnds(j) PROVE JobsAreWaitedFor'
  BY <1>7 DEF JobEnds, Working, callVars, threadVars
<1>8. ASSUME NEW s \in Call, ReadExecutor(s) PROVE JobsAreWaitedFor'
  BY <1>8 DEF ReadExecutor, ThreadStep, callVars, threadVars
<1>9. ASSUME NEW s \in Call, ExecutorEnds(s) PROVE JobsAreWaitedFor'
  BY <1>9 DEF ExecutorEnds, ThreadStep, callVars, threadVars
<1>10. ASSUME NEW s \in Call, Answer(s) PROVE JobsAreWaitedFor'
  BY <1>10 DEF Answer, ThreadStep, callVars, threadVars
<1>11. ASSUME NEW s \in Call, ClearExecutor(s) PROVE JobsAreWaitedFor'
  BY <1>11 DEF ClearExecutor, ThreadStep, callVars, threadVars
<1>12. ASSUME NEW s \in Call, RunPosted(s) PROVE JobsAreWaitedFor'
  BY <1>12 DEF RunPosted, Complete, callVars, threadVars
<1>13. ASSUME NEW s \in Call, Resume(s) PROVE JobsAreWaitedFor'
  BY <1>13 DEF Resume, callVars, threadVars
<1>14. ASSUME NEW s \in Call, Join(s) PROVE JobsAreWaitedFor'
  BY <1>14 DEF Join, callVars, threadVars
<1>15. CASE UNCHANGED vars
  BY <1>15 DEF vars, callVars, threadVars
<1> QED
  BY <1>1, <1>2, <1>3, <1>4, <1>5, <1>6, <1>7, <1>8, <1>9, <1>10, <1>11, <1>12, <1>13, <1>14, <1>15
  DEF Next, Program, DoShutdown, LoopStep

(* Whatever drops an executor of the proxy has told it to end, or is the *)
(* program's own set_default_executor().                                  *)
LEMMA MadeStep == TypeOK /\ Recorded /\ MadeAreKept /\ [Next]_vars => MadeAreKept'
<1> SUFFICES ASSUME TypeOK, Recorded, MadeAreKept, [Next]_vars PROVE MadeAreKept'
  OBVIOUS
<1> USE ExecutorAssumption DEF TypeOK, Recorded, MadeAreKept, Pool
<1>1. ASSUME NEW j \in Job, RunInExecutor(j) PROVE MadeAreKept'
  BY <1>1 DEF RunInExecutor, callVars, threadVars
<1>2. ASSUME NEW p \in User, SetDefaultExecutor(p) PROVE MadeAreKept'
  BY <1>2 DEF SetDefaultExecutor, callVars, threadVars
<1>3. ASSUME NEW s \in Call, ShutdownDefaultExecutor(s) PROVE MadeAreKept'
  BY <1>3 DEF ShutdownDefaultExecutor, callVars, threadVars
<1>4. ASSUME NEW s \in Call, Cancel(s) PROVE MadeAreKept'
  BY <1>4 DEF Cancel, Complete, callVars, threadVars
<1>5. ASSUME SweepHandles PROVE MadeAreKept'
  BY <1>5 DEF SweepHandles, callVars, threadVars
<1>6. ASSUME Close PROVE MadeAreKept'
  BY <1>6 DEF Close, callVars, threadVars
<1>7. ASSUME NEW j \in Job, JobEnds(j) PROVE MadeAreKept'
  BY <1>7 DEF JobEnds, Working, callVars, threadVars
<1>8. ASSUME NEW s \in Call, ReadExecutor(s) PROVE MadeAreKept'
  BY <1>8 DEF ReadExecutor, ThreadStep, callVars, threadVars
<1>9. ASSUME NEW s \in Call, ExecutorEnds(s) PROVE MadeAreKept'
  BY <1>9 DEF ExecutorEnds, ThreadStep, callVars, threadVars
<1>10. ASSUME NEW s \in Call, Answer(s) PROVE MadeAreKept'
  BY <1>10 DEF Answer, ThreadStep, callVars, threadVars
<1>11. ASSUME NEW s \in Call, ClearExecutor(s) PROVE MadeAreKept'
  BY <1>11 DEF ClearExecutor, ThreadStep, callVars, threadVars
<1>12. ASSUME NEW s \in Call, RunPosted(s) PROVE MadeAreKept'
  BY <1>12 DEF RunPosted, Complete, callVars, threadVars
<1>13. ASSUME NEW s \in Call, Resume(s) PROVE MadeAreKept'
  BY <1>13 DEF Resume, callVars, threadVars
<1>14. ASSUME NEW s \in Call, Join(s) PROVE MadeAreKept'
  BY <1>14 DEF Join, callVars, threadVars
<1>15. CASE UNCHANGED vars
  BY <1>15 DEF vars, callVars, threadVars
<1> QED
  BY <1>1, <1>2, <1>3, <1>4, <1>5, <1>6, <1>7, <1>8, <1>9, <1>10, <1>11, <1>12, <1>13, <1>14, <1>15
  DEF Next, Program, DoShutdown, LoopStep

(* A call returns at once if there is no executor, else when its thread ended. *)
LEMMA NoWorkStep == TypeOK /\ Recorded /\ JobsAreWaitedFor /\ NoWorkAfterShutdown /\ [Next]_vars => NoWorkAfterShutdown'
<1> SUFFICES ASSUME TypeOK, Recorded, JobsAreWaitedFor, NoWorkAfterShutdown, [Next]_vars PROVE NoWorkAfterShutdown'
  OBVIOUS
<1> USE ExecutorAssumption DEF TypeOK, Recorded, JobsAreWaitedFor, NoWorkAfterShutdown, Leftover, Working, Pool
<1>1. ASSUME NEW j \in Job, RunInExecutor(j) PROVE NoWorkAfterShutdown'
  BY <1>1 DEF RunInExecutor, callVars, threadVars
<1>2. ASSUME NEW p \in User, SetDefaultExecutor(p) PROVE NoWorkAfterShutdown'
  BY <1>2 DEF SetDefaultExecutor, callVars, threadVars
<1>3. ASSUME NEW s \in Call, ShutdownDefaultExecutor(s) PROVE NoWorkAfterShutdown'
  BY <1>3 DEF ShutdownDefaultExecutor, callVars, threadVars
<1>4. ASSUME NEW s \in Call, Cancel(s) PROVE NoWorkAfterShutdown'
  BY <1>4 DEF Cancel, Complete, callVars, threadVars
<1>5. ASSUME SweepHandles PROVE NoWorkAfterShutdown'
  BY <1>5 DEF SweepHandles, callVars, threadVars
<1>6. ASSUME Close PROVE NoWorkAfterShutdown'
  BY <1>6 DEF Close, callVars, threadVars
<1>7. ASSUME NEW j \in Job, JobEnds(j) PROVE NoWorkAfterShutdown'
  BY <1>7 DEF JobEnds, Working, callVars, threadVars
<1>8. ASSUME NEW s \in Call, ReadExecutor(s) PROVE NoWorkAfterShutdown'
  BY <1>8 DEF ReadExecutor, ThreadStep, callVars, threadVars
<1>9. ASSUME NEW s \in Call, ExecutorEnds(s) PROVE NoWorkAfterShutdown'
  BY <1>9 DEF ExecutorEnds, ThreadStep, callVars, threadVars
<1>10. ASSUME NEW s \in Call, Answer(s) PROVE NoWorkAfterShutdown'
  BY <1>10 DEF Answer, ThreadStep, callVars, threadVars
<1>11. ASSUME NEW s \in Call, ClearExecutor(s) PROVE NoWorkAfterShutdown'
  BY <1>11 DEF ClearExecutor, ThreadStep, callVars, threadVars
<1>12. ASSUME NEW s \in Call, RunPosted(s) PROVE NoWorkAfterShutdown'
  BY <1>12 DEF RunPosted, Complete, callVars, threadVars
<1>13. ASSUME NEW s \in Call, Resume(s) PROVE NoWorkAfterShutdown'
  BY <1>13 DEF Resume, callVars, threadVars
<1>14. ASSUME NEW s \in Call, Join(s) PROVE NoWorkAfterShutdown'
  BY <1>14 DEF Join, callVars, threadVars
<1>15. CASE UNCHANGED vars
  BY <1>15 DEF vars, callVars, threadVars
<1> QED
  BY <1>1, <1>2, <1>3, <1>4, <1>5, <1>6, <1>7, <1>8, <1>9, <1>10, <1>11, <1>12, <1>13, <1>14, <1>15
  DEF Next, Program, DoShutdown, LoopStep

(* Nothing has happened at first. *)
LEMMA InitInv == ContextInit => Inv /\ ContextInv
<1> SUFFICES ASSUME ContextInit PROVE Inv /\ ContextInv
  OBVIOUS
<1> USE DEF ContextInit, Init
<1>1. TypeOK
  BY DEF TypeOK
<1>2. Recorded
  BY DEF Recorded
<1>3. AnswerIsLast
  BY DEF AnswerIsLast, Answered, Outcome
<1>4. FailureIsExcused
  BY DEF FailureIsExcused, StartedFinds, FailedExcused, ErrorExcused, RaisedIsError
<1>5. JobsAreWaitedFor /\ NoWorkAfterShutdown
  BY ExecutorAssumption DEF JobsAreWaitedFor, NoWorkAfterShutdown, Leftover, Working
<1>6. MadeAreKept
  BY DEF MadeAreKept
<1>7. ContextInv
  BY ContextAssumption DEF ContextInv
<1> QED BY <1>1, <1>2, <1>3, <1>4, <1>5, <1>6, <1>7 DEF Inv

(* Every step of the executor's three kinds of threads keeps the invariant. *)
LEMMA ExecutorStep == Inv /\ [Next]_vars => Inv'
  BY TypeStep, RecordedStep, AnswerStep, StartedStep, FailedStep, ErrorStep, RaisedStep,
     JobsStep, MadeStep, NoWorkStep
  DEF Inv, FailureIsExcused

(* What a with statement adds to the executor are steps of the executor. *)
LEMMA ContextStepIsStep == [ContextNext]_allVars => [Next]_vars
<1> SUFFICES ASSUME [ContextNext]_allVars PROVE [Next]_vars
  OBVIOUS
<1> USE DEF Next
<1>1. CASE Body
  BY <1>1 DEF Body
<1>2. ASSUME NEW x \in Setting, ChangeSetting(x) PROVE UNCHANGED vars
  BY <1>2 DEF ChangeSetting
<1>3. CASE BodyCloses
  BY <1>3 DEF BodyCloses
<1>4. CASE CloseParent
  BY <1>4 DEF CloseParent
<1>5. CASE Leave
  BY <1>5 DEF Leave
<1>6. CASE StartShutdown
  BY <1>6, ContextAssumption DEF StartShutdown, Program
<1>7. CASE EndShutdown
  BY <1>7 DEF EndShutdown
<1>8. CASE EndCheck
  BY <1>8 DEF EndCheck, Program
<1>9. CASE RestoreAndClose
  BY <1>9 DEF RestoreAndClose
<1>10. CASE Others /\ UNCHANGED contextVars
  BY <1>10 DEF Others
<1>11. CASE UNCHANGED allVars
  BY <1>11 DEF allVars
<1> QED
  BY <1>1, <1>2, <1>3, <1>4, <1>5, <1>6, <1>7, <1>8, <1>9, <1>10, <1>11
  DEF ContextNext

(* Every step keeps the type of the state of proxy(). *)
LEMMA ContextTypeStep == ContextTypeOK /\ TypeOK' /\ [ContextNext]_allVars => ContextTypeOK'
<1> SUFFICES ASSUME ContextTypeOK, TypeOK', [ContextNext]_allVars PROVE ContextTypeOK'
  OBVIOUS
<1> USE DEF ContextTypeOK
<1>1. ASSUME Body PROVE ContextTypeOK'
  BY <1>1 DEF Body, vars, contextVars, callVars, threadVars
<1>2. ASSUME NEW x \in Setting, ChangeSetting(x) PROVE ContextTypeOK'
  BY <1>2 DEF ChangeSetting, vars, contextVars, callVars, threadVars
<1>3. ASSUME BodyCloses PROVE ContextTypeOK'
  BY <1>3 DEF BodyCloses, Close, vars, contextVars, callVars, threadVars
<1>4. ASSUME CloseParent PROVE ContextTypeOK'
  BY <1>4 DEF CloseParent, vars, contextVars, callVars, threadVars
<1>5. ASSUME Leave PROVE ContextTypeOK'
  BY <1>5 DEF Leave, Left, Close, vars, contextVars, callVars, threadVars
<1>6. ASSUME StartShutdown PROVE ContextTypeOK'
  BY <1>6 DEF StartShutdown, ShutdownDefaultExecutor, vars, contextVars, callVars, threadVars
<1>7. ASSUME EndShutdown PROVE ContextTypeOK'
  BY <1>7 DEF EndShutdown, Skip, vars, contextVars, callVars, threadVars
<1>8. ASSUME EndCheck PROVE ContextTypeOK'
  BY <1>8 DEF EndCheck, Skip, SweepHandles, vars, contextVars, callVars, threadVars
<1>9. ASSUME RestoreAndClose PROVE ContextTypeOK'
  BY <1>9 DEF RestoreAndClose, Left, Close, vars, contextVars, callVars, threadVars
<1>10. ASSUME Others, UNCHANGED contextVars PROVE ContextTypeOK'
  BY <1>10 DEF contextVars
<1>11. CASE UNCHANGED allVars
  BY <1>11 DEF allVars, vars, contextVars, callVars, threadVars
<1> QED
  BY <1>1, <1>2, <1>3, <1>4, <1>5, <1>6, <1>7, <1>8, <1>9, <1>10, <1>11
  DEF ContextNext

(* The threads and the loop neither move a call that has not begun or has  *)
(* returned, nor open a closed proxy, nor give a job to an executor.        *)
LEMMA OthersKeep ==
  ASSUME TypeOK, Others
  PROVE  /\ closed' = closed
         /\ \A s \in Call : pc[s] \in {"idle", "returned"} => pc'[s] = pc[s]
         /\ \A j \in Job : Leftover(j)' => Leftover(j)
<1> DEFINE Kept ==
      /\ closed' = closed
      /\ \A s \in Call : pc[s] \in {"idle", "returned"} => pc'[s] = pc[s]
      /\ \A j \in Job : Leftover(j)' => Leftover(j)
<1> USE DEF TypeOK, Leftover, Working, Pool
<1>1. ASSUME NEW j \in Job, JobEnds(j) PROVE Kept
  BY <1>1, ExecutorAssumption DEF JobEnds, callVars
<1>2. ASSUME NEW s \in Call, ReadExecutor(s) PROVE Kept
  BY <1>2 DEF ReadExecutor, ThreadStep, callVars
<1>3. ASSUME NEW s \in Call, ExecutorEnds(s) PROVE Kept
  BY <1>3 DEF ExecutorEnds, ThreadStep, callVars
<1>4. ASSUME NEW s \in Call, Answer(s) PROVE Kept
  BY <1>4 DEF Answer, ThreadStep, callVars
<1>5. ASSUME NEW s \in Call, ClearExecutor(s) PROVE Kept
  BY <1>5 DEF ClearExecutor, ThreadStep, callVars
<1>6. ASSUME NEW s \in Call, RunPosted(s) PROVE Kept
  BY <1>6 DEF RunPosted
<1>7. ASSUME NEW s \in Call, Resume(s) PROVE Kept
  BY <1>7 DEF Resume
<1>8. ASSUME NEW s \in Call, Join(s) PROVE Kept
  BY <1>8 DEF Join
<1> QED BY <1>1, <1>2, <1>3, <1>4, <1>5, <1>6, <1>7, <1>8 DEF Others, DoShutdown, LoopStep

(* Every step keeps what is known of the with statement: the tasks of the body *)
(* do not move the call of proxy(), and change nothing once it is left.        *)
LEMMA ContextInvStep == ContextTypeOK /\ Inv /\ ContextInv /\ [ContextNext]_allVars => ContextInv'
<1> SUFFICES ASSUME ContextTypeOK, Inv, ContextInv, [ContextNext]_allVars PROVE ContextInv'
  OBVIOUS
<1> USE ContextAssumption DEF ContextTypeOK, ContextInv
<1>1. ASSUME Body PROVE ContextInv'
  BY <1>1 DEF Body, OthersRun, contextVars
<1>2. ASSUME NEW x \in Setting, ChangeSetting(x) PROVE ContextInv'
  BY <1>2 DEF ChangeSetting, OthersRun, vars, callVars
<1>3. ASSUME BodyCloses PROVE ContextInv'
  BY <1>3 DEF BodyCloses, Close, vars, contextVars, callVars, threadVars
<1>4. ASSUME CloseParent PROVE ContextInv'
  BY <1>4 DEF CloseParent, vars, contextVars, callVars, threadVars
<1>5. ASSUME Leave PROVE ContextInv'
  BY <1>5 DEF Leave, Left, Close, vars, contextVars, callVars, threadVars
<1>6. ASSUME StartShutdown PROVE ContextInv'
  BY <1>6 DEF StartShutdown, ShutdownDefaultExecutor, contextVars
<1>7. ASSUME EndShutdown PROVE ContextInv'
  BY <1>7 DEF EndShutdown, Skip, vars, contextVars, callVars, threadVars
<1>8. ASSUME EndCheck PROVE ContextInv'
  BY <1>8 DEF EndCheck, Skip, SweepHandles, vars, contextVars, callVars, threadVars
<1>9. ASSUME RestoreAndClose PROVE ContextInv'
  <2>1. \A j \in Job : ~Leftover(j)
    BY <1>9 DEF RestoreAndClose, Close, Inv, NoWorkAfterShutdown
  <2>2. \A j \in Job : ~Leftover(j)'
    BY <1>9, <2>1 DEF RestoreAndClose, Close, Leftover, Working
  <2> QED BY <1>9, <2>2 DEF RestoreAndClose, Left, Close, callVars
<1>10. ASSUME Others, UNCHANGED contextVars PROVE ContextInv'
  BY <1>10, OthersKeep DEF contextVars, Inv
<1>11. CASE UNCHANGED allVars
  BY <1>11 DEF allVars, vars, contextVars, Leftover, Working, callVars, threadVars
<1> QED
  BY <1>1, <1>2, <1>3, <1>4, <1>5, <1>6, <1>7, <1>8, <1>9, <1>10, <1>11
  DEF ContextNext

(* The invariant of both modules holds in every behaviour. *)
LEMMA InvAlways == ContextSpec => [](ContextTypeOK /\ Inv /\ ContextInv)
<1>1. ContextInit => ContextTypeOK /\ Inv /\ ContextInv
  BY InitInv DEF Inv, ContextTypeOK, ContextInit
<1>2. ContextTypeOK /\ Inv /\ ContextInv /\ [ContextNext]_allVars
        => (ContextTypeOK /\ Inv /\ ContextInv)'
  <2>1. Inv' => TypeOK'
    BY DEF Inv
  <2> QED BY <2>1, ContextStepIsStep, ExecutorStep, ContextTypeStep, ContextInvStep
<1> QED BY <1>1, <1>2, PTL DEF ContextSpec

(* The state of the executor and of proxy() is well typed, for any jobs, *)
(* executors, calls and settings.                                        *)
THEOREM TypeCorrect == ContextSpec => []ContextTypeOK
<1> QED BY InvAlways, PTL

(* proxy() does nothing to the default executor that a program may not do: *)
(* the composition implements the component it is built from.              *)
THEOREM ContextRunsExecutor == ContextSpec => Spec
<1>1. ContextInit => Init
  BY DEF ContextInit
<1> QED BY <1>1, ContextStepIsStep, PTL DEF ContextSpec, Spec

(* However many shutdowns overlap and whichever executors the program sets, *)
(* no job runs or starts after one of them returned, until close().         *)
THEOREM NothingWorksAfterShutdown == ContextSpec => []NoWorkAfterShutdown
<1>1. Inv => NoWorkAfterShutdown
  BY DEF Inv
<1> QED BY <1>1, InvAlways, PTL

(* The loop's thread joins a thread that still waits for jobs only in a call *)
(* that was cancelled.                                                       *)
THEOREM JoinsAreShort == ContextSpec => []JoinIsShort
<1>1. Inv => JoinIsShort
  <2> SUFFICES ASSUME Inv, NEW s \in Call, pc[s] = "joining"
               PROVE thread[s] \in {"clearing", "ended"} \/ s \in cancelled
    BY DEF JoinIsShort
  <2>1. future[s] \in Outcome \cup {"cancelled"}
    BY DEF Inv, TypeOK, Recorded
  <2>2. CASE future[s] = "cancelled"
    BY <2>2 DEF Inv, Recorded
  <2>3. CASE future[s] \in Outcome
    BY <2>3 DEF Inv, AnswerIsLast, Answered
  <2> QED BY <2>1, <2>2, <2>3
<1> QED BY <1>1, InvAlways, PTL

(* A shutdown raises only because of the executor itself or because another *)
(* shutdown's thread came to its end first.                                 *)
THEOREM OnlySecondShutdownsFail == ContextSpec => []SoleShutdownSucceeds
<1>1. Inv => SoleShutdownSucceeds
  BY DEF Inv, FailureIsExcused, RaisedIsError, ErrorExcused, Excused, AnotherEnded, SoleShutdownSucceeds
<1> QED BY <1>1, InvAlways, PTL

(* No executor that run_in_executor() made is lost by a thread that clears *)
(* _default_executor late, or by close().                                  *)
THEOREM MadeExecutorsAreEnded == ContextSpec => []MadeExecutorsEnd
<1>1. Inv => MadeExecutorsEnd
  BY DEF Inv, MadeAreKept, MadeExecutorsEnd
<1> QED BY <1>1, InvAlways, PTL

(* A with statement that ran its finally clause to the end leaves a closed   *)
(* proxy, the parent's settings, no job, and the exception of the body,      *)
(* whatever the tasks left over did meanwhile.                               *)
THEOREM ExitsAreClean == ContextSpec => []ExitIsClean
<1>1. ContextInv => ExitIsClean
  BY DEF ContextInv, ExitIsClean
<1> QED BY <1>1, InvAlways, PTL
=============================================================================
