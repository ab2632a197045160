------------------------- MODULE ForeignCallsProofs -------------------------
(* Proofs about ForeignCalls, for any number of calls. *)
EXTENDS ForeignCalls, TLAPS

(* A call that was not made has no futures. *)
Made(op) ==
  /\ kind[op] = "none" <=> caller[op] = "absent"
  /\ kind[op] = "none" <=> target[op] = "absent"
  /\ kind[op] = "none" <=> source[op] = "absent"

(* The callbacks of a future are on their way only when it is done, and the *)
(* caller's only as long as it waits.                                       *)
CallbacksFollow(op) ==
  /\ OnItsWay(op, "check") \/ OnItsWay(op, "wakeup") => target[op] \in Outcome
  /\ OnItsWay(op, "set") => source[op] \in Outcome
  /\ OnItsWay(op, "wakeup") => caller[op] = "waiting"
  /\ caller[op] \in Outcome => target[op] \in Outcome

(* What the target holds is the source's, or the program's cancellation. *)
TargetFromSource(op) ==
  /\ target[op] \in {"result", "error"} => source[op] = target[op]
  /\ target[op] = "cancelled" => op \in cancelled \/ source[op] = "cancelled"

(* The inductive invariant: the two properties of callers follow from what *)
(* the futures hold and which of their callbacks are on their way.         *)
Inv ==
  /\ TypeOK
  /\ \A op \in Op : Made(op) /\ CallbacksFollow(op) /\ TargetFromSource(op)
  /\ AnswerIsSources
  /\ CallIsAnswered

(* At first no call was made. *)
LEMMA InitInv == Init => Inv
  BY DEF Init, Inv, TypeOK, Made, CallbacksFollow, TargetFromSource, AnswerIsSources,
         CallIsAnswered, OnItsWay, Outcome, Callback

(* Scheduling callbacks that are not on their way keeps the queue and the *)
(* thrown away ones apart, and puts the callbacks into one of the two.    *)
LEMMA ScheduleKeeps ==
  ASSUME NEW op \in Op, NEW C \in SUBSET Callback, NEW rest \in SUBSET queued,
         TypeOK, Schedule(op, C, rest),
         \A c \in C : ~OnItsWay(op, c)
  PROVE  /\ queued' \subseteq Op \X Callback
         /\ lost' \subseteq (Op \X Callback) \ queued'
         /\ queued' \cup lost' = rest \cup lost \cup ({op} \X C)
<1>1. CASE closed /\ \E c \in C : ByProxy(op, c)
  BY <1>1 DEF Schedule, TypeOK, OnItsWay
<1>2. CASE ~(closed /\ \E c \in C : ByProxy(op, c))
  BY <1>2 DEF Schedule, TypeOK, OnItsWay
<1> QED BY <1>1, <1>2

(* Every call, callback and cancellation, the shutdown and the close keep *)
(* the invariant.                                                         *)
LEMMA InvStep == Inv /\ [Next]_vars => Inv'
<1> SUFFICES ASSUME Inv, [Next]_vars PROVE Inv'
  OBVIOUS
<1> USE DEF Outcome, Callback
<1>1. ASSUME NEW op \in Op, NEW k \in {"coroutine", "executor", "main"}, ChainFuture(op, k)
      PROVE Inv'
  BY <1>1 DEF ChainFuture, Inv, TypeOK, Made, CallbacksFollow, TargetFromSource,
              AnswerIsSources, CallIsAnswered, OnItsWay
<1>2. ASSUME NEW op \in Op, SourceEnds(op) PROVE Inv'
  <2>1. ~OnItsWay(op, "set")
    BY <1>2 DEF SourceEnds, Inv, CallbacksFollow
  <2>2. /\ queued' \subseteq Op \X Callback
        /\ lost' \subseteq (Op \X Callback) \ queued'
        /\ queued' \cup lost' = queued \cup lost \cup ({op} \X {"set"})
    BY <1>2, <2>1, ScheduleKeeps DEF SourceEnds, Inv
  <2>3. PICK s \in Outcome : source' = [source EXCEPT ![op] = s]
    BY <1>2 DEF SourceEnds
  <2>4. /\ source[op] = "pending"
        /\ UNCHANGED <<kind, caller, target, asked, must, cancelled, closed>>
    BY <1>2 DEF SourceEnds
  <2> QED BY <2>2, <2>3, <2>4 DEF Inv, TypeOK, Made, CallbacksFollow, TargetFromSource,
              AnswerIsSources, CallIsAnswered, OnItsWay
<1>3. ASSUME NEW op \in Op, CancelCaller(op) PROVE Inv'
  <2>1. /\ caller[op] = "waiting"
        /\ cancelled' = cancelled \cup {op}
        /\ UNCHANGED <<kind, caller, source, asked, closed>>
    BY <1>3 DEF CancelCaller
  <2>2. CASE target[op] = "pending"
    <3>1. /\ target' = [target EXCEPT ![op] = "cancelled"]
          /\ Schedule(op, {"check", "wakeup"}, queued)
          /\ UNCHANGED must
      BY <1>3, <2>2 DEF CancelCaller
    <3>2. ~OnItsWay(op, "check") /\ ~OnItsWay(op, "wakeup")
      BY <2>2 DEF Inv, CallbacksFollow
    <3>3. /\ queued' \subseteq Op \X Callback
          /\ lost' \subseteq (Op \X Callback) \ queued'
          /\ queued' \cup lost' = queued \cup lost \cup ({op} \X {"check", "wakeup"})
      BY <3>1, <3>2, ScheduleKeeps DEF Inv
    <3> QED BY <2>1, <2>2, <3>1, <3>3 DEF Inv, TypeOK, Made, CallbacksFollow,
                TargetFromSource, AnswerIsSources, CallIsAnswered, OnItsWay
  <2>3. CASE target[op] # "pending"
    <3>1. must' = must \cup {op} /\ UNCHANGED <<target, queued, lost>>
      BY <1>3, <2>3 DEF CancelCaller
    <3> QED BY <2>1, <2>3, <3>1 DEF Inv, TypeOK, Made, CallbacksFollow,
                TargetFromSource, AnswerIsSources, CallIsAnswered, OnItsWay
  <2> QED BY <2>2, <2>3
<1>4. ASSUME NEW op \in Op, CheckCancel(op) PROVE Inv'
  <2>1. /\ <<op, "check">> \in queued
        /\ UNCHANGED <<kind, caller, target, must, cancelled, closed>>
    BY <1>4 DEF CheckCancel, Take
  <2>2. CASE target[op] = "cancelled" /\ source[op] = "pending" /\ kind[op] = "executor"
    <3>1. /\ source' = [source EXCEPT ![op] = "cancelled"]
          /\ Schedule(op, {"set"}, Rest(op, "check"))
          /\ UNCHANGED asked
      BY <1>4, <2>2 DEF CheckCancel
    <3>2. ~OnItsWay(op, "set") /\ Rest(op, "check") \subseteq queued
      BY <2>2 DEF Inv, CallbacksFollow, Rest
    <3>3. /\ queued' \subseteq Op \X Callback
          /\ lost' \subseteq (Op \X Callback) \ queued'
          /\ queued' \cup lost' = Rest(op, "check") \cup lost \cup ({op} \X {"set"})
      BY <3>1, <3>2, ScheduleKeeps DEF Inv
    <3> QED BY <2>1, <2>2, <3>1, <3>3 DEF Rest, Inv, TypeOK, Made, CallbacksFollow,
                TargetFromSource, AnswerIsSources, CallIsAnswered, OnItsWay
  <2>3. CASE ~(target[op] = "cancelled" /\ source[op] = "pending" /\ kind[op] = "executor")
    <3>1. /\ queued' = queued \ {<<op, "check">>}
          /\ UNCHANGED <<source, lost>>
          /\ \/ UNCHANGED asked
             \/ asked' = asked \cup {op} /\ kind[op] \in {"coroutine", "main"}
      <4>1. source[op] = "pending" => kind[op] # "none"
        BY DEF Inv, Made
      <4> QED BY <1>4, <2>3, <4>1 DEF CheckCancel, Rest, Inv, TypeOK
    <3> QED BY <2>1, <3>1 DEF Inv, TypeOK, Made, CallbacksFollow,
                TargetFromSource, AnswerIsSources, CallIsAnswered, OnItsWay
  <2> QED BY <2>2, <2>3
<1>5. ASSUME NEW op \in Op, SetState(op) PROVE Inv'
  <2>1. /\ <<op, "set">> \in queued
        /\ UNCHANGED <<kind, caller, source, asked, must, cancelled, closed>>
    BY <1>5 DEF SetState, Take
  <2>2. source[op] \in Outcome
    BY <2>1 DEF Inv, CallbacksFollow, OnItsWay
  <2>3. CASE target[op] = "pending"
    <3>1. /\ target' = [target EXCEPT ![op] = source[op]]
          /\ Schedule(op, {"check", "wakeup"}, Rest(op, "set"))
      BY <1>5, <2>3 DEF SetState
    <3>2. /\ ~OnItsWay(op, "check") /\ ~OnItsWay(op, "wakeup")
          /\ Rest(op, "set") \subseteq queued
      BY <2>3 DEF Inv, CallbacksFollow, Rest
    <3>3. /\ queued' \subseteq Op \X Callback
          /\ lost' \subseteq (Op \X Callback) \ queued'
          /\ queued' \cup lost' =
               Rest(op, "set") \cup lost \cup ({op} \X {"check", "wakeup"})
      BY <3>1, <3>2, ScheduleKeeps DEF Inv
    <3>4. caller[op] = "waiting"
      BY <2>3 DEF Inv, TypeOK, Made, CallbacksFollow
    <3> QED BY <2>1, <2>2, <2>3, <3>1, <3>3, <3>4 DEF Rest, Inv, TypeOK, Made,
                CallbacksFollow, TargetFromSource, AnswerIsSources, CallIsAnswered, OnItsWay
  <2>4. CASE target[op] # "pending"
    <3>1. queued' = queued \ {<<op, "set">>} /\ UNCHANGED <<target, lost>>
      BY <1>5, <2>4 DEF SetState, Rest
    <3> QED BY <2>1, <2>4, <3>1 DEF Inv, TypeOK, Made, CallbacksFollow,
                TargetFromSource, AnswerIsSources, CallIsAnswered, OnItsWay
  <2> QED BY <2>3, <2>4
<1>6. ASSUME NEW op \in Op, Wakeup(op) PROVE Inv'
  <2>1. /\ <<op, "wakeup">> \in queued
        /\ queued' = queued \ {<<op, "wakeup">>}
        /\ caller' = [caller EXCEPT ![op] = IF op \in must THEN "cancelled" ELSE target[op]]
        /\ UNCHANGED <<kind, target, source, asked, must, lost, cancelled, closed>>
    BY <1>6 DEF Wakeup, Take, Rest
  <2>2. target[op] \in Outcome /\ caller[op] = "waiting"
    BY <2>1 DEF Inv, CallbacksFollow, OnItsWay
  <2>3. TypeOK'
    BY <2>1, <2>2 DEF Inv, TypeOK
  <2>4. \A o \in Op, c \in Callback :
          OnItsWay(o, c)' <=> OnItsWay(o, c) /\ (o # op \/ c # "wakeup")
    BY <2>1 DEF Inv, TypeOK, OnItsWay
  <2>5. \A o \in Op : caller'[o] = IF o # op THEN caller[o]
                                   ELSE IF op \in must THEN "cancelled" ELSE target[op]
    BY <2>1 DEF Inv, TypeOK
  <2>6. \A o \in Op : Made(o)' /\ CallbacksFollow(o)' /\ TargetFromSource(o)'
    BY <2>1, <2>2, <2>4, <2>5 DEF Inv, Made, CallbacksFollow, TargetFromSource
  <2>7. AnswerIsSources'
    BY <2>1, <2>2, <2>5 DEF Inv, TypeOK, TargetFromSource, AnswerIsSources
  <2>8. CallIsAnswered'
    BY <2>1, <2>2, <2>4, <2>5 DEF Inv, CallIsAnswered
  <2> QED BY <2>3, <2>6, <2>7, <2>8 DEF Inv
<1>7. CASE SweepHandles
  <2>1. /\ queued' \cup lost' = queued \cup lost
        /\ queued' \subseteq queued
        /\ lost' \cap queued' = {}
        /\ UNCHANGED <<kind, caller, target, source, asked, must, cancelled, closed>>
    BY <1>7 DEF SweepHandles, Swept, Inv, TypeOK
  <2> QED BY <2>1 DEF Inv, TypeOK, Made, CallbacksFollow,
              TargetFromSource, AnswerIsSources, CallIsAnswered, OnItsWay
<1>8. CASE Close
  BY <1>8 DEF Close, Inv, TypeOK, Made, CallbacksFollow, TargetFromSource,
              AnswerIsSources, CallIsAnswered, OnItsWay
<1>9. CASE UNCHANGED vars
  BY <1>9 DEF vars, Inv, TypeOK, Made, CallbacksFollow, TargetFromSource,
              AnswerIsSources, CallIsAnswered, OnItsWay
<1> QED
  BY <1>1, <1>2, <1>3, <1>4, <1>5, <1>6, <1>7, <1>8, <1>9
     DEF Next, NewCall, LoopMethod, ServerMethod, WrapAsync, RunInExecutor, RunUntilComplete,
         RunCallback

(* The invariant holds in every behaviour. *)
LEMMA InvAlways == Spec => []Inv
  BY InitInv, InvStep, PTL DEF Spec

(* For any number of calls the state is well typed: a callback is queued or *)
(* thrown away, never both, and only tasks have a pending cancellation.     *)
THEOREM TypeCorrect == Spec => []TypeOK
<1>1. Inv => TypeOK
  BY DEF Inv
<1> QED BY <1>1, InvAlways, PTL

(* However answers, cancellations, shutdown and close are interleaved, a    *)
(* caller hears what the source had to say, or a cancellation that was      *)
(* asked for.                                                               *)
THEOREM AnswersAreSound == Spec => []AnswerIsSources
<1>1. Inv => AnswerIsSources
  BY DEF Inv
<1> QED BY <1>1, InvAlways, PTL

(* No caller is forgotten: as long as it waits its source runs, or the     *)
(* callback it needs is queued or was thrown away by shutdown or close.    *)
THEOREM CallersAreAnswered == Spec => []CallIsAnswered
<1>1. Inv => CallIsAnswered
  BY DEF Inv
<1> QED BY <1>1, InvAlways, PTL
=============================================================================
