---------------------------- MODULE ProxyTaskProofs ----------------------------
(* Proofs about ProxyTask, for any tasks and any futures of any loops. *)
EXTENDS ProxyTask, TLAPS, FiniteSetTheorems, WellFoundedInduction

-----------------------------------------------------------------------------
(* What Task.cancel() ends at *)

(* A set of numbers that is not empty has a least one. *)
LEMMA LeastNatural ==
  ASSUME NEW T, T \subseteq Nat, T # {}
  PROVE  \E m \in T : \A n \in T : m <= n
<1>1. IsWellFoundedOn(OpToRel(<, Nat), Nat)
  BY NatLessThanWellFounded
<1>2. PICK m \in T : \A n \in T : <<n, m>> \notin OpToRel(<, Nat)
  BY <1>1, WFMin
<1>3. \A n \in T : ~(n < m)
  BY <1>2 DEF OpToRel
<1> QED BY <1>3

(* Induction over the members of a set of numbers. *)
LEMMA SetInduction ==
  ASSUME NEW T, 0 \in T, \A n \in Nat : n \in T => n + 1 \in T
  PROVE  Nat \subseteq T
<1>1. SUFFICES ASSUME Nat \ T # {}
               PROVE  FALSE
  OBVIOUS
<1>2. PICK m \in Nat \ T : \A n \in Nat \ T : m <= n
  BY <1>1, LeastNatural
<1>3. m - 1 \in Nat /\ m - 1 \in T
  BY <1>2
<1> QED BY <1>2, <1>3

(* One step down the chain of waiters. *)
Down(o) == IF Stops(o) THEN o ELSE waiter[o]

(* It does not leave the tasks and futures. *)
LEMMA DownIsAwaitable ==
  ASSUME TypeOK, NEW o \in Awaitable
  PROVE  Down(o) \in Awaitable
<1>1. CASE Stops(o)
  BY <1>1 DEF Down
<1>2. CASE ~Stops(o)
  BY <1>2 DEF Down, Stops, TypeOK
<1> QED BY <1>1, <1>2

(* There are chains of any length. *)
LEMMA ChainsExist ==
  ASSUME TypeOK, NEW o \in Awaitable
  PROVE  \A k \in Nat : \E g \in [0..k -> Awaitable] :
           g = [n \in 0..k |-> IF n = 0 THEN o ELSE Down(g[n - 1])]
<1> DEFINE Chain(g, k) == g = [n \in 0..k |-> IF n = 0 THEN o ELSE Down(g[n - 1])]
           T == {k \in Nat : \E g \in [0..k -> Awaitable] : Chain(g, k)}
<1>1. 0 \in T
  <2>1. [n \in 0..0 |-> o] \in [0..0 -> Awaitable] /\ Chain([n \in 0..0 |-> o], 0)
    OBVIOUS
  <2> QED BY <2>1
<1>2. ASSUME NEW k \in Nat, k \in T
      PROVE  k + 1 \in T
  <2>1. PICK g \in [0..k -> Awaitable] : Chain(g, k)
    BY <1>2
  <2>2. \A n \in 0..k : g[n] = IF n = 0 THEN o ELSE Down(g[n - 1])
    BY <2>1
  <2> HIDE DEF Chain
  <2> DEFINE h == [n \in 0..k + 1 |-> IF n = k + 1 THEN Down(g[k]) ELSE g[n]]
  <2>3. h \in [0..k + 1 -> Awaitable]
    <3>1. Down(g[k]) \in Awaitable
      BY DownIsAwaitable
    <3> QED BY <3>1
  <2>4. \A n \in 0..k + 1 : h[n] = IF n = 0 THEN o ELSE Down(h[n - 1])
    <3>1. \A n \in 0..k : h[n] = g[n]
      OBVIOUS
    <3>2. h[k + 1] = Down(h[k])
      BY <3>1
    <3>3. \A n \in 0..k : n # 0 => n - 1 \in 0..k
      OBVIOUS
    <3> HIDE DEF h
    <3> QED BY <2>2, <3>1, <3>2, <3>3
  <2>5. Chain(h, k + 1)
    <3>1. h = [n \in 0..k + 1 |-> h[n]]
      OBVIOUS
    <3> HIDE DEF h
    <3> QED BY <2>4, <3>1 DEF Chain
  <2> QED BY <2>3, <2>5
<1> HIDE DEF T
<1>3. Nat \subseteq T
  BY <1>1, <1>2, SetInduction
<1> QED BY <1>3 DEF T

(* CancelTarget goes down a chain of waiters as many steps as there are tasks. *)
Follows(F, o, k) ==
  /\ F \in [0..k -> Awaitable]
  /\ F[0] = o
  /\ \A n \in 0..k : n + 1 <= k => F[n + 1] = Down(F[n])

LEMMA TargetUnfolds ==
  ASSUME TypeOK, NEW o \in Awaitable
  PROVE  \E F : Follows(F, o, Cardinality(Task)) /\ CancelTarget(o) = F[Cardinality(Task)]
<1> DEFINE K == Cardinality(Task)
           F == CHOOSE f : f = [n \in 0..K |-> IF n = 0 THEN o ELSE Down(f[n - 1])]
           T == {n \in Nat : n <= K => F[n] \in Awaitable}
<1>1. K \in Nat
  BY FS_CardinalityType, TaskAssumption
<1>2. CancelTarget(o) = F[K]
  BY DEF CancelTarget, Down
<1>3. F = [n \in 0..K |-> IF n = 0 THEN o ELSE Down(F[n - 1])]
  <2>1. \E f : f = [n \in 0..K |-> IF n = 0 THEN o ELSE Down(f[n - 1])]
    BY <1>1, ChainsExist
  <2> QED BY <2>1
<1> HIDE DEF K, F
<1>4. 0 \in T
  BY <1>1, <1>3
<1>5. ASSUME NEW n \in Nat, n \in T
      PROVE  n + 1 \in T
  <2> SUFFICES ASSUME n + 1 <= K
               PROVE  F[n + 1] \in Awaitable
    OBVIOUS
  <2>1. F[n] \in Awaitable
    BY <1>1, <1>5
  <2>2. F[n + 1] = Down(F[n])
    BY <1>1, <1>3
  <2> QED BY <2>1, <2>2, DownIsAwaitable
<1> HIDE DEF T
<1>6. Nat \subseteq T
  BY <1>4, <1>5, SetInduction
<1>7. F[0] = o /\ \A n \in 0..K : n + 1 <= K => F[n + 1] = Down(F[n])
  BY <1>1, <1>3
<1>8. \A n \in 0..K : F[n] \in Awaitable
  BY <1>1, <1>6 DEF T
<1>9. Follows(F, o, K)
  BY <1>3, <1>7, <1>8 DEF Follows
<1> QED BY <1>2, <1>9 DEF K

(* cancel() ends at a task or a future: the chain of waiters leads nowhere *)
(* else.                                                                   *)
LEMMA TargetIsAwaitable ==
  ASSUME TypeOK
  PROVE  \A o \in Awaitable : CancelTarget(o) \in Awaitable
<1> SUFFICES ASSUME NEW o \in Awaitable
             PROVE  CancelTarget(o) \in Awaitable
  OBVIOUS
<1>1. Cardinality(Task) \in Nat
  BY FS_CardinalityType, TaskAssumption
<1> QED BY <1>1, TargetUnfolds DEF Follows

-----------------------------------------------------------------------------
(* The inductive invariant: StepOrWait, NoStaleWakeup and OwedCancelIsCarried, *)
(* and with them what they take for granted                                    *)

(* The task whose coroutine runs is pending and awaits nothing; only a pending *)
(* task awaits, and never what does not exist.                                 *)
WaitersFit ==
  /\ current # None => state[current] = "pending" /\ waiter[current] = None
  /\ \A t \in Task : waiter[t] # None => state[t] = "pending" /\ state[waiter[t]] # "absent"

Inv == /\ TypeOK
       /\ WaitersFit
       /\ StepOrWait
       /\ NoStaleWakeup
       /\ OwedCancelIsCarried

(* A cancel() of what is pending ends at what is pending: only a pending future *)
(* or task is asked further down the chain.                                     *)
LEMMA TargetIsPending ==
  ASSUME TypeOK, WaitersFit, NEW o \in Awaitable, state[o] = "pending"
  PROVE  state[CancelTarget(o)] = "pending"
<1> DEFINE K == Cardinality(Task)
<1>1. K \in Nat
  BY FS_CardinalityType, TaskAssumption
<1>2. PICK F : Follows(F, o, K) /\ CancelTarget(o) = F[K]
  BY TargetUnfolds
<1> HIDE DEF K
<1> DEFINE T == {n \in Nat : n <= K => state[F[n]] = "pending"}
<1>3. 0 \in T
  BY <1>1, <1>2 DEF Follows
<1>4. ASSUME NEW n \in Nat, n \in T
      PROVE  n + 1 \in T
  <2> SUFFICES ASSUME n + 1 <= K
               PROVE  state[F[n + 1]] = "pending"
    OBVIOUS
  <2>1. F[n] \in Awaitable /\ F[n + 1] = Down(F[n]) /\ state[F[n]] = "pending"
    BY <1>1, <1>2, <1>4 DEF Follows
  <2>2. CASE Stops(F[n])
    BY <2>1, <2>2 DEF Down
  <2>3. CASE ~Stops(F[n])
    <3>1. F[n] \in Task /\ waiter[F[n]] # None /\ ~Done(waiter[F[n]])
      BY <2>3 DEF Stops
    <3>2. waiter[F[n]] \in Awaitable /\ state[waiter[F[n]]] # "absent"
      BY <3>1 DEF TypeOK, WaitersFit
    <3> QED BY <2>1, <2>3, <3>1, <3>2 DEF Down, Done, TypeOK
  <2> QED BY <2>2, <2>3
<1> HIDE DEF T
<1>5. Nat \subseteq T
  BY <1>3, <1>4, SetInduction
<1> QED BY <1>1, <1>2, <1>5 DEF T
-----------------------------------------------------------------------------
(* One step per action *)

(* Queueing and scheduling count calls. *)
LEMMA QueueType ==
  ASSUME TypeOK
  PROVE  \A t \in Task, c \in Call : Queue(t, c) \in [Task -> [Call -> Nat]]
<1> SUFFICES ASSUME NEW t \in Task, NEW c \in Call
             PROVE  Queue(t, c) \in [Task -> [Call -> Nat]]
  OBVIOUS
<1>1. calls \in [Task -> [Call -> Nat]]
  BY DEF TypeOK
<1>2. calls[t][c] + 1 \in Nat
  BY <1>1
<1> QED BY <1>1, <1>2 DEF Queue

LEMMA ScheduledType ==
  ASSUME TypeOK
  PROVE  \A o \in Awaitable : \A W : Scheduled(o, W) \in [Task -> [Call -> Nat]]
<1> SUFFICES ASSUME NEW o \in Awaitable, NEW W
             PROVE  Scheduled(o, W) \in [Task -> [Call -> Nat]]
  OBVIOUS
<1>1. calls \in [Task -> [Call -> Nat]]
  BY DEF TypeOK
<1>2. ASSUME NEW t \in Task
      PROVE  [calls[t] EXCEPT ![o] = calls[t][o] + 1] \in [Call -> Nat]
  BY <1>1 DEF Call
<1> QED BY <1>1, <1>2 DEF Scheduled

(* A queued callback that runs is the only one of its task, which is pending; *)
(* __wakeup() is that of the future the task awaits, and that one is done.    *)
Stepped(t, c) ==
  /\ current = None /\ state[t] = "pending" /\ OnlyCall(t, c)
  /\ waiter[t] = None \/ (c = waiter[t] /\ Done(waiter[t]))
  /\ calls' = [calls EXCEPT ![t][c] = 0]
  /\ mustCancel' = [mustCancel EXCEPT ![t] = FALSE]
  /\ waiter' = [waiter EXCEPT ![t] = None]
  /\ current' = t
  /\ resumedOn' = [resumedOn EXCEPT ![t] =
       IF c \in Awaitable /\ LoopOfAny(c) = "parent" THEN "parent" ELSE "proxy"]
  /\ owed' = IF Delivered(t, c) = "cancel" THEN owed \ {t} ELSE owed
  /\ UNCHANGED <<state, callbacks, closed>>

LEMMA StepEffect ==
  ASSUME TypeOK, StepOrWait
  PROVE  \A t \in Task, c \in Call : Step(t, c) => Stepped(t, c)
<1> SUFFICES ASSUME NEW t \in Task, NEW c \in Call, Step(t, c)
             PROVE  Stepped(t, c)
  OBVIOUS
<1>1. current = None /\ calls[t][c] > 0 /\ calls[t][c] \in Nat /\ t # None
  BY TaskAssumption DEF Step, TypeOK, Call, Awaitable
<1>2. ~NoCall(t)
  BY <1>1 DEF NoCall
<1>3. state[t] = "pending" /\ t # current
  BY <1>1, <1>2 DEF StepOrWait
<1>4. ToBeStepped(t) \/ ToBeWoken(t)
  BY <1>2, <1>3 DEF StepOrWait, Waiting
<1>5. OnlyCall(t, c) /\ (waiter[t] = None \/ (c = waiter[t] /\ Done(waiter[t])))
  <2>1. CASE ToBeStepped(t)
    <3>1. PICK d \in {"step", "error"} : OnlyCall(t, d)
      BY <2>1 DEF ToBeStepped
    <3>2. d = c
      BY <1>1, <3>1 DEF OnlyCall
    <3> QED BY <2>1, <3>1, <3>2 DEF ToBeStepped
  <2>2. CASE ToBeWoken(t)
    <3>1. waiter[t] = c
      BY <1>1, <2>2 DEF ToBeWoken, OnlyCall
    <3> QED BY <2>2, <3>1 DEF ToBeWoken
  <2> QED BY <1>4, <2>1, <2>2
<1>6. calls[t][c] = 1
  BY <1>5 DEF OnlyCall
<1>7. calls' = [calls EXCEPT ![t][c] = 0]
  BY <1>6 DEF Step
<1>8. ~Done(t)
  BY <1>3 DEF Done
<1> QED BY <1>1, <1>3, <1>5, <1>7, <1>8 DEF Step, Stepped

(* Every step keeps the types; above all, no task comes to wait for itself. *)
LEMMA TypeStep ==
  TypeOK /\ StepOrWait /\ [Next]_vars => TypeOK'
<1> SUFFICES ASSUME TypeOK, StepOrWait, [Next]_vars
             PROVE  TypeOK'
  OBVIOUS
<1>t. \A o \in Awaitable : CancelTarget(o) \in Awaitable
  BY TargetIsAwaitable
<1>s. \A t \in Task, c \in Call : Step(t, c) => Stepped(t, c)
  BY StepEffect
<1>q. \A t \in Task, c \in Call : Queue(t, c) \in [Task -> [Call -> Nat]]
  BY QueueType
<1>w. \A o \in Awaitable : \A W : Scheduled(o, W) \in [Task -> [Call -> Nat]]
  BY ScheduledType
<1> USE TaskAssumption DEF TypeOK, Call, Awaitable
<1>1. ASSUME NEW f \in Future, SetResult(f) PROVE TypeOK'
  <2>1. calls' \in [Task -> [Call -> Nat]]
    BY <1>1, <1>w DEF SetResult, Complete
  <2> QED BY <1>1, <2>1 DEF SetResult, Complete
<1>2. ASSUME NEW f \in Future, SetException(f) PROVE TypeOK'
  <2>1. calls' \in [Task -> [Call -> Nat]]
    BY <1>2, <1>w DEF SetException, Complete
  <2> QED BY <1>2, <2>1 DEF SetException, Complete
<1>3. ASSUME NEW f \in Future, CancelFuture(f) PROVE TypeOK'
  <2>1. calls' \in [Task -> [Call -> Nat]]
    BY <1>3, <1>w DEF CancelFuture, Complete
  <2> QED BY <1>3, <2>1 DEF CancelFuture, Complete, Awaiting
<1>4. ASSUME NEW t \in Task, CreateTask(t) PROVE TypeOK'
  <2>1. calls' \in [Task -> [Call -> Nat]]
    BY <1>4, <1>q DEF CreateTask
  <2> QED BY <1>4, <2>1 DEF CreateTask
<1>5. ASSUME NEW t \in Task, CancelTask(t) PROVE TypeOK'
  <2> DEFINE e == CancelTarget(t)
  <2>1. e \in Awaitable
    BY <1>t DEF Awaitable
  <2>2. CASE e \in Task
    <3>1. /\ mustCancel' = [mustCancel EXCEPT ![e] = TRUE] /\ owed' = owed \cup OwedBy(e, waiter)
          /\ UNCHANGED <<state, callbacks, calls, waiter, current, closed, resumedOn>>
      BY <1>5, <2>2 DEF CancelTask
    <3> HIDE DEF e
    <3> QED BY <2>1, <2>2, <3>1 DEF Complete, OwedBy, Awaiting
  <2>3. CASE e \notin Task
    <3>1. /\ Complete(e, "cancelled", callbacks[e]) /\ owed' = owed \cup OwedBy(e, waiter)
          /\ UNCHANGED <<waiter, mustCancel, current, closed, resumedOn>>
      BY <1>5, <2>3 DEF CancelTask
    <3> HIDE DEF e
    <3>2. calls' \in [Task -> [Call -> Nat]]
      BY <1>w, <2>1, <3>1 DEF Complete
    <3> QED BY <2>1, <2>3, <3>1, <3>2 DEF Complete, OwedBy, Awaiting
  <2> QED BY <2>2, <2>3
<1>6. ASSUME NEW t \in Task, NEW c \in Call, Step(t, c) PROVE TypeOK'
  <2>1. Stepped(t, c)
    BY <1>6, <1>s
  <2> QED BY <2>1 DEF Stepped
<1>7. ASSUME NEW t \in Task, Return(t) PROVE TypeOK'
  <2>1. calls' \in [Task -> [Call -> Nat]]
    BY <1>7, <1>w DEF Return, Leave, Complete
  <2> QED BY <1>7, <2>1 DEF Return, Leave, Complete, Awaiting
<1>8. ASSUME NEW t \in Task, Raise(t, "error") PROVE TypeOK'
  <2>1. calls' \in [Task -> [Call -> Nat]]
    BY <1>8, <1>w DEF Raise, Leave, Complete
  <2> QED BY <1>8, <2>1 DEF Raise, Leave, Complete
<1>9. ASSUME NEW t \in Task, Raise(t, "cancelled") PROVE TypeOK'
  <2>1. calls' \in [Task -> [Call -> Nat]]
    BY <1>9, <1>w DEF Raise, Leave, Complete
  <2> QED BY <1>9, <2>1 DEF Raise, Leave, Complete, Awaiting
<1>10. ASSUME NEW t \in Task, Yield(t) PROVE TypeOK'
  <2>1. calls' \in [Task -> [Call -> Nat]]
    BY <1>10, <1>q DEF Yield, Leave
  <2> QED BY <1>10, <2>1 DEF Yield, Leave
<1>11. ASSUME NEW t \in Task, YieldWrong(t) PROVE TypeOK'
  <2>1. calls' \in [Task -> [Call -> Nat]]
    BY <1>11, <1>q DEF YieldWrong, Leave
  <2> QED BY <1>11, <2>1 DEF YieldWrong, Leave
<1>12. ASSUME NEW t \in Task, NEW o \in Awaitable, Await(t, o) PROVE TypeOK'
  <2> DEFINE e == CancelTarget(o)
  <2>1. /\ e \in Awaitable /\ e # t /\ current = t /\ current' = None
        /\ state[o] = "pending" /\ o # t /\ waiter' = [waiter EXCEPT ![t] = o]
        /\ UNCHANGED <<closed, resumedOn>>
    BY <1>12, <1>t DEF Await, Leave, NoAwaitCycle
  <2>2. CASE ~mustCancel[t]
    <3>1. callbacks' = Registered(t, o) /\ UNCHANGED <<state, calls, mustCancel, owed>>
      BY <1>12, <2>2 DEF Await
    <3> HIDE DEF e
    <3> QED BY <2>1, <2>2, <3>1 DEF Registered, Refused
  <2>3. CASE mustCancel[t] /\ e \in Task
    <3>1. /\ mustCancel' = [mustCancel EXCEPT ![t] = FALSE, ![e] = TRUE]
          /\ callbacks' = Registered(t, o)
          /\ UNCHANGED <<state, calls>>
          /\ owed' = (owed \ {t}) \cup OwedBy(e, [waiter EXCEPT ![t] = o])
      BY <1>12, <2>3 DEF Await, HandOn
    <3> HIDE DEF e
    <3> QED BY <2>1, <2>3, <3>1 DEF Registered, OwedBy
  <2>4. CASE mustCancel[t] /\ e \notin Task
    <3>1. /\ mustCancel' = [mustCancel EXCEPT ![t] = Refused(e, Registered(t, o)[e])]
          /\ state' = [state EXCEPT ![e] = "cancelled"]
          /\ callbacks' = [Registered(t, o) EXCEPT ![e] = {}]
          /\ calls' = Scheduled(e, Registered(t, o)[e])
          /\ owed' = (owed \ {t}) \cup OwedBy(e, [waiter EXCEPT ![t] = o])
      BY <1>12, <2>4 DEF Await, HandOn
    <3> HIDE DEF e
    <3>2. calls' \in [Task -> [Call -> Nat]]
      BY <1>w, <2>1, <3>1
    <3>3. state' \in [Awaitable -> {"absent", "pending", "result", "error", "cancelled"}] /\ \A f \in Future : state'[f] # "absent"
      BY <2>1, <3>1
    <3>4. mustCancel' \in [Task -> BOOLEAN]
      <4>1. Refused(e, Registered(t, o)[e]) \in BOOLEAN
        BY DEF Refused
      <4> QED BY ONLY <3>1, <4>1, TypeOK, t \in Task DEF TypeOK
    <3>5. callbacks' \in [Awaitable -> SUBSET Task]
      BY <2>1, <3>1 DEF Registered
    <3>6. waiter' \in [Task -> Awaitable \cup {None}]
      BY <2>1
    <3>7. \A u \in Task : waiter'[u] # u
      <4>1. waiter'[t] = o /\ \A u \in Task : u # t => waiter'[u] = waiter[u]
        BY <2>1
      <4> QED BY <2>1, <4>1
    <3>8. owed' \subseteq Task
      <4>1. OwedBy(e, [waiter EXCEPT ![t] = o]) \subseteq Task
        BY DEF OwedBy, Awaiting
      <4> QED BY <3>1, <4>1
    <3> QED BY <2>1, <3>2, <3>3, <3>4, <3>5, <3>6, <3>7, <3>8
  <2> QED BY <2>2, <2>3, <2>4
<1>13. ASSUME Close PROVE TypeOK'
  BY <1>13 DEF Close
<1>14. CASE UNCHANGED vars
  BY <1>14 DEF vars
<1> QED
  BY <1>1, <1>2, <1>3, <1>4, <1>5, <1>6, <1>7, <1>8, <1>9, <1>10, <1>11, <1>12, <1>13, <1>14
  DEF Next, Resume, Finish

(* A task waits only for what exists, and not while its coroutine runs. *)
LEMMA FitStep ==
  TypeOK /\ WaitersFit /\ StepOrWait /\ [Next]_vars => WaitersFit'
<1> SUFFICES ASSUME TypeOK, WaitersFit, StepOrWait, [Next]_vars
             PROVE  WaitersFit'
  OBVIOUS
<1>t. \A o \in Awaitable : CancelTarget(o) \in Awaitable
  BY TargetIsAwaitable
<1>s. \A t \in Task, c \in Call : Step(t, c) => Stepped(t, c)
  BY StepEffect
<1> USE TaskAssumption DEF TypeOK, Call, Awaitable, WaitersFit
<1>1. ASSUME NEW f \in Future, SetResult(f) PROVE WaitersFit'
  BY <1>1 DEF SetResult, Complete, Scheduled
<1>2. ASSUME NEW f \in Future, SetException(f) PROVE WaitersFit'
  BY <1>2 DEF SetException, Complete, Scheduled
<1>3. ASSUME NEW f \in Future, CancelFuture(f) PROVE WaitersFit'
  BY <1>3 DEF CancelFuture, Complete, Scheduled
<1>4. ASSUME NEW t \in Task, CreateTask(t) PROVE WaitersFit'
  BY <1>4 DEF CreateTask, Queue
<1>5. ASSUME NEW t \in Task, CancelTask(t) PROVE WaitersFit'
  <2> DEFINE e == CancelTarget(t)
  <2>1. e \in Awaitable
    BY <1>t DEF Awaitable
  <2>2. CASE e \in Task
    <3>1. /\ mustCancel' = [mustCancel EXCEPT ![e] = TRUE] /\ owed' = owed \cup OwedBy(e, waiter)
          /\ UNCHANGED <<state, callbacks, calls, waiter, current, closed, resumedOn>>
      BY <1>5, <2>2 DEF CancelTask
    <3> HIDE DEF e
    <3> QED BY <2>1, <2>2, <3>1 DEF Complete
  <2>3. CASE e \notin Task
    <3>1. /\ Complete(e, "cancelled", callbacks[e]) /\ owed' = owed \cup OwedBy(e, waiter)
          /\ UNCHANGED <<waiter, mustCancel, current, closed, resumedOn>>
      BY <1>5, <2>3 DEF CancelTask
    <3> HIDE DEF e
    <3> QED BY <2>1, <2>3, <3>1 DEF Complete
  <2> QED BY <2>2, <2>3
<1>6. ASSUME NEW t \in Task, NEW c \in Call, Step(t, c) PROVE WaitersFit'
  <2>1. Stepped(t, c)
    BY <1>6, <1>s
  <2> QED BY <2>1 DEF Stepped
<1>7. ASSUME NEW t \in Task, Return(t) PROVE WaitersFit'
  BY <1>7 DEF Return, Leave, Complete, Scheduled
<1>8. ASSUME NEW t \in Task, Raise(t, "error") PROVE WaitersFit'
  BY <1>8 DEF Raise, Leave, Complete, Scheduled
<1>9. ASSUME NEW t \in Task, Raise(t, "cancelled") PROVE WaitersFit'
  BY <1>9 DEF Raise, Leave, Complete, Scheduled
<1>10. ASSUME NEW t \in Task, Yield(t) PROVE WaitersFit'
  BY <1>10 DEF Yield, Leave, Queue
<1>11. ASSUME NEW t \in Task, YieldWrong(t) PROVE WaitersFit'
  BY <1>11 DEF YieldWrong, Leave, Queue
<1>12. ASSUME NEW t \in Task, NEW o \in Awaitable, Await(t, o) PROVE WaitersFit'
  <2> DEFINE e == CancelTarget(o)
  <2>1. /\ e \in Awaitable /\ e # t /\ current = t /\ current' = None
        /\ state[o] = "pending" /\ o # t /\ waiter' = [waiter EXCEPT ![t] = o]
        /\ UNCHANGED <<closed, resumedOn>>
    BY <1>12, <1>t DEF Await, Leave, NoAwaitCycle
  <2>2. CASE ~mustCancel[t]
    <3>1. callbacks' = Registered(t, o) /\ UNCHANGED <<state, calls, mustCancel, owed>>
      BY <1>12, <2>2 DEF Await
    <3> HIDE DEF e
    <3> QED BY <2>1, <2>2, <3>1 DEF Registered
  <2>3. CASE mustCancel[t] /\ e \in Task
    <3>1. /\ mustCancel' = [mustCancel EXCEPT ![t] = FALSE, ![e] = TRUE]
          /\ callbacks' = Registered(t, o)
          /\ UNCHANGED <<state, calls>>
          /\ owed' = (owed \ {t}) \cup OwedBy(e, [waiter EXCEPT ![t] = o])
      BY <1>12, <2>3 DEF Await, HandOn
    <3> HIDE DEF e
    <3> QED BY <2>1, <2>3, <3>1 DEF Registered
  <2>4. CASE mustCancel[t] /\ e \notin Task
    <3>1. /\ mustCancel' = [mustCancel EXCEPT ![t] = Refused(e, Registered(t, o)[e])]
          /\ state' = [state EXCEPT ![e] = "cancelled"]
          /\ callbacks' = [Registered(t, o) EXCEPT ![e] = {}]
          /\ calls' = Scheduled(e, Registered(t, o)[e])
          /\ owed' = (owed \ {t}) \cup OwedBy(e, [waiter EXCEPT ![t] = o])
      BY <1>12, <2>4 DEF Await, HandOn
    <3> HIDE DEF e
    <3> QED BY <2>1, <2>4, <3>1 DEF Registered
  <2> QED BY <2>2, <2>3, <2>4
<1>13. ASSUME Close PROVE WaitersFit'
  BY <1>13 DEF Close
<1>14. CASE UNCHANGED vars
  BY <1>14 DEF vars
<1> QED
  BY <1>1, <1>2, <1>3, <1>4, <1>5, <1>6, <1>7, <1>8, <1>9, <1>10, <1>11, <1>12, <1>13, <1>14
  DEF Next, Resume, Finish

(* A __wakeup() is registered when the task begins to wait, and is gone from *)
(* the future before the task is resumed.                                    *)
LEMMA StaleStep ==
  TypeOK /\ WaitersFit /\ StepOrWait /\ NoStaleWakeup /\ [Next]_vars => NoStaleWakeup'
<1> SUFFICES ASSUME TypeOK, WaitersFit, StepOrWait, NoStaleWakeup, [Next]_vars
             PROVE  NoStaleWakeup'
  OBVIOUS
<1>t. \A o \in Awaitable : CancelTarget(o) \in Awaitable
  BY TargetIsAwaitable
<1>s. \A t \in Task, c \in Call : Step(t, c) => Stepped(t, c)
  BY StepEffect
<1> USE TaskAssumption DEF TypeOK, Call, Awaitable, WaitersFit, NoStaleWakeup
<1>1. ASSUME NEW f \in Future, SetResult(f) PROVE NoStaleWakeup'
  BY <1>1 DEF SetResult, Complete, Scheduled
<1>2. ASSUME NEW f \in Future, SetException(f) PROVE NoStaleWakeup'
  BY <1>2 DEF SetException, Complete, Scheduled
<1>3. ASSUME NEW f \in Future, CancelFuture(f) PROVE NoStaleWakeup'
  BY <1>3 DEF CancelFuture, Complete, Scheduled
<1>4. ASSUME NEW t \in Task, CreateTask(t) PROVE NoStaleWakeup'
  BY <1>4 DEF CreateTask, Queue
<1>5. ASSUME NEW t \in Task, CancelTask(t) PROVE NoStaleWakeup'
  <2> DEFINE e == CancelTarget(t)
  <2>1. e \in Awaitable
    BY <1>t DEF Awaitable
  <2>2. CASE e \in Task
    <3>1. /\ mustCancel' = [mustCancel EXCEPT ![e] = TRUE] /\ owed' = owed \cup OwedBy(e, waiter)
          /\ UNCHANGED <<state, callbacks, calls, waiter, current, closed, resumedOn>>
      BY <1>5, <2>2 DEF CancelTask
    <3> HIDE DEF e
    <3> QED BY <2>1, <2>2, <3>1 DEF Complete
  <2>3. CASE e \notin Task
    <3>1. /\ Complete(e, "cancelled", callbacks[e]) /\ owed' = owed \cup OwedBy(e, waiter)
          /\ UNCHANGED <<waiter, mustCancel, current, closed, resumedOn>>
      BY <1>5, <2>3 DEF CancelTask
    <3> HIDE DEF e
    <3> QED BY <2>1, <2>3, <3>1 DEF Complete
  <2> QED BY <2>2, <2>3
<1>6. ASSUME NEW t \in Task, NEW c \in Call, Step(t, c) PROVE NoStaleWakeup'
  <2>1. Stepped(t, c)
    BY <1>6, <1>s
  <2>2. \A o \in Awaitable : t \notin callbacks[o]
    BY <2>1 DEF Stepped, Done
  <2>3. \A o \in Awaitable : \A u \in callbacks[o] : u # t /\ waiter'[u] = waiter[u] /\ u # current'
    BY <2>1, <2>2 DEF Stepped
  <2> QED BY <2>1, <2>3 DEF Stepped
<1>7. ASSUME NEW t \in Task, Return(t) PROVE NoStaleWakeup'
  BY <1>7 DEF Return, Leave, Complete, Scheduled
<1>8. ASSUME NEW t \in Task, Raise(t, "error") PROVE NoStaleWakeup'
  BY <1>8 DEF Raise, Leave, Complete, Scheduled
<1>9. ASSUME NEW t \in Task, Raise(t, "cancelled") PROVE NoStaleWakeup'
  BY <1>9 DEF Raise, Leave, Complete, Scheduled
<1>10. ASSUME NEW t \in Task, Yield(t) PROVE NoStaleWakeup'
  BY <1>10 DEF Yield, Leave, Queue
<1>11. ASSUME NEW t \in Task, YieldWrong(t) PROVE NoStaleWakeup'
  BY <1>11 DEF YieldWrong, Leave, Queue
<1>12. ASSUME NEW t \in Task, NEW o \in Awaitable, Await(t, o) PROVE NoStaleWakeup'
  <2> DEFINE e == CancelTarget(o)
  <2>1. /\ e \in Awaitable /\ e # t /\ current = t /\ current' = None
        /\ state[o] = "pending" /\ o # t /\ waiter' = [waiter EXCEPT ![t] = o]
        /\ UNCHANGED <<closed, resumedOn>>
    BY <1>12, <1>t DEF Await, Leave, NoAwaitCycle
  <2>2. CASE ~mustCancel[t]
    <3>1. callbacks' = Registered(t, o) /\ UNCHANGED <<state, calls, mustCancel, owed>>
      BY <1>12, <2>2 DEF Await
    <3> HIDE DEF e
    <3> QED BY <2>1, <2>2, <3>1 DEF Registered
  <2>3. CASE mustCancel[t] /\ e \in Task
    <3>1. /\ mustCancel' = [mustCancel EXCEPT ![t] = FALSE, ![e] = TRUE]
          /\ callbacks' = Registered(t, o)
          /\ UNCHANGED <<state, calls>>
          /\ owed' = (owed \ {t}) \cup OwedBy(e, [waiter EXCEPT ![t] = o])
      BY <1>12, <2>3 DEF Await, HandOn
    <3> HIDE DEF e
    <3> QED BY <2>1, <2>3, <3>1 DEF Registered
  <2>4. CASE mustCancel[t] /\ e \notin Task
    <3>1. /\ mustCancel' = [mustCancel EXCEPT ![t] = Refused(e, Registered(t, o)[e])]
          /\ state' = [state EXCEPT ![e] = "cancelled"]
          /\ callbacks' = [Registered(t, o) EXCEPT ![e] = {}]
          /\ calls' = Scheduled(e, Registered(t, o)[e])
          /\ owed' = (owed \ {t}) \cup OwedBy(e, [waiter EXCEPT ![t] = o])
      BY <1>12, <2>4 DEF Await, HandOn
    <3> HIDE DEF e
    <3> QED BY <2>1, <2>4, <3>1 DEF Registered
  <2> QED BY <2>2, <2>3, <2>4
<1>13. ASSUME Close PROVE NoStaleWakeup'
  BY <1>13 DEF Close
<1>14. CASE UNCHANGED vars
  BY <1>14 DEF vars
<1> QED
  BY <1>1, <1>2, <1>3, <1>4, <1>5, <1>6, <1>7, <1>8, <1>9, <1>10, <1>11, <1>12, <1>13, <1>14
  DEF Next, Resume, Finish

(* A request that nobody has heard of stays in _must_cancel, or in the future *)
(* that was cancelled for it, until the next step delivers it.                *)
LEMMA OwedStep ==
  TypeOK /\ WaitersFit /\ StepOrWait /\ OwedCancelIsCarried /\ [Next]_vars => OwedCancelIsCarried'
<1> SUFFICES ASSUME TypeOK, WaitersFit, StepOrWait, OwedCancelIsCarried, [Next]_vars
             PROVE  OwedCancelIsCarried'
  OBVIOUS
<1>t. \A o \in Awaitable : CancelTarget(o) \in Awaitable
  BY TargetIsAwaitable
<1>p. \A o \in Awaitable : state[o] = "pending" => state[CancelTarget(o)] = "pending"
  BY TargetIsPending
<1>s. \A t \in Task, c \in Call : Step(t, c) => Stepped(t, c)
  BY StepEffect
<1> USE TaskAssumption DEF TypeOK, Call, Awaitable, WaitersFit, OwedCancelIsCarried
<1>1. ASSUME NEW f \in Future, SetResult(f) PROVE OwedCancelIsCarried'
  BY <1>1 DEF SetResult, Complete, Scheduled
<1>2. ASSUME NEW f \in Future, SetException(f) PROVE OwedCancelIsCarried'
  BY <1>2 DEF SetException, Complete, Scheduled
<1>3. ASSUME NEW f \in Future, CancelFuture(f) PROVE OwedCancelIsCarried'
  BY <1>3 DEF CancelFuture, Complete, Awaiting
<1>4. ASSUME NEW t \in Task, CreateTask(t) PROVE OwedCancelIsCarried'
  BY <1>4 DEF CreateTask, Queue
<1>5. ASSUME NEW t \in Task, CancelTask(t) PROVE OwedCancelIsCarried'
  <2> DEFINE e == CancelTarget(t)
  <2>1. e \in Awaitable
    BY <1>t DEF Awaitable
  <2>p. state[e] = "pending"
    BY <1>5, <1>p DEF CancelTask, Awaitable
  <2>2. CASE e \in Task
    <3>1. /\ mustCancel' = [mustCancel EXCEPT ![e] = TRUE] /\ owed' = owed \cup OwedBy(e, waiter)
          /\ UNCHANGED <<state, callbacks, calls, waiter, current, closed, resumedOn>>
      BY <1>5, <2>2 DEF CancelTask
    <3> HIDE DEF e
    <3>2. OwedBy(e, waiter) = {e}
      BY <2>2 DEF OwedBy
    <3> QED BY <2>1, <2>2, <2>p, <3>1, <3>2
  <2>3. CASE e \notin Task
    <3>1. /\ Complete(e, "cancelled", callbacks[e]) /\ owed' = owed \cup OwedBy(e, waiter)
          /\ UNCHANGED <<waiter, mustCancel, current, closed, resumedOn>>
      BY <1>5, <2>3 DEF CancelTask
    <3> HIDE DEF e
    <3>2. OwedBy(e, waiter) = {u \in Task : waiter[u] = e}
      BY <2>3 DEF OwedBy, Awaiting
    <3>3. state' = [state EXCEPT ![e] = "cancelled"]
      BY <3>1 DEF Complete
    <3>4. \A u \in Task : e # u /\ state'[u] = state[u]
      BY <2>3, <3>3
    <3> QED BY <2>1, <3>1, <3>2, <3>3, <3>4
  <2> QED BY <2>2, <2>3
<1>6. ASSUME NEW t \in Task, NEW c \in Call, Step(t, c) PROVE OwedCancelIsCarried'
  <2>1. Stepped(t, c)
    BY <1>6, <1>s
  <2> QED BY <2>1 DEF Stepped, Delivered, Done
<1>7. ASSUME NEW t \in Task, Return(t) PROVE OwedCancelIsCarried'
  BY <1>7 DEF Return, Leave, Complete, Awaiting
<1>8. ASSUME NEW t \in Task, Raise(t, "error") PROVE OwedCancelIsCarried'
  BY <1>8 DEF Raise, Leave, Complete, Scheduled
<1>9. ASSUME NEW t \in Task, Raise(t, "cancelled") PROVE OwedCancelIsCarried'
  BY <1>9 DEF Raise, Leave, Complete, Awaiting
<1>10. ASSUME NEW t \in Task, Yield(t) PROVE OwedCancelIsCarried'
  BY <1>10 DEF Yield, Leave, Queue
<1>11. ASSUME NEW t \in Task, YieldWrong(t) PROVE OwedCancelIsCarried'
  BY <1>11 DEF YieldWrong, Leave, Queue
<1>12. ASSUME NEW t \in Task, NEW o \in Awaitable, Await(t, o) PROVE OwedCancelIsCarried'
  <2> DEFINE e == CancelTarget(o)
  <2>1. /\ e \in Awaitable /\ e # t /\ current = t /\ current' = None
        /\ state[o] = "pending" /\ o # t /\ waiter' = [waiter EXCEPT ![t] = o]
        /\ UNCHANGED <<closed, resumedOn>>
    BY <1>12, <1>t DEF Await, Leave, NoAwaitCycle
  <2>p. state[e] = "pending" /\ state[t] = "pending"
    BY <1>p, <2>1, TaskAssumption DEF Call, Awaitable
  <2>2. CASE ~mustCancel[t]
    <3>1. callbacks' = Registered(t, o) /\ UNCHANGED <<state, calls, mustCancel, owed>>
      BY <1>12, <2>2 DEF Await
    <3> HIDE DEF e
    <3> QED BY <2>1, <2>2, <3>1 DEF Registered
  <2>3. CASE mustCancel[t] /\ e \in Task
    <3>1. /\ mustCancel' = [mustCancel EXCEPT ![t] = FALSE, ![e] = TRUE]
          /\ callbacks' = Registered(t, o)
          /\ UNCHANGED <<state, calls>>
          /\ owed' = (owed \ {t}) \cup OwedBy(e, [waiter EXCEPT ![t] = o])
      BY <1>12, <2>3 DEF Await, HandOn
    <3> HIDE DEF e
    <3>2. owed' = (owed \ {t}) \cup {e}
      BY <2>3, <3>1 DEF OwedBy
    <3> QED BY <2>1, <2>3, <2>p, <3>1, <3>2
  <2>4. CASE mustCancel[t] /\ e \notin Task
    <3>1. /\ mustCancel' = [mustCancel EXCEPT ![t] = Refused(e, Registered(t, o)[e])]
          /\ state' = [state EXCEPT ![e] = "cancelled"]
          /\ callbacks' = [Registered(t, o) EXCEPT ![e] = {}]
          /\ calls' = Scheduled(e, Registered(t, o)[e])
          /\ owed' = (owed \ {t}) \cup OwedBy(e, [waiter EXCEPT ![t] = o])
      BY <1>12, <2>4 DEF Await, HandOn
    <3> HIDE DEF e
    <3>2. owed' = (owed \ {t}) \cup {u \in Task : waiter'[u] = e}
      BY <2>1, <2>4, <3>1 DEF OwedBy, Awaiting
    <3>3. ASSUME NEW u \in owed'
          PROVE  state'[u] = "pending" /\ (mustCancel'[u] \/ (waiter'[u] # None /\ state'[waiter'[u]] = "cancelled"))
      <4>1. u \in Task /\ u # e
        BY <2>4, <3>2, <3>3
      <4>2. CASE waiter'[u] = e
        <5>1. state'[u] = "pending"
          BY <2>1, <2>p, <3>1, <4>1, <4>2
        <5> QED BY <2>1, <3>1, <4>2, <5>1
      <4>3. CASE waiter'[u] # e
        <5>1. u # t /\ u \in owed
          BY <3>2, <3>3, <4>1, <4>3
        <5>2. waiter'[u] = waiter[u] /\ mustCancel'[u] = mustCancel[u] /\ state'[u] = state[u]
          BY <2>1, <3>1, <4>1, <5>1
        <5> QED BY <2>1, <3>1, <4>1, <4>3, <5>1, <5>2
      <4> QED BY <4>2, <4>3
    <3> QED BY <3>3
  <2> QED BY <2>2, <2>3, <2>4
<1>13. ASSUME Close PROVE OwedCancelIsCarried'
  BY <1>13 DEF Close
<1>14. CASE UNCHANGED vars
  BY <1>14 DEF vars
<1> QED
  BY <1>1, <1>2, <1>3, <1>4, <1>5, <1>6, <1>7, <1>8, <1>9, <1>10, <1>11, <1>12, <1>13, <1>14
  DEF Next, Resume, Finish

(* What StepOrWait says of a suspended task. *)
Ready(t) == ToBeStepped(t) \/ Waiting(t) \/ ToBeWoken(t) \/ (closed /\ NoCall(t))

(* A task that has no part in the step keeps its calls and stays as it was. *)
LEMMA ReadyStays ==
  ASSUME NEW u \in Task, Ready(u), waiter[u] # None => state'[waiter[u]] = state[waiter[u]],
         calls'[u] = calls[u], waiter'[u] = waiter[u], closed => closed',
         waiter[u] # None /\ u \in callbacks[waiter[u]] => u \in callbacks'[waiter[u]]
  PROVE  Ready(u)'
  BY DEF Ready, ToBeStepped, Waiting, ToBeWoken, Done, NoCall, OnlyCall

(* When a future or task is done, the tasks that waited for it have one call  *)
(* each, or none if the closed proxy refuses; the others are as they were.    *)
LEMMA CompleteWakes ==
  ASSUME TypeOK, StepOrWait, NoStaleWakeup,
         NEW o \in Awaitable, NEW s \in {"result", "error", "cancelled"}, NEW W, NEW u \in Task,
         u # o, u \in W <=> u \in callbacks[o],
         state' = [state EXCEPT ![o] = s], calls' = Scheduled(o, W),
         waiter'[u] = waiter[u], closed' = closed,
         \A p \in Awaitable \ {o} : u \in callbacks[p] => u \in callbacks'[p]
  PROVE  /\ u = current \/ state[u] # "pending" => NoCall(u)'
         /\ u # current /\ state[u] = "pending" => Ready(u)'
<1>1. u \notin W => calls'[u] = calls[u]
  BY DEF Scheduled
<1>2. CASE u = current \/ state[u] # "pending"
  <2>1. u \notin callbacks[o]
    BY <1>2 DEF NoStaleWakeup
  <2>2. NoCall(u)
    BY <1>2 DEF StepOrWait
  <2> QED BY <1>1, <1>2, <2>1, <2>2 DEF NoCall
<1>3. CASE u # current /\ state[u] = "pending" /\ u \notin callbacks[o]
  <2>1. calls'[u] = calls[u]
    BY <1>1, <1>3
  <2>2. Ready(u)
    BY <1>3 DEF StepOrWait, Ready
  <2>3. waiter[u] # o => waiter[u] = None \/ state'[waiter[u]] = state[waiter[u]]
    BY DEF TypeOK
  <2>4. CASE waiter[u] = o
    <3>1. ~Waiting(u) /\ Done(o)'
      BY <1>3, <2>4 DEF Waiting, Done, TypeOK
    <3>2. ~ToBeStepped(u)
      BY <2>4, TaskAssumption DEF ToBeStepped, Call
    <3>3. Done(o)' /\ o # None
      BY TaskAssumption DEF Done, TypeOK, Call
    <3>4. CASE ToBeWoken(u)
      BY <1>3, <2>1, <2>4, <3>3, <3>4 DEF Ready, ToBeWoken, OnlyCall
    <3>5. CASE closed /\ NoCall(u)
      BY <2>1, <3>5 DEF Ready, NoCall
    <3> QED BY <2>2, <3>1, <3>2, <3>4, <3>5 DEF Ready
  <2>5. CASE waiter[u] # o
    <3>1. waiter[u] # None => waiter[u] \in Awaitable \ {o}
      BY <2>5 DEF TypeOK
    <3>2. waiter[u] # None /\ u \in callbacks[waiter[u]] => u \in callbacks'[waiter[u]]
      BY <3>1
    <3>3. waiter[u] # None => state'[waiter[u]] = state[waiter[u]]
      BY <2>3, <2>5
    <3>4. closed => closed'
      OBVIOUS
    <3> QED BY <1>3, <2>1, <2>2, <3>2, <3>3, <3>4, ReadyStays
  <2> QED BY <2>4, <2>5
<1>4. CASE u # current /\ state[u] = "pending" /\ u \in callbacks[o]
  <2>1. waiter[u] = o /\ state[o] = "pending"
    BY <1>4 DEF NoStaleWakeup
  <2>2. NoCall(u)
    <3>1. Ready(u)
      BY <1>4 DEF StepOrWait, Ready
    <3>2. ~Done(o) /\ o # None
      BY <2>1, TaskAssumption DEF Done, Call
    <3> QED BY <2>1, <3>1, <3>2 DEF Ready, ToBeStepped, Waiting, ToBeWoken
  <2>3. CASE Refused(o, W)
    <3>1. calls'[u] = calls[u] /\ closed'
      BY <2>3 DEF Scheduled, Refused
    <3> QED BY <1>4, <2>2, <3>1 DEF Ready, NoCall
  <2>4. CASE ~Refused(o, W)
    <3>1. calls'[u] = [calls[u] EXCEPT ![o] = calls[u][o] + 1]
      BY <1>4, <2>4 DEF Scheduled
    <3>2. OnlyCall(u, o)'
      BY <2>2, <3>1 DEF OnlyCall, NoCall, TypeOK, Call
    <3>3. Done(o)' /\ o # None
      BY TaskAssumption DEF Done, TypeOK, Call
    <3> QED BY <1>4, <2>1, <3>2, <3>3 DEF Ready, ToBeWoken
  <2> QED BY <2>3, <2>4
<1> QED BY <1>2, <1>3, <1>4

(* A step that leaves a task alone. *)
LEMMA Same ==
  ASSUME TypeOK, StepOrWait, NEW u \in Task, calls'[u] = calls[u], waiter'[u] = waiter[u], state'[u] = state[u],
         closed => closed', waiter[u] # None => state'[waiter[u]] = state[waiter[u]],
         \A p \in Awaitable : callbacks[p] \subseteq callbacks'[p]
  PROVE  /\ u = current \/ state'[u] # "pending" => NoCall(u)'
         /\ u # current /\ state'[u] = "pending" => Ready(u)'
<1>1. u = current \/ state[u] # "pending" => NoCall(u)'
  BY DEF StepOrWait, NoCall
<1>2. waiter[u] # None /\ u \in callbacks[waiter[u]] => u \in callbacks'[waiter[u]]
  BY DEF TypeOK
<1>3. u # current /\ state[u] = "pending" => Ready(u)
  BY DEF StepOrWait, Ready
<1>4. Ready(u) => Ready(u)'
  BY <1>2, ReadyStays
<1> QED BY <1>1, <1>3, <1>4

(* A task that has begun to wait, with its __wakeup() registered. *)
LEMMA WaitsNow ==
  ASSUME NEW t \in Task, NEW o \in Awaitable, NoCall(t), calls'[t] = calls[t], waiter'[t] = o,
         state'[o] = "pending", t \in callbacks'[o]
  PROVE  Ready(t)'
<1>1. o # None
  BY TaskAssumption DEF Call
<1> QED BY <1>1 DEF Ready, Waiting, NoCall

(* Whatever is done to futures and tasks, a suspended task gets no second call. *)
LEMMA ReadyStep ==
  TypeOK /\ WaitersFit /\ StepOrWait /\ NoStaleWakeup /\ [Next]_vars => StepOrWait'
<1> SUFFICES ASSUME TypeOK, WaitersFit, StepOrWait, NoStaleWakeup, [Next]_vars
             PROVE  StepOrWait'
  OBVIOUS
<1>t. \A o \in Awaitable : CancelTarget(o) \in Awaitable
  BY TargetIsAwaitable
<1>s. \A t \in Task, c \in Call : Step(t, c) => Stepped(t, c)
  BY StepEffect
<1>1. ASSUME NEW f \in Future, SetResult(f) PROVE StepOrWait'
  <2> SUFFICES ASSUME NEW u \in Task
               PROVE  /\ u = current' \/ state'[u] # "pending" => NoCall(u)'
                      /\ u # current' /\ state'[u] = "pending" => Ready(u)'
    BY DEF StepOrWait, Ready
  <2>1. /\ f \in Awaitable /\ f # u /\ state' = [state EXCEPT ![f] = "result"]
        /\ calls' = Scheduled(f, callbacks[f]) /\ callbacks' = [callbacks EXCEPT ![f] = {}]
        /\ UNCHANGED <<waiter, current, closed>>
    BY <1>1, TaskAssumption DEF SetResult, Complete, Awaitable
  <2>2. state'[u] = state[u] /\ \A p \in Awaitable \ {f} : callbacks'[p] = callbacks[p]
    BY <2>1 DEF TypeOK
  <2> QED BY <2>1, <2>2, CompleteWakes
<1>2. ASSUME NEW f \in Future, SetException(f) PROVE StepOrWait'
  <2> SUFFICES ASSUME NEW u \in Task
               PROVE  /\ u = current' \/ state'[u] # "pending" => NoCall(u)'
                      /\ u # current' /\ state'[u] = "pending" => Ready(u)'
    BY DEF StepOrWait, Ready
  <2>1. /\ f \in Awaitable /\ f # u /\ state' = [state EXCEPT ![f] = "error"]
        /\ calls' = Scheduled(f, callbacks[f]) /\ callbacks' = [callbacks EXCEPT ![f] = {}]
        /\ UNCHANGED <<waiter, current, closed>>
    BY <1>2, TaskAssumption DEF SetException, Complete, Awaitable
  <2>2. state'[u] = state[u] /\ \A p \in Awaitable \ {f} : callbacks'[p] = callbacks[p]
    BY <2>1 DEF TypeOK
  <2> QED BY <2>1, <2>2, CompleteWakes
<1>3. ASSUME NEW f \in Future, CancelFuture(f) PROVE StepOrWait'
  <2> SUFFICES ASSUME NEW u \in Task
               PROVE  /\ u = current' \/ state'[u] # "pending" => NoCall(u)'
                      /\ u # current' /\ state'[u] = "pending" => Ready(u)'
    BY DEF StepOrWait, Ready
  <2>1. /\ f \in Awaitable /\ f # u /\ state' = [state EXCEPT ![f] = "cancelled"]
        /\ calls' = Scheduled(f, callbacks[f]) /\ callbacks' = [callbacks EXCEPT ![f] = {}]
        /\ UNCHANGED <<waiter, current, closed>>
    BY <1>3, TaskAssumption DEF CancelFuture, Complete, Awaitable
  <2>2. state'[u] = state[u] /\ \A p \in Awaitable \ {f} : callbacks'[p] = callbacks[p]
    BY <2>1 DEF TypeOK
  <2> QED BY <2>1, <2>2, CompleteWakes
<1>4. ASSUME NEW t \in Task, CreateTask(t) PROVE StepOrWait'
  <2> SUFFICES ASSUME NEW u \in Task
               PROVE  /\ u = current' \/ state'[u] # "pending" => NoCall(u)'
                      /\ u # current' /\ state'[u] = "pending" => Ready(u)'
    BY DEF StepOrWait, Ready
  <2>1. /\ state[t] = "absent" /\ ~closed /\ state' = [state EXCEPT ![t] = "pending"]
        /\ calls' = [calls EXCEPT ![t]["step"] = calls[t]["step"] + 1]
        /\ UNCHANGED <<callbacks, waiter, current, closed>>
    BY <1>4 DEF CreateTask, Queue
  <2>2. NoCall(t) /\ waiter[t] = None /\ t # current
    BY <2>1, TaskAssumption DEF StepOrWait, WaitersFit, Call, Awaitable
  <2>3. CASE u = t
    <3>1. OnlyCall(t, "step")'
      BY <2>1, <2>2 DEF OnlyCall, NoCall, TypeOK, Call
    <3>2. state'[t] = "pending"
      BY <2>1 DEF TypeOK, Awaitable
    <3>3. ToBeStepped(t)'
      BY <2>1, <2>2, <3>1 DEF ToBeStepped
    <3> QED BY <2>1, <2>2, <2>3, <3>2, <3>3 DEF Ready
  <2>4. CASE u # t
    <3>1. calls'[u] = calls[u] /\ state'[u] = state[u]
      BY <2>1, <2>4 DEF TypeOK, Awaitable
    <3>2. waiter[u] # None => state'[waiter[u]] = state[waiter[u]]
      BY <2>1 DEF WaitersFit
    <3> QED BY <2>1, <2>4, <3>1, <3>2, Same
  <2> QED BY <2>3, <2>4
<1>5. ASSUME NEW t \in Task, CancelTask(t) PROVE StepOrWait'
  <2> SUFFICES ASSUME NEW u \in Task
               PROVE  /\ u = current' \/ state'[u] # "pending" => NoCall(u)'
                      /\ u # current' /\ state'[u] = "pending" => Ready(u)'
    BY DEF StepOrWait, Ready
  <2> DEFINE e == CancelTarget(t)
  <2>1. e \in Awaitable
    BY <1>t DEF Awaitable
  <2>2. CASE e \in Task
    <3>1. UNCHANGED <<state, callbacks, calls, waiter, current, closed>>
      BY <1>5, <2>2 DEF CancelTask
    <3> QED BY <3>1, Same
  <2>3. CASE e \notin Task
    <3>1. /\ state' = [state EXCEPT ![e] = "cancelled"]
          /\ calls' = Scheduled(e, callbacks[e]) /\ callbacks' = [callbacks EXCEPT ![e] = {}]
          /\ UNCHANGED <<waiter, current, closed>>
      BY <1>5, <2>3 DEF CancelTask, Complete
    <3> HIDE DEF e
    <3>2. e # u /\ state'[u] = state[u] /\ \A p \in Awaitable \ {e} : callbacks'[p] = callbacks[p]
      BY <2>1, <2>3, <3>1 DEF TypeOK
    <3> QED BY <2>1, <3>1, <3>2, CompleteWakes
  <2> QED BY <2>2, <2>3
<1>6. ASSUME NEW t \in Task, NEW c \in Call, Step(t, c) PROVE StepOrWait'
  <2> SUFFICES ASSUME NEW u \in Task
               PROVE  /\ u = current' \/ state'[u] # "pending" => NoCall(u)'
                      /\ u # current' /\ state'[u] = "pending" => Ready(u)'
    BY DEF StepOrWait, Ready
  <2>1. Stepped(t, c)
    BY <1>6, <1>s
  <2>2. CASE u = t
    <3>1. NoCall(t)'
      BY <2>1 DEF Stepped, OnlyCall, NoCall, TypeOK
    <3>2. u = current'
      BY <2>1, <2>2 DEF Stepped
    <3> QED BY <2>2, <3>1, <3>2
  <2>3. CASE u # t
    <3>1. /\ calls'[u] = calls[u] /\ waiter'[u] = waiter[u] /\ current = None /\ current' = t
          /\ UNCHANGED <<state, callbacks, closed>>
      BY <2>1, <2>3 DEF Stepped, TypeOK
    <3>2. u # None
      BY TaskAssumption DEF Call, Awaitable
    <3> QED BY <2>3, <3>1, <3>2, Same
  <2> QED BY <2>2, <2>3
<1>7. ASSUME NEW t \in Task, Return(t) PROVE StepOrWait'
  <2> SUFFICES ASSUME NEW u \in Task
               PROVE  /\ u = current' \/ state'[u] # "pending" => NoCall(u)'
                      /\ u # current' /\ state'[u] = "pending" => Ready(u)'
    BY DEF StepOrWait, Ready
  <2>1. PICK s \in {"result", "error", "cancelled"} :
          /\ state' = [state EXCEPT ![t] = s]
          /\ calls' = Scheduled(t, callbacks[t]) /\ callbacks' = [callbacks EXCEPT ![t] = {}]
          /\ UNCHANGED <<waiter, closed>> /\ t = current /\ current' = None
    BY <1>7 DEF Return, Complete, Leave
  <2>2. t \in Awaitable /\ \A p \in Awaitable \ {t} : callbacks'[p] = callbacks[p]
    BY <2>1 DEF Awaitable, TypeOK
  <2>3. CASE u = t
    <3>1. state'[u] # "pending" /\ u \notin callbacks[t] /\ NoCall(u)
      BY <2>1, <2>2, <2>3 DEF TypeOK, NoStaleWakeup, StepOrWait
    <3>2. calls'[u] = calls[u]
      BY <2>1, <2>3, <3>1 DEF Scheduled
    <3> QED BY <3>1, <3>2 DEF NoCall
  <2>4. CASE u # t
    <3>1. state'[u] = state[u] /\ u # current
      BY <2>1, <2>4 DEF TypeOK
    <3>2. u # None
      BY TaskAssumption DEF Call, Awaitable
    <3> QED BY <2>1, <2>2, <2>4, <3>1, <3>2, CompleteWakes
  <2> QED BY <2>3, <2>4
<1>8. ASSUME NEW t \in Task, Raise(t, "error") PROVE StepOrWait'
  <2> SUFFICES ASSUME NEW u \in Task
               PROVE  /\ u = current' \/ state'[u] # "pending" => NoCall(u)'
                      /\ u # current' /\ state'[u] = "pending" => Ready(u)'
    BY DEF StepOrWait, Ready
  <2>1. PICK s \in {"result", "error", "cancelled"} :
          /\ state' = [state EXCEPT ![t] = s]
          /\ calls' = Scheduled(t, callbacks[t]) /\ callbacks' = [callbacks EXCEPT ![t] = {}]
          /\ UNCHANGED <<waiter, closed>> /\ t = current /\ current' = None
    BY <1>8 DEF Raise, Complete, Leave
  <2>2. t \in Awaitable /\ \A p \in Awaitable \ {t} : callbacks'[p] = callbacks[p]
    BY <2>1 DEF Awaitable, TypeOK
  <2>3. CASE u = t
    <3>1. state'[u] # "pending" /\ u \notin callbacks[t] /\ NoCall(u)
      BY <2>1, <2>2, <2>3 DEF TypeOK, NoStaleWakeup, StepOrWait
    <3>2. calls'[u] = calls[u]
      BY <2>1, <2>3, <3>1 DEF Scheduled
    <3> QED BY <3>1, <3>2 DEF NoCall
  <2>4. CASE u # t
    <3>1. state'[u] = state[u] /\ u # current
      BY <2>1, <2>4 DEF TypeOK
    <3>2. u # None
      BY TaskAssumption DEF Call, Awaitable
    <3> QED BY <2>1, <2>2, <2>4, <3>1, <3>2, CompleteWakes
  <2> QED BY <2>3, <2>4
<1>9. ASSUME NEW t \in Task, Raise(t, "cancelled") PROVE StepOrWait'
  <2> SUFFICES ASSUME NEW u \in Task
               PROVE  /\ u = current' \/ state'[u] # "pending" => NoCall(u)'
                      /\ u # current' /\ state'[u] = "pending" => Ready(u)'
    BY DEF StepOrWait, Ready
  <2>1. PICK s \in {"result", "error", "cancelled"} :
          /\ state' = [state EXCEPT ![t] = s]
          /\ calls' = Scheduled(t, callbacks[t]) /\ callbacks' = [callbacks EXCEPT ![t] = {}]
          /\ UNCHANGED <<waiter, closed>> /\ t = current /\ current' = None
    BY <1>9 DEF Raise, Complete, Leave
  <2>2. t \in Awaitable /\ \A p \in Awaitable \ {t} : callbacks'[p] = callbacks[p]
    BY <2>1 DEF Awaitable, TypeOK
  <2>3. CASE u = t
    <3>1. state'[u] # "pending" /\ u \notin callbacks[t] /\ NoCall(u)
      BY <2>1, <2>2, <2>3 DEF TypeOK, NoStaleWakeup, StepOrWait
    <3>2. calls'[u] = calls[u]
      BY <2>1, <2>3, <3>1 DEF Scheduled
    <3> QED BY <3>1, <3>2 DEF NoCall
  <2>4. CASE u # t
    <3>1. state'[u] = state[u] /\ u # current
      BY <2>1, <2>4 DEF TypeOK
    <3>2. u # None
      BY TaskAssumption DEF Call, Awaitable
    <3> QED BY <2>1, <2>2, <2>4, <3>1, <3>2, CompleteWakes
  <2> QED BY <2>3, <2>4
<1>10. ASSUME NEW t \in Task, Yield(t) PROVE StepOrWait'
  <2> SUFFICES ASSUME NEW u \in Task
               PROVE  /\ u = current' \/ state'[u] # "pending" => NoCall(u)'
                      /\ u # current' /\ state'[u] = "pending" => Ready(u)'
    BY DEF StepOrWait, Ready
  <2>1. t = current /\ current' = None /\ calls' = Queue(t, "step") /\ UNCHANGED <<state, callbacks, waiter, closed>>
    BY <1>10 DEF Yield, Leave
  <2>2. NoCall(t) /\ waiter[t] = None /\ state[t] = "pending"
    BY <2>1, TaskAssumption DEF StepOrWait, WaitersFit, Call, Awaitable
  <2>3. CASE u = t
    <3>1. CASE closed
      BY <2>1, <2>2, <2>3, <3>1 DEF Queue, Ready, NoCall
    <3>2. CASE ~closed
      <4>1. calls' = [calls EXCEPT ![t]["step"] = calls[t]["step"] + 1]
        BY <2>1, <3>2 DEF Queue
      <4>2. OnlyCall(t, "step")'
        BY <2>2, <4>1 DEF OnlyCall, NoCall, TypeOK, Call
      <4>3. ToBeStepped(t)'
        BY <2>1, <2>2, <4>2 DEF ToBeStepped
      <4>4. t # None
        BY TaskAssumption DEF Call, Awaitable
      <4> QED BY <2>1, <2>2, <2>3, <4>3, <4>4 DEF Ready
    <3> QED BY <3>1, <3>2
  <2>4. CASE u # t
    <3>1. calls'[u] = calls[u]
      BY <2>1, <2>4 DEF Queue, TypeOK
    <3>2. u # None /\ u # current
      BY <2>1, <2>4, TaskAssumption DEF Call, Awaitable
    <3> QED BY <2>1, <2>4, <3>1, <3>2, Same
  <2> QED BY <2>3, <2>4
<1>11. ASSUME NEW t \in Task, YieldWrong(t) PROVE StepOrWait'
  <2> SUFFICES ASSUME NEW u \in Task
               PROVE  /\ u = current' \/ state'[u] # "pending" => NoCall(u)'
                      /\ u # current' /\ state'[u] = "pending" => Ready(u)'
    BY DEF StepOrWait, Ready
  <2>1. t = current /\ current' = None /\ calls' = Queue(t, "error") /\ UNCHANGED <<state, callbacks, waiter, closed>>
    BY <1>11 DEF YieldWrong, Leave
  <2>2. NoCall(t) /\ waiter[t] = None /\ state[t] = "pending"
    BY <2>1, TaskAssumption DEF StepOrWait, WaitersFit, Call, Awaitable
  <2>3. CASE u = t
    <3>1. CASE closed
      BY <2>1, <2>2, <2>3, <3>1 DEF Queue, Ready, NoCall
    <3>2. CASE ~closed
      <4>1. calls' = [calls EXCEPT ![t]["error"] = calls[t]["error"] + 1]
        BY <2>1, <3>2 DEF Queue
      <4>2. OnlyCall(t, "error")'
        BY <2>2, <4>1 DEF OnlyCall, NoCall, TypeOK, Call
      <4>3. ToBeStepped(t)'
        BY <2>1, <2>2, <4>2 DEF ToBeStepped
      <4>4. t # None
        BY TaskAssumption DEF Call, Awaitable
      <4> QED BY <2>1, <2>2, <2>3, <4>3, <4>4 DEF Ready
    <3> QED BY <3>1, <3>2
  <2>4. CASE u # t
    <3>1. calls'[u] = calls[u]
      BY <2>1, <2>4 DEF Queue, TypeOK
    <3>2. u # None /\ u # current
      BY <2>1, <2>4, TaskAssumption DEF Call, Awaitable
    <3> QED BY <2>1, <2>4, <3>1, <3>2, Same
  <2> QED BY <2>3, <2>4
<1>12. ASSUME NEW t \in Task, NEW o \in Awaitable, Await(t, o) PROVE StepOrWait'
  <2> SUFFICES ASSUME NEW u \in Task
               PROVE  /\ u = current' \/ state'[u] # "pending" => NoCall(u)'
                      /\ u # current' /\ state'[u] = "pending" => Ready(u)'
    BY DEF StepOrWait, Ready
  <2> DEFINE e == CancelTarget(o)
  <2>1. /\ e \in Awaitable /\ e # t /\ current = t /\ current' = None
        /\ state[o] = "pending" /\ o # t /\ waiter' = [waiter EXCEPT ![t] = o]
        /\ UNCHANGED <<closed, resumedOn>>
    BY <1>12, <1>t DEF Await, Leave, NoAwaitCycle
  <2>5. /\ NoCall(t) /\ waiter[t] = None /\ state[t] = "pending" /\ t # None /\ u # None
        /\ \A p \in Awaitable : t \notin callbacks[p]
    BY <2>1, TaskAssumption DEF StepOrWait, NoStaleWakeup, WaitersFit, Call, Awaitable
  <2>2. CASE ~mustCancel[t]
    <3>1. callbacks' = Registered(t, o) /\ UNCHANGED <<state, calls, mustCancel, owed>>
      BY <1>12, <2>2 DEF Await
    <3> HIDE DEF e
    <3>2. waiter'[t] = o /\ \A x \in Task : x # t => waiter'[x] = waiter[x]
      BY <2>1 DEF TypeOK
    <3>3. \A p \in Awaitable : callbacks[p] \subseteq callbacks'[p] /\ t \in callbacks'[o]
      BY <3>1 DEF Registered, TypeOK
    <3> QED BY <2>1, <2>5, <3>1, <3>2, <3>3, WaitsNow, Same
  <2>3. CASE mustCancel[t] /\ e \in Task
    <3>1. /\ mustCancel' = [mustCancel EXCEPT ![t] = FALSE, ![e] = TRUE]
          /\ callbacks' = Registered(t, o)
          /\ UNCHANGED <<state, calls>>
          /\ owed' = (owed \ {t}) \cup OwedBy(e, [waiter EXCEPT ![t] = o])
      BY <1>12, <2>3 DEF Await, HandOn
    <3> HIDE DEF e
    <3>2. waiter'[t] = o /\ \A x \in Task : x # t => waiter'[x] = waiter[x]
      BY <2>1 DEF TypeOK
    <3>3. \A p \in Awaitable : callbacks[p] \subseteq callbacks'[p] /\ t \in callbacks'[o]
      BY <3>1 DEF Registered, TypeOK
    <3> QED BY <2>1, <2>5, <3>1, <3>2, <3>3, WaitsNow, Same
  <2>4. CASE mustCancel[t] /\ e \notin Task
    <3>1. /\ mustCancel' = [mustCancel EXCEPT ![t] = Refused(e, Registered(t, o)[e])]
          /\ state' = [state EXCEPT ![e] = "cancelled"]
          /\ callbacks' = [Registered(t, o) EXCEPT ![e] = {}]
          /\ calls' = Scheduled(e, Registered(t, o)[e])
          /\ owed' = (owed \ {t}) \cup OwedBy(e, [waiter EXCEPT ![t] = o])
      BY <1>12, <2>4 DEF Await, HandOn
    <3> HIDE DEF e
    <3>2. waiter'[t] = o /\ \A x \in Task : x # t => waiter'[x] = waiter[x]
      BY <2>1 DEF TypeOK
    <3> DEFINE W == Registered(t, o)[e]
    <3>3. \A x \in Task : x # t => (x \in W <=> x \in callbacks[e])
      BY <2>1 DEF Registered, TypeOK
    <3>4. \A p \in Awaitable \ {e} : callbacks[p] \subseteq callbacks'[p]
      BY <2>1, <3>1 DEF Registered, TypeOK
    <3>5. \A x \in Task : state'[x] = state[x]
      BY <2>1, <2>4, <3>1 DEF TypeOK
    <3>6. CASE u # t
      <4>1. u # e /\ u # current /\ u # current'
        BY <2>1, <2>4, <2>5, <3>6
      <4>2. closed' = closed /\ calls' = Scheduled(e, W) /\ state' = [state EXCEPT ![e] = "cancelled"]
        BY <2>1, <3>1
      <4> HIDE DEF W
      <4> QED BY <2>1, <3>2, <3>3, <3>4, <3>5, <3>6, <4>1, <4>2, CompleteWakes
    <3>7. CASE u = t /\ e = o
      <4>1. t \in W
        BY <3>7 DEF Registered, TypeOK, Awaitable
      <4>2. CASE Refused(e, W)
        <5>1. calls'[t] = calls[t] /\ closed'
          BY <2>1, <3>1, <4>2 DEF Scheduled, Refused
        <5> QED BY <2>5, <3>5, <3>7, <5>1 DEF Ready, NoCall
      <4>3. CASE ~Refused(e, W)
        <5>1. calls'[t] = [calls[t] EXCEPT ![o] = calls[t][o] + 1]
          BY <3>1, <3>7, <4>1, <4>3 DEF Scheduled
        <5>2. OnlyCall(t, o)'
          BY <2>5, <5>1 DEF OnlyCall, NoCall, TypeOK, Call
        <5>3. Done(o)' /\ o # None
          BY <3>1, <3>7, TaskAssumption DEF Done, TypeOK, Call
        <5> QED BY <2>1, <2>5, <3>2, <3>5, <3>7, <5>2, <5>3 DEF Ready, ToBeWoken
      <4> QED BY <4>2, <4>3
    <3>8. CASE u = t /\ e # o
      <4>1. t \notin W
        BY <2>1, <3>8, <2>5 DEF Registered, TypeOK
      <4>2. calls'[t] = calls[t]
        BY <3>1, <4>1 DEF Scheduled
      <4>3. state'[o] = "pending" /\ t \in callbacks'[o]
        BY <2>1, <3>1, <3>8 DEF Registered, TypeOK, Awaitable
      <4> QED BY <2>1, <2>5, <3>2, <3>5, <3>8, <4>2, <4>3, WaitsNow
    <3> QED BY <3>6, <3>7, <3>8
  <2> QED BY <2>2, <2>3, <2>4
<1>13. ASSUME Close PROVE StepOrWait'
  <2> SUFFICES ASSUME NEW u \in Task
               PROVE  /\ u = current' \/ state'[u] # "pending" => NoCall(u)'
                      /\ u # current' /\ state'[u] = "pending" => Ready(u)'
    BY DEF StepOrWait, Ready
  <2>1. closed' = TRUE /\ UNCHANGED <<state, callbacks, waiter, calls, current>>
    BY <1>13 DEF Close
  <2> QED BY <2>1, Same
<1>14. CASE UNCHANGED vars
  <2> SUFFICES ASSUME NEW u \in Task
               PROVE  /\ u = current' \/ state'[u] # "pending" => NoCall(u)'
                      /\ u # current' /\ state'[u] = "pending" => Ready(u)'
    BY DEF StepOrWait, Ready
  <2> QED BY <1>14, Same DEF vars
<1> QED
  BY <1>1, <1>2, <1>3, <1>4, <1>5, <1>6, <1>7, <1>8, <1>9, <1>10, <1>11, <1>12, <1>13, <1>14
  DEF Next, Resume, Finish

-----------------------------------------------------------------------------
(* The invariants *)

(* Nothing is queued, awaited or owed in the initial state. *)
LEMMA InitInv == Init => Inv
<1> USE TaskAssumption DEF Init, Call, Awaitable
<1>1. Init => TypeOK
  <2> SUFFICES ASSUME Init
               PROVE  TypeOK
    OBVIOUS
  <2>1. /\ state \in [Awaitable -> {"absent", "pending", "result", "error", "cancelled"}]
        /\ callbacks \in [Awaitable -> SUBSET Task]
        /\ calls \in [Task -> [Call -> Nat]]
    OBVIOUS
  <2>2. \A f \in Future : state[f] # "absent"
    OBVIOUS
  <2>3. waiter \in [Task -> Awaitable \cup {None}] /\ \A t \in Task : waiter[t] # t
    OBVIOUS
  <2>4. /\ mustCancel \in [Task -> BOOLEAN] /\ closed \in BOOLEAN /\ current \in Task \cup {None}
        /\ resumedOn \in [Task -> {"none", "proxy", "parent"}] /\ owed \subseteq Task
    OBVIOUS
  <2> QED BY <2>1, <2>2, <2>3, <2>4 DEF TypeOK
<1>2. Init => WaitersFit /\ NoStaleWakeup /\ OwedCancelIsCarried
  BY DEF WaitersFit, NoStaleWakeup, OwedCancelIsCarried
<1>3. Init => StepOrWait
  BY DEF StepOrWait, NoCall
<1> QED BY <1>1, <1>2, <1>3 DEF Inv

(* The invariant is inductive. *)
LEMMA InvStep == Inv /\ [Next]_vars => Inv'
  BY TypeStep, FitStep, StaleStep, OwedStep, ReadyStep DEF Inv

(* The invariant holds in every reachable state. *)
LEMMA InvAlways == Spec => []Inv
  BY InitInv, InvStep, PTL DEF Spec

(* Futures and tasks are created with the types they keep, and no task ever *)
(* waits for itself, as __step() refuses its own task.                      *)
THEOREM TypeCorrect == Spec => []TypeOK
<1>1. Inv => TypeOK
  BY DEF Inv
<1> QED BY InvAlways, <1>1, PTL

(* The comment at the head of Task: a suspended task is stepped by exactly one *)
(* queued callback or waits for a pending future that has its __wakeup(), for *)
(* any futures of the proxy and its parent, and any cancellations.            *)
THEOREM SuspendedOnce == Spec => []StepOrWait
<1>1. Inv => StepOrWait
  BY DEF Inv
<1> QED BY InvAlways, <1>1, PTL

(* No future keeps the __wakeup() of a task that does not wait for it, so that *)
(* no await is ever ended by an answer to an earlier one.                      *)
THEOREM WakeupsAreFresh == Spec => []NoStaleWakeup
<1>1. Inv => NoStaleWakeup
  BY DEF Inv
<1> QED BY InvAlways, <1>1, PTL

(* Task.cancel() is not lost between the call and the next step, although it  *)
(* may reach the task while it runs, waits, or hands the request to a future. *)
THEOREM CancelIsCarried == Spec => []OwedCancelIsCarried
<1>1. Inv => OwedCancelIsCarried
  BY DEF Inv
<1> QED BY InvAlways, <1>1, PTL

-----------------------------------------------------------------------------
(* Waiters make no ring *)

(* Among any tasks there is one whose cancel() is not passed on to another. *)
NoRing == \A S \in SUBSET Task : S # {} => \E t \in S : Stops(t) \/ waiter[t] \notin S

(* The recursion of Task.cancel() comes to an end, with a future, or with a   *)
(* task that awaits nothing that could still be cancelled.                    *)
CancelEnds == \A o \in Awaitable : Stops(CancelTarget(o))

(* What is at the end of a chain stays there. *)
LEMMA StopsStays ==
  ASSUME NEW o, NEW k \in Nat, NEW F, Follows(F, o, k), NEW n \in 0..k, Stops(F[n])
  PROVE  F[k] = F[n]
<1> DEFINE T == {m \in Nat : n + m <= k => F[n + m] = F[n]}
<1>1. 0 \in T
  OBVIOUS
<1>2. ASSUME NEW m \in Nat, m \in T
      PROVE  m + 1 \in T
  <2> SUFFICES ASSUME n + (m + 1) <= k
               PROVE  F[n + (m + 1)] = F[n]
    OBVIOUS
  <2>1. n + m \in 0..k /\ (n + m) + 1 <= k /\ n + (m + 1) = (n + m) + 1
    OBVIOUS
  <2>2. F[n + m] = F[n]
    BY <1>2, <2>1
  <2>3. F[(n + m) + 1] = Down(F[n + m])
    BY <2>1 DEF Follows
  <2> QED BY <2>1, <2>2, <2>3 DEF Down
<1> HIDE DEF T
<1>3. Nat \subseteq T
  BY <1>1, <1>2, SetInduction
<1>4. k - n \in T
  BY <1>3
<1> QED BY <1>4 DEF T

(* Without a ring, cancel() comes to an end within as many steps as there are *)
(* tasks: a longer chain would meet one of them twice.                        *)
LEMMA TargetStops == TypeOK /\ NoRing => CancelEnds
<1> SUFFICES ASSUME TypeOK, NoRing, NEW o \in Awaitable, ~Stops(CancelTarget(o))
             PROVE  FALSE
  BY DEF CancelEnds
<1> DEFINE K == Cardinality(Task)
<1>1. K \in Nat
  BY FS_CardinalityType, TaskAssumption
<1>2. PICK F : Follows(F, o, K) /\ CancelTarget(o) = F[K]
  BY TargetUnfolds
<1> HIDE DEF K
<1>3. \A n \in 0..K : ~Stops(F[n])
  BY <1>1, <1>2, StopsStays
<1>4. \A n \in 0..K : F[n] \in Task
  BY <1>3 DEF Stops
<1>5. F \in [0..K -> Task]
  BY <1>2, <1>4 DEF Follows
<1>6. \E i, j \in 0..K : i # j /\ F[i] = F[j]
  <2>1. IsFiniteSet(0..K) /\ Cardinality(0..K) = K + 1
    BY <1>1, FS_Interval
  <2>2. K < K + 1 /\ IsFiniteSet(Task)
    BY <1>1, TaskAssumption
  <2>3. Cardinality(Task) < Cardinality(0..K)
    BY <2>1, <2>2 DEF K
  <2> QED BY <1>5, <2>1, <2>2, <2>3, FS_PigeonHole
<1>7. PICK i, j \in 0..K : i < j /\ F[i] = F[j]
  BY <1>1, <1>6
<1> DEFINE S == {F[n] : n \in i..(j - 1)}
<1>8. F[i] \in S /\ S \in SUBSET Task
  BY <1>1, <1>4, <1>7
<1>9. PICK n \in i..(j - 1) : Stops(F[n]) \/ waiter[F[n]] \notin S
  BY <1>8 DEF NoRing
<1>10. n \in 0..K /\ n + 1 \in 0..K /\ n + 1 <= K
  BY <1>1, <1>7
<1>11. F[n + 1] = waiter[F[n]]
  BY <1>2, <1>3, <1>10 DEF Follows, Down
<1>12. F[n + 1] \in S
  <2>1. CASE n + 1 = j
    BY <1>7, <1>8, <2>1
  <2>2. CASE n + 1 # j
    BY <1>7, <2>2
  <2> QED BY <2>1, <2>2
<1> QED BY <1>3, <1>9, <1>10, <1>11, <1>12

(* A ring comes from a task that begins to wait. *)
LEMMA RingFree ==
  ASSUME TypeOK, NoRing,
         \A t \in Task : waiter'[t] \in {waiter[t], None},
         \A o \in Awaitable : Done(o) => Done(o)'
  PROVE  NoRing'
<1> SUFFICES ASSUME NEW S \in SUBSET Task, S # {},
                    \A t \in S : ~Stops(t)' /\ waiter'[t] \in S
             PROVE  FALSE
  BY DEF NoRing
<1>1. ASSUME NEW t \in S
      PROVE  ~Stops(t) /\ waiter[t] \in S
  <2>1. waiter'[t] # None /\ ~Done(waiter[t])'
    BY DEF Stops
  <2>2. waiter'[t] = waiter[t] /\ waiter[t] \in Awaitable
    BY <2>1 DEF TypeOK
  <2>3. ~Done(waiter[t])
    BY <2>1, <2>2 DEF Done
  <2> QED BY <2>2, <2>3 DEF Stops, Awaitable
<1> QED BY <1>1 DEF NoRing

(* And it makes none if cancel() of what it waits for does not come back to it. *)
LEMMA AwaitMakesNoRing ==
  ASSUME TypeOK, WaitersFit, NoRing, NEW t \in Task, NEW o \in Awaitable,
         current = t, CancelTarget(o) # t, waiter' = [waiter EXCEPT ![t] = o],
         \A p \in Awaitable : Done(p) => Done(p)'
  PROVE  NoRing'
<1> SUFFICES ASSUME NEW S \in SUBSET Task, S # {},
                    \A u \in S : ~Stops(u)' /\ waiter'[u] \in S
             PROVE  FALSE
  BY DEF NoRing
<1>1. Stops(t)
  BY TaskAssumption DEF WaitersFit, Stops, Call, Awaitable
<1>2. ASSUME NEW u \in S, u # t
      PROVE  ~Stops(u) /\ waiter[u] \in S
  <2>1. waiter'[u] # None /\ ~Done(waiter[u])'
    BY DEF Stops
  <2>2. waiter'[u] = waiter[u] /\ waiter[u] \in Awaitable
    BY <1>2, <2>1 DEF TypeOK
  <2>3. ~Done(waiter[u])
    BY <2>1, <2>2 DEF Done
  <2> QED BY <2>2, <2>3 DEF Stops, Awaitable
<1>3. t \in S
  BY <1>2 DEF NoRing
<1>4. o \in S
  BY <1>3 DEF TypeOK
<1> DEFINE K == Cardinality(Task)
<1>5. K \in Nat
  BY FS_CardinalityType, TaskAssumption
<1>6. PICK F : Follows(F, o, K) /\ CancelTarget(o) = F[K]
  BY TargetUnfolds
<1>7. Stops(F[K])
  BY <1>6, TargetStops DEF CancelEnds
<1> HIDE DEF K
<1> DEFINE T == {n \in Nat : n <= K => F[n] \in S}
<1>8. 0 \in T
  BY <1>4, <1>6 DEF Follows
<1>9. ASSUME NEW n \in Nat, n \in T
      PROVE  n + 1 \in T
  <2> SUFFICES ASSUME n + 1 <= K
               PROVE  F[n + 1] \in S
    OBVIOUS
  <2>1. n \in 0..K /\ F[n] \in S
    BY <1>5, <1>9
  <2>2. F[n + 1] = Down(F[n])
    BY <1>6, <2>1 DEF Follows
  <2>3. CASE F[n] = t
    BY <1>1, <1>3, <2>2, <2>3 DEF Down
  <2>4. CASE F[n] # t
    BY <1>2, <2>1, <2>2, <2>4 DEF Down
  <2> QED BY <2>3, <2>4
<1> HIDE DEF T
<1>10. Nat \subseteq T
  BY <1>8, <1>9, SetInduction
<1>11. F[K] \in S
  BY <1>5, <1>10 DEF T
<1>12. F[K] = t
  BY <1>2, <1>7, <1>11
<1> QED BY <1>6, <1>12

(* Whatever is done to futures and tasks, it leaves what is done done. *)
LEMMA DoneStays == Inv /\ [Next]_vars => \A o \in Awaitable : Done(o) => Done(o)'
<1> SUFFICES ASSUME TypeOK, StepOrWait, [Next]_vars, NEW o \in Awaitable, Done(o)
             PROVE  Done(o)'
  BY DEF Inv
<1>1. ASSUME NEW p \in Awaitable, NEW s \in {"result", "error", "cancelled"}, NEW W, Complete(p, s, W)
      PROVE  Done(o)'
  BY <1>1 DEF Complete, Done, TypeOK
<1>2. ASSUME NEW t \in Task, CreateTask(t)
      PROVE  Done(o)'
  BY <1>2 DEF CreateTask, Done, TypeOK
<1>3. ASSUME NEW t \in Task, CancelTask(t)
      PROVE  Done(o)'
  <2> DEFINE e == CancelTarget(t)
  <2>1. e \in Awaitable
    BY TargetIsAwaitable DEF Awaitable
  <2>2. state' = state \/ Complete(e, "cancelled", callbacks[e])
    BY <1>3 DEF CancelTask
  <2> HIDE DEF e
  <2>3. CASE state' = state
    BY <2>3 DEF Done
  <2> QED BY <1>1, <2>1, <2>2, <2>3
<1>4. ASSUME NEW t \in Task, NEW p \in Awaitable, Await(t, p)
      PROVE  Done(o)'
  <2> DEFINE e == CancelTarget(p)
  <2>1. state' = state \/ state' = [state EXCEPT ![e] = "cancelled"]
    BY <1>4 DEF Await, HandOn
  <2> HIDE DEF e
  <2> QED BY <2>1 DEF Done, TypeOK
<1>5. ASSUME UNCHANGED state
      PROVE  Done(o)'
  BY <1>5 DEF Done
<1>6. ASSUME NEW t \in Task, Return(t)
      PROVE  Done(o)'
  <2>1. (IF mustCancel[t] THEN "cancelled" ELSE "result") \in {"result", "error", "cancelled"}
    OBVIOUS
  <2> QED BY <1>1, <1>6, <2>1 DEF Return, Awaitable
<1>7. ASSUME NEW t \in Task, Raise(t, "error") \/ Raise(t, "cancelled")
      PROVE  Done(o)'
  BY <1>1, <1>7 DEF Raise, Awaitable
<1>8. ASSUME NEW f \in Future, SetResult(f) \/ SetException(f) \/ CancelFuture(f)
      PROVE  Done(o)'
  BY <1>1, <1>8 DEF SetResult, SetException, CancelFuture, Awaitable
<1>9. ASSUME NEW t \in Task, Resume(t) \/ Yield(t) \/ YieldWrong(t)
      PROVE  Done(o)'
  BY <1>5, <1>9 DEF Resume, Step, Yield, YieldWrong
<1>10. CASE Close \/ UNCHANGED vars
  BY <1>5, <1>10 DEF Close, vars
<1> QED
  BY <1>2, <1>3, <1>4, <1>6, <1>7, <1>8, <1>9, <1>10
  DEF Next, Finish

(* No step closes a ring of waiters. *)
LEMMA RingStep == Inv /\ NoRing /\ [Next]_vars => NoRing'
<1> SUFFICES ASSUME Inv, NoRing, [Next]_vars
             PROVE  NoRing'
  OBVIOUS
<1>1. TypeOK /\ WaitersFit
  BY DEF Inv
<1>2. \A o \in Awaitable : Done(o) => Done(o)'
  BY DoneStays
<1>3. CASE \A t \in Task : waiter'[t] \in {waiter[t], None}
  BY <1>1, <1>2, <1>3, RingFree
<1>4. ASSUME NEW t \in Task, NEW o \in Awaitable, Await(t, o)
      PROVE  NoRing'
  <2>1. current = t /\ CancelTarget(o) # t /\ waiter' = [waiter EXCEPT ![t] = o]
    BY <1>4 DEF Await, Leave, NoAwaitCycle
  <2> QED BY <1>1, <1>2, <2>1, AwaitMakesNoRing
<1>5. ASSUME NEW t \in Task, Resume(t)
      PROVE  \A u \in Task : waiter'[u] \in {waiter[u], None}
  BY <1>1, <1>5 DEF Resume, Step, TypeOK
<1>6. CASE UNCHANGED waiter
  BY <1>3, <1>6
<1> QED
  BY <1>3, <1>4, <1>5, <1>6
  DEF Next, Finish, SetResult, SetException, CancelFuture, CreateTask, CancelTask,
      Return, Raise, Yield, YieldWrong, Close, vars

(* Task.cancel() ends, for any number of tasks that await each other: it asks *)
(* no task twice on its way down, unless the program has made a ring of them. *)
(* And so the steps CancelTarget is given are always enough.                  *)
THEOREM CancelComesToAnEnd == Spec => []CancelEnds
<1>1. Init => NoRing
  BY DEF Init, NoRing, Stops
<1>2. Inv /\ NoRing => CancelEnds
  BY TargetStops DEF Inv
<1> QED BY <1>1, <1>2, RingStep, InvAlways, PTL DEF Spec

-----------------------------------------------------------------------------
(* The tasks implement Coroutines: initial states and steps *)

(* Every task is in one of the phases that Coroutines knows. *)
LEMMA PhaseType ==
  AbstractPhase \in [Task -> {"absent", "runnable", "running", "waiting", "done"}]
  BY DEF AbstractPhase

(* A task that has no part in a step stays in its phase, or is woken when what *)
(* it waits for is done.                                                       *)
LEMMA OthersAreWoken ==
  ASSUME NEW u \in Task, state'[u] = state[u], waiter'[u] = waiter[u],
         current = u <=> current' = u,
         waiter[u] # None => \/ state'[waiter[u]] = state[waiter[u]]
                             \/ state'[waiter[u]] \in {"result", "error", "cancelled"}
                                /\ state[waiter[u]] # "absent"
  PROVE  AbstractPhase'[u] = AbstractPhase[u] \/ Abstract!Woken(u)
<1>1. Done(u)' = Done(u)
  BY DEF Done
<1>2. CASE state[u] \in {"absent", "result", "error", "cancelled"} \/ current = u
  BY <1>1, <1>2 DEF AbstractPhase, Done
<1>3. CASE state[u] \notin {"absent", "result", "error", "cancelled"} /\ current # u
  BY <1>1, <1>3 DEF AbstractPhase, Done, Abstract!Woken
<1> QED BY <1>2, <1>3

(* A step in which every task stays or is woken. *)
LEMMA WakeOrStutter ==
  ASSUME closed' = closed, \A u \in Task : AbstractPhase'[u] = AbstractPhase[u] \/ Abstract!Woken(u)
  PROVE  [Abstract!Next]_(Abstract!vars)
<1>1. CASE \E u \in Task : Abstract!Woken(u)
  <2>1. AbstractPhase' \in [Task -> {"absent", "runnable", "running", "waiting", "done"}]
    BY DEF AbstractPhase
  <2>2. Abstract!Wake
    BY <1>1, <2>1 DEF Abstract!Wake
  <2> QED BY <2>2 DEF Abstract!Next
<1>2. CASE ~\E u \in Task : Abstract!Woken(u)
  <2>1. \A u \in Task : AbstractPhase'[u] = AbstractPhase[u]
    BY <1>2
  <2>2. AbstractPhase' = AbstractPhase
    BY <2>1 DEF AbstractPhase
  <2> QED BY <2>2 DEF Abstract!vars
<1> QED BY <1>1, <1>2

(* The coroutine that runs leaves; the others stay or are woken. *)
LEMMA LeaveStep ==
  ASSUME TypeOK, WaitersFit, closed' = closed, NEW t \in Task, t = current, current' = None, state'[t] # "absent",
         waiter'[t] = None \/ state'[waiter'[t]] # "absent",
         \A u \in Task \ {t} : AbstractPhase'[u] = AbstractPhase[u] \/ Abstract!Woken(u)
  PROVE  [Abstract!Next]_(Abstract!vars)
<1>1. t # None
  BY TaskAssumption DEF Call, Awaitable
<1>2. AbstractPhase[t] = "running"
  BY <1>1 DEF AbstractPhase, WaitersFit, Done
<1>3. AbstractPhase'[t] \in {"runnable", "waiting", "done"}
  BY <1>1 DEF AbstractPhase
<1>4. AbstractPhase' \in [Task -> {"absent", "runnable", "running", "waiting", "done"}]
  BY DEF AbstractPhase
<1>5. Abstract!Leave(t)
  BY <1>2, <1>3, <1>4 DEF Abstract!Leave, Abstract!Running
<1> QED BY <1>5 DEF Abstract!Next

(* No coroutine exists in the initial state. *)
LEMMA AbstractInit == Init => Abstract!Init
  BY TaskAssumption DEF Init, Abstract!Init, AbstractPhase, Awaitable

(* Every step of the tasks is one of Coroutines, or changes no phase. *)
LEMMA AbstractStep ==
  ASSUME TypeOK, WaitersFit, StepOrWait, [Next]_vars
  PROVE  [Abstract!Next]_(Abstract!vars)
<1>t. \A o \in Awaitable : CancelTarget(o) \in Awaitable
  BY TargetIsAwaitable
<1>s. \A t \in Task, c \in Call : Step(t, c) => Stepped(t, c)
  BY StepEffect
<1>1. ASSUME NEW f \in Future, SetResult(f) PROVE [Abstract!Next]_(Abstract!vars)
  <2>1. /\ state' = [state EXCEPT ![f] = "result"] /\ UNCHANGED <<waiter, current, closed>>
    BY <1>1 DEF SetResult, Complete
  <2>2. \A u \in Task : u # f /\ state'[u] = state[u]
    BY <2>1, TaskAssumption DEF TypeOK
  <2>3. \A p \in Awaitable : state'[p] = state[p] \/ (p = f /\ state'[p] \in {"result", "error", "cancelled"})
    BY <2>1 DEF TypeOK
  <2>4. \A u \in Task : AbstractPhase'[u] = AbstractPhase[u] \/ Abstract!Woken(u)
    BY <2>1, <2>2, <2>3, OthersAreWoken DEF TypeOK, WaitersFit
  <2> QED BY <2>1, <2>4, WakeOrStutter
<1>2. ASSUME NEW f \in Future, SetException(f) PROVE [Abstract!Next]_(Abstract!vars)
  <2>1. /\ state' = [state EXCEPT ![f] = "error"] /\ UNCHANGED <<waiter, current, closed>>
    BY <1>2 DEF SetException, Complete
  <2>2. \A u \in Task : u # f /\ state'[u] = state[u]
    BY <2>1, TaskAssumption DEF TypeOK
  <2>3. \A p \in Awaitable : state'[p] = state[p] \/ (p = f /\ state'[p] \in {"result", "error", "cancelled"})
    BY <2>1 DEF TypeOK
  <2>4. \A u \in Task : AbstractPhase'[u] = AbstractPhase[u] \/ Abstract!Woken(u)
    BY <2>1, <2>2, <2>3, OthersAreWoken DEF TypeOK, WaitersFit
  <2> QED BY <2>1, <2>4, WakeOrStutter
<1>3. ASSUME NEW f \in Future, CancelFuture(f) PROVE [Abstract!Next]_(Abstract!vars)
  <2>1. /\ state' = [state EXCEPT ![f] = "cancelled"] /\ UNCHANGED <<waiter, current, closed>>
    BY <1>3 DEF CancelFuture, Complete
  <2>2. \A u \in Task : u # f /\ state'[u] = state[u]
    BY <2>1, TaskAssumption DEF TypeOK
  <2>3. \A p \in Awaitable : state'[p] = state[p] \/ (p = f /\ state'[p] \in {"result", "error", "cancelled"})
    BY <2>1 DEF TypeOK
  <2>4. \A u \in Task : AbstractPhase'[u] = AbstractPhase[u] \/ Abstract!Woken(u)
    BY <2>1, <2>2, <2>3, OthersAreWoken DEF TypeOK, WaitersFit
  <2> QED BY <2>1, <2>4, WakeOrStutter
<1>4. ASSUME NEW t \in Task, CreateTask(t) PROVE [Abstract!Next]_(Abstract!vars)
  <2>1. /\ state[t] = "absent" /\ ~closed /\ state' = [state EXCEPT ![t] = "pending"]
        /\ UNCHANGED <<waiter, current, closed>>
    BY <1>4 DEF CreateTask
  <2>2. waiter[t] = None /\ t # current /\ state'[t] = "pending"
    BY <2>1, TaskAssumption DEF WaitersFit, TypeOK, Call, Awaitable
  <2>3. \A u \in Task \ {t} : /\ state'[u] = state[u]
                            /\ waiter[u] # None => state'[waiter[u]] = state[waiter[u]]
    BY <2>1 DEF WaitersFit, TypeOK, Awaitable
  <2>4. AbstractPhase[t] = "absent" /\ AbstractPhase'[t] = "runnable"
    BY <2>1, <2>2 DEF AbstractPhase, Done
  <2>5. \A u \in Task \ {t} : AbstractPhase'[u] = AbstractPhase[u]
    BY <2>1, <2>3 DEF AbstractPhase, Done
  <2>6. AbstractPhase' = [AbstractPhase EXCEPT ![t] = "runnable"]
    BY <2>4, <2>5 DEF AbstractPhase
  <2>7. Abstract!Create(t)
    BY <2>1, <2>4, <2>6 DEF Abstract!Create
  <2> QED BY <2>7 DEF Abstract!Next
<1>5. ASSUME NEW t \in Task, CancelTask(t) PROVE [Abstract!Next]_(Abstract!vars)
  <2> DEFINE e == CancelTarget(t)
  <2>1. e \in Awaitable
    BY <1>t DEF Awaitable
  <2>2. CASE e \in Task
    <3>1. UNCHANGED <<state, waiter, current, closed>>
      BY <1>5, <2>2 DEF CancelTask
    <3>2. \A u \in Task : AbstractPhase'[u] = AbstractPhase[u] \/ Abstract!Woken(u)
      BY <3>1, OthersAreWoken
    <3> QED BY <3>1, <3>2, WakeOrStutter
  <2>3. CASE e \notin Task
    <3>1. state' = [state EXCEPT ![e] = "cancelled"] /\ UNCHANGED <<waiter, current, closed>>
      BY <1>5, <2>3 DEF CancelTask, Complete
    <3> HIDE DEF e
    <3>2. \A u \in Task : u # e /\ state'[u] = state[u]
      BY <2>3, <3>1 DEF TypeOK
    <3>3. \A p \in Awaitable : state'[p] = state[p] \/ (p = e /\ state'[p] \in {"result", "error", "cancelled"})
      BY <3>1 DEF TypeOK
    <3>4. \A u \in Task : AbstractPhase'[u] = AbstractPhase[u] \/ Abstract!Woken(u)
      BY <3>1, <3>2, <3>3, OthersAreWoken DEF TypeOK, WaitersFit
    <3> QED BY <3>1, <3>4, WakeOrStutter
  <2> QED BY <2>2, <2>3
<1>6. ASSUME NEW t \in Task, NEW c \in Call, Step(t, c) PROVE [Abstract!Next]_(Abstract!vars)
  <2>1. Stepped(t, c)
    BY <1>6, <1>s
  <2>2. /\ current = None /\ current' = t /\ state[t] = "pending" /\ closed' = closed
        /\ waiter[t] # None => Done(waiter[t])
        /\ \A u \in Task \ {t} : waiter'[u] = waiter[u]
        /\ state' = state
    BY <2>1 DEF Stepped, TypeOK
  <2>3. \A u \in Task : u # None
    BY TaskAssumption DEF Call, Awaitable
  <2>4. AbstractPhase[t] = "runnable" /\ AbstractPhase'[t] = "running"
    BY <2>2, <2>3 DEF AbstractPhase, Done
  <2>5. \A u \in Task \ {t} : AbstractPhase'[u] = AbstractPhase[u]
    BY <2>2, <2>3 DEF AbstractPhase, Done
  <2>6. AbstractPhase' = [AbstractPhase EXCEPT ![t] = "running"]
    BY <2>4, <2>5 DEF AbstractPhase
  <2>7. \A u \in Task : AbstractPhase[u] # "running"
    BY <2>2, <2>3 DEF AbstractPhase
  <2>8. Abstract!Resume(t)
    BY <2>2, <2>4, <2>6, <2>7 DEF Abstract!Resume, Abstract!Running
  <2> QED BY <2>8 DEF Abstract!Next
<1>7. ASSUME NEW t \in Task, Return(t) PROVE [Abstract!Next]_(Abstract!vars)
  <2>1. PICK s \in {"result", "error", "cancelled"} :
          /\ state' = [state EXCEPT ![t] = s] /\ t = current /\ current' = None
          /\ UNCHANGED <<waiter, closed>>
    BY <1>7 DEF Return, Complete, Leave
  <2>2. /\ \A u \in Task \ {t} : state'[u] = state[u] /\ u # None
        /\ state'[t] # "absent" /\ waiter[t] = None
    BY <2>1, TaskAssumption DEF TypeOK, WaitersFit, Call, Awaitable
  <2>3. \A p \in Awaitable : state'[p] = state[p] \/ (p = t /\ state'[p] \in {"result", "error", "cancelled"})
    BY <2>1 DEF TypeOK
  <2>4. \A u \in Task \ {t} : AbstractPhase'[u] = AbstractPhase[u] \/ Abstract!Woken(u)
    BY <2>1, <2>2, <2>3, OthersAreWoken DEF TypeOK, WaitersFit
  <2> QED BY <2>1, <2>2, <2>4, LeaveStep
<1>8. ASSUME NEW t \in Task, Raise(t, "error") PROVE [Abstract!Next]_(Abstract!vars)
  <2>1. PICK s \in {"result", "error", "cancelled"} :
          /\ state' = [state EXCEPT ![t] = s] /\ t = current /\ current' = None
          /\ UNCHANGED <<waiter, closed>>
    BY <1>8 DEF Raise, Complete, Leave
  <2>2. /\ \A u \in Task \ {t} : state'[u] = state[u] /\ u # None
        /\ state'[t] # "absent" /\ waiter[t] = None
    BY <2>1, TaskAssumption DEF TypeOK, WaitersFit, Call, Awaitable
  <2>3. \A p \in Awaitable : state'[p] = state[p] \/ (p = t /\ state'[p] \in {"result", "error", "cancelled"})
    BY <2>1 DEF TypeOK
  <2>4. \A u \in Task \ {t} : AbstractPhase'[u] = AbstractPhase[u] \/ Abstract!Woken(u)
    BY <2>1, <2>2, <2>3, OthersAreWoken DEF TypeOK, WaitersFit
  <2> QED BY <2>1, <2>2, <2>4, LeaveStep
<1>9. ASSUME NEW t \in Task, Raise(t, "cancelled") PROVE [Abstract!Next]_(Abstract!vars)
  <2>1. PICK s \in {"result", "error", "cancelled"} :
          /\ state' = [state EXCEPT ![t] = s] /\ t = current /\ current' = None
          /\ UNCHANGED <<waiter, closed>>
    BY <1>9 DEF Raise, Complete, Leave
  <2>2. /\ \A u \in Task \ {t} : state'[u] = state[u] /\ u # None
        /\ state'[t] # "absent" /\ waiter[t] = None
    BY <2>1, TaskAssumption DEF TypeOK, WaitersFit, Call, Awaitable
  <2>3. \A p \in Awaitable : state'[p] = state[p] \/ (p = t /\ state'[p] \in {"result", "error", "cancelled"})
    BY <2>1 DEF TypeOK
  <2>4. \A u \in Task \ {t} : AbstractPhase'[u] = AbstractPhase[u] \/ Abstract!Woken(u)
    BY <2>1, <2>2, <2>3, OthersAreWoken DEF TypeOK, WaitersFit
  <2> QED BY <2>1, <2>2, <2>4, LeaveStep
<1>10. ASSUME NEW t \in Task, Yield(t) PROVE [Abstract!Next]_(Abstract!vars)
  <2>1. t = current /\ current' = None /\ UNCHANGED <<state, waiter, closed>>
    BY <1>10 DEF Yield, Leave
  <2>2. \A u \in Task : u # None
    BY TaskAssumption DEF Call, Awaitable
  <2>3. \A u \in Task \ {t} : AbstractPhase'[u] = AbstractPhase[u] \/ Abstract!Woken(u)
    BY <2>1, <2>2, OthersAreWoken
  <2>4. state'[t] # "absent" /\ waiter'[t] = None
    BY <2>1, <2>2 DEF WaitersFit
  <2> QED BY <2>1, <2>3, <2>4, LeaveStep
<1>11. ASSUME NEW t \in Task, YieldWrong(t) PROVE [Abstract!Next]_(Abstract!vars)
  <2>1. t = current /\ current' = None /\ UNCHANGED <<state, waiter, closed>>
    BY <1>11 DEF YieldWrong, Leave
  <2>2. \A u \in Task : u # None
    BY TaskAssumption DEF Call, Awaitable
  <2>3. \A u \in Task \ {t} : AbstractPhase'[u] = AbstractPhase[u] \/ Abstract!Woken(u)
    BY <2>1, <2>2, OthersAreWoken
  <2>4. state'[t] # "absent" /\ waiter'[t] = None
    BY <2>1, <2>2 DEF WaitersFit
  <2> QED BY <2>1, <2>3, <2>4, LeaveStep
<1>12. ASSUME NEW t \in Task, NEW o \in Awaitable, Await(t, o) PROVE [Abstract!Next]_(Abstract!vars)
  <2> DEFINE e == CancelTarget(o)
  <2>1. /\ e \in Awaitable /\ current = t /\ current' = None
        /\ state[o] = "pending" /\ o # t /\ waiter' = [waiter EXCEPT ![t] = o] /\ closed' = closed
    BY <1>12, <1>t DEF Await, Leave
  <2>2. state' = state \/ (e \notin Task /\ state' = [state EXCEPT ![e] = "cancelled"])
    BY <1>12 DEF Await, HandOn
  <2> HIDE DEF e
  <2>3. /\ \A u \in Task : state'[u] = state[u] /\ u # None
        /\ waiter'[t] = o /\ \A u \in Task \ {t} : waiter'[u] = waiter[u]
    BY <2>1, <2>2, TaskAssumption DEF TypeOK, Call, Awaitable
  <2>4. \A p \in Awaitable : state'[p] = state[p] \/ (p = e /\ state'[p] \in {"result", "error", "cancelled"})
    BY <2>2 DEF TypeOK
  <2>5. \A u \in Task \ {t} : AbstractPhase'[u] = AbstractPhase[u] \/ Abstract!Woken(u)
    BY <2>1, <2>3, <2>4, OthersAreWoken DEF TypeOK, WaitersFit
  <2>6. state'[t] # "absent" /\ state'[o] # "absent"
    BY <2>1, <2>3, <2>4 DEF WaitersFit
  <2> QED BY <2>1, <2>3, <2>5, <2>6, LeaveStep
<1>13. ASSUME Close PROVE [Abstract!Next]_(Abstract!vars)
  <2>1. ~closed /\ closed' = TRUE /\ UNCHANGED <<state, waiter, current>>
    BY <1>13 DEF Close
  <2>2. AbstractPhase' = AbstractPhase
    BY <2>1 DEF AbstractPhase, Done
  <2>3. Abstract!Close
    BY <2>1, <2>2 DEF Abstract!Close
  <2> QED BY <2>3 DEF Abstract!Next
<1>14. CASE UNCHANGED vars
  <2>1. \A u \in Task : AbstractPhase'[u] = AbstractPhase[u] \/ Abstract!Woken(u)
    BY <1>14, OthersAreWoken DEF vars
  <2> QED BY <1>14, <2>1, WakeOrStutter DEF vars
<1> QED
  BY <1>1, <1>2, <1>3, <1>4, <1>5, <1>6, <1>7, <1>8, <1>9, <1>10, <1>11, <1>12, <1>13, <1>14
  DEF Next, Resume, Finish

(* The safety part of ImplementsCoroutines: a program that knows only          *)
(* Coroutines, where one coroutine runs at a time and one that waits runs only *)
(* after it was woken, sees nothing else of the tasks of _task.py.             *)
THEOREM TasksAreCoroutines == Spec => Abstract!Init /\ [][Abstract!Next]_(Abstract!vars)
<1>1. Inv /\ [Next]_vars => [Abstract!Next]_(Abstract!vars)
  BY AbstractStep DEF Inv
<1> QED BY AbstractInit, <1>1, InvAlways, PTL DEF Spec
=============================================================================
