---------------------------- MODULE ProxyHandles ----------------------------
(***************************************************************************)
(* The handles and timers of one LoopProxy (_handle.py and the scheduling  *)
(* part of _loop.py) over the parent event loop that really runs them.     *)
(*                                                                         *)
(* A proxy handle wraps a handle of the parent loop.  The proxy keeps its  *)
(* pending handles in `_ready` and its pending timers in `_timers`: that   *)
(* is how check_and_shutdown() finds what to cancel and advance_time()     *)
(* finds what to move.  `_timers` is a Python set, so it compares its      *)
(* members with TimerHandle.__eq__ and not by identity.                    *)
(*                                                                         *)
(* Time is counted in ticks of the parent's clock.                         *)
(***************************************************************************)
EXTENDS Integers, FiniteSets

CONSTANTS Handle,        \* the handles the program creates, each at most once
          ThreadHandle,  \* those created by call_soon_threadsafe()
          Key,           \* Key[h]: callback and arguments of h, as __eq__ compares them
          Delays,        \* delays given to call_later()
          Deadlines,     \* times given to call_at()
          Shifts,        \* offsets given to advance_time()
          MaxTime,       \* bound: the parent's clock stops there
          MaxOffset      \* bound: advance_time() stays within +-MaxOffset

ASSUME ThreadAssumption == ThreadHandle \subseteq Handle
ASSUME TimeAssumption   == /\ Delays \subseteq Nat
                           /\ Deadlines \subseteq Nat
                           /\ Shifts \subseteq Int
                           /\ MaxTime \in Nat
                           /\ MaxOffset \in Nat

VARIABLES now,      \* parent.time()
          running,  \* parent.is_running()
          offset,   \* LoopProxy._time_offset
          closed,   \* LoopProxy._closed
          ready,    \* LoopProxy._ready
          timers,   \* LoopProxy._timers
          kind,     \* the method that created the handle, "none" before
          when,     \* _ProxyTimerHandle._when, in the proxy's time
          own,      \* Handle._cancelled of the proxy handle
          linked,   \* _ProxyHandleMixin._parent is not None
          pc,       \* where a thread is inside call_soon_threadsafe()
          parent,   \* state of the parent handle
          pwhen,    \* _when of the parent timer, in the parent's time
          runs,     \* history: how often the callback was called
          swept     \* history: the handles returned before the last shutdown

loopVars   == <<offset, closed, ready, timers>>
handleVars == <<kind, when, own, linked, pc>>
parentVars == <<now, running, parent, pwhen>>
history    == <<runs, swept>>
vars       == <<loopVars, handleVars, parentVars, history>>

Kind       == {"none", "soon", "later", "at", "threadsafe"}
ThreadStep == {"idle", "checked", "posted", "returned"}
ParentState == {"none", "timer", "ready", "ran", "cancelled"}

IsTimer(h)  == kind[h] \in {"later", "at"}
Pending(h)  == parent[h] \in {"timer", "ready"}  \* the parent will call it
Tracked(h)  == h \in ready \/ h \in timers
(* The creating call has returned the handle. *)
Returned(h) == kind[h] # "none" /\ pc[h] \in {"idle", "returned"}

Time == now + offset       \* LoopProxy.time()

(* Faulty variant: __eq__ that compares the deadline, as __hash__ does. *)
SameTimer_ByHash(g, h, w, c) == when[g] = w /\ own[g] = c

(* TimerHandle.__eq__ between a timer g and a timer with the key of h, the *)
(* deadline w and the cancelled flag c.                                    *)
SameTimer(g, h, w, c) == when[g] = w /\ Key[g] = Key[h] /\ own[g] = c

(* The type of the state; the handles in `_ready` are no timers and the ones *)
(* in `_timers` are (the two _register() methods of _handle.py).            *)
TypeOK ==
  /\ now \in Nat
  /\ running \in BOOLEAN
  /\ offset \in Int
  /\ closed \in BOOLEAN
  /\ kind \in [Handle -> Kind]
  /\ ready \subseteq {h \in Handle : kind[h] \in {"soon", "threadsafe"}}
  /\ timers \subseteq {h \in Handle : IsTimer(h)}
  /\ when \in [Handle -> Int]
  /\ own \in [Handle -> BOOLEAN]
  /\ linked \in [Handle -> BOOLEAN]
  /\ pc \in [Handle -> ThreadStep]
  /\ parent \in [Handle -> ParentState]
  /\ pwhen \in [Handle -> Int]
  /\ runs \in [Handle -> Nat]
  /\ swept \subseteq Handle

Init ==
  /\ now = 0
  /\ running = FALSE
  /\ offset = 0
  /\ closed = FALSE
  /\ ready = {}
  /\ timers = {}
  /\ kind = [h \in Handle |-> "none"]
  /\ when = [h \in Handle |-> 0]
  /\ own = [h \in Handle |-> FALSE]
  /\ linked = [h \in Handle |-> FALSE]
  /\ pc = [h \in Handle |-> "idle"]
  /\ parent = [h \in Handle |-> "none"]
  /\ pwhen = [h \in Handle |-> 0]
  /\ runs = [h \in Handle |-> 0]
  /\ swept = {}

-----------------------------------------------------------------------------
(* _ProxyHandleMixin *)

(* set.add(): nothing happens when an equal timer is already a member. *)
RegisterTimer(h, w) ==
  timers' = IF \E g \in timers : SameTimer(g, h, w, FALSE) THEN timers ELSE timers \cup {h}

(* _discard(): set.discard() removes the member that is EQUAL to the timer. *)
Discard(h) ==
  IF IsTimer(h)
  THEN /\ timers' = {g \in timers : ~SameTimer(g, h, when[h], own[h])}
       /\ UNCHANGED ready
  ELSE /\ ready' = ready \ {h}
       /\ UNCHANGED timers

Unlink(h) ==
  /\ Discard(h)
  /\ own' = [own EXCEPT ![h] = TRUE]
  /\ linked' = [linked EXCEPT ![h] = FALSE]

(* Faulty variant: cancel() that forgets the parent handle. *)
Cancel_ParentKept(h) ==
  /\ linked[h]
  /\ Unlink(h)
  /\ UNCHANGED <<offset, closed, kind, when, pc, parentVars, history>>

Cancel(h) ==
  /\ linked[h]
  /\ parent' = [parent EXCEPT ![h] = "cancelled"]
  /\ Unlink(h)
  /\ UNCHANGED <<offset, closed, kind, when, pc, now, running, pwhen, history>>

(* cancelled() notices that somebody cancelled the parent handle. *)
Cancelled(h) ==
  /\ linked[h]
  /\ parent[h] = "cancelled"
  /\ Unlink(h)
  /\ UNCHANGED <<offset, closed, kind, when, pc, parentVars, history>>

(* Faulty variant: _run() without its _discard(). *)
Run_NotDiscarded(h) ==
  /\ running
  /\ parent[h] = "ready"
  /\ parent' = [parent EXCEPT ![h] = "ran"]
  /\ runs' = [runs EXCEPT ![h] = @ + 1]
  /\ UNCHANGED <<loopVars, handleVars, now, running, pwhen, swept>>

Run(h) ==
  /\ running
  /\ parent[h] = "ready"
  /\ parent' = [parent EXCEPT ![h] = "ran"]
  /\ runs' = [runs EXCEPT ![h] = @ + 1]
  /\ Discard(h)
  /\ UNCHANGED <<offset, closed, handleVars, now, running, pwhen, swept>>

-----------------------------------------------------------------------------
(* LoopProxy: scheduling *)

(* Faulty variant: _register() of the wrong class. *)
CallSoon_AsTimer(h) ==
  /\ kind[h] = "none" /\ h \notin ThreadHandle
  /\ ~closed
  /\ kind' = [kind EXCEPT ![h] = "soon"]
  /\ parent' = [parent EXCEPT ![h] = "ready"]
  /\ linked' = [linked EXCEPT ![h] = TRUE]
  /\ timers' = timers \cup {h}
  /\ UNCHANGED <<offset, closed, ready, when, own, pc, now, running, pwhen, history>>

CallSoon(h) ==
  /\ kind[h] = "none" /\ h \notin ThreadHandle
  /\ ~closed
  /\ kind' = [kind EXCEPT ![h] = "soon"]
  /\ parent' = [parent EXCEPT ![h] = "ready"]
  /\ linked' = [linked EXCEPT ![h] = TRUE]
  /\ ready' = ready \cup {h}
  /\ UNCHANGED <<offset, closed, timers, when, own, pc, now, running, pwhen, history>>

NewTimer(h, k, w, pw) ==
  /\ kind[h] = "none" /\ h \notin ThreadHandle
  /\ ~closed
  /\ kind' = [kind EXCEPT ![h] = k]
  /\ when' = [when EXCEPT ![h] = w]
  /\ pwhen' = [pwhen EXCEPT ![h] = pw]
  /\ parent' = [parent EXCEPT ![h] = "timer"]
  /\ linked' = [linked EXCEPT ![h] = TRUE]
  /\ RegisterTimer(h, w)
  /\ UNCHANGED <<offset, closed, ready, own, pc, now, running, history>>

(* Faulty variant: the deadline counted from the parent's time. *)
CallLater_ParentTime(h, delay) == NewTimer(h, "later", now + delay, now + delay)

CallLater(h, delay) == NewTimer(h, "later", Time + delay, now + delay)

(* The deadline is handed to the parent as it is, although it is in the *)
(* proxy's time.                                                        *)
CallAt(h, deadline) == NewTimer(h, "at", deadline, deadline)

(* call_soon_threadsafe() on another thread: the closed check, the post to *)
(* the parent and the registration are separate steps, and the loop runs   *)
(* between them.                                                           *)
ThreadsafeCheck(h) ==
  /\ kind[h] = "none" /\ h \in ThreadHandle
  /\ ~closed
  /\ kind' = [kind EXCEPT ![h] = "threadsafe"]
  /\ pc' = [pc EXCEPT ![h] = "checked"]
  /\ UNCHANGED <<loopVars, when, own, linked, parentVars, history>>

ThreadsafePost(h) ==
  /\ pc[h] = "checked"
  /\ pc' = [pc EXCEPT ![h] = "posted"]
  /\ parent' = [parent EXCEPT ![h] = "ready"]
  /\ UNCHANGED <<loopVars, kind, when, own, linked, now, running, pwhen, history>>

ThreadsafeRegister(h) ==
  /\ pc[h] = "posted"
  /\ pc' = [pc EXCEPT ![h] = "returned"]
  /\ linked' = [linked EXCEPT ![h] = TRUE]
  /\ ready' = ready \cup {h}
  /\ UNCHANGED <<offset, closed, timers, kind, when, own, parentVars, history>>

-----------------------------------------------------------------------------
(* LoopProxy: time, shutdown, close *)

(* The timers whose parent handle advance_time() replaces: it skips the *)
(* ones without a parent and those whose parent is cancelled.           *)
Moved == {t \in timers : linked[t] /\ parent[t] # "cancelled"}

(* Faulty variant: a timer the parent has popped already is left alone. *)
AdvanceTime_HeapOnly(shift) ==
  /\ offset + shift \in -MaxOffset..MaxOffset
  /\ offset' = offset + shift
  /\ pwhen' = [h \in Handle |->
                 IF h \in Moved /\ parent[h] = "timer" THEN pwhen[h] - shift ELSE pwhen[h]]
  /\ UNCHANGED <<closed, ready, timers, handleVars, now, running, parent, history>>

(* A moved timer goes back to the parent's heap, even when the parent had *)
(* already popped it to its ready queue.                                  *)
AdvanceTime(shift) ==
  /\ offset + shift \in -MaxOffset..MaxOffset
  /\ offset' = offset + shift
  /\ parent' = [h \in Handle |-> IF h \in Moved THEN "timer" ELSE parent[h]]
  /\ pwhen' = [h \in Handle |-> IF h \in Moved THEN pwhen[h] - shift ELSE pwhen[h]]
  /\ UNCHANGED <<closed, ready, timers, handleVars, now, running, history>>

(* Faulty variant: the sets are cleared and only `_ready` is cancelled. *)
SweepHandles_TimersForgotten ==
  /\ running
  /\ parent' = [h \in Handle |-> IF h \in ready /\ linked[h] THEN "cancelled" ELSE parent[h]]
  /\ own' = [h \in Handle |-> h \in ready \/ own[h]]
  /\ linked' = [h \in Handle |-> h \notin ready /\ linked[h]]
  /\ ready' = {}
  /\ timers' = {}
  /\ swept' = {h \in Handle : Returned(h)}
  /\ UNCHANGED <<offset, closed, kind, when, pc, now, running, pwhen, runs>>

(* The end of check_and_shutdown(), which has no await: cancel() on every *)
(* tracked handle, then clear().                                          *)
SweepHandles ==
  /\ running
  /\ parent' = [h \in Handle |-> IF Tracked(h) /\ linked[h] THEN "cancelled" ELSE parent[h]]
  /\ own' = [h \in Handle |-> Tracked(h) \/ own[h]]
  /\ linked' = [h \in Handle |-> ~Tracked(h) /\ linked[h]]
  /\ ready' = {}
  /\ timers' = {}
  /\ swept' = {h \in Handle : Returned(h)}
  /\ UNCHANGED <<offset, closed, kind, when, pc, now, running, pwhen, runs>>

Close ==
  /\ ~running
  /\ closed' = TRUE
  /\ UNCHANGED <<offset, ready, timers, handleVars, parentVars, history>>

-----------------------------------------------------------------------------
(* The parent loop: modelled from what the proxy calls on it. *)

Tick ==
  /\ now < MaxTime
  /\ now' = now + 1
  /\ UNCHANGED <<loopVars, handleVars, running, parent, pwhen, history>>

Expired == {h \in Handle : parent[h] = "timer" /\ pwhen[h] <= now}

PopTimers ==
  /\ running
  /\ Expired # {}
  /\ parent' = [h \in Handle |-> IF h \in Expired THEN "ready" ELSE parent[h]]
  /\ UNCHANGED <<loopVars, handleVars, now, running, pwhen, history>>

(* The owner of `_parent` cancels it behind the handle: a program can, and *)
(* a LoopProxy that is itself the parent does when it is shut down.        *)
ParentCancel(h) ==
  /\ linked[h] /\ Pending(h)
  /\ parent' = [parent EXCEPT ![h] = "cancelled"]
  /\ UNCHANGED <<loopVars, handleVars, now, running, pwhen, history>>

StartOrStop ==
  /\ running' = ~running
  /\ UNCHANGED <<loopVars, handleVars, now, parent, pwhen, history>>

-----------------------------------------------------------------------------

HandleStep(h) ==
  \/ CallSoon(h)
  \/ \E d \in Delays : CallLater(h, d)
  \/ \E w \in Deadlines : CallAt(h, w)
  \/ ThreadsafeCheck(h)
  \/ ThreadsafePost(h)
  \/ ThreadsafeRegister(h)
  \/ Cancel(h)
  \/ Cancelled(h)
  \/ ParentCancel(h)
  \/ Run(h)

Next ==
  \/ \E h \in Handle : HandleStep(h)
  \/ \E s \in Shifts : AdvanceTime(s)
  \/ SweepHandles
  \/ Close
  \/ Tick
  \/ PopTimers
  \/ StartOrStop

Spec == Init /\ [][Next]_vars

-----------------------------------------------------------------------------
(* Properties *)

(* No two handles compare equal: what the tracking of timers rests on. *)
DistinctKeys == \A g, h \in Handle : Key[g] = Key[h] => g = h

(* A handle whose creating call has returned and that the parent is still  *)
(* going to call is in the proxy's sets (_set_parent() registers it and    *)
(* nothing discards it early).  What is not there, neither                 *)
(* check_and_shutdown() nor advance_time() can find.                       *)
PendingIsTracked == \A h \in Handle : Returned(h) /\ Pending(h) => Tracked(h)

(* A tracked timer, or a tracked handle made on the loop's own thread, has *)
(* a parent handle and has not been executed: advance_time() re-posts      *)
(* every timer it finds, so an executed one would be called again.         *)
TrackedIsLive ==
  /\ \A h \in ready \cup timers : linked[h] /\ ~own[h]
  /\ \A h \in (ready \cup timers) \ ThreadHandle :
       parent[h] \in {"timer", "ready", "cancelled"}

(* A handle that says it is cancelled will not be called by the parent any *)
(* more and is not tracked (_ProxyHandleMixin.cancel() and cancelled()).   *)
CancelledIsDead == \A h \in Handle : own[h] => parent[h] = "cancelled" /\ ~Tracked(h)

(* No callback is called twice, whatever mix of advance_time(), cancel()   *)
(* and shutdown the program performs.                                      *)
CalledAtMostOnce == \A h \in Handle : runs[h] <= 1

(* What existed when check_and_shutdown() swept the handles never runs     *)
(* afterwards: the proxy leaves nothing behind in the parent loop.         *)
SweptNeverPending == \A h \in swept : ~Pending(h)

KeepsDeadline(h) == Pending(h) => pwhen[h] = when[h] - offset

(* However the proxy's time was shifted, a pending call_later() timer is   *)
(* due in the parent when its deadline comes in the proxy's time.          *)
LaterKeepsDeadline == \A h \in Handle : kind[h] = "later" => KeepsDeadline(h)

(* The same for call_at(), whose deadline call_at() hands over unconverted. *)
AtKeepsDeadline == \A h \in Handle : kind[h] = "at" => KeepsDeadline(h)

(* A call_later() timer the parent is about to call is due in the proxy's  *)
(* time, also after the time was shifted back under it.                    *)
PoppedIsDue ==
  \A h \in Handle : kind[h] = "later" /\ parent[h] = "ready" => when[h] <= Time
=============================================================================
