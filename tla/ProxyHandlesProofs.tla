------------------------- MODULE ProxyHandlesProofs -------------------------
(***************************************************************************)
(* What holds of ProxyHandles for every set of handles, every clock and    *)
(* every sequence of shifts.  The argument is the inductive invariant      *)
(* HandleInv: each part of it speaks of one handle.                        *)
(***************************************************************************)
EXTENDS ProxyHandles, TLAPS

(* A handle nobody created yet has no trace; `pc' follows `kind'. *)
Untouched ==
  \A h \in Handle :
    /\ kind[h] = "none" =>
         ~linked[h] /\ ~own[h] /\ parent[h] = "none" /\ runs[h] = 0 /\ pc[h] = "idle"
    /\ h \in ThreadHandle => kind[h] \in {"none", "threadsafe"}
    /\ h \in ThreadHandle /\ pc[h] = "idle" => kind[h] = "none"
    /\ h \notin ThreadHandle => pc[h] = "idle"

(* Inside call_soon_threadsafe() the handle is not registered, and the *)
(* parent knows of it after the post only.                             *)
ThreadOrder ==
  \A h \in Handle :
    /\ pc[h] = "checked" => parent[h] = "none" /\ runs[h] = 0
    /\ pc[h] \in {"checked", "posted"} => ~linked[h] /\ ~own[h] /\ ~Tracked(h)

(* Only what the parent called was counted. *)
RunsCounted == \A h \in Handle : runs[h] <= 1 /\ (Pending(h) => runs[h] = 0)

(* A swept handle was returned to its creator. *)
SweptReturned == \A h \in swept : Returned(h) /\ ~Pending(h)

(* The parent popped a timer only when its deadline in the parent had come. *)
PoppedExpired ==
  \A h \in Handle : kind[h] = "later" /\ parent[h] = "ready" => pwhen[h] <= now

(* What holds only as long as no two timers compare equal. *)
TrackedInv ==
  /\ PendingIsTracked
  /\ SweptReturned
  /\ LaterKeepsDeadline
  /\ PoppedExpired

(* What holds whatever the keys are. *)
SafeInv ==
  /\ TypeOK
  /\ Untouched
  /\ ThreadOrder
  /\ TrackedIsLive
  /\ CancelledIsDead
  /\ RunsCounted

LEMMA InitSafe == Init => SafeInv
<1> SUFFICES ASSUME Init PROVE SafeInv OBVIOUS
<1> USE DEF Init
<1>1. TypeOK
  <2>1. ready = {} /\ timers = {} /\ swept = {}
    OBVIOUS
  <2>2. /\ kind \in [Handle -> Kind] /\ when \in [Handle -> Int]
        /\ own \in [Handle -> BOOLEAN] /\ linked \in [Handle -> BOOLEAN]
        /\ pc \in [Handle -> ThreadStep] /\ parent \in [Handle -> ParentState]
        /\ pwhen \in [Handle -> Int] /\ runs \in [Handle -> Nat]
    BY DEF Kind, ThreadStep, ParentState
  <2>3. now \in Nat /\ offset \in Int
    OBVIOUS
  <2>4. running \in BOOLEAN /\ closed \in BOOLEAN
    BY Zenon
  <2> HIDE DEF Init
  <2> QED BY <2>1, <2>2, <2>3, <2>4 DEF TypeOK
<1>2. Untouched /\ ThreadOrder
  BY ThreadAssumption DEF Untouched, ThreadOrder, Tracked
<1>3. TrackedIsLive /\ CancelledIsDead /\ RunsCounted
  BY DEF TrackedIsLive, CancelledIsDead, RunsCounted, Pending
<1> QED BY <1>1, <1>2, <1>3 DEF SafeInv

(* Every operation leaves the state well typed. *)
LEMMA TypeStep == ASSUME TypeOK, Untouched, [Next]_vars PROVE TypeOK'
<1> USE TimeAssumption
    DEF TypeOK, IsTimer, Kind, ThreadStep, ParentState, loopVars, handleVars, parentVars, history
<1>1. ASSUME NEW h \in Handle, CallSoon(h) PROVE TypeOK'
  BY <1>1 DEF CallSoon
<1>2. ASSUME NEW h \in Handle, NEW k \in {"later", "at"}, NEW w \in Int, NEW pw \in Int,
             NewTimer(h, k, w, pw)
      PROVE TypeOK'
  BY <1>2 DEF NewTimer, RegisterTimer
<1>3. ASSUME NEW h \in Handle, NEW d \in Delays, CallLater(h, d) PROVE TypeOK'
  <2>1. Time + d \in Int /\ now + d \in Int
    BY DEF Time
  <2> QED BY <1>2, <1>3, <2>1 DEF CallLater
<1>4. ASSUME NEW h \in Handle, NEW w \in Deadlines, CallAt(h, w) PROVE TypeOK'
  <2>1. w \in Int
    OBVIOUS
  <2> QED BY <1>2, <1>4, <2>1 DEF CallAt
<1>5. ASSUME NEW h \in Handle, ThreadsafeCheck(h) PROVE TypeOK'
  BY <1>5 DEF ThreadsafeCheck
<1>6. ASSUME NEW h \in Handle, ThreadsafePost(h) PROVE TypeOK'
  BY <1>6 DEF ThreadsafePost
<1>7. ASSUME NEW h \in Handle, ThreadsafeRegister(h) PROVE TypeOK'
  BY <1>7 DEF ThreadsafeRegister, Untouched
<1>8. ASSUME NEW h \in Handle, Cancel(h) PROVE TypeOK'
  BY <1>8 DEF Cancel, Unlink, Discard
<1>9. ASSUME NEW h \in Handle, Cancelled(h) PROVE TypeOK'
  BY <1>9 DEF Cancelled, Unlink, Discard
<1>10. ASSUME NEW h \in Handle, ParentCancel(h) PROVE TypeOK'
  BY <1>10 DEF ParentCancel
<1>11. ASSUME NEW h \in Handle, Run(h) PROVE TypeOK'
  BY <1>11 DEF Run, Discard
<1>12. ASSUME NEW s \in Shifts, AdvanceTime(s) PROVE TypeOK'
  BY <1>12 DEF AdvanceTime
<1>13. CASE SweepHandles
  BY <1>13 DEF SweepHandles, Tracked
<1>14. CASE Close
  BY <1>14 DEF Close
<1>15. CASE Tick
  BY <1>15 DEF Tick
<1>16. CASE PopTimers
  BY <1>16 DEF PopTimers
<1>17. CASE StartOrStop
  BY <1>17 DEF StartOrStop
<1>18. CASE UNCHANGED vars
  BY <1>18 DEF vars
<1> QED
  BY <1>1, <1>3, <1>4, <1>5, <1>6, <1>7, <1>8, <1>9, <1>10, <1>11, <1>12, <1>13, <1>14,
     <1>15, <1>16, <1>17, <1>18 DEF Next, HandleStep

(* Every operation preserves what SafeInv says of each handle. *)
LEMMA SafeStep == ASSUME SafeInv, [Next]_vars PROVE SafeInv'
<1>1. TypeOK'
  BY TypeStep DEF SafeInv
<1> USE <1>1, ThreadAssumption
    DEF SafeInv, TypeOK, Untouched, ThreadOrder, TrackedIsLive, CancelledIsDead, RunsCounted,
        Pending, Tracked, IsTimer, Kind, loopVars, handleVars, parentVars, history
<1>2. ASSUME NEW h \in Handle, CallSoon(h) PROVE SafeInv'
  BY <1>2 DEF CallSoon
<1>3. ASSUME NEW h \in Handle, NEW k \in {"later", "at"}, NEW w \in Int, NEW pw \in Int,
             NewTimer(h, k, w, pw)
      PROVE SafeInv'
  <2>1. timers' \in {timers, timers \cup {h}}
    BY <1>3 DEF NewTimer, RegisterTimer
  <2>2. Untouched' /\ ThreadOrder' /\ RunsCounted'
    BY <1>3, <2>1 DEF NewTimer
  <2>3. TrackedIsLive' /\ CancelledIsDead'
    BY <1>3, <2>1 DEF NewTimer
  <2> QED BY <2>2, <2>3
<1>4. ASSUME NEW h \in Handle, NEW d \in Delays, CallLater(h, d) PROVE SafeInv'
  <2>1. Time + d \in Int /\ now + d \in Int
    BY TimeAssumption DEF Time
  <2> QED BY <1>3, <1>4, <2>1 DEF CallLater
<1>5. ASSUME NEW h \in Handle, NEW w \in Deadlines, CallAt(h, w) PROVE SafeInv'
  <2>1. w \in Int
    BY TimeAssumption
  <2> QED BY <1>3, <1>5, <2>1 DEF CallAt
<1>6. ASSUME NEW h \in Handle, ThreadsafeCheck(h) PROVE SafeInv'
  BY <1>6 DEF ThreadsafeCheck
<1>7. ASSUME NEW h \in Handle, ThreadsafePost(h) PROVE SafeInv'
  BY <1>7 DEF ThreadsafePost
<1>8. ASSUME NEW h \in Handle, ThreadsafeRegister(h) PROVE SafeInv'
  BY <1>8 DEF ThreadsafeRegister
<1>9. ASSUME NEW h \in Handle, Cancel(h) PROVE SafeInv'
  BY <1>9 DEF Cancel, Unlink, Discard, SameTimer
<1>10. ASSUME NEW h \in Handle, Cancelled(h) PROVE SafeInv'
  BY <1>10 DEF Cancelled, Unlink, Discard, SameTimer
<1>11. ASSUME NEW h \in Handle, ParentCancel(h) PROVE SafeInv'
  BY <1>11 DEF ParentCancel
<1>12. ASSUME NEW h \in Handle, Run(h) PROVE SafeInv'
  BY <1>12 DEF Run, Discard, SameTimer
<1>13. ASSUME NEW s \in Shifts, AdvanceTime(s) PROVE SafeInv'
  BY <1>13 DEF AdvanceTime, Moved
<1>14. CASE SweepHandles
  BY <1>14 DEF SweepHandles
<1>15. CASE Close
  BY <1>15 DEF Close
<1>16. CASE Tick
  BY <1>16 DEF Tick
<1>17. CASE PopTimers
  BY <1>17 DEF PopTimers, Expired
<1>18. CASE StartOrStop
  BY <1>18 DEF StartOrStop
<1>19. CASE UNCHANGED vars
  BY <1>19 DEF vars
<1> QED
  BY <1>2, <1>4, <1>5, <1>6, <1>7, <1>8, <1>9, <1>10, <1>11, <1>12, <1>13, <1>14, <1>15,
     <1>16, <1>17, <1>18, <1>19 DEF Next, HandleStep

(* Under DistinctKeys, _discard() removes the timer it is called on and no other. *)
LEMMA DiscardSelf ==
  ASSUME DistinctKeys, NEW h \in Handle, NEW t \in timers, TypeOK, SameTimer(t, h, when[h], own[h])
  PROVE  t = h
  BY DEF DistinctKeys, SameTimer, TypeOK

LEMMA TrackedStep ==
  ASSUME DistinctKeys, SafeInv, TrackedInv, [Next]_vars
  PROVE  TrackedInv'
<1>1. TypeOK' /\ SafeInv'
  BY TypeStep, SafeStep DEF SafeInv
<1> USE <1>1, ThreadAssumption, TimeAssumption
    DEF SafeInv, TypeOK, Untouched, ThreadOrder, TrackedIsLive, CancelledIsDead,
        TrackedInv, PendingIsTracked, SweptReturned, LaterKeepsDeadline, KeepsDeadline,
        PoppedExpired, Returned, Pending, Tracked, IsTimer, Kind,
        loopVars, handleVars, parentVars, history
<1>2. ASSUME NEW h \in Handle, CallSoon(h) PROVE TrackedInv'
  BY <1>2 DEF CallSoon
<1>3. ASSUME NEW h \in Handle, NEW k \in {"later", "at"}, NEW w \in Int, NEW pw \in Int,
             k = "later" => pw = w - offset, NewTimer(h, k, w, pw)
      PROVE TrackedInv'
  <2>1. timers' = timers \cup {h}
    <3>1. \A g \in timers : ~SameTimer(g, h, w, FALSE)
      BY <1>3, DiscardSelf DEF NewTimer, SameTimer, DistinctKeys
    <3>2. RegisterTimer(h, w)
      BY <1>3 DEF NewTimer
    <3> QED BY <3>1, <3>2 DEF RegisterTimer
  <2> QED BY <1>3, <2>1 DEF NewTimer
<1>4. ASSUME NEW h \in Handle, NEW d \in Delays, CallLater(h, d) PROVE TrackedInv'
  <2>1. PICK w \in Int, pw \in Int : w = Time + d /\ pw = now + d /\ pw = w - offset
    BY DEF Time
  <2>2. NewTimer(h, "later", w, pw)
    BY <1>4, <2>1 DEF CallLater, NewTimer, RegisterTimer
  <2> QED BY <1>3, <2>1, <2>2
<1>5. ASSUME NEW h \in Handle, NEW w \in Deadlines, CallAt(h, w) PROVE TrackedInv'
  <2>1. w \in Int
    OBVIOUS
  <2> QED BY <1>3, <1>5, <2>1 DEF CallAt
<1>6. ASSUME NEW h \in Handle, ThreadsafeCheck(h) PROVE TrackedInv'
  BY <1>6 DEF ThreadsafeCheck
<1>7. ASSUME NEW h \in Handle, ThreadsafePost(h) PROVE TrackedInv'
  BY <1>7 DEF ThreadsafePost
<1>8. ASSUME NEW h \in Handle, ThreadsafeRegister(h) PROVE TrackedInv'
  BY <1>8 DEF ThreadsafeRegister
<1>9. ASSUME NEW h \in Handle, Discard(h)
      PROVE  \A g \in Handle \ {h} : Tracked(g) => Tracked(g)'
  BY <1>9, DiscardSelf DEF Discard
<1>10. ASSUME NEW h \in Handle, Cancel(h) PROVE TrackedInv'
  <2>1. Discard(h)
    BY <1>10 DEF Cancel, Unlink
  <2> QED BY <1>9, <1>10, <2>1 DEF Cancel
<1>11. ASSUME NEW h \in Handle, Cancelled(h) PROVE TrackedInv'
  <2>1. Discard(h)
    BY <1>11 DEF Cancelled, Unlink
  <2> QED BY <1>9, <1>11, <2>1 DEF Cancelled
<1>12. ASSUME NEW h \in Handle, ParentCancel(h) PROVE TrackedInv'
  BY <1>12 DEF ParentCancel
<1>13. ASSUME NEW h \in Handle, Run(h) PROVE TrackedInv'
  <2>1. Discard(h)
    BY <1>13 DEF Run
  <2> QED BY <1>9, <1>13, <2>1 DEF Run
<1>14. ASSUME NEW s \in Shifts, AdvanceTime(s) PROVE TrackedInv'
  BY <1>14 DEF AdvanceTime, Moved
<1>15. CASE SweepHandles
  BY <1>15 DEF SweepHandles
<1>16. CASE Close
  BY <1>16 DEF Close
<1>17. CASE Tick
  BY <1>17 DEF Tick
<1>18. CASE PopTimers
  BY <1>18 DEF PopTimers, Expired
<1>19. CASE StartOrStop
  BY <1>19 DEF StartOrStop
<1>20. CASE UNCHANGED vars
  BY <1>20 DEF vars
<1> QED
  BY <1>2, <1>4, <1>5, <1>6, <1>7, <1>8, <1>10, <1>11, <1>12, <1>13, <1>14, <1>15, <1>16,
     <1>17, <1>18, <1>19, <1>20 DEF Next, HandleStep

-----------------------------------------------------------------------------

LEMMA SafeAlways == Spec => []SafeInv
<1>1. SafeInv /\ UNCHANGED vars => SafeInv'
  BY SafeStep
<1> QED BY InitSafe, SafeStep, PTL DEF Spec

(* The state keeps its type; `_ready' holds handles only and `_timers' timers. *)
THEOREM TypeCorrect == Spec => []TypeOK
<1>1. SafeInv => TypeOK
  BY DEF SafeInv
<1> QED BY <1>1, SafeAlways, PTL

(* Whatever the callbacks are and whoever cancels what, nothing executed *)
(* stays in `_timers', so advance_time() posts no timer again.           *)
THEOREM TrackingIsSound == Spec => []TrackedIsLive
<1>1. SafeInv => TrackedIsLive
  BY DEF SafeInv
<1> QED BY <1>1, SafeAlways, PTL

(* A cancelled handle is neither tracked nor called, whoever cancelled it. *)
THEOREM CancelIsFinal == Spec => []CancelledIsDead
<1>1. SafeInv => CancelledIsDead
  BY DEF SafeInv
<1> QED BY <1>1, SafeAlways, PTL

(* No callback is called twice, even when advance_time() re-posts its timer. *)
THEOREM AtMostOnce == Spec => []CalledAtMostOnce
<1>1. SafeInv => CalledAtMostOnce
  BY DEF SafeInv, RunsCounted, CalledAtMostOnce
<1> QED BY <1>1, SafeAlways, PTL

LEMMA InitTracked == Init => TrackedInv
<1> SUFFICES ASSUME Init PROVE TrackedInv OBVIOUS
<1> QED
  BY DEF Init, TrackedInv, PendingIsTracked, SweptReturned, LaterKeepsDeadline, KeepsDeadline,
         PoppedExpired, Pending

LEMMA TrackedAlways == DistinctKeys => (Spec => []TrackedInv)
<1> SUFFICES ASSUME DistinctKeys PROVE Spec => []TrackedInv OBVIOUS
<1>1. SafeInv /\ TrackedInv /\ [Next]_vars => TrackedInv'
  BY TrackedStep
<1> QED BY <1>1, InitTracked, SafeAlways, PTL DEF Spec

(* If no two timers compare equal, every handle the parent is still going to *)
(* call is in the proxy's sets.                                              *)
THEOREM TrackingIsComplete == DistinctKeys => (Spec => []PendingIsTracked)
<1>1. TrackedInv => PendingIsTracked
  BY DEF TrackedInv
<1> QED BY <1>1, TrackedAlways, PTL

(* If no two timers compare equal, nothing that was there when  *)
(* check_and_shutdown() swept the handles is called afterwards. *)
THEOREM ShutdownIsComplete == DistinctKeys => (Spec => []SweptNeverPending)
<1>1. TrackedInv => SweptNeverPending
  BY DEF TrackedInv, SweptReturned, SweptNeverPending
<1> QED BY <1>1, TrackedAlways, PTL

(* If no two timers compare equal, a call_later() timer is due in the parent *)
(* exactly when its deadline comes in the proxy's time.                      *)
THEOREM DeadlineIsKept == DistinctKeys => (Spec => []LaterKeepsDeadline)
<1>1. TrackedInv => LaterKeepsDeadline
  BY DEF TrackedInv
<1> QED BY <1>1, TrackedAlways, PTL

(* ... and never popped before it, wherever advance_time() moved the clock. *)
THEOREM NothingIsEarly == DistinctKeys => (Spec => []PoppedIsDue)
<1>1. SafeInv /\ TrackedInv => PoppedIsDue
  BY DEF SafeInv, TypeOK, TrackedInv, LaterKeepsDeadline, KeepsDeadline, PoppedExpired,
         PoppedIsDue, Pending, Time
<1> QED BY <1>1, SafeAlways, TrackedAlways, PTL
=============================================================================
