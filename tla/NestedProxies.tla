---------------------------- MODULE NestedProxies ----------------------------
(***************************************************************************)
(* Proxies over proxies, as in global-loop -> module-loop -> test-loop: a  *)
(* timer of the proxy at level l is a chain of handles, one for each level *)
(* below and one of the root loop, and each proxy tracks its own link.     *)
(*                                                                         *)
(* Every proxy shifts its own clock and re-posts the links it tracks with  *)
(* call_at() of the proxy below, which hands the deadline down as it is.   *)
(***************************************************************************)
EXTENDS Integers

CONSTANTS Timer,     \* the timers the program creates, each at most once
          Depth,     \* the number of proxies; the root loop is level 0
          Delays,    \* delays given to call_later()
          Deadlines, \* times given to call_at()
          Shifts,    \* offsets given to advance_time(), none of them backward
          MaxTime,   \* bound: the root's clock stops there
          MaxOffset  \* bound: no proxy is shifted further, and a shift by 0
                     \* stands for those the bound cuts off

ASSUME NestedAssumption ==
  /\ Depth \in Nat \ {0}
  /\ Delays \subseteq Nat /\ Deadlines \subseteq Nat
  /\ Shifts \subseteq Nat
  /\ MaxTime \in Nat /\ MaxOffset \in Nat

VARIABLES now,     \* time() of the root loop
          offset,  \* LoopProxy._time_offset of each level
          closed,  \* the levels that are closed
          tracked, \* LoopProxy._timers of each level
          level,   \* the level a timer was created at, 0 before
          when,    \* the deadline of each link of a timer, in the time of its level
          root,    \* the state of the root's link
          late     \* history: timers posted through a call_at() of a shifted proxy,
                   \* or left alone by an advance_time() that raised

vars == <<now, offset, closed, tracked, level, when, root, late>>

Level == 1..Depth

Pending(t) == root[t] \in {"heap", "ready"}

(* LoopProxy.time() of each level. *)
Clock[l \in 0..Depth] == IF l = 0 THEN now ELSE Clock[l - 1] + offset[l]

(* The type of the state.  A proxy tracks only timers created at its level or *)
(* above, and none that has run (each _run() discards its own link).          *)
TypeOK ==
  /\ now \in Nat
  /\ offset \in [Level -> Nat]
  /\ closed \subseteq Level
  /\ level \in [Timer -> 0..Depth]
  /\ when \in [Timer -> [0..Depth -> Int]]
  /\ root \in [Timer -> {"none", "heap", "ready", "ran", "cancelled"}]
  /\ tracked \in [Level -> SUBSET Timer]
  /\ \A l \in Level : \A t \in tracked[l] : level[t] >= l /\ root[t] # "ran"
  /\ late \subseteq Timer

Init ==
  /\ now = 0
  /\ offset = [l \in Level |-> 0]
  /\ closed = {}
  /\ tracked = [l \in Level |-> {}]
  /\ level = [t \in Timer |-> 0]
  /\ when = [t \in Timer |-> [l \in 0..Depth |-> 0]]
  /\ root = [t \in Timer |-> "none"]
  /\ late = {}

-----------------------------------------------------------------------------

(* call_at() of level l goes through a proxy whose clock is not the root's. *)
Skews(l) == \E m \in 1..l : offset[m] # 0

(* Each level checks that it is open and registers its link. *)
NewTimer(t, l, deadlines) ==
  /\ level[t] = 0
  /\ closed \cap 1..l = {}
  /\ level' = [level EXCEPT ![t] = l]
  /\ when' = [when EXCEPT ![t] = deadlines]
  /\ root' = [root EXCEPT ![t] = "heap"]
  /\ tracked' = [m \in Level |-> IF m <= l THEN tracked[m] \cup {t} ELSE tracked[m]]
  /\ UNCHANGED <<now, offset, closed>>

CallLater(t, l, delay) ==
  /\ NewTimer(t, l, [m \in 0..Depth |-> Clock[m] + delay])
  /\ UNCHANGED late

CallAt(t, l, deadline) ==
  /\ NewTimer(t, l, [m \in 0..Depth |-> deadline])
  /\ late' = IF Skews(l) THEN late \cup {t} ELSE late

(* The links of the timers T are discarded up to level l. *)
Discard(T, l) ==
  tracked' = [m \in Level |-> IF m <= l THEN tracked[m] \ T ELSE tracked[m]]

RootCancel(T) ==
  root' = [t \in Timer |-> IF t \in T /\ Pending(t) THEN "cancelled" ELSE root[t]]

(* cancel() of the program's handle asks every link below, and finds those *)
(* that a shutdown below has cancelled already.                            *)
Cancel(t) ==
  /\ Pending(t) \/ root[t] = "cancelled"
  /\ RootCancel({t})
  /\ Discard({t}, level[t])
  /\ UNCHANGED <<now, offset, closed, level, when, late>>

(* The end of check_and_shutdown() of the proxy at level l: the proxies above *)
(* keep their links, whose parents are cancelled now.                         *)
Sweep(l) ==
  /\ RootCancel(tracked[l])
  /\ Discard(tracked[l], l)
  /\ UNCHANGED <<now, offset, closed, level, when, late>>

Close(l) ==
  /\ closed' = closed \cup {l}
  /\ UNCHANGED <<now, offset, tracked, level, when, root, late>>

Shift(l, shift) ==
  /\ offset[l] + shift <= MaxOffset
  /\ offset' = [offset EXCEPT ![l] = @ + shift]
  /\ UNCHANGED <<now, closed, level>>

(* Links whose parent is cancelled are skipped; asking drops that parent. *)
Dead(l) == {t \in tracked[l] : root[t] = "cancelled"}
Live(l) == tracked[l] \ Dead(l)

OpenBelow(l) == closed \cap 1..(l - 1) = {}

Moved(l, deadlines) ==
  /\ OpenBelow(l) \/ Live(l) = {}
  /\ when' = [t \in Timer |->
                IF t \in Live(l)
                THEN [m \in 0..Depth |-> IF m < l THEN deadlines[t] ELSE when[t][m]]
                ELSE when[t]]
  /\ root' = [t \in Timer |-> IF t \in Live(l) THEN "heap" ELSE root[t]]
  /\ Discard(Dead(l), l - 1)
  /\ late' = IF Skews(l - 1) THEN late \cup Live(l) ELSE late

(* Faulty variant: counted from the deadline of the timer itself. *)
AdvanceTime_OwnDeadline(l, shift) ==
  /\ Shift(l, shift)
  /\ Moved(l, [t \in Timer |-> when[t][l] - shift])

(* Faulty variant: only the clock moves. *)
AdvanceTime_ClockOnly(l, shift) ==
  /\ Shift(l, shift)
  /\ UNCHANGED <<tracked, when, root, late>>

(* A new chain of links is made below, with one deadline on all its levels. *)
AdvanceTime(l, shift) ==
  /\ Shift(l, shift)
  /\ Moved(l, [t \in Timer |-> when[t][l - 1] - shift])

(* A closed proxy below refuses call_at() when the first timer is cancelled *)
(* there already: that one is lost, and the others do not move.             *)
AdvanceTimeRaises(l, shift) ==
  /\ Shift(l, shift)
  /\ ~OpenBelow(l)
  /\ \E t \in Live(l), D \in SUBSET Dead(l) :
       /\ RootCancel({t}) /\ Discard({t} \cup D, l - 1)
       /\ late' = late \cup (Live(l) \ {t})
  /\ UNCHANGED when

-----------------------------------------------------------------------------
(* The root loop *)

Tick ==
  /\ now < MaxTime
  /\ now' = now + 1
  /\ UNCHANGED <<offset, closed, tracked, level, when, root, late>>

PopTimers ==
  LET expired == {t \in Timer : root[t] = "heap" /\ when[t][0] <= now} IN
  /\ expired # {}
  /\ root' = [t \in Timer |-> IF t \in expired THEN "ready" ELSE root[t]]
  /\ UNCHANGED <<now, offset, closed, tracked, level, when, late>>

(* Faulty variant: only the proxy of the timer itself discards its link. *)
Run_OwnLink(t) ==
  /\ root[t] = "ready"
  /\ root' = [root EXCEPT ![t] = "ran"]
  /\ tracked' = [tracked EXCEPT ![level[t]] = @ \ {t}]
  /\ UNCHANGED <<now, offset, closed, level, when, late>>

(* Every link discards itself and calls the one above. *)
Run(t) ==
  /\ root[t] = "ready"
  /\ root' = [root EXCEPT ![t] = "ran"]
  /\ Discard({t}, level[t])
  /\ UNCHANGED <<now, offset, closed, level, when, late>>

-----------------------------------------------------------------------------

ProxyStep(l) ==
  \/ \E t \in Timer, d \in Delays : CallLater(t, l, d)
  \/ \E t \in Timer, w \in Deadlines : CallAt(t, l, w)
  \/ Sweep(l)
  \/ Close(l)
  \/ \E s \in Shifts : AdvanceTime(l, s) \/ AdvanceTimeRaises(l, s)

Next ==
  \/ \E l \in Level : ProxyStep(l)
  \/ \E t \in Timer : Cancel(t) \/ Run(t)
  \/ Tick
  \/ PopTimers

Spec == Init /\ [][Next]_vars

(* The root loop keeps calling what is due. *)
FairSpec == Spec /\ WF_vars(PopTimers) /\ \A t \in Timer : WF_vars(Run(t))

-----------------------------------------------------------------------------
(* Properties *)

(* When a timer is due for the root, as its own proxy sees it. *)
Ideal(t) == when[t][level[t]] - (Clock[level[t]] - now)

(* A pending timer is tracked by every proxy of its chain, so that the       *)
(* shutdown of any of them finds it; and it is due exactly at its deadline   *)
(* whichever proxies were shifted.  The exceptions are never early: timers   *)
(* posted through call_at() of a shifted proxy (by advance_time() of the     *)
(* next one, say), and those an advance_time() that raised did not reach.    *)
PendingIsKept ==
  \A t \in Timer : Pending(t) =>
    /\ \A l \in 1..level[t] : t \in tracked[l]
    /\ IF t \in late THEN when[t][0] >= Ideal(t) ELSE when[t][0] = Ideal(t)

ShiftStep == \E l \in Level, s \in Shifts : AdvanceTime(l, s) \/ AdvanceTimeRaises(l, s)

(* A pending timer whose deadline has come in the time of its own proxy is  *)
(* called or cancelled, unless it is one of those that are too late: what   *)
(* makes `await task' after advance_time() return at once.  It holds only   *)
(* where the shifts cease: advance_time() takes back a timer that the root  *)
(* has popped already, by whatever offset, so that a program that shifts in *)
(* each iteration of the loop keeps it from being called.                   *)
DueTimersFire ==
  \/ []<><<ShiftStep>>_vars
  \/ \A t \in Timer :
       Pending(t) /\ when[t][level[t]] <= Clock[level[t]] ~> ~Pending(t) \/ t \in late
=============================================================================
