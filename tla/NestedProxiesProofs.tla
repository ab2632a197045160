-------------------------- MODULE NestedProxiesProofs --------------------------
(* Proofs about NestedProxies, for any number of proxies and timers. *)
EXTENDS NestedProxies, TLAPS, WellFoundedInduction

-----------------------------------------------------------------------------
(* The inductive invariant, in parts *)

(* A timer has a level when it has a link in the root loop. *)
LevelsFit == \A t \in Timer : level[t] = 0 <=> root[t] = "none"

(* Each proxy of its chain tracks a pending timer. *)
TrackedBelow == \A t \in Timer : Pending(t) => \A l \in 1..level[t] : t \in tracked[l]

(* What the links of a pending timer say: none is due before the deadline,     *)
(* and, but for the late ones, each means the same moment in its level's time. *)
LinkAgrees(t, m) ==
  /\ when[t][m] >= Ideal(t)
  /\ t \notin late => when[t][m] - (Clock[m] - now) = Ideal(t)

LinksAgree == \A t \in Timer : Pending(t) => \A m \in 0..level[t] : LinkAgrees(t, m)

Inv == /\ TypeOK
       /\ LevelsFit
       /\ TrackedBelow
       /\ LinksAgree

-----------------------------------------------------------------------------
(* The clocks *)

(* A set of numbers that is not empty has a least one. *)
LEMMA LeastNatural ==
  ASSUME NEW T, T \subseteq Nat, T # {}
  PROVE  \E m \in T : \A n \in T : m <= n
<1>1. IsWellFoundedOn(OpToRel(<, Nat), Nat)
  BY NatLessThanWellFounded
<1>2. PICK m \in T : \A n \in T : <<n, m>> \notin OpToRel(<, Nat)
  BY <1>1, WFMin
<1>3. \A n \in T : ~(n < m)
  BY <1>2 DEF OpToRel
<1> QED BY <1>3

(* Induction over the members of a set of numbers. *)
LEMMA SetInduction ==
  ASSUME NEW T, 0 \in T, \A n \in Nat : n \in T => n + 1 \in T
  PROVE  Nat \subseteq T
<1>1. SUFFICES ASSUME Nat \ T # {}
               PROVE  FALSE
  OBVIOUS
<1>2. PICK m \in Nat \ T : \A n \in Nat \ T : m <= n
  BY <1>1, LeastNatural
<1>3. m - 1 \in Nat /\ m - 1 \in T
  BY <1>2
<1> QED BY <1>2, <1>3

(* Clocks that are set apart by the offsets off, over a root at time base. *)
Clocks(F, base, off) ==
  /\ F \in [0..Depth -> Nat]
  /\ F[0] = base
  /\ \A m \in Level : F[m] = F[m - 1] + off[m]

(* A stack of any height has its clocks. *)
LEMMA ClocksExist ==
  ASSUME NEW base \in Nat, NEW off \in [Level -> Nat]
  PROVE  \E F \in [0..Depth -> Nat] :
           F = [l \in 0..Depth |-> IF l = 0 THEN base ELSE F[l - 1] + off[l]]
<1> DEFINE Stack(g, k) == g = [l \in 0..k |-> IF l = 0 THEN base ELSE g[l - 1] + off[l]]
           T == {k \in Nat : k <= Depth => \E g \in [0..k -> Nat] : Stack(g, k)}
<1>0. Depth \in Nat
  BY NestedAssumption
<1>1. 0 \in T
  <2>1. [l \in 0..0 |-> base] \in [0..0 -> Nat] /\ Stack([l \in 0..0 |-> base], 0)
    OBVIOUS
  <2> QED BY <2>1
<1>2. ASSUME NEW k \in Nat, k \in T
      PROVE  k + 1 \in T
  <2> SUFFICES ASSUME k + 1 <= Depth
               PROVE  \E g \in [0..k + 1 -> Nat] : Stack(g, k + 1)
    OBVIOUS
  <2>0. k <= Depth
    BY <1>0
  <2>1. PICK g \in [0..k -> Nat] : Stack(g, k)
    BY <1>2, <2>0 DEF T
  <2>2. \A n \in 0..k : g[n] = IF n = 0 THEN base ELSE g[n - 1] + off[n]
    BY <2>1
  <2>3. g[k] + off[k + 1] \in Nat
    BY <1>0 DEF Level
  <2> HIDE DEF Stack
  <2> DEFINE h == [n \in 0..k + 1 |-> IF n = k + 1 THEN g[k] + off[k + 1] ELSE g[n]]
  <2>4. h \in [0..k + 1 -> Nat]
    BY <2>3
  <2>5. \A n \in 0..k + 1 : h[n] = IF n = 0 THEN base ELSE h[n - 1] + off[n]
    <3>1. \A n \in 0..k : h[n] = g[n]
      OBVIOUS
    <3>2. h[k + 1] = h[k] + off[k + 1]
      BY <3>1
    <3>3. \A n \in 0..k : n # 0 => n - 1 \in 0..k
      OBVIOUS
    <3> HIDE DEF h
    <3> QED BY <2>2, <3>1, <3>2, <3>3
  <2>6. Stack(h, k + 1)
    <3>1. h = [n \in 0..k + 1 |-> h[n]]
      OBVIOUS
    <3> HIDE DEF h
    <3> QED BY <2>5, <3>1 DEF Stack
  <2> QED BY <2>4, <2>6
<1> HIDE DEF T
<1>3. Nat \subseteq T
  BY <1>1, <1>2, SetInduction
<1>4. Depth \in T
  BY <1>0, <1>3
<1>5. PICK g \in [0..Depth -> Nat] : Stack(g, Depth)
  BY <1>0, <1>4 DEF T
<1> QED BY <1>5

(* time() of a proxy is time() of its parent and its own offset. *)
LEMMA ClockUnfolds == TypeOK => Clocks(Clock, now, offset)
<1> SUFFICES ASSUME TypeOK
             PROVE  Clocks(Clock, now, offset)
  OBVIOUS
<1>1. now \in Nat /\ offset \in [Level -> Nat]
  BY DEF TypeOK
<1>2. PICK F \in [0..Depth -> Nat] :
        F = [l \in 0..Depth |-> IF l = 0 THEN now ELSE F[l - 1] + offset[l]]
  BY <1>1, ClocksExist
<1>3. Clock = [l \in 0..Depth |-> IF l = 0 THEN now ELSE Clock[l - 1] + offset[l]]
  BY <1>2 DEF Clock
<1> HIDE DEF Clock
<1>4. Depth \in Nat
  BY NestedAssumption
<1>5. Clock[0] = now /\ \A m \in Level : Clock[m] = Clock[m - 1] + offset[m]
  BY <1>3, <1>4 DEF Level
<1> DEFINE T == {k \in Nat : k <= Depth => Clock[k] \in Nat}
<1>6. 0 \in T
  BY <1>1, <1>5
<1>7. ASSUME NEW k \in Nat, k \in T
      PROVE  k + 1 \in T
  <2> SUFFICES ASSUME k + 1 <= Depth
               PROVE  Clock[k + 1] \in Nat
    OBVIOUS
  <2>1. Clock[k] \in Nat /\ k + 1 \in Level
    BY <1>4, <1>7 DEF Level
  <2> QED BY <1>1, <1>5, <2>1
<1> HIDE DEF T
<1>8. Nat \subseteq T
  BY <1>6, <1>7, SetInduction
<1>9. \A k \in 0..Depth : Clock[k] \in Nat
  BY <1>4, <1>8 DEF T
<1> QED BY <1>3, <1>5, <1>9 DEF Clocks

(* The offsets moved are off, but for the one of level l, that has grown by s. *)
Shifted(off, l, s, moved) ==
  \A m \in Level : moved[m] = off[m] + (IF m = l THEN s ELSE 0)

(* Time passes for all levels alike, and a shift is felt at its level and above. *)
LEMMA ClocksMove ==
  ASSUME NEW base \in Nat, NEW off \in [Level -> Nat], NEW F, Clocks(F, base, off),
         NEW a \in Nat, NEW l \in Level, NEW s \in Nat,
         NEW moved, Shifted(off, l, s, moved),
         NEW later, later = base + a, NEW G, Clocks(G, later, moved)
  PROVE  \A m \in 0..Depth : G[m] = F[m] + a + (IF m >= l THEN s ELSE 0)
<1> DEFINE T == {k \in Nat : k <= Depth => G[k] = F[k] + a + (IF k >= l THEN s ELSE 0)}
<1>0. Depth \in Nat /\ l \in Nat \ {0}
  BY NestedAssumption DEF Level
<1>1. 0 \in T
  BY <1>0 DEF Clocks
<1>2. ASSUME NEW k \in Nat, k \in T
      PROVE  k + 1 \in T
  <2> SUFFICES ASSUME k + 1 <= Depth
               PROVE  G[k + 1] = F[k + 1] + a + (IF k + 1 >= l THEN s ELSE 0)
    OBVIOUS
  <2>1. k + 1 \in Level /\ k \in 0..Depth /\ G[k] = F[k] + a + (IF k >= l THEN s ELSE 0)
    BY <1>0, <1>2 DEF Level
  <2>m. moved[k + 1] = off[k + 1] + (IF k + 1 = l THEN s ELSE 0)
    BY <2>1 DEF Shifted
  <2>n. (k + 1) - 1 = k
    OBVIOUS
  <2>f. /\ F[k] \in Nat /\ off[k + 1] \in Nat
    BY <2>1 DEF Clocks
  <2>g. F[k + 1] = F[k] + off[k + 1]
    BY <2>1, <2>n DEF Clocks
  <2>h. G[k + 1] = G[k] + moved[k + 1]
    BY <2>1, <2>n DEF Clocks
  <2>2. /\ F[k] \in Nat /\ F[k + 1] = F[k] + off[k + 1] /\ off[k + 1] \in Nat
        /\ G[k + 1] = G[k] + moved[k + 1]
    BY <2>f, <2>g, <2>h
  <2>3. CASE k + 1 = l
    BY <1>0, <2>1, <2>2, <2>3, <2>m
  <2>4. CASE k + 1 # l
    <3>1. moved[k + 1] = off[k + 1]
      BY <2>2, <2>4, <2>m
    <3>2. k >= l <=> k + 1 >= l
      BY <1>0, <2>4
    <3> QED BY <2>1, <2>2, <3>1, <3>2
  <2> QED BY <2>3, <2>4
<1> HIDE DEF T
<1>3. Nat \subseteq T
  BY <1>1, <1>2, SetInduction
<1> QED BY <1>0, <1>3 DEF T

(* No clock is behind the root's, and they agree up to a level that is not *)
(* shifted, nor any below.                                                 *)
LEMMA ClocksAhead ==
  ASSUME NEW base \in Nat, NEW off \in [Level -> Nat], NEW F, Clocks(F, base, off)
  PROVE  \A m \in 0..Depth : /\ F[m] >= base
                             /\ (\A i \in 1..m : off[i] = 0) => F[m] = base
<1> DEFINE T == {k \in Nat : k <= Depth => F[k] >= base /\ ((\A i \in 1..k : off[i] = 0) => F[k] = base)}
<1>0. Depth \in Nat
  BY NestedAssumption
<1>1. 0 \in T
  BY <1>0 DEF Clocks
<1>2. ASSUME NEW k \in Nat, k \in T
      PROVE  k + 1 \in T
  <2> SUFFICES ASSUME k + 1 <= Depth
               PROVE  F[k + 1] >= base /\ ((\A i \in 1..(k + 1) : off[i] = 0) => F[k + 1] = base)
    OBVIOUS
  <2>1. k + 1 \in Level /\ F[k] >= base /\ ((\A i \in 1..k : off[i] = 0) => F[k] = base)
    BY <1>0, <1>2 DEF Level
  <2>2. F[k] \in Nat /\ F[k + 1] = F[k] + off[k + 1] /\ off[k + 1] \in Nat
    BY <1>0, <2>1 DEF Clocks
  <2> QED BY <2>1, <2>2
<1> HIDE DEF T
<1>3. Nat \subseteq T
  BY <1>1, <1>2, SetInduction
<1> QED BY <1>0, <1>3 DEF T

(* What the proofs use of the clocks in one state, *)
LEMMA ClocksApart ==
  ASSUME TypeOK
  PROVE  \A m \in 0..Depth : /\ Clock[m] \in Nat
                             /\ Clock[m] >= now
                             /\ ~Skews(m) => Clock[m] = now
<1>1. now \in Nat /\ offset \in [Level -> Nat]
  BY DEF TypeOK
<1>2. Clocks(Clock, now, offset)
  BY ClockUnfolds
<1>3. \A m \in 0..Depth : Clock[m] \in Nat
  BY <1>2 DEF Clocks
<1>4. \A m \in 0..Depth : /\ Clock[m] >= now
                          /\ (\A i \in 1..m : offset[i] = 0) => Clock[m] = now
  BY <1>1, <1>2, ClocksAhead
<1> QED BY <1>3, <1>4 DEF Skews

(* and of how a step moves them. *)
LEMMA ClocksStep ==
  ASSUME TypeOK, TypeOK', NEW a \in Nat, NEW l \in Level, NEW s \in Nat,
         now' = now + a, offset' = [offset EXCEPT ![l] = offset[l] + s]
  PROVE  \A m \in 0..Depth : Clock'[m] = Clock[m] + a + (IF m >= l THEN s ELSE 0)
<1>1. now \in Nat /\ offset \in [Level -> Nat]
  BY DEF TypeOK
<1>2. Clocks(Clock, now, offset)
  BY ClockUnfolds
<1>3. (TypeOK => Clocks(Clock, now, offset))'
  BY ClockUnfolds, PTL
<1>4. Clocks(Clock', now', offset')
  BY <1>3 DEF Clocks
<1>5. Shifted(offset, l, s, offset')
  BY <1>1 DEF Shifted
<1> QED BY <1>1, <1>2, <1>4, <1>5, ClocksMove

(* A step that leaves now and the offsets alone leaves the clocks alone. *)
LEMMA ClocksRest ==
  ASSUME TypeOK, TypeOK', UNCHANGED <<now, offset>>
  PROVE  \A m \in 0..Depth : Clock'[m] = Clock[m]
<1>1. 1 \in Level
  BY NestedAssumption DEF Level
<1>2. now' = now + 0 /\ offset' = [offset EXCEPT ![1] = offset[1] + 0]
  BY <1>1 DEF TypeOK
<1>3. \A m \in 0..Depth : Clock'[m] = Clock[m] + 0 + (IF m >= 1 THEN 0 ELSE 0)
  BY <1>1, <1>2, ClocksStep
<1> QED BY <1>3, ClocksApart

-----------------------------------------------------------------------------
(* The types *)

(* There are no timers in the initial state. *)
LEMMA InitInv == Init => Inv
<1> SUFFICES ASSUME Init
             PROVE  Inv
  OBVIOUS
<1> USE DEF Init
<1>1. TypeOK
  BY NestedAssumption DEF TypeOK
<1>2. LevelsFit
  BY DEF LevelsFit
<1>3. TrackedBelow
  BY DEF TrackedBelow, Pending
<1>4. LinksAgree
  BY DEF LinksAgree, Pending
<1> QED BY <1>1, <1>2, <1>3, <1>4 DEF Inv

(* Posting a timer keeps the types: the timer is new to all levels. *)
LEMMA NewTimerType ==
  ASSUME TypeOK, NEW t \in Timer, NEW l \in Level,
         NEW deadlines \in [0..Depth -> Int], NewTimer(t, l, deadlines),
         late' \subseteq Timer
  PROVE  TypeOK'
<1> USE DEF NewTimer
<1>1. now' \in Nat /\ offset' \in [Level -> Nat] /\ closed' \subseteq Level
  BY DEF TypeOK
<1>2. level' \in [Timer -> 0..Depth]
  BY NestedAssumption DEF TypeOK, Level
<1>3. when' \in [Timer -> [0..Depth -> Int]]
  BY DEF TypeOK
<1>4. root' \in [Timer -> {"none", "heap", "ready", "ran", "cancelled"}]
  BY DEF TypeOK
<1>5. tracked' \in [Level -> SUBSET Timer]
  BY DEF TypeOK
<1>6. ASSUME NEW m \in Level, NEW u \in tracked'[m]
      PROVE  level'[u] >= m /\ root'[u] # "ran"
  <2>1. CASE u = t
    <3>1. t \notin tracked[m]
      BY DEF TypeOK, Level
    <3>2. m <= l
      BY <1>6, <2>1, <3>1
    <3> QED BY <2>1, <3>2 DEF TypeOK, Level
  <2>2. CASE u # t
    <3>1. u \in tracked[m]
      BY <1>6, <2>2
    <3>2. u \in Timer
      BY <3>1 DEF TypeOK
    <3> QED BY <2>2, <3>1, <3>2 DEF TypeOK
  <2> QED BY <2>1, <2>2
<1> QED BY <1>1, <1>2, <1>3, <1>4, <1>5, <1>6 DEF TypeOK

(* What a proxy tracks and its parent did not cancel, the root loop will call. *)
LEMMA LiveIsPending ==
  ASSUME TypeOK, LevelsFit, NEW l \in Level, NEW t \in Live(l)
  PROVE  t \in Timer /\ Pending(t) /\ level[t] >= l
<1>1. t \in tracked[l] /\ root[t] # "cancelled"
  BY DEF Live, Dead
<1>2. t \in Timer /\ level[t] >= l /\ root[t] # "ran"
  BY <1>1 DEF TypeOK
<1>3. root[t] # "none"
  BY <1>2 DEF LevelsFit, TypeOK, Level
<1> QED BY <1>1, <1>2, <1>3 DEF TypeOK, Pending

(* Every step keeps the types. *)
LEMMA TypeStep == TypeOK /\ LevelsFit /\ [Next]_vars => TypeOK'
<1> SUFFICES ASSUME TypeOK, LevelsFit, [Next]_vars
             PROVE  TypeOK'
  OBVIOUS
<1>0. \A m \in 0..Depth : Clock[m] \in Nat
  BY ClocksApart
<1>1. ASSUME NEW l \in Level, NEW t \in Timer, NEW d \in Delays, CallLater(t, l, d) PROVE TypeOK'
  <2>1. [m \in 0..Depth |-> Clock[m] + d] \in [0..Depth -> Int]
    BY <1>0, NestedAssumption
  <2>2. late' \subseteq Timer
    BY <1>1 DEF CallLater, TypeOK
  <2>3. NewTimer(t, l, [m \in 0..Depth |-> Clock[m] + d])
    BY <1>1 DEF CallLater
  <2> QED BY <2>1, <2>2, <2>3, NewTimerType
<1>2. ASSUME NEW l \in Level, NEW t \in Timer, NEW w \in Deadlines, CallAt(t, l, w) PROVE TypeOK'
  <2>1. [m \in 0..Depth |-> w] \in [0..Depth -> Int]
    BY NestedAssumption
  <2>2. late' \subseteq Timer
    BY <1>2 DEF CallAt, TypeOK
  <2>3. NewTimer(t, l, [m \in 0..Depth |-> w])
    BY <1>2 DEF CallAt
  <2> QED BY <2>1, <2>2, <2>3, NewTimerType
<1>3. ASSUME NEW l \in Level, Sweep(l) PROVE TypeOK'
  <2>1. tracked' \in [Level -> SUBSET Timer] /\ \A m \in Level : tracked'[m] \subseteq tracked[m]
    BY <1>3 DEF Sweep, Discard, TypeOK
  <2>2. root' \in [Timer -> {"none", "heap", "ready", "ran", "cancelled"}]
    BY <1>3 DEF Sweep, RootCancel, TypeOK
  <2>3. \A u \in Timer : root'[u] = "ran" => root[u] = "ran"
    BY <1>3 DEF Sweep, RootCancel
  <2>4. \A m \in Level : \A u \in tracked'[m] : level'[u] >= m /\ root'[u] # "ran"
    BY <1>3, <2>1, <2>3 DEF Sweep, TypeOK
  <2> QED BY <1>3, <2>1, <2>2, <2>4 DEF Sweep, TypeOK
<1>4. ASSUME NEW l \in Level, Close(l) PROVE TypeOK'
  BY <1>4 DEF Close, TypeOK
<1>5. ASSUME NEW l \in Level, NEW s \in Shifts, AdvanceTime(l, s) PROVE TypeOK'
  <2>1. offset' \in [Level -> Nat]
    BY <1>5, NestedAssumption DEF AdvanceTime, Shift, TypeOK
  <2>2. tracked' \in [Level -> SUBSET Timer] /\ \A m \in Level : tracked'[m] \subseteq tracked[m]
    BY <1>5 DEF AdvanceTime, Moved, Discard, TypeOK
  <2>3. \A u \in Timer : when[u][l - 1] - s \in Int
    BY NestedAssumption DEF TypeOK, Level
  <2>4. when' \in [Timer -> [0..Depth -> Int]]
    BY <1>5, <2>3 DEF AdvanceTime, Moved, TypeOK
  <2>5. /\ root' \in [Timer -> {"none", "heap", "ready", "ran", "cancelled"}]
        /\ \A u \in Timer : root'[u] = "ran" => root[u] = "ran"
    BY <1>5 DEF AdvanceTime, Moved, TypeOK
  <2>6. \A m \in Level : \A u \in tracked'[m] : level'[u] >= m /\ root'[u] # "ran"
    BY <1>5, <2>2, <2>5 DEF AdvanceTime, Shift, TypeOK
  <2>7. late' \subseteq Timer
    BY <1>5, LiveIsPending DEF AdvanceTime, Moved, TypeOK
  <2>8. UNCHANGED <<now, closed, level>>
    BY <1>5 DEF AdvanceTime, Shift
  <2> QED BY <2>1, <2>2, <2>4, <2>5, <2>6, <2>7, <2>8 DEF TypeOK
<1>6. ASSUME NEW l \in Level, NEW s \in Shifts, AdvanceTimeRaises(l, s) PROVE TypeOK'
  <2>1. offset' \in [Level -> Nat]
    BY <1>6, NestedAssumption DEF AdvanceTimeRaises, Shift, TypeOK
  <2>2. tracked' \in [Level -> SUBSET Timer] /\ \A m \in Level : tracked'[m] \subseteq tracked[m]
    BY <1>6 DEF AdvanceTimeRaises, Discard, TypeOK
  <2>3. /\ root' \in [Timer -> {"none", "heap", "ready", "ran", "cancelled"}]
        /\ \A u \in Timer : root'[u] = "ran" => root[u] = "ran"
    BY <1>6 DEF AdvanceTimeRaises, RootCancel, TypeOK
  <2>4. \A m \in Level : \A u \in tracked'[m] : level'[u] >= m /\ root'[u] # "ran"
    BY <1>6, <2>2, <2>3 DEF AdvanceTimeRaises, Shift, TypeOK
  <2>5. late' \subseteq Timer
    BY <1>6, LiveIsPending DEF AdvanceTimeRaises, TypeOK
  <2>6. UNCHANGED <<now, closed, level, when>>
    BY <1>6 DEF AdvanceTimeRaises, Shift
  <2> QED BY <2>1, <2>2, <2>3, <2>4, <2>5, <2>6 DEF TypeOK
<1>7. ASSUME NEW t \in Timer, Cancel(t) PROVE TypeOK'
  <2>1. tracked' \in [Level -> SUBSET Timer] /\ \A m \in Level : tracked'[m] \subseteq tracked[m]
    BY <1>7 DEF Cancel, Discard, TypeOK
  <2>2. /\ root' \in [Timer -> {"none", "heap", "ready", "ran", "cancelled"}]
        /\ \A u \in Timer : root'[u] = "ran" => root[u] = "ran"
    BY <1>7 DEF Cancel, RootCancel, TypeOK
  <2>3. \A m \in Level : \A u \in tracked'[m] : level'[u] >= m /\ root'[u] # "ran"
    BY <1>7, <2>1, <2>2 DEF Cancel, TypeOK
  <2> QED BY <1>7, <2>1, <2>2, <2>3 DEF Cancel, TypeOK
<1>8. ASSUME NEW t \in Timer, Run(t) PROVE TypeOK'
  <2>1. tracked' \in [Level -> SUBSET Timer] /\ \A m \in Level : tracked'[m] \subseteq tracked[m]
    BY <1>8 DEF Run, Discard, TypeOK
  <2>2. \A m \in Level : t \notin tracked'[m]
    BY <1>8 DEF Run, Discard, TypeOK
  <2>3. /\ root' \in [Timer -> {"none", "heap", "ready", "ran", "cancelled"}]
        /\ \A u \in Timer \ {t} : root'[u] = root[u]
    BY <1>8 DEF Run, TypeOK
  <2>4. \A m \in Level : \A u \in tracked'[m] : level'[u] >= m /\ root'[u] # "ran"
    BY <1>8, <2>1, <2>2, <2>3 DEF Run, TypeOK
  <2> QED BY <1>8, <2>1, <2>3, <2>4 DEF Run, TypeOK
<1>9. CASE Tick
  BY <1>9 DEF Tick, TypeOK
<1>10. CASE PopTimers
  <2>1. /\ root' \in [Timer -> {"none", "heap", "ready", "ran", "cancelled"}]
        /\ \A u \in Timer : root'[u] = "ran" => root[u] = "ran"
    BY <1>10 DEF PopTimers, TypeOK
  <2>2. UNCHANGED <<now, offset, closed, tracked, level, when, late>>
    BY <1>10 DEF PopTimers
  <2>3. \A m \in Level : \A u \in tracked[m] : root'[u] # "ran"
    BY <2>1 DEF TypeOK
  <2> QED BY <2>1, <2>2, <2>3 DEF TypeOK
<1>11. CASE UNCHANGED vars
  BY <1>11 DEF vars, TypeOK
<1> QED
  BY <1>1, <1>2, <1>3, <1>4, <1>5, <1>6, <1>7, <1>8, <1>9, <1>10, <1>11
  DEF Next, ProxyStep

-----------------------------------------------------------------------------
(* Levels and links *)

(* A timer gets its level with its link in the root loop, and keeps it. *)
LEMMA LevelsStep == TypeOK /\ LevelsFit /\ [Next]_vars => LevelsFit'
<1> SUFFICES ASSUME TypeOK, LevelsFit, [Next]_vars
             PROVE  LevelsFit'
  OBVIOUS
<1>1. ASSUME NEW l \in Level, NEW t \in Timer, NEW D, NewTimer(t, l, D) PROVE LevelsFit'
  BY <1>1 DEF NewTimer, LevelsFit, TypeOK, Level
<1>2. ASSUME NEW T, RootCancel(T), UNCHANGED level PROVE LevelsFit'
  BY <1>2 DEF RootCancel, LevelsFit, Pending
<1>3. ASSUME NEW l \in Level, Close(l) PROVE LevelsFit'
  BY <1>3 DEF Close, LevelsFit
<1>4. ASSUME NEW l \in Level, NEW s \in Shifts, AdvanceTime(l, s) PROVE LevelsFit'
  <2>1. \A t \in Live(l) : t \in Timer /\ root[t] # "none"
    BY LiveIsPending DEF Pending
  <2> QED BY <1>4, <2>1 DEF AdvanceTime, Shift, Moved, LevelsFit
<1>5. ASSUME NEW t \in Timer, Run(t) PROVE LevelsFit'
  BY <1>5 DEF Run, LevelsFit, TypeOK
<1>6. CASE PopTimers
  BY <1>6 DEF PopTimers, LevelsFit
<1>7. CASE Tick \/ UNCHANGED vars
  BY <1>7 DEF Tick, vars, LevelsFit
<1> QED
  BY <1>1, <1>2, <1>3, <1>4, <1>5, <1>6, <1>7
  DEF Next, ProxyStep, CallLater, CallAt, Sweep, Cancel, AdvanceTimeRaises, Shift

(* What discards links, discards those of timers that are pending no more. *)
LEMMA DiscardKeeps ==
  ASSUME TypeOK, TrackedBelow, NEW T, NEW l, Discard(T, l), UNCHANGED level,
         \A t \in Timer : Pending(t)' => Pending(t) /\ t \notin T
  PROVE  TrackedBelow'
<1> SUFFICES ASSUME NEW t \in Timer, Pending(t)', NEW m \in 1..level[t]
             PROVE  t \in tracked'[m]
  BY DEF TrackedBelow
<1>1. m \in Level
  BY NestedAssumption DEF TypeOK, Level
<1>2. t \in tracked[m] /\ t \notin T
  BY DEF TrackedBelow
<1> QED BY <1>1, <1>2 DEF Discard

(* No step of any proxy drops a link of a timer that may still be called:     *)
(* Discard always goes with a cancellation at the root, or finds it dead there. *)
LEMMA TrackedStep == TypeOK /\ LevelsFit /\ TrackedBelow /\ [Next]_vars => TrackedBelow'
<1> SUFFICES ASSUME TypeOK, LevelsFit, TrackedBelow, [Next]_vars
             PROVE  TrackedBelow'
  OBVIOUS
<1>1. ASSUME NEW l \in Level, NEW t \in Timer, NEW D, NewTimer(t, l, D) PROVE TrackedBelow'
  <2> SUFFICES ASSUME NEW u \in Timer, Pending(u)', NEW m \in 1..level'[u]
               PROVE  u \in tracked'[m]
    BY DEF TrackedBelow
  <2>1. CASE u = t
    <3>1. level'[u] = l
      BY <1>1, <2>1 DEF NewTimer, TypeOK
    <3>2. m \in Level /\ m <= l
      BY <3>1, NestedAssumption DEF Level
    <3> QED BY <1>1, <2>1, <3>2 DEF NewTimer
  <2>2. CASE u # t
    <3>1. level'[u] = level[u] /\ Pending(u)
      BY <1>1, <2>2 DEF NewTimer, Pending
    <3>2. m \in Level /\ u \in tracked[m]
      BY <3>1, NestedAssumption DEF TrackedBelow, TypeOK, Level
    <3> QED BY <1>1, <3>2 DEF NewTimer
  <2> QED BY <2>1, <2>2
<1>2. ASSUME NEW T, NEW l, RootCancel(T), Discard(T, l), UNCHANGED level PROVE TrackedBelow'
  <2>1. \A t \in Timer : Pending(t)' => Pending(t) /\ t \notin T
    BY <1>2 DEF RootCancel, Pending
  <2> QED BY <1>2, <2>1, DiscardKeeps
<1>3. ASSUME NEW l \in Level, Close(l) PROVE TrackedBelow'
  BY <1>3 DEF Close, TrackedBelow, Pending
<1>4. ASSUME NEW l \in Level, NEW s \in Shifts, AdvanceTime(l, s) PROVE TrackedBelow'
  <2>1. \A t \in Timer : Pending(t)' => Pending(t) /\ t \notin Dead(l)
    <3> SUFFICES ASSUME NEW t \in Timer, Pending(t)'
                 PROVE  Pending(t) /\ t \notin Dead(l)
      OBVIOUS
    <3>1. CASE t \in Live(l)
      BY <3>1, LiveIsPending DEF Live
    <3>2. CASE t \notin Live(l)
      <4>1. root'[t] = root[t]
        BY <1>4, <3>2 DEF AdvanceTime, Moved
      <4> QED BY <4>1 DEF Pending, Dead
    <3> QED BY <3>1, <3>2
  <2>2. Discard(Dead(l), l - 1) /\ UNCHANGED level
    BY <1>4 DEF AdvanceTime, Shift, Moved
  <2> QED BY <2>1, <2>2, DiscardKeeps
<1>5. ASSUME NEW l \in Level, NEW s \in Shifts, AdvanceTimeRaises(l, s) PROVE TrackedBelow'
  <2>1. PICK t \in Live(l), D \in SUBSET Dead(l) : RootCancel({t}) /\ Discard({t} \cup D, l - 1)
    BY <1>5 DEF AdvanceTimeRaises
  <2>2. \A u \in Timer : Pending(u)' => Pending(u) /\ u \notin {t} \cup D
    BY <2>1 DEF RootCancel, Pending, Dead
  <2>3. UNCHANGED level
    BY <1>5 DEF AdvanceTimeRaises, Shift
  <2> QED BY <2>1, <2>2, <2>3, DiscardKeeps
<1>6. ASSUME NEW t \in Timer, Run(t) PROVE TrackedBelow'
  <2>1. \A u \in Timer : Pending(u)' => Pending(u) /\ u \notin {t}
    BY <1>6 DEF Run, Pending, TypeOK
  <2>2. Discard({t}, level[t]) /\ UNCHANGED level
    BY <1>6 DEF Run
  <2> QED BY <2>1, <2>2, DiscardKeeps
<1>7. CASE PopTimers
  <2>1. \A u \in Timer : Pending(u)' => Pending(u)
    BY <1>7 DEF PopTimers, Pending
  <2> QED BY <1>7, <2>1 DEF PopTimers, TrackedBelow
<1>8. CASE Tick \/ UNCHANGED vars
  BY <1>8 DEF Tick, vars, TrackedBelow, Pending
<1> QED
  BY <1>1, <1>2, <1>3, <1>4, <1>5, <1>6, <1>7, <1>8
  DEF Next, ProxyStep, CallLater, CallAt, Sweep, Cancel

-----------------------------------------------------------------------------
(* Deadlines *)

(* The links that a timer really has are among those of its record. *)
LEMMA LevelRange ==
  ASSUME TypeOK, NEW t \in Timer
  PROVE  /\ level[t] \in 0..Depth
         /\ 0..level[t] \subseteq 0..Depth
         /\ \A m \in 0..Depth : when[t][m] \in Int
BY NestedAssumption DEF TypeOK

(* The links of a timer that is not moved, when no clock of its levels is. *)
LEMMA LinksRest ==
  ASSUME TypeOK, TypeOK', LinksAgree, NEW t \in Timer, Pending(t),
         level'[t] = level[t], when'[t] = when[t], t \in late => t \in late',
         now' = now, \A m \in 0..level[t] : Clock'[m] = Clock[m]
  PROVE  \A m \in 0..level'[t] : LinkAgrees(t, m)'
<1> SUFFICES ASSUME NEW m \in 0..level[t]
             PROVE  LinkAgrees(t, m)'
  OBVIOUS
<1>1. LinkAgrees(t, m)
  BY DEF LinksAgree
<1>2. Clock'[m] = Clock[m] /\ Clock'[level[t]] = Clock[level[t]]
  BY LevelRange
<1> QED BY <1>1, <1>2 DEF LinkAgrees, Ideal

(* The heart of it: advance_time() moves the links below by the deadline of   *)
(* the link it tracks itself, not by that of the timer.  Those below it are   *)
(* not shifted, unless the timer is counted as late, and so mean the same     *)
(* moment as before; those above agree by the shift of their own clocks.      *)
LEMMA LinksStep == Inv /\ TypeOK' /\ [Next]_vars => LinksAgree'
<1> SUFFICES ASSUME TypeOK, LevelsFit, TrackedBelow, LinksAgree, TypeOK', [Next]_vars,
                    NEW t \in Timer, Pending(t)'
             PROVE  \A m \in 0..level'[t] : LinkAgrees(t, m)'
  BY DEF Inv, LinksAgree
<1>a. /\ now \in Nat
      /\ level[t] \in 0..Depth /\ level'[t] \in 0..Depth
      /\ \A m \in 0..Depth : when[t][m] \in Int
      /\ \A m \in 0..Depth : Clock[m] \in Nat /\ Clock[m] >= now
  BY LevelRange, ClocksApart DEF TypeOK
<1>r. \A m \in 0..level[t] : m \in 0..Depth
  BY LevelRange
<1>b. ASSUME Pending(t), UNCHANGED <<now, offset>>, level'[t] = level[t], when'[t] = when[t],
             t \in late => t \in late'
      PROVE  \A m \in 0..level'[t] : LinkAgrees(t, m)'
  <2>1. \A m \in 0..level[t] : Clock'[m] = Clock[m]
    BY <1>b, ClocksRest, LevelRange
  <2> QED BY <1>b, <2>1, LinksRest
<1>1. ASSUME NEW l \in Level, NEW u \in Timer, NEW d \in Delays, CallLater(u, l, d)
      PROVE  \A m \in 0..level'[t] : LinkAgrees(t, m)'
  <2>1. CASE u # t
    BY <1>1, <1>b, <2>1 DEF CallLater, NewTimer, Pending
  <2>2. CASE u = t
    <3>1. UNCHANGED <<now, offset>>
      BY <1>1 DEF CallLater, NewTimer
    <3>2. \A m \in 0..Depth : Clock'[m] = Clock[m]
      BY <3>1, ClocksRest
    <3>3. \A m \in 0..Depth : when'[t][m] = Clock[m] + d
      BY <1>1, <2>2 DEF CallLater, NewTimer, TypeOK
    <3> SUFFICES ASSUME NEW m \in 0..level'[t]
                 PROVE  LinkAgrees(t, m)'
      OBVIOUS
    <3>4. m \in 0..Depth /\ d \in Nat
      BY <1>a, NestedAssumption
    <3> QED BY <1>a, <3>1, <3>2, <3>3, <3>4 DEF LinkAgrees, Ideal
  <2> QED BY <2>1, <2>2
<1>2. ASSUME NEW l \in Level, NEW u \in Timer, NEW w \in Deadlines, CallAt(u, l, w)
      PROVE  \A m \in 0..level'[t] : LinkAgrees(t, m)'
  <2>1. CASE u # t
    BY <1>2, <1>b, <2>1 DEF CallAt, NewTimer, Pending
  <2>2. CASE u = t
    <3>1. UNCHANGED <<now, offset>> /\ level'[t] = l
      BY <1>2, <2>2 DEF CallAt, NewTimer, TypeOK
    <3>2. \A m \in 0..Depth : Clock'[m] = Clock[m]
      BY <3>1, ClocksRest
    <3>3. \A m \in 0..Depth : when'[t][m] = w
      BY <1>2, <2>2 DEF CallAt, NewTimer, TypeOK
    <3>4. t \notin late' => ~Skews(l)
      BY <1>2, <2>2 DEF CallAt
    <3> SUFFICES ASSUME NEW m \in 0..level'[t]
                 PROVE  LinkAgrees(t, m)'
      OBVIOUS
    <3>5. m \in 0..Depth /\ w \in Nat /\ l \in Nat /\ m <= l
      BY <1>a, <3>1, NestedAssumption DEF Level
    <3>6. ~Skews(l) => ~Skews(m)
      BY <3>5 DEF Skews
    <3>7. t \notin late' => Clock[m] = now /\ Clock[l] = now
      BY <1>a, <3>1, <3>4, <3>5, <3>6, ClocksApart
    <3> QED BY <1>a, <3>1, <3>2, <3>3, <3>5, <3>7 DEF LinkAgrees, Ideal
  <2> QED BY <2>1, <2>2
<1>3. ASSUME NEW l \in Level, Sweep(l)
      PROVE  \A m \in 0..level'[t] : LinkAgrees(t, m)'
  BY <1>3, <1>b DEF Sweep, RootCancel, Pending
<1>4. ASSUME NEW l \in Level, Close(l)
      PROVE  \A m \in 0..level'[t] : LinkAgrees(t, m)'
  BY <1>4, <1>b DEF Close, Pending
<1>5. ASSUME NEW l \in Level, NEW s \in Shifts, AdvanceTime(l, s)
      PROVE  \A m \in 0..level'[t] : LinkAgrees(t, m)'
  <2>1. s \in Nat /\ l \in Nat \ {0} /\ l - 1 \in 0..Depth /\ UNCHANGED <<now, level>>
    BY <1>5, NestedAssumption DEF AdvanceTime, Shift, Level
  <2>2. \A m \in 0..Depth : Clock'[m] = Clock[m] + (IF m >= l THEN s ELSE 0)
    <3>1. now' = now + 0 /\ offset' = [offset EXCEPT ![l] = offset[l] + s]
      BY <1>5, <1>a DEF AdvanceTime, Shift
    <3>2. \A m \in 0..Depth : Clock'[m] = Clock[m] + 0 + (IF m >= l THEN s ELSE 0)
      BY <2>1, <3>1, ClocksStep
    <3> QED BY <1>a, <3>2
  <2>3. t \in late => t \in late'
    BY <1>5 DEF AdvanceTime, Moved
  <2>4. CASE t \in Live(l)
    <3>1. Pending(t) /\ level[t] >= l
      BY <2>4, LiveIsPending
    <3>2. Ideal(t)' = when'[t][level[t]] - (Clock[level[t]] + s - now)
      BY <1>a, <2>1, <2>2, <3>1 DEF Ideal
    <3>3. \A m \in 0..Depth : when'[t][m] = IF m < l THEN when[t][l - 1] - s ELSE when[t][m]
      BY <1>5, <2>4 DEF AdvanceTime, Moved
    <3>4. Ideal(t)' = Ideal(t) - s /\ Ideal(t) \in Int
      BY <1>a, <2>1, <3>1, <3>2, <3>3 DEF Ideal
    <3> SUFFICES ASSUME NEW m \in 0..level[t]
                 PROVE  LinkAgrees(t, m)'
      BY <2>1
    <3>5. m \in 0..Depth /\ l - 1 \in 0..level[t]
      <4>1. level[t] \in Nat
        BY <1>a, NestedAssumption
      <4> QED BY <1>r, <2>1, <3>1, <4>1
    <3>6. CASE m >= l
      <4>1. LinkAgrees(t, m)
        BY <3>1 DEF LinksAgree
      <4>2. when'[t][m] = when[t][m] /\ Clock'[m] = Clock[m] + s
        BY <2>1, <2>2, <3>3, <3>5, <3>6
      <4> QED BY <1>a, <2>1, <2>3, <3>4, <3>5, <4>1, <4>2 DEF LinkAgrees
    <3>7. CASE m < l
      <4>1. LinkAgrees(t, l - 1)
        BY <3>1, <3>5 DEF LinksAgree
      <4>2. when'[t][m] = when[t][l - 1] - s /\ Clock'[m] = Clock[m]
        BY <1>a, <2>1, <2>2, <3>3, <3>5, <3>7
      <4>3. t \notin late' => ~Skews(l - 1)
        BY <1>5, <2>4 DEF AdvanceTime, Moved
      <4>4. ~Skews(l - 1) => ~Skews(m)
        BY <2>1, <3>7 DEF Skews
      <4>5. t \notin late' => Clock[m] = now /\ Clock[l - 1] = now
        BY <2>1, <3>5, <4>3, <4>4, ClocksApart
      <4> QED BY <1>a, <2>1, <2>3, <3>4, <3>5, <4>1, <4>2, <4>5 DEF LinkAgrees
    <3> QED BY <2>1, <3>5, <3>6, <3>7
  <2>5. CASE t \notin Live(l)
    <3>1. root'[t] = root[t] /\ when'[t] = when[t]
      BY <1>5, <2>5 DEF AdvanceTime, Moved
    <3>2. Pending(t) /\ t \notin tracked[l]
      BY <2>5, <3>1 DEF Pending, Live, Dead
    <3>3. level[t] < l
      BY <1>a, <2>1, <3>2 DEF TrackedBelow
    <3>4. \A m \in 0..level[t] : Clock'[m] = Clock[m]
      <4> SUFFICES ASSUME NEW m \in 0..level[t]
                   PROVE  Clock'[m] = Clock[m]
        OBVIOUS
      <4>1. m \in 0..Depth /\ ~(m >= l)
        BY <1>a, <1>r, <2>1, <3>3
      <4> QED BY <1>a, <2>2, <4>1
    <3> QED BY <2>1, <2>3, <3>1, <3>2, <3>4, LinksRest
  <2> QED BY <2>4, <2>5
<1>6. ASSUME NEW l \in Level, NEW s \in Shifts, AdvanceTimeRaises(l, s)
      PROVE  \A m \in 0..level'[t] : LinkAgrees(t, m)'
  <2>1. s \in Nat /\ l \in Nat \ {0} /\ UNCHANGED <<now, level, when>>
    BY <1>6, NestedAssumption DEF AdvanceTimeRaises, Shift, Level
  <2>2. \A m \in 0..Depth : Clock'[m] = Clock[m] + (IF m >= l THEN s ELSE 0)
    <3>1. now' = now + 0 /\ offset' = [offset EXCEPT ![l] = offset[l] + s]
      BY <1>6, <1>a DEF AdvanceTimeRaises, Shift
    <3>2. \A m \in 0..Depth : Clock'[m] = Clock[m] + 0 + (IF m >= l THEN s ELSE 0)
      BY <2>1, <3>1, ClocksStep
    <3> QED BY <1>a, <3>2
  <2>3. PICK u \in Live(l) : RootCancel({u}) /\ late' = late \cup (Live(l) \ {u})
    BY <1>6 DEF AdvanceTimeRaises
  <2>4. Pending(t) /\ t # u
    BY <2>3 DEF RootCancel, Pending
  <2>5. CASE t \in Live(l)
    <3>1. t \in late' /\ level[t] >= l
      BY <2>3, <2>4, <2>5, LiveIsPending
    <3>2. Ideal(t)' = Ideal(t) - s /\ Ideal(t) \in Int
      BY <1>a, <2>1, <2>2, <3>1 DEF Ideal
    <3> SUFFICES ASSUME NEW m \in 0..level[t]
                 PROVE  LinkAgrees(t, m)'
      BY <2>1
    <3>3. LinkAgrees(t, m) /\ m \in 0..Depth
      BY <1>r, <2>4 DEF LinksAgree
    <3> QED BY <1>a, <2>1, <3>1, <3>2, <3>3 DEF LinkAgrees
  <2>6. CASE t \notin Live(l)
    <3>1. t \notin tracked[l]
      BY <2>4, <2>6 DEF Pending, Live, Dead
    <3>2. level[t] < l
      BY <1>a, <2>1, <2>4, <3>1 DEF TrackedBelow
    <3>3. \A m \in 0..level[t] : Clock'[m] = Clock[m]
      <4> SUFFICES ASSUME NEW m \in 0..level[t]
                   PROVE  Clock'[m] = Clock[m]
        OBVIOUS
      <4>1. m \in 0..Depth /\ ~(m >= l)
        BY <1>a, <1>r, <2>1, <3>2
      <4> QED BY <1>a, <2>2, <4>1
    <3> QED BY <2>1, <2>3, <2>4, <3>3, LinksRest
  <2> QED BY <2>5, <2>6
<1>7. ASSUME NEW u \in Timer, Cancel(u)
      PROVE  \A m \in 0..level'[t] : LinkAgrees(t, m)'
  BY <1>7, <1>b DEF Cancel, RootCancel, Pending
<1>8. ASSUME NEW u \in Timer, Run(u)
      PROVE  \A m \in 0..level'[t] : LinkAgrees(t, m)'
  BY <1>8, <1>b DEF Run, Pending, TypeOK
<1>9. CASE Tick
  <2>1. 1 \in Level /\ now' = now + 1 /\ offset' = [offset EXCEPT ![1] = offset[1] + 0]
    BY <1>9, NestedAssumption DEF Tick, TypeOK, Level
  <2>2. \A m \in 0..Depth : Clock'[m] = Clock[m] + 1 + (IF m >= 1 THEN 0 ELSE 0)
    BY <2>1, ClocksStep
  <2>3. \A m \in 0..Depth : Clock'[m] = Clock[m] + 1
    BY <1>a, <2>2
  <2>4. Pending(t) /\ UNCHANGED <<level, when, late>>
    BY <1>9 DEF Tick, Pending
  <2>5. Ideal(t)' = Ideal(t)
    BY <1>a, <2>1, <2>3, <2>4 DEF Ideal
  <2> SUFFICES ASSUME NEW m \in 0..level[t]
               PROVE  LinkAgrees(t, m)'
    BY <2>4
  <2>6. LinkAgrees(t, m) /\ m \in 0..Depth
    BY <1>r, <2>4 DEF LinksAgree
  <2> QED BY <1>a, <2>1, <2>3, <2>4, <2>5, <2>6 DEF LinkAgrees
<1>10. CASE PopTimers
  BY <1>10, <1>b DEF PopTimers, Pending
<1>11. CASE UNCHANGED vars
  BY <1>11, <1>b DEF vars, Pending
<1> QED
  BY <1>1, <1>2, <1>3, <1>4, <1>5, <1>6, <1>7, <1>8, <1>9, <1>10, <1>11
  DEF Next, ProxyStep

-----------------------------------------------------------------------------

(* The invariant holds in every reachable state. *)
LEMMA InvAlways == Spec => []Inv
<1>1. Inv /\ [Next]_vars => Inv'
  BY TypeStep, LevelsStep, TrackedStep, LinksStep DEF Inv
<1> QED BY <1>1, InitInv, PTL DEF Spec

(* Timers are created with the types they keep, and each proxy tracks only     *)
(* timers of its own level or above that have not run: Handle._run() discards. *)
THEOREM TypeCorrect == Spec => []TypeOK
BY InvAlways, PTL DEF Inv

(* The link of the root loop is the one that decides when a timer is due. *)
LEMMA LinksDecide == Inv => PendingIsKept
<1> SUFFICES ASSUME Inv, NEW t \in Timer, Pending(t)
             PROVE  /\ \A l \in 1..level[t] : t \in tracked[l]
                    /\ IF t \in late THEN when[t][0] >= Ideal(t) ELSE when[t][0] = Ideal(t)
  BY DEF PendingIsKept
<1>1. TypeOK /\ now \in Nat
  BY DEF Inv, TypeOK
<1>2. 0 \in 0..level[t] /\ 0 \in 0..Depth /\ level[t] \in 0..Depth
  BY <1>1, NestedAssumption, LevelRange
<1>3. LinkAgrees(t, 0)
  BY <1>2 DEF Inv, LinksAgree
<1>4. Clock[0] = now
  BY <1>1, ClockUnfolds DEF Clocks
<1>5. when[t][0] \in Int
  BY <1>1, <1>2, LevelRange
<1> QED BY <1>1, <1>3, <1>4, <1>5 DEF Inv, TrackedBelow, LinkAgrees

(* For any stack of proxies and any calls of advance_time(), cancel() and the    *)
(* shutdowns on any of its levels: each proxy of the chain tracks a pending     *)
(* timer, and the root loop has it at its deadline, or after it when call_at()  *)
(* of _loop.py went through a proxy whose clock is shifted.                     *)
THEOREM PendingTimersAreKept == Spec => []PendingIsKept
BY InvAlways, LinksDecide, PTL
=============================================================================
