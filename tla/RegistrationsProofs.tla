------------------------- MODULE RegistrationsProofs -------------------------
(* Proofs about Registrations, for any proxies and any slots. *)
EXTENDS Registrations, TLAPS

(* The owner of a slot that is neither free nor the parent's is a proxy, and *)
(* what is known of owners survives each step: both safety properties are    *)
(* inductive only together, since a shutdown removes what the table names.   *)
(* What is queued for a descriptor is the callback of its owner.             *)
OwnersAreCalled == \A c \in due : c[2] \in SignalSlot \/ owner[c[2]] = c[1]

Inv == TypeOK /\ OwnerKnows /\ OwnersAreCalled /\ CleanOwnsNothing

(* Nothing is registered at first. *)
LEMMA InitInv == Init => Inv
<1> SUFFICES ASSUME Init PROVE Inv
  OBVIOUS
<1>1. TypeOK
  <2>1. inside \in [Proxy -> 0..MaxCalls]
    BY SlotAssumption DEF Init
  <2>2. answer \in BOOLEAN
    BY Zenon DEF Init
  <2>3. /\ owner \in [Slot -> Proxy \cup {Parent, Nobody}] /\ table \in [Proxy -> SUBSET Slot]
        /\ due \subseteq Proxy \X Slot /\ closed \subseteq Proxy /\ clean \subseteq Proxy \X Slot
    BY DEF Init
  <2> QED BY <2>1, <2>2, <2>3 DEF TypeOK
<1>2. OwnerKnows
  BY SlotAssumption DEF Init, OwnerKnows
<1>3. CleanOwnsNothing
  BY DEF Init, CleanOwnsNothing
<1>4. OwnersAreCalled
  BY DEF Init, OwnersAreCalled
<1> QED BY <1>1, <1>2, <1>3, <1>4 DEF Inv

(* Every step of a proxy, or of the program on the parent loop, keeps the *)
(* type of the state.                                                     *)
LEMMA TypeStep == TypeOK /\ [Next]_vars => TypeOK'
<1> SUFFICES ASSUME TypeOK, [Next]_vars PROVE TypeOK'
  OBVIOUS
<1> USE DEF TypeOK
<1>1. ASSUME NEW p \in Proxy, NEW s \in Slot, Add(p, s) PROVE TypeOK'
  BY <1>1 DEF Add, Unqueued
<1>2. ASSUME NEW p \in Proxy, NEW s \in Slot, Remove(p, s) PROVE TypeOK'
  <2>1. CASE p \in closed /\ s \notin SignalSlot
    BY <1>2, <2>1 DEF Remove
  <2>2. CASE ~(p \in closed /\ s \notin SignalSlot)
    <3>1. answer' = (s \in table[p])
      BY <1>2, <2>2 DEF Remove
    <3>2. (s \in table[p]) \in BOOLEAN
      OBVIOUS
    <3>3. answer' \in BOOLEAN
      BY ONLY <3>1, <3>2
    <3>4. /\ owner' = [owner EXCEPT ![s] = Nobody]
          /\ due' = Unqueued({s})
          /\ table' = [table EXCEPT ![p] = @ \ {s}]
          /\ UNCHANGED <<inside, closed, clean>>
      BY <1>2, <2>2 DEF Remove
    <3> QED BY <3>3, <3>4 DEF Unqueued
  <2> QED BY <2>1, <2>2
<1>3. ASSUME NEW p \in Proxy, NEW S \in SUBSET Slot, Release(p, S),
             inside' \in [Proxy -> 0..MaxCalls]
      PROVE TypeOK'
  <2>1. owner' \in [Slot -> Proxy \cup {Parent, Nobody}]
    BY <1>3 DEF Release
  <2>2. table' \in [Proxy -> SUBSET Slot]
    BY <1>3 DEF Release
  <2>3. due' \subseteq Proxy \X Slot /\ clean' \subseteq Proxy \X Slot
    BY <1>3 DEF Release, Unqueued
  <2> QED BY <1>3, <2>1, <2>2, <2>3 DEF Release
<1>4. ASSUME NEW p \in Proxy, ReleaseSignals(p) PROVE TypeOK'
  <2>1. inside' \in [Proxy -> 0..MaxCalls]
    BY <1>4, SlotAssumption DEF ReleaseSignals
  <2> QED BY <1>3, <1>4, <2>1, SlotAssumption DEF ReleaseSignals
<1>5. ASSUME NEW p \in Proxy, ReleaseDescriptors(p) PROVE TypeOK'
  <2>1. inside' \in [Proxy -> 0..MaxCalls]
    BY <1>5, SlotAssumption DEF ReleaseDescriptors
  <2> QED BY <1>3, <1>5, <2>1 DEF ReleaseDescriptors
<1>6. ASSUME NEW p \in Proxy, Abort(p) PROVE TypeOK'
  BY <1>6, SlotAssumption DEF Abort
<1>7. ASSUME NEW p \in Proxy, Close(p) PROVE TypeOK'
  BY <1>7 DEF Close
<1>8. ASSUME NEW s \in Slot, ParentAdd(s) PROVE TypeOK'
  BY <1>8 DEF ParentAdd, Unqueued
<1>9. ASSUME NEW s \in Slot, ParentRemove(s) PROVE TypeOK'
  BY <1>9 DEF ParentRemove, Unqueued
<1>10. ASSUME NEW s \in Slot, Happens(s) PROVE TypeOK'
  BY <1>10 DEF Happens
<1>11. ASSUME NEW p \in Proxy, NEW s \in Slot, Called(<<p, s>>) PROVE TypeOK'
  BY <1>11 DEF Called
<1>12. CASE UNCHANGED vars
  BY <1>12 DEF vars
<1> QED BY <1>1, <1>2, <1>4, <1>5, <1>6, <1>7, <1>8, <1>9, <1>10, <1>11, <1>12 DEF Next

(* What becomes of a slot whose registration goes, or is replaced: nothing *)
(* is left of it in the parent's queue, unless it is a signal.             *)
LEMMA UnqueuedEffect ==
  ASSUME NEW S
  PROVE  /\ Unqueued(S) \subseteq due
         /\ \A c \in Unqueued(S) : c \in Proxy \X Slot /\ c[2] \in S => c[2] \in SignalSlot
  BY DEF Unqueued

(* Every step keeps what is known of the owners of the slots. *)
LEMMA OwnerStep == Inv /\ [Next]_vars => OwnerKnows' /\ OwnersAreCalled' /\ CleanOwnsNothing'
<1> SUFFICES ASSUME Inv, [Next]_vars
             PROVE  OwnerKnows' /\ OwnersAreCalled' /\ CleanOwnsNothing'
  OBVIOUS
<1> DEFINE Goal == OwnerKnows' /\ OwnersAreCalled' /\ CleanOwnsNothing'
<1> USE SlotAssumption DEF Inv, TypeOK, OwnerKnows, OwnersAreCalled, CleanOwnsNothing
<1>1. ASSUME NEW p \in Proxy, NEW s \in Slot, Add(p, s) PROVE Goal
  BY <1>1, UnqueuedEffect DEF Add
<1>2. ASSUME NEW p \in Proxy, NEW s \in Slot, Remove(p, s) PROVE Goal
  <2>1. CASE p \in closed /\ s \notin SignalSlot
    BY <1>2, <2>1 DEF Remove
  <2>2. CASE ~(p \in closed /\ s \notin SignalSlot)
    BY <1>2, <2>2, UnqueuedEffect DEF Remove
  <2> QED BY <2>1, <2>2
<1>3. ASSUME NEW p \in Proxy, NEW S \in SUBSET Slot, Release(p, S) PROVE Goal
  <2>1. /\ owner' = [s \in Slot |-> IF s \in Freed(p, S) THEN Nobody ELSE owner[s]]
        /\ due' = Unqueued(Freed(p, S)) /\ closed' = closed
        /\ table' = [table EXCEPT ![p] = @ \ S]
        /\ clean' = IF p \in closed THEN clean ELSE clean \cup ({p} \X S)
    BY <1>3 DEF Release
  <2>2. /\ Freed(p, S) \subseteq table[p] \cap S
        /\ p \notin closed => Freed(p, S) = table[p] \cap S
    BY DEF Freed
  <2>3. OwnerKnows'
    <3> SUFFICES ASSUME NEW q \in Proxy \ closed', NEW s \in Slot, owner'[s] = q
                 PROVE s \in table'[q]
      OBVIOUS
    <3>1. owner[s] = q /\ s \notin Freed(p, S) /\ s \in table[q]
      BY <2>1
    <3>2. CASE q = p
      BY <2>1, <2>2, <3>1, <3>2
    <3>3. CASE q # p
      BY <2>1, <3>1, <3>3
    <3> QED BY <3>2, <3>3
  <2>4. OwnersAreCalled'
    BY <2>1, <2>2, UnqueuedEffect
  <2>5. CleanOwnsNothing'
    <3> SUFFICES ASSUME NEW c \in clean'
                 PROVE  owner'[c[2]] # c[1] /\ (c \in due' => c[2] \in SignalSlot)
      OBVIOUS
    <3>1. c \in Proxy \X Slot
      BY <2>1
    <3>2. owner'[c[2]] # c[1]
      <4>1. CASE c \in clean
        BY <2>1, <3>1, <4>1
      <4>2. CASE c \notin clean
        <5>1. p \notin closed /\ c[1] = p /\ c[2] \in S
          BY <2>1, <4>2
        <5>2. owner[c[2]] = p => c[2] \in Freed(p, S)
          BY <2>2, <3>1, <5>1
        <5> QED BY <2>1, <3>1, <5>1, <5>2
      <4> QED BY <4>1, <4>2
    <3> QED BY <2>4, <3>1, <3>2
  <2> QED BY <2>3, <2>4, <2>5
<1>4. ASSUME NEW p \in Proxy, ReleaseSignals(p) PROVE Goal
  BY ONLY <1>3, <1>4, SlotAssumption DEF ReleaseSignals
<1>5. ASSUME NEW p \in Proxy, ReleaseDescriptors(p) PROVE Goal
  BY ONLY <1>3, <1>5 DEF ReleaseDescriptors
<1>6. ASSUME NEW p \in Proxy, Abort(p) PROVE Goal
  BY <1>6 DEF Abort
<1>7. ASSUME NEW p \in Proxy, Close(p) PROVE Goal
  BY <1>7 DEF Close
<1>8. ASSUME NEW s \in Slot, ParentAdd(s) PROVE Goal
  BY <1>8, UnqueuedEffect DEF ParentAdd
<1>9. ASSUME NEW s \in Slot, ParentRemove(s) PROVE Goal
  BY <1>9, UnqueuedEffect DEF ParentRemove
<1>10. ASSUME NEW s \in Slot, Happens(s) PROVE Goal
  BY <1>10 DEF Happens
<1>11. ASSUME NEW p \in Proxy, NEW s \in Slot, Called(<<p, s>>) PROVE Goal
  BY <1>11 DEF Called
<1>12. CASE UNCHANGED vars
  BY <1>12 DEF vars
<1> QED BY <1>1, <1>2, <1>4, <1>5, <1>6, <1>7, <1>8, <1>9, <1>10, <1>11, <1>12 DEF Next

(* The invariant holds in every behaviour of the proxies. *)
LEMMA InvAlways == Spec => []Inv
<1>1. Inv /\ [Next]_vars => Inv'
  BY TypeStep, OwnerStep DEF Inv
<1> QED BY InitInv, <1>1, PTL DEF Spec

(* For any proxies and slots the state is well typed: the remove_*() methods *)
(* return Booleans and the tables hold slots only.                           *)
THEOREM TypeCorrect == Spec => []TypeOK
<1>1. Inv => TypeOK
  BY DEF Inv
<1> QED BY <1>1, InvAlways, PTL

(* However proxies and the program take slots over from each other, the *)
(* parent calls an open proxy only for what check_and_shutdown() of     *)
(* this proxy removes.                                                  *)
THEOREM OwnersAreKnown == Spec => []OwnerKnows
<1>1. Inv => OwnerKnows
  BY DEF Inv
<1> QED BY <1>1, InvAlways, PTL

(* A slot that a shutdown of an open proxy released, and that the proxy has  *)
(* not added since, is never registered for it again, whatever the others do *)
(* and whatever happens between the phases; and no callback is left queued   *)
(* unless it is that of a signal.                                            *)
THEOREM ShutdownReleasesSlots == Spec => []CleanOwnsNothing
<1>1. Inv => CleanOwnsNothing
  BY DEF Inv
<1> QED BY <1>1, InvAlways, PTL
=============================================================================
