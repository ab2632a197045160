---------------------------- MODULE Registrations ----------------------------
(***************************************************************************)
(* Readers, writers and signal handlers of several LoopProxy objects over  *)
(* one parent loop.  The parent keeps one registration for each slot (a    *)
(* file descriptor for reading or for writing, or a signal); a proxy keeps *)
(* a table of the slots it registered.  When a descriptor is ready or a    *)
(* signal arrives the parent queues the callback it has, and calls it a    *)
(* little later.  Between the two phases of check_and_shutdown() that      *)
(* release slots lie the awaits of servers and transports, during which    *)
(* everything else goes on.                                                *)
(***************************************************************************)
EXTENDS Naturals, FiniteSets

CONSTANTS Proxy,       \* the proxies of the parent loop
          Slot,        \* what can be registered
          SignalSlot,  \* the slots that are signals
          Parent,      \* owner of what is registered with the parent itself
          Nobody,      \* owner of a free slot
          MaxCalls     \* bound: overlapping check_and_shutdown() of a proxy

ASSUME SlotAssumption ==
  /\ SignalSlot \subseteq Slot
  /\ Parent \notin Proxy /\ Nobody \notin Proxy \cup {Parent}
  /\ MaxCalls \in Nat

VARIABLES owner,   \* owner[s]: whose callback the parent calls for s
          table,   \* table[p]: the keys of _readers, _writers and _signals of p
          due,     \* the callbacks of proxies queued in the parent: <<proxy, slot>>
          inside,  \* inside[p]: the shutdowns of p that have released its signals only
          closed,  \* the closed proxies
          answer,  \* what the last remove_*() of a proxy returned
          clean    \* history: <<p, s>> that a shutdown of p released, not added since

vars == <<owner, table, due, inside, closed, answer, clean>>

(* The type of the state; what remove_*() returns is a Boolean. *)
TypeOK ==
  /\ owner \in [Slot -> Proxy \cup {Parent, Nobody}]
  /\ table \in [Proxy -> SUBSET Slot]
  /\ due \subseteq Proxy \X Slot
  /\ inside \in [Proxy -> 0..MaxCalls]
  /\ closed \subseteq Proxy
  /\ answer \in BOOLEAN
  /\ clean \subseteq Proxy \X Slot

Init ==
  /\ owner = [s \in Slot |-> Nobody]
  /\ table = [p \in Proxy |-> {}]
  /\ due = {}
  /\ inside = [p \in Proxy |-> 0]
  /\ closed = {}
  /\ answer = FALSE
  /\ clean = {}

-----------------------------------------------------------------------------

(* Whenever the parent's registration of a descriptor is replaced or removed *)
(* its handle is cancelled, and what is queued is not called; that of a      *)
(* signal is only forgotten.                                                 *)
Unqueued(S) == due \ (Proxy \X (S \ SignalSlot))

(* add_reader(), add_writer(), add_signal_handler(): the parent replaces *)
(* whatever was registered, and its former owner is not told.            *)
Add(p, s) ==
  /\ p \notin closed
  /\ owner' = [owner EXCEPT ![s] = p]
  /\ due' = Unqueued({s})
  /\ table' = [table EXCEPT ![p] = @ \cup {s}]
  /\ clean' = clean \ {<<p, s>>}
  /\ UNCHANGED <<inside, closed, answer>>

(* Faulty variant: the popped handle is returned as it is. *)
Remove_Handle(p, s) ==
  /\ owner' = [owner EXCEPT ![s] = Nobody]
  /\ due' = Unqueued({s})
  /\ table' = [table EXCEPT ![p] = @ \ {s}]
  /\ answer' = IF s \in table[p] THEN s ELSE FALSE
  /\ UNCHANGED <<inside, closed, clean>>

(* Faulty variant: the table forgets a slot, the parent does not. *)
Remove_TableOnly(p, s) ==
  /\ table' = [table EXCEPT ![p] = @ \ {s}]
  /\ answer' = (s \in table[p])
  /\ UNCHANGED <<owner, due, inside, closed, clean>>

(* remove_reader(), remove_writer() do nothing once the proxy is closed; *)
(* remove_signal_handler() does not look.  The parent's registration     *)
(* goes, whoever owns it; the answer is about the table of the proxy.    *)
Remove(p, s) ==
  IF p \in closed /\ s \notin SignalSlot
  THEN /\ answer' = FALSE
       /\ UNCHANGED <<owner, table, due, inside, closed, clean>>
  ELSE /\ owner' = [owner EXCEPT ![s] = Nobody]
       /\ due' = Unqueued({s})
       /\ table' = [table EXCEPT ![p] = @ \ {s}]
       /\ answer' = (s \in table[p])
       /\ UNCHANGED <<inside, closed, clean>>

(* Faulty variant: only the signal handlers are removed. *)
Freed_Signals(p, S) == table[p] \cap S \cap SignalSlot

(* Which of the slots S a phase of check_and_shutdown() removes from the   *)
(* parent: it calls remove_*() for every one of its table, then clears it. *)
Freed(p, S) == IF p \in closed THEN table[p] \cap S \cap SignalSlot ELSE table[p] \cap S

Release(p, S) ==
  /\ owner' = [s \in Slot |-> IF s \in Freed(p, S) THEN Nobody ELSE owner[s]]
  /\ due' = Unqueued(Freed(p, S))
  /\ table' = [table EXCEPT ![p] = @ \ S]
  /\ clean' = IF p \in closed THEN clean ELSE clean \cup ({p} \X S)
  /\ UNCHANGED <<closed, answer>>

(* check_and_shutdown() gets to its signals, and past its transports. *)
ReleaseSignals(p) ==
  /\ inside[p] < MaxCalls
  /\ inside' = [inside EXCEPT ![p] = @ + 1]
  /\ Release(p, SignalSlot)

ReleaseDescriptors(p) ==
  /\ inside[p] > 0
  /\ inside' = [inside EXCEPT ![p] = @ - 1]
  /\ Release(p, Slot \ SignalSlot)

(* It is cancelled, or fails, while it waits for a server or transport. *)
Abort(p) ==
  /\ inside[p] > 0
  /\ inside' = [inside EXCEPT ![p] = @ - 1]
  /\ UNCHANGED <<owner, table, due, closed, answer, clean>>

Close(p) ==
  /\ closed' = closed \cup {p}
  /\ UNCHANGED <<owner, table, due, inside, answer, clean>>

-----------------------------------------------------------------------------
(* The parent loop *)

(* The program uses it directly. *)
ParentAdd(s) ==
  /\ owner' = [owner EXCEPT ![s] = Parent]
  /\ due' = Unqueued({s})
  /\ UNCHANGED <<table, inside, closed, answer, clean>>

ParentRemove(s) ==
  /\ owner' = [owner EXCEPT ![s] = Nobody]
  /\ due' = Unqueued({s})
  /\ UNCHANGED <<table, inside, closed, answer, clean>>

(* The descriptor is ready, or the signal has arrived: the callback is *)
(* queued, and called in its turn.                                     *)
Happens(s) ==
  /\ owner[s] \in Proxy
  /\ due' = due \cup {<<owner[s], s>>}
  /\ UNCHANGED <<owner, table, inside, closed, answer, clean>>

Called(c) ==
  /\ c \in due
  /\ due' = due \ {c}
  /\ UNCHANGED <<owner, table, inside, closed, answer, clean>>

Next ==
  \/ \E p \in Proxy, s \in Slot : Add(p, s) \/ Remove(p, s) \/ Called(<<p, s>>)
  \/ \E p \in Proxy : ReleaseSignals(p) \/ ReleaseDescriptors(p) \/ Abort(p) \/ Close(p)
  \/ \E s \in Slot : ParentAdd(s) \/ ParentRemove(s) \/ Happens(s)

Spec == Init /\ [][Next]_vars

-----------------------------------------------------------------------------
(* Properties *)

(* The parent never calls a callback of an open proxy that this proxy does *)
(* not know of: what it knows, check_and_shutdown() removes, also after    *)
(* other proxies and the parent took slots over and gave them up.          *)
OwnerKnows ==
  \A p \in Proxy \ closed : \A s \in Slot : owner[s] = p => s \in table[p]

(* What a phase of check_and_shutdown() released, and the proxy has not    *)
(* added since, stays released: the parent has no callback of this proxy   *)
(* for it, registered or queued, also after the proxy was closed, whatever *)
(* the others do and whatever happens during the awaits between the        *)
(* phases.  But a signal handler that was queued before it was removed is  *)
(* still called: remove_signal_handler() cancels no handle.                *)
CleanOwnsNothing ==
  \A c \in clean : owner[c[2]] # c[1] /\ (c \in due => c[2] \in SignalSlot)
=============================================================================
