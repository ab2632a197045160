-------------------------- MODULE CheckAndShutdown --------------------------
(***************************************************************************)
(* check_and_shutdown() of a LoopProxy, called by the root task or by any  *)
(* other: what it closes, in which order, and what the rest of the program *)
(* can do to it whenever it is suspended in an await.                      *)
(*                                                                         *)
(* Each phase takes a snapshot of one registry of the proxy and treats its *)
(* members one by one; a member of class "accepted" is a connection that a *)
(* server of the proxy accepted, which no registry holds.                  *)
(***************************************************************************)
EXTENDS Naturals, FiniteSets

CONSTANTS Resource,  \* everything the program may acquire through the proxy
          ClassOf,   \* ClassOf[r]: the class of the resource r
          ServerOf,  \* ServerOf[r]: the server that accepts the connection r
          Idle,      \* the servers created with start_serving=False
          Early,     \* the resources that may be acquired before the shutdown
          Late,      \* those that may be acquired while shutting down
          Faulty,    \* tasks that may end with an error and protocols whose
                     \* connection_lost() may raise
          Stubborn,  \* tasks that may suppress the cancellation, or put off
                     \* their end for something that does
          Slow,      \* transports that may have data left when they are closed
          Abortable, \* the transports with an abort(), the others have close()
          Key,       \* Key[h]: the time and the callback of the handle h
          None       \* no resource

Phase == {"tasks", "signals", "servers", "transports", "readers", "writers", "handles"}
Class == Phase \cup {"accepted"}

ASSUME ResourceAssumption ==
  /\ ClassOf \in [Resource -> Class]
  /\ \A r \in Resource : ClassOf[r] = "accepted" =>
       ServerOf[r] \in Resource /\ ClassOf[ServerOf[r]] = "servers"
  /\ Idle \subseteq {r \in Resource : ClassOf[r] = "servers"}
  /\ Early \cup Late \subseteq Resource
  /\ Faulty \cup Stubborn \cup Slow \cup Abortable \subseteq Resource
  /\ None \notin Resource

VARIABLES st,       \* state of each resource, in the parent loop
          tracked,  \* _tasks, _signals, _servers, _transports, _readers, _writers,
                    \* _ready and _timers
          failed,   \* the task it awaits ended with an error
          phase,    \* where check_and_shutdown() is
          todo,     \* what is left of the phase's snapshot
          await,    \* what it is suspended on
          waits,    \* it awaits the connections of a server too (Python 3.12)
          caller,   \* the task that runs it
          root,     \* LoopProxy._root_task
          mains,    \* tasks whose main(), in run_until_complete(), has not ended
          rootless, \* history: the last run_until_complete() was given a task, or
                    \* main() of an earlier one that stop() ended was left
          seen      \* history: the members of the snapshots it took

callVars == <<waits, caller>>
shutdownVars == <<phase, todo, await, callVars, seen>>
rootVars == <<root, mains, rootless>>
vars == <<st, tracked, failed, rootVars, shutdownVars>>

State == {"absent",   \* not acquired
          "open",     \* a pending task, a serving server, an open transport, ...
          "idle",     \* a server that was created but does not serve yet
          "closing",  \* a task with a cancellation, a transport without connection_lost()
          "draining", \* a transport that has data left to send first
          "broken",   \* a transport whose connection_lost() raised
          "closed"}

Of(c)    == {r \in Resource : ClassOf[r] = c}
Ended    == phase \in {"returned", "raised"}

(* `_ready' and `_timers' are sets: timers with the same time and callback *)
(* compare equal, and share one entry.                                     *)
Same(r) == IF ClassOf[r] = "handles" THEN {q \in Of("handles") : Key[q] = Key[r]} ELSE {r}

(* Nobody else runs between two awaits of the coroutine. *)
OthersRun == phase = "idle" \/ await # None

(* The type of the state; the coroutine awaits a member of its snapshot. *)
TypeOK ==
  /\ st \in [Resource -> State]
  /\ tracked \subseteq Resource
  /\ failed \in BOOLEAN
  /\ phase \in Phase \cup {"idle", "returned", "raised"}
  /\ todo \subseteq tracked \cup seen
  /\ await \in todo \cup {None}
  /\ waits \in BOOLEAN
  /\ caller \in Of("tasks") \cup {None}
  /\ root \in mains \cup {None} /\ mains \subseteq Of("tasks")
  /\ rootless \in BOOLEAN
  /\ seen \subseteq Resource

Init ==
  /\ st = [r \in Resource |-> "absent"]
  /\ tracked = {}
  /\ failed = FALSE
  /\ phase = "idle"
  /\ todo = {}
  /\ await = None
  /\ waits = FALSE /\ caller = None
  /\ root = None /\ mains = {} /\ rootless = FALSE
  /\ seen = {}

-----------------------------------------------------------------------------
(* The rest of the program *)

Acquire(r, s) ==
  /\ OthersRun
  /\ st[r] = "absent"
  /\ r \in IF phase = "idle" THEN Early ELSE Late
  /\ st' = [st EXCEPT ![r] = s]
  /\ UNCHANGED <<failed, shutdownVars>>

SpawnTask(r) ==
  /\ ClassOf[r] = "tasks"
  /\ Acquire(r, "open")
  /\ tracked' = tracked \cup {r}
  /\ UNCHANGED rootVars

(* run_until_complete() of a coroutine.  It cannot be called while the loop *)
(* runs, but stop() may have made an earlier one raise and left its main(). *)
RunUntilComplete(r) ==
  /\ ClassOf[r] = "tasks" /\ phase = "idle"
  /\ Acquire(r, "open")
  /\ tracked' = tracked \cup {r}
  /\ root' = r /\ mains' = mains \cup {r}
  /\ rootless' = (mains # {})

(* run_until_complete() of a task that exists sets no _root_task. *)
RunUntilDone(r) ==
  /\ ClassOf[r] = "tasks" /\ phase = "idle"
  /\ st[r] = "open" /\ r \notin mains
  /\ mains' = mains \cup {r} /\ rootless' = TRUE
  /\ UNCHANGED <<st, tracked, failed, root, shutdownVars>>

(* `finally: self._root_task = None' of main(), whichever task that is by now. *)
MainEnds(r) ==
  /\ OthersRun
  /\ r \in mains /\ st[r] = "closed"
  /\ root' = None /\ mains' = mains \ {r}
  /\ UNCHANGED <<st, tracked, failed, rootless, shutdownVars>>

CreateServer(r) ==
  /\ ClassOf[r] = "servers"
  /\ Acquire(r, IF r \in Idle THEN "idle" ELSE "open")
  /\ tracked' = tracked \cup {r}
  /\ UNCHANGED rootVars

(* create_connection() and its kind. *)
Connect(r) ==
  /\ ClassOf[r] = "transports"
  /\ Acquire(r, "open")
  /\ tracked' = tracked \cup {r}
  /\ UNCHANGED rootVars

(* A server accepts a connection: connection_made() makes the transport *)
(* proxy and adds it to no registry.                                    *)
Accept(r) ==
  /\ ClassOf[r] = "accepted"
  /\ st[ServerOf[r]] = "open"
  /\ Acquire(r, "open")
  /\ UNCHANGED <<tracked, rootVars>>

(* add_reader(), add_writer(), add_signal_handler(), call_soon(), call_at(), *)
(* in the thread of the loop; set.add() keeps the member that is equal.      *)
AddHandler(r) ==
  /\ ClassOf[r] \in {"signals", "readers", "writers", "handles"}
  /\ Acquire(r, "open")
  /\ tracked' = IF tracked \cap Same(r) = {} THEN tracked \cup {r} ELSE tracked
  /\ UNCHANGED rootVars

StartServing(r) ==
  /\ OthersRun
  /\ st[r] = "idle"
  /\ st' = [st EXCEPT ![r] = "open"]
  /\ UNCHANGED <<tracked, failed, rootVars, shutdownVars>>

(* A task ends by itself or because it was cancelled. *)
TaskEnds(r) ==
  /\ OthersRun /\ r # caller
  /\ ClassOf[r] = "tasks" /\ st[r] \in {"open", "closing"}
  /\ st' = [st EXCEPT ![r] = "closed"]
  /\ failed' \in {failed, failed \/ (r = await /\ r \in Faulty)}
  /\ UNCHANGED <<tracked, rootVars, shutdownVars>>

(* What close() makes of a transport, whose peer may be slow to read the rest. *)
Shut(r) == {"closing"} \cup (IF r \in Slow THEN {"draining"} ELSE {})

(* The program closes a resource, or a callback runs.  The proxy forgets it *)
(* when a dictionary or set held it, with its equals, and keeps it in a     *)
(* weak set.                                                                *)
Release(r) ==
  /\ OthersRun
  /\ ClassOf[r] # "tasks" /\ st[r] \in {"open", "idle"}
  /\ \E s \in IF ClassOf[r] \in {"transports", "accepted"} THEN Shut(r) ELSE {"closed"} :
       st' = [st EXCEPT ![r] = s]
  /\ tracked' = IF ClassOf[r] \in {"servers", "transports"} THEN tracked ELSE tracked \ Same(r)
  /\ UNCHANGED <<failed, rootVars, shutdownVars>>

(* The program drops the last reference to a server proxy: the weak set *)
(* `_servers' forgets it and the server of the parent goes on serving.  *)
DropServer(r) ==
  /\ OthersRun
  /\ ClassOf[r] = "servers" /\ r \in tracked \ todo
  /\ tracked' = tracked \ {r}
  /\ UNCHANGED <<st, failed, rootVars, shutdownVars>>

(* The parent calls connection_lost() of the protocol proxy, which sets  *)
(* wait_closed after the user's connection_lost() unless that one raises *)
(* (and the transport drops its protocol in either case).                *)
ConnectionLost(r) ==
  /\ OthersRun
  /\ ClassOf[r] \in {"transports", "accepted"} /\ st[r] \in {"closing", "draining"}
  /\ \E s \in {"closed"} \cup (IF r \in Faulty THEN {"broken"} ELSE {}) :
       st' = [st EXCEPT ![r] = s]
  /\ UNCHANGED <<tracked, failed, rootVars, shutdownVars>>

(* A task that awaits itself is resumed at once, with an exception. *)
Answered(r) == st[r] = "closed" \/ r = caller

(* The program cancels check_and_shutdown(), by a timeout for example.  What *)
(* it awaits in the phase of the tasks has been cancelled already, and       *)
(* suppress(CancelledError) swallows the exception, or takes it for the      *)
(* error of a task that ended meanwhile; in a later phase it gets out.       *)
CancelCall ==
  /\ await # None
  /\ await' = None /\ waits' = FALSE /\ failed' = FALSE
  /\ IF phase = "tasks"
     THEN Answered(await) /\ todo' = todo \ {await} /\ UNCHANGED phase
     ELSE phase' = "raised" /\ UNCHANGED todo
  /\ UNCHANGED <<st, tracked, rootVars, caller, seen>>

-----------------------------------------------------------------------------
(* check_and_shutdown() *)

(* Faulty variant: handles and timers are cancelled before the transports. *)
NextPhase_HandlesEarly ==
  [tasks |-> "signals", signals |-> "servers", servers |-> "handles",
   handles |-> "transports", transports |-> "readers", readers |-> "writers",
   writers |-> "returned"]

NextPhase == [tasks |-> "signals", signals |-> "servers", servers |-> "transports",
              transports |-> "readers", readers |-> "writers", writers |-> "handles",
              handles |-> "returned"]

Snapshot(p) == {r \in tracked : ClassOf[r] = p}

(* It is called in some task. *)
Begin ==
  /\ phase = "idle"
  /\ phase' = "tasks"
  /\ todo' = Snapshot("tasks")
  /\ caller' \in {r \in todo' : st[r] = "open"}
  /\ seen' = Snapshot("tasks") \ {caller', root}
  /\ UNCHANGED <<st, tracked, failed, rootVars, await, waits>>

(* The registry of the phase is cleared and the next one is copied. *)
EndPhase ==
  /\ phase \in Phase /\ todo = {} /\ await = None
  /\ phase' = NextPhase[phase]
  /\ tracked' = tracked \ Of(phase)
  /\ todo' = Snapshot(phase')
  /\ seen' = seen \cup todo'
  /\ UNCHANGED <<st, failed, rootVars, await, callVars>>

(* Faulty variant: without `if task is self._root_task'. *)
Dangling_AnyTask(r) ==
  IF ClassOf[r] = "tasks" THEN st[r] \in {"open", "closing"} ELSE st[r] = "open"

(* The root task, tasks that are done, servers that do not serve and       *)
(* transports that are closing need no closing by check_and_shutdown().    *)
Dangling(r) ==
  IF ClassOf[r] = "tasks" THEN r # root /\ st[r] \in {"open", "closing"} ELSE st[r] = "open"

Turn(r) == phase \in Phase /\ r \in todo /\ await = None

(* If the argument `kind' names the class and the filter makes an exception  *)
(* of the ResourceWarning, warn() raises, and the rest is not done.  Handles *)
(* and timers are never warned about, whatever the argument is.              *)
WarnRaises(r) ==
  /\ Turn(r) /\ Dangling(r)
  /\ ClassOf[r] # "handles"
  /\ phase' = "raised"
  /\ UNCHANGED <<st, tracked, failed, rootVars, todo, await, callVars, seen>>

Closes(r) == Turn(r) /\ Dangling(r)

(* Faulty variant: the task is awaited without being cancelled. *)
CancelTask_OnlyAwaited(r) ==
  /\ phase = "tasks" /\ Closes(r) /\ r # caller
  /\ await' = r
  /\ UNCHANGED <<st, tracked, failed, rootVars, phase, todo, callVars, seen>>

(* Faulty variant: the task awaited is not the one whose turn it is. *)
CancelTask_EntryDropped(r) ==
  /\ phase = "tasks" /\ Closes(r) /\ r # caller
  /\ st' = [st EXCEPT ![r] = "closing"]
  /\ await' = r
  /\ todo' = todo \ {r}
  /\ UNCHANGED <<tracked, failed, rootVars, phase, callVars, seen>>

CancelTask(r) ==
  /\ phase = "tasks" /\ Closes(r) /\ r # caller
  /\ st' = [st EXCEPT ![r] = "closing"]
  /\ await' = r
  /\ UNCHANGED <<tracked, failed, rootVars, phase, todo, callVars, seen>>

(* The task that runs this finds itself: its own CancelledError is suppressed *)
(* together with the error of the await, and it goes on.                      *)
CancelSelf(r) ==
  /\ phase = "tasks" /\ Closes(r) /\ r = caller
  /\ await' = r
  /\ UNCHANGED <<st, tracked, failed, rootVars, phase, todo, callVars, seen>>

(* Signal handlers, readers, writers, handles and timers: removed at once. *)
Remove(r) ==
  /\ phase \in {"signals", "readers", "writers", "handles"} /\ Closes(r)
  /\ st' = [st EXCEPT ![r] = "closed"]
  /\ todo' = todo \ {r}
  /\ tracked' = tracked \ Same(r)
  /\ UNCHANGED <<failed, rootVars, phase, await, callVars, seen>>

(* close() and the await of wait_closed(), which the parent answers at once *)
(* or, in some versions of Python, when the accepted connections are gone.  *)
HasClients(v, states) == \E r \in Of("accepted") : ServerOf[r] = v /\ st[r] \in states

CloseServer(r) ==
  /\ phase = "servers" /\ Closes(r)
  /\ st' = [st EXCEPT ![r] = "closed"]
  /\ await' = r /\ waits' \in BOOLEAN
  /\ UNCHANGED <<tracked, failed, rootVars, phase, todo, caller, seen>>

(* abort(), or the close() of a transport that has none, and the await of *)
(* the protocol's wait_closed.                                            *)
AbortTransport(r) ==
  /\ phase = "transports" /\ Closes(r)
  /\ \E s \in IF r \in Abortable THEN {"closing"} ELSE Shut(r) : st' = [st EXCEPT ![r] = s]
  /\ await' = r
  /\ UNCHANGED <<tracked, failed, rootVars, phase, todo, callVars, seen>>

(* A transport that is closing already is awaited, and not aborted. *)
AwaitTransport(r) ==
  /\ phase = "transports" /\ Turn(r) /\ st[r] \in {"closing", "draining"}
  /\ await' = r
  /\ UNCHANGED <<st, tracked, failed, rootVars, phase, todo, callVars, seen>>

Skip(r) ==
  /\ Turn(r) /\ ~Dangling(r)
  /\ ~(phase = "transports" /\ st[r] \in {"closing", "draining"})
  /\ todo' = todo \ {r}
  /\ UNCHANGED <<st, tracked, failed, rootVars, phase, await, callVars, seen>>

(* The await ends; the error of a task is raised out of the coroutine. *)
Resume(r) ==
  /\ await = r /\ Answered(r)
  /\ ~(waits /\ HasClients(r, {"open", "closing", "draining"}))
  /\ await' = None /\ waits' = FALSE /\ failed' = FALSE
  /\ IF failed
     THEN phase' = "raised" /\ UNCHANGED todo
     ELSE todo' = todo \ {r} /\ UNCHANGED phase
  /\ UNCHANGED <<st, tracked, rootVars, caller, seen>>

-----------------------------------------------------------------------------

Environment ==
  \E r \in Resource :
    \/ SpawnTask(r)
    \/ RunUntilComplete(r)
    \/ RunUntilDone(r)
    \/ MainEnds(r)
    \/ CreateServer(r)
    \/ Connect(r)
    \/ Accept(r)
    \/ AddHandler(r)
    \/ StartServing(r)
    \/ TaskEnds(r)
    \/ Release(r)
    \/ DropServer(r)
    \/ ConnectionLost(r)

Treat(r) ==
  \/ WarnRaises(r)
  \/ CancelTask(r)
  \/ CancelSelf(r)
  \/ Remove(r)
  \/ CloseServer(r)
  \/ AbortTransport(r)
  \/ AwaitTransport(r)
  \/ Skip(r)

Shutdown ==
  \/ EndPhase
  \/ \E r \in Resource : Treat(r) \/ Resume(r)

Next == Begin \/ Shutdown \/ CancelCall \/ Environment

Spec == Init /\ [][Next]_vars

(* The loop resumes the coroutine, a cancelled task comes to its end unless *)
(* it is one that may refuse, and the parent reports the loss of a closed   *)
(* connection that has no data left.  Each happens a bounded number of      *)
(* times, so that the others do not put it off for ever.  Nothing makes a   *)
(* stubborn task end, the peer read, or the program close anything.         *)
Progress ==
  \/ Shutdown
  \/ \E r \in Resource \ Stubborn : st[r] = "closing" /\ TaskEnds(r)
  \/ \E r \in Resource : st[r] = "closing" /\ ConnectionLost(r)

FairSpec == Spec /\ WF_vars(Progress)

-----------------------------------------------------------------------------
(* Properties *)

(* When check_and_shutdown() returns, what was in a snapshot is released,   *)
(* whichever kinds it was asked to warn about, although tasks, callbacks    *)
(* and protocols run, acquire and release at each await; the exceptions are *)
(* servers that did not serve when their turn came, the root task and the   *)
(* task that runs all this.  No reader and no writer is left at all, and of *)
(* the handles and timers made in the loop's thread only one that another   *)
(* was equal to: their phases come last and have no await.                  *)
ReleasedAtReturn ==
  phase = "returned" =>
    /\ \A r \in seen \ Idle : st[r] \in {"closed", "broken"}
    /\ \A r \in Resource : ClassOf[r] \in {"readers", "writers", "handles"} =>
         \/ st[r] \in {"absent", "closed"}
         \/ \E q \in Same(r) \ {r} : st[q] # "absent"

(* run_until_complete(check_and_shutdown()) does not take itself for a task  *)
(* somebody forgot, and so neither warns about itself nor cancels itself:    *)
(* unless an earlier run_until_complete() was stopped, and its main() clears *)
(* _root_task when the old task is cancelled, or it was made a task first.   *)
RootIsSpared == await # None /\ await = caller => caller \notin mains \/ rootless

(* README.rst: "A proxy loop should cleanup all acquired resources at the   *)
(* test finish".  It cannot release what no snapshot holds, such as a       *)
(* server whose proxy was dropped.                                          *)
EverythingReleased ==
  phase = "returned" =>
    \A r \in Resource \ {caller, root} : st[r] \in {"absent", "closed", "broken"}

(* What check_and_shutdown() waits for without a means to bring it about:   *)
(* a protocol whose connection_lost() raised, a transport that has data left*)
(* to send, a connection of a server that nobody closes or that drains, and *)
(* a task that does not end although it was cancelled.                      *)
Stuck == /\ await # None
         /\ \/ st[await] \in {"broken", "draining"}
            \/ waits /\ HasClients(await, {"open", "draining"})
            \/ await \in Stubborn /\ st[await] = "closing"

(* check_and_shutdown() ends, with or without an error, or it is stuck in  *)
(* one of the four ways above: Task.cancel() promises no end of a task, and*)
(* wait_closed is set by a connection_lost() that may never come.          *)
Terminates == phase \in Phase ~> Ended \/ Stuck
=============================================================================
