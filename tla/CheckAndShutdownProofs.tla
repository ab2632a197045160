------------------------ MODULE CheckAndShutdownProofs ------------------------
(* Proofs about CheckAndShutdown, for any resources and any classes of them. *)
EXTENDS CheckAndShutdown, TLAPS

-----------------------------------------------------------------------------
(* The inductive invariant, in parts *)

(* The phases that await something, and those that come last and do not. *)
Waiting == {"tasks", "servers", "transports"}
Last    == {"readers", "writers", "handles"}

(* What a registry or a snapshot holds was acquired, through the proxy. *)
HeldIsAcquired ==
  \A r \in tracked \cup todo \cup seen : st[r] # "absent" /\ ClassOf[r] # "accepted"

(* Only a server waits to serve, and only what ends later is on its way. *)
StatesFit ==
  \A r \in Resource :
    /\ st[r] = "idle" => r \in Idle
    /\ st[r] = "closing" => ClassOf[r] \in {"tasks", "transports", "accepted"}
    /\ st[r] = "draining" => ClassOf[r] \in {"transports", "accepted"}

(* check_and_shutdown() treats the snapshot of its phase, at first with two *)
(* tasks that are not its to close.                                         *)
SnapshotOfPhase ==
  /\ \A r \in todo : ClassOf[r] = phase \/ phase = "raised"
  /\ \A r \in todo \ seen : ClassOf[r] = "tasks" /\ r \in tracked
  /\ phase \in {"idle", "returned"} => todo = {}

(* It is suspended only in a phase that awaits. *)
AwaitsInPhase == await # None => phase \in Waiting

(* The root task and its own are never its to close. *)
OwnTasks ==
  /\ phase = "idle" => seen = {} /\ caller = None
  /\ root \notin seen /\ caller \notin seen

(* What it has treated is released. *)
TreatedIsReleased ==
  \A r \in seen \ (todo \cup Idle) : st[r] \in {"closed", "broken"}

(* A reader, writer, handle or timer is in its registry until it is gone,  *)
(* and no longer, unless it was never added or forgotten because of another *)
(* that is equal.                                                          *)
HandlersAreTracked ==
  \A r \in Resource : ClassOf[r] \in Last =>
    IF r \in tracked THEN st[r] = "open"
    ELSE st[r] \in {"absent", "closed"} \/ \E q \in Same(r) \ {r} : st[q] # "absent"

(* In the last phases nothing is added to the snapshot's registry, nor to *)
(* those before it.                                                       *)
LastPhases ==
  \A r \in tracked :
    /\ phase \in Last /\ ClassOf[r] = phase => r \in todo
    /\ phase \in {"writers", "handles", "returned"} => ClassOf[r] # "readers"
    /\ phase \in {"handles", "returned"} => ClassOf[r] # "writers"
    /\ phase = "returned" => ClassOf[r] # "handles"

(* run_until_complete() of coroutines, one at a time: the one main() is that *)
(* of the root task.                                                         *)
MainIsRoot == rootless \/ mains \subseteq {root}

Inv == /\ TypeOK
       /\ HeldIsAcquired
       /\ StatesFit
       /\ SnapshotOfPhase
       /\ AwaitsInPhase
       /\ OwnTasks
       /\ TreatedIsReleased
       /\ HandlersAreTracked
       /\ LastPhases
       /\ MainIsRoot
       /\ RootIsSpared
-----------------------------------------------------------------------------
(* One step per action *)

(* Every step keeps the types: above all, what a phase has left to treat was *)
(* in its snapshot, or is one of the two tasks that are not its to close.    *)
LEMMA TypeStep ==
  TypeOK /\ SnapshotOfPhase /\ AwaitsInPhase /\ [Next]_vars => TypeOK'
<1> SUFFICES ASSUME TypeOK, SnapshotOfPhase, AwaitsInPhase, [Next]_vars
             PROVE  TypeOK'
  OBVIOUS
<1> USE ResourceAssumption DEF Phase, Class, TypeOK, State, Of, SnapshotOfPhase, AwaitsInPhase, Waiting
<1>1. ASSUME Begin PROVE TypeOK'
  BY <1>1 DEF Begin, Snapshot, callVars, shutdownVars, rootVars
<1>2. ASSUME EndPhase PROVE TypeOK'
  BY <1>2 DEF EndPhase, Snapshot, NextPhase, Of, callVars, shutdownVars, rootVars
<1>3. ASSUME NEW r \in Resource, WarnRaises(r) PROVE TypeOK'
  BY <1>3 DEF WarnRaises, Turn, callVars, shutdownVars, rootVars
<1>4. ASSUME NEW r \in Resource, CancelTask(r) PROVE TypeOK'
  BY <1>4 DEF CancelTask, Closes, Turn, Dangling, callVars, shutdownVars, rootVars
<1>5. ASSUME NEW r \in Resource, CancelSelf(r) PROVE TypeOK'
  BY <1>5 DEF CancelSelf, Closes, Turn, Dangling, callVars, shutdownVars, rootVars
<1>6. ASSUME NEW r \in Resource, Remove(r) PROVE TypeOK'
  BY <1>6 DEF Remove, Same, Closes, Turn, Dangling, callVars, shutdownVars, rootVars
<1>7. ASSUME NEW r \in Resource, CloseServer(r) PROVE TypeOK'
  BY <1>7 DEF CloseServer, Closes, Turn, Dangling, callVars, shutdownVars, rootVars
<1>8. ASSUME NEW r \in Resource, AbortTransport(r) PROVE TypeOK'
  BY <1>8 DEF AbortTransport, Shut, Closes, Turn, Dangling, callVars, shutdownVars, rootVars
<1>9. ASSUME NEW r \in Resource, AwaitTransport(r) PROVE TypeOK'
  BY <1>9 DEF AwaitTransport, Turn, callVars, shutdownVars, rootVars
<1>10. ASSUME NEW r \in Resource, Skip(r) PROVE TypeOK'
  BY <1>10 DEF Skip, Turn, Dangling, callVars, shutdownVars, rootVars
<1>11. ASSUME NEW r \in Resource, Resume(r) PROVE TypeOK'
  <2>1. CASE failed
    BY <1>11, <2>1 DEF Resume, shutdownVars, rootVars
  <2>2. CASE ~failed
    BY <1>11, <2>2 DEF Resume, shutdownVars, rootVars
  <2> QED BY <2>1, <2>2
<1>12. ASSUME CancelCall PROVE TypeOK'
  BY <1>12 DEF CancelCall, Answered, callVars, shutdownVars, rootVars
<1>13. ASSUME NEW r \in Resource, SpawnTask(r) PROVE TypeOK'
  BY <1>13 DEF SpawnTask, Acquire, OthersRun, callVars, shutdownVars, rootVars
<1>14. ASSUME NEW r \in Resource, RunUntilComplete(r) PROVE TypeOK'
  BY <1>14 DEF RunUntilComplete, Acquire, OthersRun, callVars, shutdownVars, rootVars
<1>15. ASSUME NEW r \in Resource, RunUntilDone(r) PROVE TypeOK'
  BY <1>15 DEF RunUntilDone, callVars, shutdownVars, rootVars
<1>16. ASSUME NEW r \in Resource, MainEnds(r) PROVE TypeOK'
  BY <1>16 DEF MainEnds, OthersRun, callVars, shutdownVars, rootVars
<1>17. ASSUME NEW r \in Resource, CreateServer(r) PROVE TypeOK'
  BY <1>17 DEF CreateServer, Acquire, OthersRun, callVars, shutdownVars, rootVars
<1>18. ASSUME NEW r \in Resource, Connect(r) PROVE TypeOK'
  BY <1>18 DEF Connect, Acquire, OthersRun, callVars, shutdownVars, rootVars
<1>19. ASSUME NEW r \in Resource, Accept(r) PROVE TypeOK'
  BY <1>19 DEF Accept, Acquire, OthersRun, callVars, shutdownVars, rootVars
<1>20. ASSUME NEW r \in Resource, AddHandler(r) PROVE TypeOK'
  BY <1>20 DEF AddHandler, Same, Acquire, OthersRun, callVars, shutdownVars, rootVars
<1>21. ASSUME NEW r \in Resource, StartServing(r) PROVE TypeOK'
  BY <1>21 DEF StartServing, OthersRun, callVars, shutdownVars, rootVars
<1>22. ASSUME NEW r \in Resource, TaskEnds(r) PROVE TypeOK'
  BY <1>22 DEF TaskEnds, OthersRun, callVars, shutdownVars, rootVars
<1>23. ASSUME NEW r \in Resource, Release(r) PROVE TypeOK'
  BY <1>23 DEF Release, Same, Shut, OthersRun, callVars, shutdownVars, rootVars
<1>24. ASSUME NEW r \in Resource, DropServer(r) PROVE TypeOK'
  BY <1>24 DEF DropServer, OthersRun, callVars, shutdownVars, rootVars
<1>25. ASSUME NEW r \in Resource, ConnectionLost(r) PROVE TypeOK'
  BY <1>25 DEF ConnectionLost, OthersRun, callVars, shutdownVars, rootVars
<1>26. CASE UNCHANGED vars
  BY <1>26 DEF vars, callVars, shutdownVars, rootVars
<1> QED
  BY <1>1, <1>2, <1>3, <1>4, <1>5, <1>6, <1>7, <1>8, <1>9, <1>10, <1>11, <1>12, <1>13, <1>14,
       <1>15, <1>16, <1>17, <1>18, <1>19, <1>20, <1>21, <1>22, <1>23, <1>24, <1>25, <1>26
  DEF Next, Shutdown, Treat, Environment

(* Only what is acquired is registered, and connections that a server accepted *)
(* never are.                                                                  *)
LEMMA HeldStep ==
  TypeOK /\ HeldIsAcquired /\ [Next]_vars => HeldIsAcquired'
<1> SUFFICES ASSUME TypeOK, HeldIsAcquired, [Next]_vars
             PROVE  HeldIsAcquired'
  OBVIOUS
<1> USE ResourceAssumption DEF Phase, Class, TypeOK, HeldIsAcquired
<1>1. ASSUME Begin PROVE HeldIsAcquired'
  BY <1>1 DEF Begin, Snapshot, callVars, shutdownVars, rootVars
<1>2. ASSUME EndPhase PROVE HeldIsAcquired'
  BY <1>2 DEF EndPhase, Snapshot, NextPhase, Of, callVars, shutdownVars, rootVars
<1>3. ASSUME NEW r \in Resource, WarnRaises(r) PROVE HeldIsAcquired'
  BY <1>3 DEF WarnRaises, Turn, callVars, shutdownVars, rootVars
<1>4. ASSUME NEW r \in Resource, CancelTask(r) PROVE HeldIsAcquired'
  BY <1>4 DEF CancelTask, Closes, Turn, Dangling, callVars, shutdownVars, rootVars
<1>5. ASSUME NEW r \in Resource, CancelSelf(r) PROVE HeldIsAcquired'
  BY <1>5 DEF CancelSelf, Closes, Turn, Dangling, callVars, shutdownVars, rootVars
<1>6. ASSUME NEW r \in Resource, Remove(r) PROVE HeldIsAcquired'
  BY <1>6 DEF Remove, Same, Closes, Turn, Dangling, callVars, shutdownVars, rootVars
<1>7. ASSUME NEW r \in Resource, CloseServer(r) PROVE HeldIsAcquired'
  BY <1>7 DEF CloseServer, Closes, Turn, Dangling, callVars, shutdownVars, rootVars
<1>8. ASSUME NEW r \in Resource, AbortTransport(r) PROVE HeldIsAcquired'
  BY <1>8 DEF AbortTransport, Shut, Closes, Turn, Dangling, callVars, shutdownVars, rootVars
<1>9. ASSUME NEW r \in Resource, AwaitTransport(r) PROVE HeldIsAcquired'
  BY <1>9 DEF AwaitTransport, Turn, callVars, shutdownVars, rootVars
<1>10. ASSUME NEW r \in Resource, Skip(r) PROVE HeldIsAcquired'
  BY <1>10 DEF Skip, Turn, Dangling, callVars, shutdownVars, rootVars
<1>11. ASSUME NEW r \in Resource, Resume(r) PROVE HeldIsAcquired'
  BY <1>11 DEF Resume, Answered, callVars, shutdownVars, rootVars
<1>12. ASSUME CancelCall PROVE HeldIsAcquired'
  BY <1>12 DEF CancelCall, Answered, callVars, shutdownVars, rootVars
<1>13. ASSUME NEW r \in Resource, SpawnTask(r) PROVE HeldIsAcquired'
  BY <1>13 DEF SpawnTask, Acquire, OthersRun, callVars, shutdownVars, rootVars
<1>14. ASSUME NEW r \in Resource, RunUntilComplete(r) PROVE HeldIsAcquired'
  BY <1>14 DEF RunUntilComplete, Acquire, OthersRun, callVars, shutdownVars, rootVars
<1>15. ASSUME NEW r \in Resource, RunUntilDone(r) PROVE HeldIsAcquired'
  BY <1>15 DEF RunUntilDone, callVars, shutdownVars, rootVars
<1>16. ASSUME NEW r \in Resource, MainEnds(r) PROVE HeldIsAcquired'
  BY <1>16 DEF MainEnds, OthersRun, callVars, shutdownVars, rootVars
<1>17. ASSUME NEW r \in Resource, CreateServer(r) PROVE HeldIsAcquired'
  BY <1>17 DEF CreateServer, Acquire, OthersRun, callVars, shutdownVars, rootVars
<1>18. ASSUME NEW r \in Resource, Connect(r) PROVE HeldIsAcquired'
  BY <1>18 DEF Connect, Acquire, OthersRun, callVars, shutdownVars, rootVars
<1>19. ASSUME NEW r \in Resource, Accept(r) PROVE HeldIsAcquired'
  BY <1>19 DEF Accept, Acquire, OthersRun, callVars, shutdownVars, rootVars
<1>20. ASSUME NEW r \in Resource, AddHandler(r) PROVE HeldIsAcquired'
  BY <1>20 DEF AddHandler, Same, Acquire, OthersRun, callVars, shutdownVars, rootVars
<1>21. ASSUME NEW r \in Resource, StartServing(r) PROVE HeldIsAcquired'
  BY <1>21 DEF StartServing, OthersRun, callVars, shutdownVars, rootVars
<1>22. ASSUME NEW r \in Resource, TaskEnds(r) PROVE HeldIsAcquired'
  BY <1>22 DEF TaskEnds, OthersRun, callVars, shutdownVars, rootVars
<1>23. ASSUME NEW r \in Resource, Release(r) PROVE HeldIsAcquired'
  BY <1>23 DEF Release, Same, Shut, OthersRun, callVars, shutdownVars, rootVars
<1>24. ASSUME NEW r \in Resource, DropServer(r) PROVE HeldIsAcquired'
  BY <1>24 DEF DropServer, OthersRun, callVars, shutdownVars, rootVars
<1>25. ASSUME NEW r \in Resource, ConnectionLost(r) PROVE HeldIsAcquired'
  BY <1>25 DEF ConnectionLost, OthersRun, callVars, shutdownVars, rootVars
<1>26. CASE UNCHANGED vars
  BY <1>26 DEF vars, callVars, shutdownVars, rootVars
<1> QED
  BY <1>1, <1>2, <1>3, <1>4, <1>5, <1>6, <1>7, <1>8, <1>9, <1>10, <1>11, <1>12, <1>13, <1>14,
       <1>15, <1>16, <1>17, <1>18, <1>19, <1>20, <1>21, <1>22, <1>23, <1>24, <1>25, <1>26
  DEF Next, Shutdown, Treat, Environment

(* A resource reaches only the states its class has. *)
LEMMA FitStep ==
  TypeOK /\ SnapshotOfPhase /\ StatesFit /\ [Next]_vars => StatesFit'
<1> SUFFICES ASSUME TypeOK, SnapshotOfPhase, StatesFit, [Next]_vars
             PROVE  StatesFit'
  OBVIOUS
<1> USE ResourceAssumption DEF Phase, Class, TypeOK, SnapshotOfPhase, StatesFit
<1>1. ASSUME Begin PROVE StatesFit'
  BY <1>1 DEF Begin, Snapshot, callVars, shutdownVars, rootVars
<1>2. ASSUME EndPhase PROVE StatesFit'
  BY <1>2 DEF EndPhase, Snapshot, NextPhase, Of, callVars, shutdownVars, rootVars
<1>3. ASSUME NEW r \in Resource, WarnRaises(r) PROVE StatesFit'
  BY <1>3 DEF WarnRaises, Turn, callVars, shutdownVars, rootVars
<1>4. ASSUME NEW r \in Resource, CancelTask(r) PROVE StatesFit'
  BY <1>4 DEF CancelTask, Closes, Turn, Dangling, callVars, shutdownVars, rootVars
<1>5. ASSUME NEW r \in Resource, CancelSelf(r) PROVE StatesFit'
  BY <1>5 DEF CancelSelf, Closes, Turn, Dangling, callVars, shutdownVars, rootVars
<1>6. ASSUME NEW r \in Resource, Remove(r) PROVE StatesFit'
  BY <1>6 DEF Remove, Same, Closes, Turn, Dangling, callVars, shutdownVars, rootVars
<1>7. ASSUME NEW r \in Resource, CloseServer(r) PROVE StatesFit'
  BY <1>7 DEF CloseServer, Closes, Turn, Dangling, callVars, shutdownVars, rootVars
<1>8. ASSUME NEW r \in Resource, AbortTransport(r) PROVE StatesFit'
  BY <1>8 DEF AbortTransport, Shut, Closes, Turn, Dangling, callVars, shutdownVars, rootVars
<1>9. ASSUME NEW r \in Resource, AwaitTransport(r) PROVE StatesFit'
  BY <1>9 DEF AwaitTransport, Turn, callVars, shutdownVars, rootVars
<1>10. ASSUME NEW r \in Resource, Skip(r) PROVE StatesFit'
  BY <1>10 DEF Skip, Turn, Dangling, callVars, shutdownVars, rootVars
<1>11. ASSUME NEW r \in Resource, Resume(r) PROVE StatesFit'
  BY <1>11 DEF Resume, Answered, callVars, shutdownVars, rootVars
<1>12. ASSUME CancelCall PROVE StatesFit'
  BY <1>12 DEF CancelCall, Answered, callVars, shutdownVars, rootVars
<1>13. ASSUME NEW r \in Resource, SpawnTask(r) PROVE StatesFit'
  BY <1>13 DEF SpawnTask, Acquire, OthersRun, callVars, shutdownVars, rootVars
<1>14. ASSUME NEW r \in Resource, RunUntilComplete(r) PROVE StatesFit'
  BY <1>14 DEF RunUntilComplete, Acquire, OthersRun, callVars, shutdownVars, rootVars
<1>15. ASSUME NEW r \in Resource, RunUntilDone(r) PROVE StatesFit'
  BY <1>15 DEF RunUntilDone, callVars, shutdownVars, rootVars
<1>16. ASSUME NEW r \in Resource, MainEnds(r) PROVE StatesFit'
  BY <1>16 DEF MainEnds, OthersRun, callVars, shutdownVars, rootVars
<1>17. ASSUME NEW r \in Resource, CreateServer(r) PROVE StatesFit'
  BY <1>17 DEF CreateServer, Acquire, OthersRun, callVars, shutdownVars, rootVars
<1>18. ASSUME NEW r \in Resource, Connect(r) PROVE StatesFit'
  BY <1>18 DEF Connect, Acquire, OthersRun, callVars, shutdownVars, rootVars
<1>19. ASSUME NEW r \in Resource, Accept(r) PROVE StatesFit'
  BY <1>19 DEF Accept, Acquire, OthersRun, callVars, shutdownVars, rootVars
<1>20. ASSUME NEW r \in Resource, AddHandler(r) PROVE StatesFit'
  BY <1>20 DEF AddHandler, Same, Acquire, OthersRun, callVars, shutdownVars, rootVars
<1>21. ASSUME NEW r \in Resource, StartServing(r) PROVE StatesFit'
  BY <1>21 DEF StartServing, OthersRun, callVars, shutdownVars, rootVars
<1>22. ASSUME NEW r \in Resource, TaskEnds(r) PROVE StatesFit'
  BY <1>22 DEF TaskEnds, OthersRun, callVars, shutdownVars, rootVars
<1>23. ASSUME NEW r \in Resource, Release(r) PROVE StatesFit'
  BY <1>23 DEF Release, Same, Shut, OthersRun, callVars, shutdownVars, rootVars
<1>24. ASSUME NEW r \in Resource, DropServer(r) PROVE StatesFit'
  BY <1>24 DEF DropServer, OthersRun, callVars, shutdownVars, rootVars
<1>25. ASSUME NEW r \in Resource, ConnectionLost(r) PROVE StatesFit'
  BY <1>25 DEF ConnectionLost, OthersRun, callVars, shutdownVars, rootVars
<1>26. CASE UNCHANGED vars
  BY <1>26 DEF vars, callVars, shutdownVars, rootVars
<1> QED
  BY <1>1, <1>2, <1>3, <1>4, <1>5, <1>6, <1>7, <1>8, <1>9, <1>10, <1>11, <1>12, <1>13, <1>14,
       <1>15, <1>16, <1>17, <1>18, <1>19, <1>20, <1>21, <1>22, <1>23, <1>24, <1>25, <1>26
  DEF Next, Shutdown, Treat, Environment

(* A phase begins with its own class and ends when nothing is left of it. *)
LEMMA SnapshotStep ==
  TypeOK /\ SnapshotOfPhase /\ AwaitsInPhase /\ [Next]_vars => SnapshotOfPhase'
<1> SUFFICES ASSUME TypeOK, SnapshotOfPhase, AwaitsInPhase, [Next]_vars
             PROVE  SnapshotOfPhase'
  OBVIOUS
<1> USE ResourceAssumption DEF Phase, Class, TypeOK, SnapshotOfPhase, AwaitsInPhase, Waiting
<1>1. ASSUME Begin PROVE SnapshotOfPhase'
  BY <1>1 DEF Begin, Snapshot, callVars, shutdownVars, rootVars
<1>2. ASSUME EndPhase PROVE SnapshotOfPhase'
  BY <1>2 DEF EndPhase, Snapshot, NextPhase, Of, callVars, shutdownVars, rootVars
<1>3. ASSUME NEW r \in Resource, WarnRaises(r) PROVE SnapshotOfPhase'
  BY <1>3 DEF WarnRaises, Turn, callVars, shutdownVars, rootVars
<1>4. ASSUME NEW r \in Resource, CancelTask(r) PROVE SnapshotOfPhase'
  BY <1>4 DEF CancelTask, Closes, Turn, Dangling, callVars, shutdownVars, rootVars
<1>5. ASSUME NEW r \in Resource, CancelSelf(r) PROVE SnapshotOfPhase'
  BY <1>5 DEF CancelSelf, Closes, Turn, Dangling, callVars, shutdownVars, rootVars
<1>6. ASSUME NEW r \in Resource, Remove(r) PROVE SnapshotOfPhase'
  BY <1>6 DEF Remove, Same, Closes, Turn, Dangling, callVars, shutdownVars, rootVars
<1>7. ASSUME NEW r \in Resource, CloseServer(r) PROVE SnapshotOfPhase'
  BY <1>7 DEF CloseServer, Closes, Turn, Dangling, callVars, shutdownVars, rootVars
<1>8. ASSUME NEW r \in Resource, AbortTransport(r) PROVE SnapshotOfPhase'
  BY <1>8 DEF AbortTransport, Shut, Closes, Turn, Dangling, callVars, shutdownVars, rootVars
<1>9. ASSUME NEW r \in Resource, AwaitTransport(r) PROVE SnapshotOfPhase'
  BY <1>9 DEF AwaitTransport, Turn, callVars, shutdownVars, rootVars
<1>10. ASSUME NEW r \in Resource, Skip(r) PROVE SnapshotOfPhase'
  BY <1>10 DEF Skip, Turn, Dangling, callVars, shutdownVars, rootVars
<1>11. ASSUME NEW r \in Resource, Resume(r) PROVE SnapshotOfPhase'
  BY <1>11 DEF Resume, Answered, callVars, shutdownVars, rootVars
<1>12. ASSUME CancelCall PROVE SnapshotOfPhase'
  BY <1>12 DEF CancelCall, Answered, callVars, shutdownVars, rootVars
<1>13. ASSUME NEW r \in Resource, SpawnTask(r) PROVE SnapshotOfPhase'
  BY <1>13 DEF SpawnTask, Acquire, OthersRun, callVars, shutdownVars, rootVars
<1>14. ASSUME NEW r \in Resource, RunUntilComplete(r) PROVE SnapshotOfPhase'
  BY <1>14 DEF RunUntilComplete, Acquire, OthersRun, callVars, shutdownVars, rootVars
<1>15. ASSUME NEW r \in Resource, RunUntilDone(r) PROVE SnapshotOfPhase'
  BY <1>15 DEF RunUntilDone, callVars, shutdownVars, rootVars
<1>16. ASSUME NEW r \in Resource, MainEnds(r) PROVE SnapshotOfPhase'
  BY <1>16 DEF MainEnds, OthersRun, callVars, shutdownVars, rootVars
<1>17. ASSUME NEW r \in Resource, CreateServer(r) PROVE SnapshotOfPhase'
  BY <1>17 DEF CreateServer, Acquire, OthersRun, callVars, shutdownVars, rootVars
<1>18. ASSUME NEW r \in Resource, Connect(r) PROVE SnapshotOfPhase'
  BY <1>18 DEF Connect, Acquire, OthersRun, callVars, shutdownVars, rootVars
<1>19. ASSUME NEW r \in Resource, Accept(r) PROVE SnapshotOfPhase'
  BY <1>19 DEF Accept, Acquire, OthersRun, callVars, shutdownVars, rootVars
<1>20. ASSUME NEW r \in Resource, AddHandler(r) PROVE SnapshotOfPhase'
  BY <1>20 DEF AddHandler, Same, Acquire, OthersRun, callVars, shutdownVars, rootVars
<1>21. ASSUME NEW r \in Resource, StartServing(r) PROVE SnapshotOfPhase'
  BY <1>21 DEF StartServing, OthersRun, callVars, shutdownVars, rootVars
<1>22. ASSUME NEW r \in Resource, TaskEnds(r) PROVE SnapshotOfPhase'
  BY <1>22 DEF TaskEnds, OthersRun, callVars, shutdownVars, rootVars
<1>23. ASSUME NEW r \in Resource, Release(r) PROVE SnapshotOfPhase'
  <2>1. ASSUME NEW q \in Same(r) PROVE ClassOf[q] # "tasks"
    <3>1. ClassOf[r] # "tasks"
      BY <1>23 DEF Release
    <3>2. CASE ClassOf[r] = "handles"
      BY <2>1, <3>2, Zenon DEF Same, Of
    <3>3. CASE ClassOf[r] # "handles"
      BY <2>1, <3>1, <3>3 DEF Same
    <3> QED BY <3>2, <3>3
  <2>2. UNCHANGED <<phase, todo, seen>>
    BY <1>23 DEF Release, shutdownVars
  <2>3. tracked \ Same(r) \subseteq tracked'
    BY <1>23 DEF Release
  <2> QED BY <2>1, <2>2, <2>3
<1>24. ASSUME NEW r \in Resource, DropServer(r) PROVE SnapshotOfPhase'
  BY <1>24 DEF DropServer, OthersRun, callVars, shutdownVars, rootVars
<1>25. ASSUME NEW r \in Resource, ConnectionLost(r) PROVE SnapshotOfPhase'
  BY <1>25 DEF ConnectionLost, OthersRun, callVars, shutdownVars, rootVars
<1>26. CASE UNCHANGED vars
  BY <1>26 DEF vars, callVars, shutdownVars, rootVars
<1> QED
  BY <1>1, <1>2, <1>3, <1>4, <1>5, <1>6, <1>7, <1>8, <1>9, <1>10, <1>11, <1>12, <1>13, <1>14,
       <1>15, <1>16, <1>17, <1>18, <1>19, <1>20, <1>21, <1>22, <1>23, <1>24, <1>25, <1>26
  DEF Next, Shutdown, Treat, Environment

(* The phases of the handlers have no await. *)
LEMMA AwaitStep ==
  TypeOK /\ AwaitsInPhase /\ [Next]_vars => AwaitsInPhase'
<1> SUFFICES ASSUME TypeOK, AwaitsInPhase, [Next]_vars
             PROVE  AwaitsInPhase'
  OBVIOUS
<1> USE ResourceAssumption DEF Phase, Class, TypeOK, AwaitsInPhase, Waiting
<1>1. ASSUME Begin PROVE AwaitsInPhase'
  BY <1>1 DEF Begin, Snapshot, callVars, shutdownVars, rootVars
<1>2. ASSUME EndPhase PROVE AwaitsInPhase'
  BY <1>2 DEF EndPhase, Snapshot, NextPhase, Of, callVars, shutdownVars, rootVars
<1>3. ASSUME NEW r \in Resource, WarnRaises(r) PROVE AwaitsInPhase'
  BY <1>3 DEF WarnRaises, Turn, callVars, shutdownVars, rootVars
<1>4. ASSUME NEW r \in Resource, CancelTask(r) PROVE AwaitsInPhase'
  BY <1>4 DEF CancelTask, Closes, Turn, Dangling, callVars, shutdownVars, rootVars
<1>5. ASSUME NEW r \in Resource, CancelSelf(r) PROVE AwaitsInPhase'
  BY <1>5 DEF CancelSelf, Closes, Turn, Dangling, callVars, shutdownVars, rootVars
<1>6. ASSUME NEW r \in Resource, Remove(r) PROVE AwaitsInPhase'
  BY <1>6 DEF Remove, Same, Closes, Turn, Dangling, callVars, shutdownVars, rootVars
<1>7. ASSUME NEW r \in Resource, CloseServer(r) PROVE AwaitsInPhase'
  BY <1>7 DEF CloseServer, Closes, Turn, Dangling, callVars, shutdownVars, rootVars
<1>8. ASSUME NEW r \in Resource, AbortTransport(r) PROVE AwaitsInPhase'
  BY <1>8 DEF AbortTransport, Shut, Closes, Turn, Dangling, callVars, shutdownVars, rootVars
<1>9. ASSUME NEW r \in Resource, AwaitTransport(r) PROVE AwaitsInPhase'
  BY <1>9 DEF AwaitTransport, Turn, callVars, shutdownVars, rootVars
<1>10. ASSUME NEW r \in Resource, Skip(r) PROVE AwaitsInPhase'
  BY <1>10 DEF Skip, Turn, Dangling, callVars, shutdownVars, rootVars
<1>11. ASSUME NEW r \in Resource, Resume(r) PROVE AwaitsInPhase'
  BY <1>11 DEF Resume, Answered, callVars, shutdownVars, rootVars
<1>12. ASSUME CancelCall PROVE AwaitsInPhase'
  BY <1>12 DEF CancelCall, Answered, callVars, shutdownVars, rootVars
<1>13. ASSUME NEW r \in Resource, SpawnTask(r) PROVE AwaitsInPhase'
  BY <1>13 DEF SpawnTask, Acquire, OthersRun, callVars, shutdownVars, rootVars
<1>14. ASSUME NEW r \in Resource, RunUntilComplete(r) PROVE AwaitsInPhase'
  BY <1>14 DEF RunUntilComplete, Acquire, OthersRun, callVars, shutdownVars, rootVars
<1>15. ASSUME NEW r \in Resource, RunUntilDone(r) PROVE AwaitsInPhase'
  BY <1>15 DEF RunUntilDone, callVars, shutdownVars, rootVars
<1>16. ASSUME NEW r \in Resource, MainEnds(r) PROVE AwaitsInPhase'
  BY <1>16 DEF MainEnds, OthersRun, callVars, shutdownVars, rootVars
<1>17. ASSUME NEW r \in Resource, CreateServer(r) PROVE AwaitsInPhase'
  BY <1>17 DEF CreateServer, Acquire, OthersRun, callVars, shutdownVars, rootVars
<1>18. ASSUME NEW r \in Resource, Connect(r) PROVE AwaitsInPhase'
  BY <1>18 DEF Connect, Acquire, OthersRun, callVars, shutdownVars, rootVars
<1>19. ASSUME NEW r \in Resource, Accept(r) PROVE AwaitsInPhase'
  BY <1>19 DEF Accept, Acquire, OthersRun, callVars, shutdownVars, rootVars
<1>20. ASSUME NEW r \in Resource, AddHandler(r) PROVE AwaitsInPhase'
  BY <1>20 DEF AddHandler, Same, Acquire, OthersRun, callVars, shutdownVars, rootVars
<1>21. ASSUME NEW r \in Resource, StartServing(r) PROVE AwaitsInPhase'
  BY <1>21 DEF StartServing, OthersRun, callVars, shutdownVars, rootVars
<1>22. ASSUME NEW r \in Resource, TaskEnds(r) PROVE AwaitsInPhase'
  BY <1>22 DEF TaskEnds, OthersRun, callVars, shutdownVars, rootVars
<1>23. ASSUME NEW r \in Resource, Release(r) PROVE AwaitsInPhase'
  BY <1>23 DEF Release, Same, Shut, OthersRun, callVars, shutdownVars, rootVars
<1>24. ASSUME NEW r \in Resource, DropServer(r) PROVE AwaitsInPhase'
  BY <1>24 DEF DropServer, OthersRun, callVars, shutdownVars, rootVars
<1>25. ASSUME NEW r \in Resource, ConnectionLost(r) PROVE AwaitsInPhase'
  BY <1>25 DEF ConnectionLost, OthersRun, callVars, shutdownVars, rootVars
<1>26. CASE UNCHANGED vars
  BY <1>26 DEF vars, callVars, shutdownVars, rootVars
<1> QED
  BY <1>1, <1>2, <1>3, <1>4, <1>5, <1>6, <1>7, <1>8, <1>9, <1>10, <1>11, <1>12, <1>13, <1>14,
       <1>15, <1>16, <1>17, <1>18, <1>19, <1>20, <1>21, <1>22, <1>23, <1>24, <1>25, <1>26
  DEF Next, Shutdown, Treat, Environment

(* The root task is chosen before check_and_shutdown() begins: main() may clear *)
(* _root_task meanwhile but sets no other, so that no snapshot gets to hold it. *)
LEMMA OwnStep ==
  TypeOK /\ SnapshotOfPhase /\ AwaitsInPhase /\ OwnTasks /\ [Next]_vars => OwnTasks'
<1> SUFFICES ASSUME TypeOK, SnapshotOfPhase, AwaitsInPhase, OwnTasks, [Next]_vars
             PROVE  OwnTasks'
  OBVIOUS
<1> USE ResourceAssumption DEF Phase, Class, TypeOK, OwnTasks, SnapshotOfPhase, AwaitsInPhase, Waiting, Of
<1>1. ASSUME Begin PROVE OwnTasks'
  BY <1>1 DEF Begin, Snapshot, callVars, shutdownVars, rootVars
<1>2. ASSUME EndPhase PROVE OwnTasks'
  BY <1>2 DEF EndPhase, Snapshot, NextPhase, Of, callVars, shutdownVars, rootVars
<1>3. ASSUME NEW r \in Resource, WarnRaises(r) PROVE OwnTasks'
  BY <1>3 DEF WarnRaises, Turn, callVars, shutdownVars, rootVars
<1>4. ASSUME NEW r \in Resource, CancelTask(r) PROVE OwnTasks'
  BY <1>4 DEF CancelTask, Closes, Turn, Dangling, callVars, shutdownVars, rootVars
<1>5. ASSUME NEW r \in Resource, CancelSelf(r) PROVE OwnTasks'
  BY <1>5 DEF CancelSelf, Closes, Turn, Dangling, callVars, shutdownVars, rootVars
<1>6. ASSUME NEW r \in Resource, Remove(r) PROVE OwnTasks'
  BY <1>6 DEF Remove, Same, Closes, Turn, Dangling, callVars, shutdownVars, rootVars
<1>7. ASSUME NEW r \in Resource, CloseServer(r) PROVE OwnTasks'
  BY <1>7 DEF CloseServer, Closes, Turn, Dangling, callVars, shutdownVars, rootVars
<1>8. ASSUME NEW r \in Resource, AbortTransport(r) PROVE OwnTasks'
  BY <1>8 DEF AbortTransport, Shut, Closes, Turn, Dangling, callVars, shutdownVars, rootVars
<1>9. ASSUME NEW r \in Resource, AwaitTransport(r) PROVE OwnTasks'
  BY <1>9 DEF AwaitTransport, Turn, callVars, shutdownVars, rootVars
<1>10. ASSUME NEW r \in Resource, Skip(r) PROVE OwnTasks'
  BY <1>10 DEF Skip, Turn, Dangling, callVars, shutdownVars, rootVars
<1>11. ASSUME NEW r \in Resource, Resume(r) PROVE OwnTasks'
  BY <1>11 DEF Resume, Answered, callVars, shutdownVars, rootVars
<1>12. ASSUME CancelCall PROVE OwnTasks'
  BY <1>12 DEF CancelCall, Answered, callVars, shutdownVars, rootVars
<1>13. ASSUME NEW r \in Resource, SpawnTask(r) PROVE OwnTasks'
  BY <1>13 DEF SpawnTask, Acquire, OthersRun, callVars, shutdownVars, rootVars
<1>14. ASSUME NEW r \in Resource, RunUntilComplete(r) PROVE OwnTasks'
  BY <1>14 DEF RunUntilComplete, Acquire, OthersRun, callVars, shutdownVars, rootVars
<1>15. ASSUME NEW r \in Resource, RunUntilDone(r) PROVE OwnTasks'
  BY <1>15 DEF RunUntilDone, callVars, shutdownVars, rootVars
<1>16. ASSUME NEW r \in Resource, MainEnds(r) PROVE OwnTasks'
  BY <1>16 DEF MainEnds, OthersRun, callVars, shutdownVars, rootVars
<1>17. ASSUME NEW r \in Resource, CreateServer(r) PROVE OwnTasks'
  BY <1>17 DEF CreateServer, Acquire, OthersRun, callVars, shutdownVars, rootVars
<1>18. ASSUME NEW r \in Resource, Connect(r) PROVE OwnTasks'
  BY <1>18 DEF Connect, Acquire, OthersRun, callVars, shutdownVars, rootVars
<1>19. ASSUME NEW r \in Resource, Accept(r) PROVE OwnTasks'
  BY <1>19 DEF Accept, Acquire, OthersRun, callVars, shutdownVars, rootVars
<1>20. ASSUME NEW r \in Resource, AddHandler(r) PROVE OwnTasks'
  BY <1>20 DEF AddHandler, Same, Acquire, OthersRun, callVars, shutdownVars, rootVars
<1>21. ASSUME NEW r \in Resource, StartServing(r) PROVE OwnTasks'
  BY <1>21 DEF StartServing, OthersRun, callVars, shutdownVars, rootVars
<1>22. ASSUME NEW r \in Resource, TaskEnds(r) PROVE OwnTasks'
  BY <1>22 DEF TaskEnds, OthersRun, callVars, shutdownVars, rootVars
<1>23. ASSUME NEW r \in Resource, Release(r) PROVE OwnTasks'
  BY <1>23 DEF Release, Same, Shut, OthersRun, callVars, shutdownVars, rootVars
<1>24. ASSUME NEW r \in Resource, DropServer(r) PROVE OwnTasks'
  BY <1>24 DEF DropServer, OthersRun, callVars, shutdownVars, rootVars
<1>25. ASSUME NEW r \in Resource, ConnectionLost(r) PROVE OwnTasks'
  BY <1>25 DEF ConnectionLost, OthersRun, callVars, shutdownVars, rootVars
<1>26. CASE UNCHANGED vars
  BY <1>26 DEF vars, callVars, shutdownVars, rootVars
<1> QED
  BY <1>1, <1>2, <1>3, <1>4, <1>5, <1>6, <1>7, <1>8, <1>9, <1>10, <1>11, <1>12, <1>13, <1>14,
       <1>15, <1>16, <1>17, <1>18, <1>19, <1>20, <1>21, <1>22, <1>23, <1>24, <1>25, <1>26
  DEF Next, Shutdown, Treat, Environment

(* A member leaves the snapshot only when it is released, or is a server that *)
(* did not serve; nothing that is released is acquired again.                 *)
LEMMA TreatedStep ==
  TypeOK /\ HeldIsAcquired /\ StatesFit /\ SnapshotOfPhase /\ OwnTasks /\ TreatedIsReleased /\ [Next]_vars => TreatedIsReleased'
<1> SUFFICES ASSUME TypeOK, HeldIsAcquired, StatesFit, SnapshotOfPhase, OwnTasks, TreatedIsReleased, [Next]_vars
             PROVE  TreatedIsReleased'
  OBVIOUS
<1> USE ResourceAssumption DEF Phase, Class, TypeOK, State, HeldIsAcquired, StatesFit, SnapshotOfPhase, OwnTasks, TreatedIsReleased
<1>1. ASSUME Begin PROVE TreatedIsReleased'
  BY <1>1 DEF Begin, Snapshot, callVars, shutdownVars, rootVars
<1>2. ASSUME EndPhase PROVE TreatedIsReleased'
  BY <1>2 DEF EndPhase, Snapshot, NextPhase, Of, callVars, shutdownVars, rootVars
<1>3. ASSUME NEW r \in Resource, WarnRaises(r) PROVE TreatedIsReleased'
  BY <1>3 DEF WarnRaises, Turn, callVars, shutdownVars, rootVars
<1>4. ASSUME NEW r \in Resource, CancelTask(r) PROVE TreatedIsReleased'
  BY <1>4 DEF CancelTask, Closes, Turn, Dangling, callVars, shutdownVars, rootVars
<1>5. ASSUME NEW r \in Resource, CancelSelf(r) PROVE TreatedIsReleased'
  BY <1>5 DEF CancelSelf, Closes, Turn, Dangling, callVars, shutdownVars, rootVars
<1>6. ASSUME NEW r \in Resource, Remove(r) PROVE TreatedIsReleased'
  BY <1>6 DEF Remove, Same, Closes, Turn, Dangling, callVars, shutdownVars, rootVars
<1>7. ASSUME NEW r \in Resource, CloseServer(r) PROVE TreatedIsReleased'
  BY <1>7 DEF CloseServer, Closes, Turn, Dangling, callVars, shutdownVars, rootVars
<1>8. ASSUME NEW r \in Resource, AbortTransport(r) PROVE TreatedIsReleased'
  BY <1>8 DEF AbortTransport, Shut, Closes, Turn, Dangling, callVars, shutdownVars, rootVars
<1>9. ASSUME NEW r \in Resource, AwaitTransport(r) PROVE TreatedIsReleased'
  BY <1>9 DEF AwaitTransport, Turn, callVars, shutdownVars, rootVars
<1>10. ASSUME NEW r \in Resource, Skip(r) PROVE TreatedIsReleased'
  BY <1>10 DEF Skip, Turn, Dangling, callVars, shutdownVars, rootVars
<1>11. ASSUME NEW r \in Resource, Resume(r) PROVE TreatedIsReleased'
  BY <1>11 DEF Resume, Answered, callVars, shutdownVars, rootVars
<1>12. ASSUME CancelCall PROVE TreatedIsReleased'
  BY <1>12 DEF CancelCall, Answered, callVars, shutdownVars, rootVars
<1>13. ASSUME NEW r \in Resource, SpawnTask(r) PROVE TreatedIsReleased'
  BY <1>13 DEF SpawnTask, Acquire, OthersRun, callVars, shutdownVars, rootVars
<1>14. ASSUME NEW r \in Resource, RunUntilComplete(r) PROVE TreatedIsReleased'
  BY <1>14 DEF RunUntilComplete, Acquire, OthersRun, callVars, shutdownVars, rootVars
<1>15. ASSUME NEW r \in Resource, RunUntilDone(r) PROVE TreatedIsReleased'
  BY <1>15 DEF RunUntilDone, callVars, shutdownVars, rootVars
<1>16. ASSUME NEW r \in Resource, MainEnds(r) PROVE TreatedIsReleased'
  BY <1>16 DEF MainEnds, OthersRun, callVars, shutdownVars, rootVars
<1>17. ASSUME NEW r \in Resource, CreateServer(r) PROVE TreatedIsReleased'
  BY <1>17 DEF CreateServer, Acquire, OthersRun, callVars, shutdownVars, rootVars
<1>18. ASSUME NEW r \in Resource, Connect(r) PROVE TreatedIsReleased'
  BY <1>18 DEF Connect, Acquire, OthersRun, callVars, shutdownVars, rootVars
<1>19. ASSUME NEW r \in Resource, Accept(r) PROVE TreatedIsReleased'
  BY <1>19 DEF Accept, Acquire, OthersRun, callVars, shutdownVars, rootVars
<1>20. ASSUME NEW r \in Resource, AddHandler(r) PROVE TreatedIsReleased'
  BY <1>20 DEF AddHandler, Same, Acquire, OthersRun, callVars, shutdownVars, rootVars
<1>21. ASSUME NEW r \in Resource, StartServing(r) PROVE TreatedIsReleased'
  BY <1>21 DEF StartServing, OthersRun, callVars, shutdownVars, rootVars
<1>22. ASSUME NEW r \in Resource, TaskEnds(r) PROVE TreatedIsReleased'
  BY <1>22 DEF TaskEnds, OthersRun, callVars, shutdownVars, rootVars
<1>23. ASSUME NEW r \in Resource, Release(r) PROVE TreatedIsReleased'
  BY <1>23 DEF Release, Same, Shut, OthersRun, callVars, shutdownVars, rootVars
<1>24. ASSUME NEW r \in Resource, DropServer(r) PROVE TreatedIsReleased'
  BY <1>24 DEF DropServer, OthersRun, callVars, shutdownVars, rootVars
<1>25. ASSUME NEW r \in Resource, ConnectionLost(r) PROVE TreatedIsReleased'
  BY <1>25 DEF ConnectionLost, OthersRun, callVars, shutdownVars, rootVars
<1>26. CASE UNCHANGED vars
  BY <1>26 DEF vars, callVars, shutdownVars, rootVars
<1> QED
  BY <1>1, <1>2, <1>3, <1>4, <1>5, <1>6, <1>7, <1>8, <1>9, <1>10, <1>11, <1>12, <1>13, <1>14,
       <1>15, <1>16, <1>17, <1>18, <1>19, <1>20, <1>21, <1>22, <1>23, <1>24, <1>25, <1>26
  DEF Next, Shutdown, Treat, Environment

(* Handlers are registered and removed together with their registration. *)
LEMMA HandlersStep ==
  TypeOK /\ SnapshotOfPhase /\ LastPhases /\ HandlersAreTracked /\ [Next]_vars => HandlersAreTracked'
<1> SUFFICES ASSUME TypeOK, SnapshotOfPhase, LastPhases, HandlersAreTracked, [Next]_vars
             PROVE  HandlersAreTracked'
  OBVIOUS
<1> USE ResourceAssumption DEF Phase, Class, TypeOK, State, Of, SnapshotOfPhase, LastPhases, HandlersAreTracked, Last
<1>1. ASSUME Begin PROVE HandlersAreTracked'
  BY <1>1 DEF Begin, Snapshot, callVars, shutdownVars, rootVars
<1>2. ASSUME EndPhase PROVE HandlersAreTracked'
  BY <1>2 DEF EndPhase, Snapshot, NextPhase, Of, callVars, shutdownVars, rootVars
<1>3. ASSUME NEW r \in Resource, WarnRaises(r) PROVE HandlersAreTracked'
  BY <1>3 DEF WarnRaises, Turn, callVars, shutdownVars, rootVars
<1>4. ASSUME NEW r \in Resource, CancelTask(r) PROVE HandlersAreTracked'
  BY <1>4 DEF CancelTask, Closes, Turn, Dangling, callVars, shutdownVars, rootVars
<1>5. ASSUME NEW r \in Resource, CancelSelf(r) PROVE HandlersAreTracked'
  BY <1>5 DEF CancelSelf, Closes, Turn, Dangling, callVars, shutdownVars, rootVars
<1>6. ASSUME NEW r \in Resource, Remove(r) PROVE HandlersAreTracked'
  BY <1>6 DEF Remove, Same, Closes, Turn, Dangling, callVars, shutdownVars, rootVars
<1>7. ASSUME NEW r \in Resource, CloseServer(r) PROVE HandlersAreTracked'
  BY <1>7 DEF CloseServer, Closes, Turn, Dangling, callVars, shutdownVars, rootVars
<1>8. ASSUME NEW r \in Resource, AbortTransport(r) PROVE HandlersAreTracked'
  BY <1>8 DEF AbortTransport, Shut, Closes, Turn, Dangling, callVars, shutdownVars, rootVars
<1>9. ASSUME NEW r \in Resource, AwaitTransport(r) PROVE HandlersAreTracked'
  BY <1>9 DEF AwaitTransport, Turn, callVars, shutdownVars, rootVars
<1>10. ASSUME NEW r \in Resource, Skip(r) PROVE HandlersAreTracked'
  BY <1>10 DEF Skip, Turn, Dangling, callVars, shutdownVars, rootVars
<1>11. ASSUME NEW r \in Resource, Resume(r) PROVE HandlersAreTracked'
  BY <1>11 DEF Resume, Answered, callVars, shutdownVars, rootVars
<1>12. ASSUME CancelCall PROVE HandlersAreTracked'
  BY <1>12 DEF CancelCall, Answered, callVars, shutdownVars, rootVars
<1>13. ASSUME NEW r \in Resource, SpawnTask(r) PROVE HandlersAreTracked'
  BY <1>13 DEF SpawnTask, Acquire, OthersRun, callVars, shutdownVars, rootVars
<1>14. ASSUME NEW r \in Resource, RunUntilComplete(r) PROVE HandlersAreTracked'
  BY <1>14 DEF RunUntilComplete, Acquire, OthersRun, callVars, shutdownVars, rootVars
<1>15. ASSUME NEW r \in Resource, RunUntilDone(r) PROVE HandlersAreTracked'
  BY <1>15 DEF RunUntilDone, callVars, shutdownVars, rootVars
<1>16. ASSUME NEW r \in Resource, MainEnds(r) PROVE HandlersAreTracked'
  BY <1>16 DEF MainEnds, OthersRun, callVars, shutdownVars, rootVars
<1>17. ASSUME NEW r \in Resource, CreateServer(r) PROVE HandlersAreTracked'
  BY <1>17 DEF CreateServer, Acquire, OthersRun, callVars, shutdownVars, rootVars
<1>18. ASSUME NEW r \in Resource, Connect(r) PROVE HandlersAreTracked'
  BY <1>18 DEF Connect, Acquire, OthersRun, callVars, shutdownVars, rootVars
<1>19. ASSUME NEW r \in Resource, Accept(r) PROVE HandlersAreTracked'
  BY <1>19 DEF Accept, Acquire, OthersRun, callVars, shutdownVars, rootVars
<1>20. ASSUME NEW r \in Resource, AddHandler(r) PROVE HandlersAreTracked'
  BY <1>20 DEF AddHandler, Same, Acquire, OthersRun, callVars, shutdownVars, rootVars
<1>21. ASSUME NEW r \in Resource, StartServing(r) PROVE HandlersAreTracked'
  BY <1>21 DEF StartServing, OthersRun, callVars, shutdownVars, rootVars
<1>22. ASSUME NEW r \in Resource, TaskEnds(r) PROVE HandlersAreTracked'
  BY <1>22 DEF TaskEnds, OthersRun, callVars, shutdownVars, rootVars
<1>23. ASSUME NEW r \in Resource, Release(r) PROVE HandlersAreTracked'
  BY <1>23 DEF Release, Same, Shut, OthersRun, callVars, shutdownVars, rootVars
<1>24. ASSUME NEW r \in Resource, DropServer(r) PROVE HandlersAreTracked'
  BY <1>24 DEF DropServer, OthersRun, callVars, shutdownVars, rootVars
<1>25. ASSUME NEW r \in Resource, ConnectionLost(r) PROVE HandlersAreTracked'
  BY <1>25 DEF ConnectionLost, OthersRun, callVars, shutdownVars, rootVars
<1>26. CASE UNCHANGED vars
  BY <1>26 DEF vars, callVars, shutdownVars, rootVars
<1> QED
  BY <1>1, <1>2, <1>3, <1>4, <1>5, <1>6, <1>7, <1>8, <1>9, <1>10, <1>11, <1>12, <1>13, <1>14,
       <1>15, <1>16, <1>17, <1>18, <1>19, <1>20, <1>21, <1>22, <1>23, <1>24, <1>25, <1>26
  DEF Next, Shutdown, Treat, Environment

(* From the phase of the readers on nobody else runs, so nothing is added. *)
LEMMA LastStep ==
  TypeOK /\ SnapshotOfPhase /\ AwaitsInPhase /\ HandlersAreTracked /\ LastPhases /\ [Next]_vars => LastPhases'
<1> SUFFICES ASSUME TypeOK, SnapshotOfPhase, AwaitsInPhase, HandlersAreTracked, LastPhases, [Next]_vars
             PROVE  LastPhases'
  OBVIOUS
<1> USE ResourceAssumption DEF Phase, Class, TypeOK, Of, SnapshotOfPhase, HandlersAreTracked, LastPhases, Last, AwaitsInPhase, Waiting
<1>1. ASSUME Begin PROVE LastPhases'
  BY <1>1 DEF Begin, Snapshot, callVars, shutdownVars, rootVars
<1>2. ASSUME EndPhase PROVE LastPhases'
  BY <1>2 DEF EndPhase, Snapshot, NextPhase, Of, callVars, shutdownVars, rootVars
<1>3. ASSUME NEW r \in Resource, WarnRaises(r) PROVE LastPhases'
  BY <1>3 DEF WarnRaises, Turn, callVars, shutdownVars, rootVars
<1>4. ASSUME NEW r \in Resource, CancelTask(r) PROVE LastPhases'
  BY <1>4 DEF CancelTask, Closes, Turn, Dangling, callVars, shutdownVars, rootVars
<1>5. ASSUME NEW r \in Resource, CancelSelf(r) PROVE LastPhases'
  BY <1>5 DEF CancelSelf, Closes, Turn, Dangling, callVars, shutdownVars, rootVars
<1>6. ASSUME NEW r \in Resource, Remove(r) PROVE LastPhases'
  BY <1>6 DEF Remove, Same, Closes, Turn, Dangling, callVars, shutdownVars, rootVars
<1>7. ASSUME NEW r \in Resource, CloseServer(r) PROVE LastPhases'
  BY <1>7 DEF CloseServer, Closes, Turn, Dangling, callVars, shutdownVars, rootVars
<1>8. ASSUME NEW r \in Resource, AbortTransport(r) PROVE LastPhases'
  BY <1>8 DEF AbortTransport, Shut, Closes, Turn, Dangling, callVars, shutdownVars, rootVars
<1>9. ASSUME NEW r \in Resource, AwaitTransport(r) PROVE LastPhases'
  BY <1>9 DEF AwaitTransport, Turn, callVars, shutdownVars, rootVars
<1>10. ASSUME NEW r \in Resource, Skip(r) PROVE LastPhases'
  BY <1>10 DEF Skip, Turn, Dangling, callVars, shutdownVars, rootVars
<1>11. ASSUME NEW r \in Resource, Resume(r) PROVE LastPhases'
  BY <1>11 DEF Resume, Answered, callVars, shutdownVars, rootVars
<1>12. ASSUME CancelCall PROVE LastPhases'
  BY <1>12 DEF CancelCall, Answered, callVars, shutdownVars, rootVars
<1>13. ASSUME NEW r \in Resource, SpawnTask(r) PROVE LastPhases'
  BY <1>13 DEF SpawnTask, Acquire, OthersRun, callVars, shutdownVars, rootVars
<1>14. ASSUME NEW r \in Resource, RunUntilComplete(r) PROVE LastPhases'
  BY <1>14 DEF RunUntilComplete, Acquire, OthersRun, callVars, shutdownVars, rootVars
<1>15. ASSUME NEW r \in Resource, RunUntilDone(r) PROVE LastPhases'
  BY <1>15 DEF RunUntilDone, callVars, shutdownVars, rootVars
<1>16. ASSUME NEW r \in Resource, MainEnds(r) PROVE LastPhases'
  BY <1>16 DEF MainEnds, OthersRun, callVars, shutdownVars, rootVars
<1>17. ASSUME NEW r \in Resource, CreateServer(r) PROVE LastPhases'
  BY <1>17 DEF CreateServer, Acquire, OthersRun, callVars, shutdownVars, rootVars
<1>18. ASSUME NEW r \in Resource, Connect(r) PROVE LastPhases'
  BY <1>18 DEF Connect, Acquire, OthersRun, callVars, shutdownVars, rootVars
<1>19. ASSUME NEW r \in Resource, Accept(r) PROVE LastPhases'
  BY <1>19 DEF Accept, Acquire, OthersRun, callVars, shutdownVars, rootVars
<1>20. ASSUME NEW r \in Resource, AddHandler(r) PROVE LastPhases'
  BY <1>20 DEF AddHandler, Same, Acquire, OthersRun, callVars, shutdownVars, rootVars
<1>21. ASSUME NEW r \in Resource, StartServing(r) PROVE LastPhases'
  BY <1>21 DEF StartServing, OthersRun, callVars, shutdownVars, rootVars
<1>22. ASSUME NEW r \in Resource, TaskEnds(r) PROVE LastPhases'
  BY <1>22 DEF TaskEnds, OthersRun, callVars, shutdownVars, rootVars
<1>23. ASSUME NEW r \in Resource, Release(r) PROVE LastPhases'
  BY <1>23 DEF Release, Same, Shut, OthersRun, callVars, shutdownVars, rootVars
<1>24. ASSUME NEW r \in Resource, DropServer(r) PROVE LastPhases'
  BY <1>24 DEF DropServer, OthersRun, callVars, shutdownVars, rootVars
<1>25. ASSUME NEW r \in Resource, ConnectionLost(r) PROVE LastPhases'
  BY <1>25 DEF ConnectionLost, OthersRun, callVars, shutdownVars, rootVars
<1>26. CASE UNCHANGED vars
  BY <1>26 DEF vars, callVars, shutdownVars, rootVars
<1> QED
  BY <1>1, <1>2, <1>3, <1>4, <1>5, <1>6, <1>7, <1>8, <1>9, <1>10, <1>11, <1>12, <1>13, <1>14,
       <1>15, <1>16, <1>17, <1>18, <1>19, <1>20, <1>21, <1>22, <1>23, <1>24, <1>25, <1>26
  DEF Next, Shutdown, Treat, Environment

(* The task that awaits itself is not the root task, and so no main() of a  *)
(* run_until_complete(), unless an earlier one was stopped or given a task. *)
LEMMA RootStep ==
  TypeOK /\ SnapshotOfPhase /\ AwaitsInPhase /\ MainIsRoot /\ RootIsSpared /\ [Next]_vars => (MainIsRoot /\ RootIsSpared)'
<1> SUFFICES ASSUME TypeOK, SnapshotOfPhase, AwaitsInPhase, MainIsRoot, RootIsSpared, [Next]_vars
             PROVE  (MainIsRoot /\ RootIsSpared)'
  OBVIOUS
<1> USE ResourceAssumption DEF Phase, Class, TypeOK, Of, SnapshotOfPhase, MainIsRoot, RootIsSpared, AwaitsInPhase, Waiting
<1>1. ASSUME Begin PROVE (MainIsRoot /\ RootIsSpared)'
  BY <1>1 DEF Begin, Snapshot, callVars, shutdownVars, rootVars
<1>2. ASSUME EndPhase PROVE (MainIsRoot /\ RootIsSpared)'
  BY <1>2 DEF EndPhase, Snapshot, NextPhase, Of, callVars, shutdownVars, rootVars
<1>3. ASSUME NEW r \in Resource, WarnRaises(r) PROVE (MainIsRoot /\ RootIsSpared)'
  BY <1>3 DEF WarnRaises, Turn, callVars, shutdownVars, rootVars
<1>4. ASSUME NEW r \in Resource, CancelTask(r) PROVE (MainIsRoot /\ RootIsSpared)'
  BY <1>4 DEF CancelTask, Closes, Turn, Dangling, callVars, shutdownVars, rootVars
<1>5. ASSUME NEW r \in Resource, CancelSelf(r) PROVE (MainIsRoot /\ RootIsSpared)'
  BY <1>5 DEF CancelSelf, Closes, Turn, Dangling, callVars, shutdownVars, rootVars
<1>6. ASSUME NEW r \in Resource, Remove(r) PROVE (MainIsRoot /\ RootIsSpared)'
  BY <1>6 DEF Remove, Same, Closes, Turn, Dangling, callVars, shutdownVars, rootVars
<1>7. ASSUME NEW r \in Resource, CloseServer(r) PROVE (MainIsRoot /\ RootIsSpared)'
  BY <1>7 DEF CloseServer, Closes, Turn, Dangling, callVars, shutdownVars, rootVars
<1>8. ASSUME NEW r \in Resource, AbortTransport(r) PROVE (MainIsRoot /\ RootIsSpared)'
  BY <1>8 DEF AbortTransport, Shut, Closes, Turn, Dangling, callVars, shutdownVars, rootVars
<1>9. ASSUME NEW r \in Resource, AwaitTransport(r) PROVE (MainIsRoot /\ RootIsSpared)'
  BY <1>9 DEF AwaitTransport, Turn, callVars, shutdownVars, rootVars
<1>10. ASSUME NEW r \in Resource, Skip(r) PROVE (MainIsRoot /\ RootIsSpared)'
  BY <1>10 DEF Skip, Turn, Dangling, callVars, shutdownVars, rootVars
<1>11. ASSUME NEW r \in Resource, Resume(r) PROVE (MainIsRoot /\ RootIsSpared)'
  BY <1>11 DEF Resume, Answered, callVars, shutdownVars, rootVars
<1>12. ASSUME CancelCall PROVE (MainIsRoot /\ RootIsSpared)'
  BY <1>12 DEF CancelCall, Answered, callVars, shutdownVars, rootVars
<1>13. ASSUME NEW r \in Resource, SpawnTask(r) PROVE (MainIsRoot /\ RootIsSpared)'
  BY <1>13 DEF SpawnTask, Acquire, OthersRun, callVars, shutdownVars, rootVars
<1>14. ASSUME NEW r \in Resource, RunUntilComplete(r) PROVE (MainIsRoot /\ RootIsSpared)'
  BY <1>14 DEF RunUntilComplete, Acquire, OthersRun, callVars, shutdownVars, rootVars
<1>15. ASSUME NEW r \in Resource, RunUntilDone(r) PROVE (MainIsRoot /\ RootIsSpared)'
  BY <1>15 DEF RunUntilDone, callVars, shutdownVars, rootVars
<1>16. ASSUME NEW r \in Resource, MainEnds(r) PROVE (MainIsRoot /\ RootIsSpared)'
  BY <1>16 DEF MainEnds, OthersRun, callVars, shutdownVars, rootVars
<1>17. ASSUME NEW r \in Resource, CreateServer(r) PROVE (MainIsRoot /\ RootIsSpared)'
  BY <1>17 DEF CreateServer, Acquire, OthersRun, callVars, shutdownVars, rootVars
<1>18. ASSUME NEW r \in Resource, Connect(r) PROVE (MainIsRoot /\ RootIsSpared)'
  BY <1>18 DEF Connect, Acquire, OthersRun, callVars, shutdownVars, rootVars
<1>19. ASSUME NEW r \in Resource, Accept(r) PROVE (MainIsRoot /\ RootIsSpared)'
  BY <1>19 DEF Accept, Acquire, OthersRun, callVars, shutdownVars, rootVars
<1>20. ASSUME NEW r \in Resource, AddHandler(r) PROVE (MainIsRoot /\ RootIsSpared)'
  BY <1>20 DEF AddHandler, Same, Acquire, OthersRun, callVars, shutdownVars, rootVars
<1>21. ASSUME NEW r \in Resource, StartServing(r) PROVE (MainIsRoot /\ RootIsSpared)'
  BY <1>21 DEF StartServing, OthersRun, callVars, shutdownVars, rootVars
<1>22. ASSUME NEW r \in Resource, TaskEnds(r) PROVE (MainIsRoot /\ RootIsSpared)'
  BY <1>22 DEF TaskEnds, OthersRun, callVars, shutdownVars, rootVars
<1>23. ASSUME NEW r \in Resource, Release(r) PROVE (MainIsRoot /\ RootIsSpared)'
  BY <1>23 DEF Release, Same, Shut, OthersRun, callVars, shutdownVars, rootVars
<1>24. ASSUME NEW r \in Resource, DropServer(r) PROVE (MainIsRoot /\ RootIsSpared)'
  BY <1>24 DEF DropServer, OthersRun, callVars, shutdownVars, rootVars
<1>25. ASSUME NEW r \in Resource, ConnectionLost(r) PROVE (MainIsRoot /\ RootIsSpared)'
  BY <1>25 DEF ConnectionLost, OthersRun, callVars, shutdownVars, rootVars
<1>26. CASE UNCHANGED vars
  BY <1>26 DEF vars, callVars, shutdownVars, rootVars
<1> QED
  BY <1>1, <1>2, <1>3, <1>4, <1>5, <1>6, <1>7, <1>8, <1>9, <1>10, <1>11, <1>12, <1>13, <1>14,
       <1>15, <1>16, <1>17, <1>18, <1>19, <1>20, <1>21, <1>22, <1>23, <1>24, <1>25, <1>26
  DEF Next, Shutdown, Treat, Environment

-----------------------------------------------------------------------------
(* The theorems *)

(* Nothing is acquired in the initial state. *)
LEMMA InitInv == Init => Inv
  BY ResourceAssumption
  DEF Init, Inv, TypeOK, State, Phase, Class, Of, HeldIsAcquired, StatesFit, SnapshotOfPhase, AwaitsInPhase,
      OwnTasks, TreatedIsReleased, HandlersAreTracked, Last, LastPhases, MainIsRoot, RootIsSpared

(* The invariant holds in every reachable state. *)
LEMMA InvAlways == Spec => []Inv
<1>1. Inv /\ [Next]_vars => Inv'
  <2> SUFFICES ASSUME Inv, [Next]_vars
               PROVE  Inv'
    OBVIOUS
  <2> QED
    BY TypeStep, HeldStep, FitStep, SnapshotStep, AwaitStep, OwnStep, TreatedStep, HandlersStep,
       LastStep, RootStep
    DEF Inv
<1> QED BY InitInv, <1>1, PTL DEF Spec

(* The coroutine awaits a member of what is left of its snapshot, and that was *)
(* registered or in a snapshot, whatever is acquired and released meanwhile.   *)
THEOREM TypeCorrect == Spec => []TypeOK
<1>1. Inv => TypeOK
  BY DEF Inv
<1> QED BY InvAlways, <1>1, PTL

(* When check_and_shutdown() returns, whatever it was asked to warn about and  *)
(* whatever ran at its awaits, its snapshots are released, save idle servers.  *)
(* No reader and no writer is left, and no handle or timer that the loop's own *)
(* thread made, save those that compare equal to another one.                  *)
THEOREM ReturnsAfterTheRelease == Spec => []ReleasedAtReturn
<1>1. ASSUME Inv, phase = "returned", NEW r \in seen \ Idle
      PROVE  st[r] \in {"closed", "broken"}
  BY <1>1 DEF Inv, SnapshotOfPhase, TreatedIsReleased
<1>2. ASSUME Inv, phase = "returned", NEW r \in Resource, ClassOf[r] \in Last
      PROVE  st[r] \in {"absent", "closed"} \/ \E q \in Same(r) \ {r} : st[q] # "absent"
  BY <1>2 DEF Inv, HandlersAreTracked, LastPhases, Last
<1>3. Inv => ReleasedAtReturn
  BY <1>1, <1>2 DEF ReleasedAtReturn, Last
<1> QED BY InvAlways, <1>3, PTL

(* run_until_complete(check_and_shutdown()) does not cancel and await its own *)
(* task, save in the two cases that RootIsSpared names.                       *)
THEOREM RootTaskIsSpared == Spec => []RootIsSpared
<1>1. Inv => RootIsSpared
  BY DEF Inv
<1> QED BY InvAlways, <1>1, PTL
=============================================================================
