# A TLA+ verification of aioloop-proxy

`aioloop-proxy` gives every test its own event loop object, a `LoopProxy`, over one real asyncio loop (the *parent*) that is shared by all tests. The proxy owns no selector and no queue: everything it schedules is scheduled in the parent. What it adds is bookkeeping, so that at the end of a test `check_and_shutdown()` can find and close whatever the test left behind, and a local clock that `advance_time()` shifts. This directory holds TLA+ modules of that bookkeeping, the TLC configurations that check them, and TLAPS proofs that every safety invariant of those runs holds for all values of the constants.

All line numbers are lines of `src/aioloop_proxy/`.

## 1. Inventory

| Component | State | Operations | Correct when |
|---|---|---|---|
| Handles and timers, `_handle.py`, `_loop.py` 140-151, 323-368, 401-413 | `_ready`, `_timers`, `_time_offset`, `_closed`; of a handle `_parent`, `_cancelled`, `_when` | `call_soon`, `call_later`, `call_at`, `call_soon_threadsafe`, `cancel`, `cancelled`, `_run`, `advance_time`, the sweep of `check_and_shutdown` | what the parent will call is tracked, what is tracked has not run; nothing runs twice, early, or after the shutdown; deadlines follow the shifted time |
| Futures and tasks, `_task.py` | `_state`, `_callbacks`; of a task `_fut_waiter`, `_must_cancel` | `set_result`, `set_exception`, `cancel`, `__step`, `__wakeup`, `_check_loop` | a task has exactly one way to be resumed; a cancellation is neither lost nor doubled; the end is final |
| `check_and_shutdown`, `_loop.py` 153-239 | local: phase, snapshot, awaited object; the registries `_tasks`, `_signals`, `_servers`, `_transports`, `_readers`, `_writers` | one coroutine with awaits in three of its phases | what was acquired is released at its return, whatever runs at the awaits, and it does return |
| Registrations, `_loop.py` 819-861, 925-936 | `_readers`, `_writers`, `_signals`, and the one slot the parent has for each descriptor or signal | `add_*`, `remove_*`, shutdown, close | the parent never calls a proxy for something the proxy does not know of |
| Calls into the parent, `_loop.py` 247-268, 415-431, 992-1035 | a pair of futures, one of each loop, and their callbacks | `_wrap_async`, `_chain_future`, `run_in_executor`, `run_until_complete` | answers go one way, cancellations the other, and neither is lost |
| Default executor, `_loop.py` 300-319, 415-436 | `_default_executor`, `_executor_shutdown_called`, the thread of a shutdown | `run_in_executor`, `set_default_executor`, `shutdown_default_executor`, `close` | no work survives the shutdown, and the shutdown ends |
| Context manager, `_api.py` | saved debug flag, exception handler and `slow_callback_duration` of the parent | enter, leave | the parent is left as it was, the exception of the body gets out |
| Transports, protocols, servers, `_transport.py`, `_protocol.py`, `_server.py`, `_loop.py` 456-812 | the wrapped object, the future `wait_closed`, `_transports` | `create_*`, `connect_*`, `start_tls`, `set_protocol`, `close`, `abort`; `connection_made`, `connection_lost` | a shutdown that awaits `wait_closed` returns, and then the transport is lost |
| Nested proxies | an offset and a set of timers for each level | `call_later`, `call_at`, `cancel`, `advance_time`, the sweep, `close`, at any level | all clocks agree on which timer is due; each level tracks what is pending through it |
| Formatting, exception handler, debug flag | none of their own | delegation | not modelled, but for the settings `proxy()` restores |

**How they interact.** Every handle of a proxy wraps a handle of the parent and is called by it (`_run` is the parent's callback). Tasks and futures schedule their callbacks through `call_soon` of their loop, so a closed proxy stops them. A task may await futures of the parent directly. Coroutine methods of the loop run the parent's coroutine as a task of the parent and chain it to a proxy future. `check_and_shutdown` reads all registries, and it is itself a task, so the program goes on whenever it waits. Several proxies and the program use the same parent.

**What is hard here.**

* *Interleaving*: `call_soon_threadsafe` from another thread; everything that runs while `check_and_shutdown` waits; answers and cancellations that cross between two loops.
* *Two clocks*: a timer has one deadline in the proxy's time and one in the parent's, and `advance_time` must move timers in every state they can be in: in the heap, popped, cancelled behind the proxy's back.
* *Identity*: `_timers` is a Python set, so it compares timers with `TimerHandle.__eq__`: deadline, callback, arguments, cancelled flag.
* *Threads*: the workers of an executor, the thread that shuts it down, and the thread of the loop that joins that one.
* *Shared futures*: `wait_closed` is awaited by everyone who shuts down, and cancelled by whoever is cancelled.
* *Partial failure*: a task that answers its cancellation with an error, a protocol that raises, a warnings filter that turns a `ResourceWarning` into an exception, a proxy that is closed while callbacks are being queued.

`PROJECT.json` lists the hazards one by one, each with its line and the properties that would catch it.

## 2. Modules

| Module | Models | Checked by |
|---|---|---|
| `ProxyHandles` | handles, timers, proxy time | `handles`, `v_call_at`, `v_equal_timers` |
| `ProxyHandlesProofs`, `RegistrationsProofs`, `ForeignCallsProofs`, `ProxyTaskProofs`, `CheckAndShutdownProofs`, `ConnectionsProofs`, `ProxyContextProofs`, `NestedProxiesProofs` | theorems about the module of the name, the last but one about `DefaultExecutor` too | tlapm |
| `ProxyTask` | `Future` and `Task` | `tasks`, `v_running_loop` |
| `Coroutines` | abstract: what a program may expect of its coroutines | refined by `ProxyTask` in `tasks` |
| `CheckAndShutdown` | `check_and_shutdown()` and the program around it | `shutdown`, `v_shutdown` |
| `Connections` | transports and protocols, overlapping shutdowns | `connections` |
| `DefaultExecutor` | the default executor and its shutdown | through `ProxyContext` |
| `ProxyContext` | `proxy()`; composes `DefaultExecutor` with the `with` statement | `context` |
| `NestedProxies` | a stack of proxies | `nested` |
| `Registrations` | readers, writers, signals of several proxies | `registrations` |
| `ForeignCalls` | `_chain_future()` and the calls built on it | `calls` |
| `MC*` | finite instances | |

Definitions named `X_Something` directly before `X` are faulty variants of it. No specification uses them. They are what the properties were tried against: each property of a passing run is violated when `X` is replaced by one of them (`PROJECT.json`, "mutants").

### ProxyHandles

`ready`, `timers`, `offset`, `closed` are the fields of the proxy; `kind`, `when`, `own` (`_cancelled`), `linked` (`_parent is not None`) those of the handles; `parent` and `pwhen` are the state and the deadline of the parent's handles; `now` and `running` are the parent loop's. One action stands for one method. `call_soon_threadsafe` has three, since another thread may be stopped between its closed check (406), the post to the parent (409) and the registration (410). Actions of the loop's own thread are atomic. `SweepHandles` is the end of `check_and_shutdown` (229-239), which has no await and is therefore one step. `Tick`, `PopTimers`, `ParentCancel` and `StartOrStop` are the parent loop, modelled from what the proxy relies on: it calls ready handles that are not cancelled, and moves due timers from its heap to the ready queue. The order of the ready queue is not modelled, so more interleavings are checked than asyncio can produce.

`Key[h]` stands for callback and arguments of `h`. Timers are equal when deadline, key and cancelled flag agree, and `RegisterTimer` and `Discard` treat `timers` the way `set.add` and `set.discard` do. `DistinctKeys` says that no two handles have equal callbacks and arguments. Runs and theorems that need it say so.

### ProxyTask and Coroutines

`calls[t][c]` counts the handles queued in the parent for task `t`: `c` is `"step"`, `"error"` (`__step` with an exception) or the future whose `__wakeup` it is. `current` is the task whose coroutine executes. The coroutine is the environment: while it runs anything may be completed or cancelled, then it returns, raises, yields or awaits. `CancelTarget` follows `_fut_waiter` down to where a `cancel()` ends, as the recursion of `Task.cancel` (720-728) does. `owed` remembers whom a cancellation is on its way to: the task at the end of that chain, or all tasks that wait for the future cancelled there, and, when a task ends as cancelled, those that await it. The cycle of tasks awaiting each other, which hangs in asyncio as well, is excluded by `NoAwaitCycle`. `LoopOf` says to which loop a future belongs: `_check_loop` accepts the proxy's and the parent's and refuses others. `closed` makes the proxy's `call_soon` raise, which loses what it was about to queue.

`Coroutines` is what a program sees: a coroutine is runnable, running, waiting or done, one runs at a time, and a runnable one eventually runs unless the loop is closed. `ImplementsCoroutines` is the refinement, with `phase` computed from the state of the task.

### CheckAndShutdown

A resource has a class (task, server, transport, ...) and a state in the parent: among others `closing`, a task that was cancelled or a transport whose loss is on its way, and `draining`, a transport with data left to send. `tracked` is the union of the proxy's registries, `todo` the rest of the current snapshot, `await` what the coroutine is suspended on. The program (`Environment`) moves before the call and at each await only. Tasks may end with an error and a protocol's `connection_lost` may raise (`Faulty`), tasks may suppress their cancellation, as the docstring of `Task.cancel` allows (`Stubborn`), a peer may be slow to read (`Slow`), servers may be dropped by the program, since `_servers` is weak. What the argument `kind` and a warnings filter that raises amount to is a choice at each warning (`WarnRaises`). `Early` and `Late` say what may be acquired before the call and during it. Timers with the same callback and deadline share one entry of `_timers`: `Same` is what `set.add` and `set.discard` take for one (all handles are of the loop's thread here; those of `call_soon_threadsafe`, which may be registered after the sweep, are in `ProxyHandles`). `failed` is the error of the awaited task. Closing a transport leads to `ConnectionLost` later, when its data was sent; closing a server, cancelling a handler or a handle is immediate. The call is run by `caller`, any task. `root` is `_root_task` and `mains` the tasks whose `main()` in `run_until_complete` (250-266) has not ended: there may be several, since `stop()` makes `run_until_complete` raise and leaves its `main()` behind, and each of them sets `_root_task` to `None` when it ends. A call that is not spared as the root task finds itself in its snapshot (`CancelSelf`): it cancels itself and awaits itself, which the task machinery answers with an exception; one `suppress(CancelledError)` takes care of both and the phase goes on. `CancelCall` cancels it: in the tasks phase `contextlib.suppress(CancelledError)` (164) swallows the cancellation together with the one of the awaited task, and the phase goes on; in the later phases it is raised and what is left stays as it is. The `wait_closed()` of a server is answered at once or, as it is since Python 3.12 (`waits`), when the connections it accepted are gone.

### Registrations

`owner[s]` is whose callback the parent would call for slot `s` (a descriptor for reading, for writing, or a signal), `table[p]` the keys of the three dictionaries of proxy `p`. A later `add_*` by anyone takes a slot over silently. `remove_reader` and `remove_writer` do nothing on a closed proxy, `remove_signal_handler` does not look. `answer` is what the last `remove_*` returned: it goes by the table of the proxy, whatever the parent had; see *Disagreements*. `due` are the callbacks queued in the parent: replacing or removing a descriptor cancels its handle, and what was queued is not called; a signal's is called all the same, since `remove_signal_handler` (933-936) cancels nothing. `ReleaseSignals` (168-174) and `ReleaseDescriptors` (209-227) are two phases of one `check_and_shutdown`, with the awaits of servers and transports in between, where everything else goes on and the call may fail (`Abort`); `inside` counts the calls that are there.

### ForeignCalls

A call pairs a `target` (awaited by the caller) with a `source`. The callbacks `_call_check_cancel` and `__wakeup` of the target and `_call_set_state` of the source are queued by the loop each future belongs to: for `run_until_complete` the source is the proxy's, for all other calls the target is. The methods of the loop check that it is not closed, the ones of its servers (`_server.py`) do not. A closed proxy refuses the callbacks and the sweep of the handles cancels them (`lost`). Cancelling a task is a request, cancelling the future of an executor call is its end.

### DefaultExecutor and ProxyContext

`default` and `called` are `_default_executor` and `_executor_shutdown_called`. `pc`, `future`, `thread`, `target` describe a call of `shutdown_default_executor()`: its coroutine, the future it awaits, the thread that `_do_shutdown` (312-319) runs in, and the executor the thread found. The thread is another thread, so reading `_default_executor` (314), the end of `shutdown(wait=True)`, the post of the answer (315, 317) and the assignment in its `finally` clause (319) are steps of their own. `LoopFree` is the condition of every step of the loop's thread: none is taken while a coroutine is inside `thread.join()` (310). `posted` are answers queued with `call_soon_threadsafe`; a closed proxy refuses them, and the sweep of `check_and_shutdown` cancels them (`swept`) as well as the `__wakeup()` of a call whose future is done already: both are handles of the proxy. `stranded` remembers the calls this leaves without a wake-up. A job may need the loop (`NeedsLoop`) and an executor may raise in `shutdown()` (`Faulty`); `strict` is the filter that turns the warning of `close()` into an exception.

`ProxyContext` puts the `with` statement on top: `Body` is any step of the program, also while `proxy()` runs its two coroutines, because tasks of the body may still be there. `Leave`, `StartShutdown`, `EndShutdown`, `EndCheck` and `RestoreAndClose` are the lines 18-30 of `_api.py` with every way out of them. Of `check_and_shutdown()` only the end is seen: it returns after its sweep, raises, or goes on for ever, which are the ends `CheckAndShutdown` has.

### Connections

`st` and `gen` describe the parent's transport and which protocol proxy it has; `waitClosed` is the future of each protocol proxy, `registered` is `_transports`, `asking` the transports whose creator has not resumed yet (between `connection_made` and line 474). `Below` says which transport a TLS transport runs over: `start_tls` replaces the protocol below by the parent's `SSLProtocol` (`ssl`), which is no `_BaseProtocolProxy`, so that line 204 finds nothing to await there. `close()` of a transport that still has data to send leaves it `draining` until the peer has read it. `Treat` is one turn of the loop 187-206, `GetProtocol` the lines 200-204. Several calls of `check_and_shutdown` overlap or follow each other; `CancelCall` cancels one, and with it the future `wait_closed` that others may await as well. `refused` are the `connection_lost()` whose `set_result()` failed on a cancelled future. `End` is everything from the last transport to the return (207-239), which has no await: its sweep of `_ready` cancels the `__wakeup()` of another call that waits for the same future, which leaves that one `stranded`.

The parent's classes (selector transports, `SSLProtocol`) are outside of the repository and are modelled by what the proxy relies on. Which proxy class a protocol or a transport gets is not modelled: `Abortable` says whether line 196 calls `abort()`.

### NestedProxies

A timer created at level `l` is a chain of handles: one per proxy below and one of the root loop (level 0). `when[t][l]` is the deadline of each link in the time of its level, `tracked[l]` is `_timers` of level `l`, `root` the state of the link of the root loop. `advance_time` of a level cancels the link below and calls `call_at` of the proxy below (150), which makes new links down to the root with one deadline for all of them: as `call_at` does not convert, a level below that was shifted gets the deadline in the wrong time, and the timer is `late`. Over a closed proxy `call_at` raises after the first timer was cancelled (`AdvanceTimeRaises`). An offset of 0 is allowed and never used up, since it takes back popped timers like any other. Timers that compare equal, handles of other threads and shifts backwards are in `ProxyHandles` only.

## 3. Runs

| Run | Instance | Distinct states | Shows |
|---|---|---|---|
| `handles` | 2 handles of the loop, 1 of a thread, delay and deadline 1, shifts -1 and 1, clock to 1, offset within 1 | 1.4 million (symmetry) | tracking, cancellation, at most one call, shutdown, deadlines |
| `tasks` | 2 tasks, one future each of proxy, parent and a foreign loop | 36 thousand | the invariant of `Task`, cancellation down and up a chain, refinement of `Coroutines` |
| `shutdown` | 2 tasks, of which one calls, each spawned or run by `run_until_complete`, one that may refuse its cancellation; a server created idle, an accepted connection, a slow transport, 2 equal timers; the second task, the transport and one timer may come late; the call may be cancelled | 611 thousand | what was there is released, late handles too, the root task is spared, the four ways to be stuck |
| `registrations` | 2 proxies, 2 descriptors, 1 signal, 1 shutdown of each at a time | 1.7 million (symmetry) | a proxy knows what it is called for, what is released stays released |
| `calls` | 2 calls, each of any kind | 348 thousand | answers and cancellations cross correctly |
| `context` | 1 job that needs the loop, 1 executor of the proxy, 1 of the program whose `shutdown()` raises, 2 shutdowns, 1 setting | 367 thousand | no job after a shutdown, short joins, the parent restored, the shutdown ends |
| `connections` | a TCP transport, a TLS transport over it, one that is no `WriteTransport` and may get a second protocol and raise; 2 calls | 321 thousand | what a shutdown awaited is lost, a cancellation stays with those who share the future, the four ways to be stuck |
| `nested` | 2 levels, 2 timers, delay 2, deadline 1, shifts 0 and 1, clock to 2, offsets to 1 | 214 thousand | tracking and deadlines at all levels, due timers fire when the shifts cease |

**Why the bounds are enough.** A hazard of `ProxyHandles` involves one handle, or two that meet in `timers`, plus a thread; offset and clock need one step in either direction to separate the two clocks, and shifts of both signs reach timers that were popped already. The theorems then cover every number of handles and all values. A task interacts with one future at a time and with tasks that await it or that it awaits: two tasks and three futures have all pairs, and chains of two awaits (three tasks with two futures, 278 thousand states, were explored as well for the safety part). `check_and_shutdown` treats members of a snapshot one by one: what matters is one member in the snapshot and one that comes late, and for the tasks the caller and one other (which may be the one an earlier `run_until_complete` left); of equal timers, one that is swept and one that is not. A slot is shared by at most one current and one former owner and the program: two proxies. Calls share only the shutdown and the close, so two show every mix. Two shutdowns of the executor are the one of `proxy()` and one that overlaps, with an executor each can find or miss. Two calls of `check_and_shutdown` are one that is cancelled and one that shares its future or retries. Two levels are the least at which a shift of one level can disturb another; three levels with one timer were explored as well.

**Fairness.** `tasks`: the parent calls its queue in order, so a queued callback has its turn although other tasks keep running in between (strong fairness of each task's resumption, since it is disabled while another coroutine executes), and no coroutine computes for ever. `shutdown`: the coroutine is resumed, a *cancelled* task comes to an end unless it is one that may refuse, the parent reports the loss of a closed connection that has no data left; uncancelled and stubborn tasks, peers and the program owe nothing. `calls`: queued callbacks are called; a source need not end. `context`: threads are scheduled, jobs come to an end, and a loop that is neither closed nor blocked runs what is queued; the program owes nothing. `connections`: queued calls of `connection_lost()` are made and coroutines are resumed; peers owe nothing, neither to read nor to close, which is why `WaitEnds` names the transport that waits for its peer. `nested`: the root loop pops due timers and calls them; that the shifts cease is a premise of `DueTimersFire`, not an assumption of the run. In `shutdown`, `context` and `connections` each step under fairness happens a bounded number of times in a behaviour, so that one weak fairness condition on all of them together asks no more and no less than one for each. Where the system really may stop for good (the program ends, the shutdown is complete, a protocol never answers, the loop is blocked in `join`), the configuration switches the deadlock check off: `tasks`, `shutdown`, `context`, `connections`, `nested`, and the two `v_` runs on the first two.

**Bounds that are part of a module.** `MaxTime` and `MaxOffset` of `ProxyHandles` and `NestedProxies`; `Calls` and `Generations` of `Connections`; `MaxCalls` of `Registrations`; each handle, timer, task, job, executor and call is created at most once.

### Disagreements found

Each of these runs is expected to end in a violation. They were reproduced against the package as well.

* `v_call_at`: `call_at()` (361) hands its deadline to the parent without the offset. After `advance_time(x)` a new `call_at(proxy.time() + d)` fires `x` late.
* `v_equal_timers`: two timers with the same callback, arguments and deadline share one entry of `_timers`; after it is gone, the other timer is invisible to `advance_time()` and survives the shutdown.
* `v_running_loop`: after awaiting a future of the parent a task runs with the parent as running loop, and `_wrap_async()` fails its own assertion (1008).
* `v_shutdown`: `check_and_shutdown()` returns while a server of the proxy goes on serving: the program dropped its proxy object, and `_servers` (110), a weak set, forgot it.

`Terminates` names the four ways in which `check_and_shutdown()` gets stuck: a protocol whose `connection_lost()` raised, so that `wait_closed` is never set; a transport that was closing already, or has no `abort()`, and has data left that its peer does not read (188, 206); since Python 3.12, a server whose accepted connection nobody closes (servers are awaited before the clients of the same proxy are aborted); and a task that suppresses its cancellation and does not end (165).

More of them, without a run of their own:

* `remove_reader()` and its kind remove somebody else's registration in the parent and return `False`, whereas the comment at `_loop.py` 815-817 says that they return `True` if something was removed.
* A program that calls `advance_time()` in every iteration of the loop, by 0 or by any other offset, never sees a due timer fire: each call takes it out of the parent's ready queue (149) and posts it anew (150), and it is popped again only in the next iteration. `DueTimersFire` excepts behaviours with shifts without end.
* `advance_time()` of a proxy whose parent is a shifted proxy posts its timers too late, by `call_at()` (361) as in `v_call_at`; over a closed proxy it loses one timer and leaves the others late. `PendingIsKept` names both as its exceptions and shows that they are the only ones.
* Two overlapping `shutdown_default_executor()`: the later one may fail with `AttributeError` on `None` (314). An executor replaced by `set_default_executor()` is never shut down, and one set while a shutdown waits is dropped when that ends (319; `NoWorkAfterShutdown` shows that it has no jobs then). If a task that waits for the shutdown is cancelled, `thread.join()` (310) blocks the loop until all jobs end, and for ever if one of them needs the loop. `SoleShutdownSucceeds`, `MadeExecutorsEnd` and `JoinIsShort` name these as their exceptions.
* `check_and_shutdown()` that is cancelled while it awaits a transport cancels `wait_closed` for good: another call fails at the same transport with `CancelledError` without having been cancelled, and the parent's `connection_lost()` fails with `InvalidStateError` (`_protocol.py` 35).
* `loop.stop()` ends a `run_until_complete()` but not its `main()`. If `run_until_complete(check_and_shutdown())` follows, the task it cancels first may be the one of that `main()`, whose `finally` clause (265) then clears the new `_root_task`: `check_and_shutdown()` warns "Unfinished task" about itself and cancels itself, without further effect. `RootIsSpared` names this as its exception.
* A task that awaits the one that runs `check_and_shutdown()` is awaited by it in turn; `cancel()` then follows the cycle of `_fut_waiter` (`_task.py` 721) until the interpreter raises `RecursionError`. `NoAwaitCycle` keeps such programs out of `ProxyTask`.
* `set_protocol()` on a transport that is being awaited leaves the shutdown waiting for the replaced protocol for ever. And of two calls that wait for the same transport the one that is resumed first cancels the queued `__wakeup()` of the other with its sweep (229-233). These, a `connection_lost()` that raised and a peer that does not read are the four cases of `Stuck` in `Connections`.
* `check_and_shutdown()` does not release a server that was not serving at its turn (177) and started later, a connection that a server accepted (it is in no registry), a task spawned by a task that is being cancelled (166), or the second of two equal timers: `ReleasedAtReturn` names them as its exceptions or speaks of the snapshots only.
* A signal handler that was queued when `remove_signal_handler()` ran (933-936) is still called, also after the shutdown.
* `proxy(loop, kind=...)` ignores `kind` (`_api.py` 10, 23), and `CheckKind.HANDLES` has no effect in `check_and_shutdown()`. `ExitIsClean` does not hold of a body that closes its proxy: the exception of the body is dropped (`_api.py` 20).

## 4. Proofs

`ProxyHandlesProofs` proves, for all sets of handles, all keys, delays, deadlines, shifts and bounds (assumptions: `ThreadAssumption` and `TimeAssumption` of the module, nothing else):

* `TypeCorrect`, `TrackingIsSound` (`TrackedIsLive`), `CancelIsFinal` (`CancelledIsDead`), `AtMostOnce` (`CalledAtMostOnce`): `Spec => []Inv`, even when timers compare equal.
* `TrackingIsComplete` (`PendingIsTracked`), `ShutdownIsComplete` (`SweptNeverPending`), `DeadlineIsKept` (`LaterKeepsDeadline`), `NothingIsEarly` (`PoppedIsDue`): the same if `DistinctKeys`. The run `v_equal_timers` shows that the condition is needed.

**The argument.** None of these is inductive. `SafeInv` strengthens the first four: besides the type it says that a handle nobody created has nothing in the parent (`Untouched`), how far a thread inside `call_soon_threadsafe()` can be for each state of its handle (`ThreadOrder`), that tracked handles are live and cancelled ones dead, and that a handle has run exactly as often as its parent handle says (`RunsCounted`): since a tracked timer has not run, `advance_time()` re-posts none that has, and that is why nothing runs twice. Discarding by equality may remove *another* timer than intended, but never keeps the intended one (`DiscardSelf`), so soundness survives equal timers while completeness does not. `TrackedInv`, under `DistinctKeys`, adds that pending handles are tracked, that swept ones had returned to their caller, and that the deadline in the parent is the proxy's deadline minus the offset. Each invariant is proved by one step per action; `TypeStep`, `SafeStep` and `TrackedStep` are the step lemmas.

`RegistrationsProofs` proves, for any proxies and slots, `TypeCorrect`, `OwnersAreKnown` (`OwnerKnows`) and `ShutdownReleasesSlots` (`CleanOwnsNothing`), from `SlotAssumption`. They are inductive only together: a phase of the shutdown frees what the table names, so it frees all that the proxy owns because an open proxy owns nothing its table does not name; and what is queued for a descriptor is its owner's callback (`OwnersAreCalled`).

`ForeignCallsProofs` proves, for any set of calls, `TypeCorrect`, `AnswersAreSound` (`AnswerIsSources`) and `CallersAreAnswered` (`CallIsAnswered`). The inductive invariant says of each call that a callback is on its way only if its future is done (`CallbacksFollow`), and that the target holds what the source has or a cancellation by the program (`TargetFromSource`); `ScheduleKeeps` is the lemma about queuing callbacks on a proxy that may be closed.

`ProxyTaskProofs` proves, for any finite set of tasks and any futures of any loops (`TaskAssumption`), `TypeCorrect`, `SuspendedOnce` (`StepOrWait`), `WakeupsAreFresh` (`NoStaleWakeup`) and `CancelIsCarried` (`OwedCancelIsCarried`). They are inductive together with one more fact, `WaitersFit`: only a pending task waits, for what exists, and not while its coroutine runs. `CancelIsCarried` is about chains: what a `cancel()` ends at is itself pending (`TargetIsPending`), so that the task there, or every task that waits for the future there, carries the cancellation, and one that ends as cancelled hands it to those that await it. `NoStaleWakeup` is what `StepOrWait` stands on (a callback that outlives its await would be a second call to come) and the other way round. Completing a future queues the `__wakeup()` of each task that waits for it and of no other (`CompleteWakes`, `OthersAreWoken`), a queued callback that runs is the only one of its task and, if it is a `__wakeup()`, that of the future it awaits, which is done (`StepEffect`), and `CancelTarget` stays among the tasks and futures however long the chain of waiters is (`TargetIsAwaitable`). `CancelComesToAnEnd` (`CancelEnds`) says that `Task.cancel()` does end, at a future or at a task that awaits nothing that is pending: among any set of tasks there is one whose waiter is not in the set (`NoRing`), which only a task that begins to wait could change, and does not because of `NoAwaitCycle`. A chain of more steps than there are tasks would meet one of them twice (`TargetStops`, by the pigeonhole principle), so the number of steps that `CancelTarget` is given is always enough, and `NoAwaitCycle` excludes the rings and nothing but them. `TasksAreCoroutines` is the refinement step by step: `AbstractPhase` is initially as `Coroutines` has it, and every step of `ProxyTask` is a step of `Coroutines` or leaves the phases alone.

`CheckAndShutdownProofs` proves, for any resources of any classes (`ResourceAssumption`), `TypeCorrect`, `ReturnsAfterTheRelease` (`ReleasedAtReturn`) and `RootTaskIsSpared` (`RootIsSpared`). For the snapshots the invariant says that what a call has treated is released and stays so (`TreatedIsReleased`), with the snapshot that belongs to each phase (`SnapshotOfPhase`, `OwnTasks`). For readers, writers and handles, whose registries are not snapshots of something that ends later, it says that the registry and the resource agree, but for a timer that has an equal (`HandlersAreTracked`), and that nothing is added once their phases have come (`LastPhases`), because none of them awaits. `MainIsRoot` says that the only `main()` is the root task's, unless an earlier one was left behind: that is the exception of `RootIsSpared`.

`ConnectionsProofs` proves, for any transports, any numbers of protocols and of calls (`ConnectionAssumption`), `TypeCorrect`, `ReturnsAfterTheLoss` (`LostAtReturn`) and `CancelsAreExcused` (`CancelledOnlyIfAsked`). `LostAtReturn` speaks of the end only; `TreatedIsSettled` says of each turn that what it treated is lost, or one of the two exceptions, or what the call awaits. It needs `ResultIsLost`: `wait_closed` is set by `connection_lost()` and nothing else. That the assumption names `None` as no protocol is used there: a call that awaits something awaits a protocol proxy.

`ProxyContextProofs` proves of `DefaultExecutor` under `ProxyContext`, for any jobs, executors, shutdowns and settings (`ExecutorAssumption`, `ContextAssumption`), `TypeCorrect` (`ContextTypeOK`), `NothingWorksAfterShutdown` (`NoWorkAfterShutdown`), `JoinsAreShort` (`JoinIsShort`), `OnlySecondShutdownsFail` (`SoleShutdownSucceeds`), `MadeExecutorsAreEnded` (`MadeExecutorsEnd`) and `ExitsAreClean` (`ExitIsClean`). `ContextRunsExecutor` is the composition: `ContextSpec => Spec`, so the invariant of the executor is proved of its own actions and carried over. That invariant follows the order of steps of the thread: its answer comes when only the assignment of line 319 is left (`AnswerIsLast`), jobs are the current executor's, or the one's that a thread waits for, or over (`JobsAreWaitedFor`), and each failure, in every place it passes on its way to the caller, has its excuse (`FailureIsExcused`). `ContextInv` says what of this is known at each place in `proxy()`.

`NestedProxiesProofs` proves, for a stack of any height and any timers (`NestedAssumption`), `TypeCorrect` and `PendingTimersAreKept` (`PendingIsKept`). `PendingIsKept` compares the link of the root with the one of the timer itself. That is not inductive, since `advance_time()` of a level in the middle starts from its own link: `LinksAgree` says it of every link of the chain, that none is due before the deadline and that, but for the late timers, all mean the same moment in the time of their level. Steps move the clocks uniformly: a tick moves all, a shift those of its level and above (`ClocksStep`), and a clock with no shift below it is the root's (`ClocksApart`).

**Induction.** `Clock` and `CancelTarget` are recursive functions. That they have a value at all, and what it is, needs induction over numbers: `LeastNatural` takes it from the well-foundedness of `<` (`NatLessThanWellFounded`, `WFMin`), and `SetInduction` states it for sets of numbers. `ClocksExist`, `ClockUnfolds`, `ClocksMove`, `ClocksAhead`, `ChainsExist`, `TargetUnfolds`, `StopsStays` and `AwaitMakesNoRing` are proved with it.

**Before the proofs.** The inductive invariants were checked with TLC on the instances of section 3 first.

**Model-checked only.** Everything that must happen eventually (`DueTimersFire`, `CancelIsHeard`, `Terminates`, `WaitEnds`, `ShutdownEnds`, `AnswerReachesCaller`, `CancelReachesSource`) and the fairness of `Coroutines` in `ImplementsCoroutines`: liveness and `ENABLED` are out of the prover's reach. The runs that expect a violation are instances by nature.

## 5. Not modelled, and the plan

Not modelled for good: formatting of futures and tasks, forwarding without state (exception handler, debug flag, flow control and data of transports and protocols), operating-system I/O, the choice of a proxy class for a protocol or transport (a function of classes), task factories, contexts of callbacks, and done callbacks of the program (a future calls them in the order of the parent's queue, like the `__wakeup()` of a task, which is modelled).

Next, proofs:

1. The safety facts below the liveness properties, in the places where they are invariants: in `ForeignCalls` that a cancelled target has its request on the way to the source, in `Connections` that a call that waits and is not `Stuck` has its `connection_lost()` to come.
2. `ProxyContext` and `Connections` as implementations of short abstract modules (an executor that is shut down once; a transport that is lost once), the simulation proved step by step as for `Coroutines`.
