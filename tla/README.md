# Soletta: a TLA+ verification project

Soletta is a C framework for small devices: one main loop per process, and on
top of it timers, worker threads, a data-flow engine, device I/O and a stack of
network protocols. This project models the parts on which everything else
stands: the POSIX main loop with threads, the handlers it runs, the worker
threads that hand results to it, the sorted vectors behind its timers, the
static flows that deliver packets from its timeouts, and the CoAP endpoint on
which its network protocols are built.

Paths below are relative to the repository (`src/lib/...` is
`src/src/lib/...` in `PROJECT.json`).

## 1. Inventory

| Component | State | Operations | Interacts with | What is hard |
|---|---|---|---|---|
| Main loop: run, quit, wakeup, signals (`common/sol-mainloop.c`, `sol-mainloop-common.c`, `sol-mainloop-impl-posix.c`) | `mainloop_running`, `run_loop`, `have_notified`, the notification pipe, `ml_lock`, `siginfo_storage` | `sol_run`, `sol_quit`, `main_thread_notify`, `main_thread_ack`, `fd_process`, `sighandler`, `signals_process` | every other component adds handlers and relies on being woken | flags read without the lock, a blocking pipe under the lock, signals between a test and `ppoll()` |
| Idlers (`sol-mainloop-common.c`) | `idler_vector`, the stolen vector, `idler_pending_deletion`, per-idler status | `sol_idle_add`, `sol_idle_del`, the pass, the sweep | worker threads, application threads | callbacks run outside the lock while other threads add and delete; memory must outlive the callback |
| Timeouts (`sol-mainloop-common.c`) | sorted `timeout_vector`, the stolen vector, `timeout_pending_deletion`, expiries | `sol_timeout_add`, `sol_timeout_del`, the pass, `timespec_first` | the sleep of the loop, flows, drivers | expiries change during the walk; the length of the sleep is computed while timeouts are added |
| Descriptors (`sol-mainloop-impl-posix.c`) | `fd_vector`, the stolen vector, `fd_pending_deletion`, `fd_changed`, the table given to `ppoll()` | `sol_fd_add`, `sol_fd_del`, `sol_fd_set_flags`, prepare, poll, the walk, the sweep | drivers, sockets | the table is older than the handlers; numbers are used again |
| Sources (`sol-mainloop-common.c`) | `source_vector`, the stolen vector, `source_pending_deletion`, `ready` flags | add, delete, prepare, next timeout, check, dispatch, dispose | GLib and other event loops | the sweep releases the lock in the middle, and `dispose()` deletes more |
| Child watches (`sol-mainloop-impl-posix.c`) | vector and counter of the same design, exit statuses | add, delete, pass | `SIGCHLD`, the signal storage | signals that are merged or dropped |
| Worker threads (`sol-worker-thread-impl-posix.c`) | the struct, `cancel`, `lock`, `idler`, the thread | `new`, `cancel`, `feedback`, the thread's body and end | idlers | the thread and the main loop share `thread->idler`; cancel races the thread's own end |
| Vectors (`datatypes/sol-vector.c`) | array and length | insert/update/match sorted, delete | timeouts, protocols | binary search with equal keys |
| Static flows (`flow/sol-flow-static.c`, `sol-flow.c`) | connection table, connection ids, queue of delayed packets, the timeout that delivers it | type checks, open, connect, undo, send, deliver, close | timeouts, node types, enclosing flows | nodes send from any callback, also while the queue is delivered; failures half-way through opening |
| CoAP (`comms/sol-coap.c`) | outgoing queue with retransmission timeouts, pending replies with theirs, observers, the socket's write monitor | send, receive, retransmit, cancel, unobserve, notify, destroy | timeouts, sockets | loss, duplication, a late answer against a timeout, callbacks that call the API in the middle of a walk |
| LWM2M, OIC, HTTP, MQTT (`comms/`) | registrations, observations, sessions | protocol handlers | CoAP and external libraries | protocol state machines |
| Storage (`io/sol-memmap-storage.c`) | delayed writes per file | write, read, delayed flush | timeouts | cancelling a write that is on its way |
| I/O drivers, platform, update, crypto, parsers, tools | mostly none beyond a handle | system calls, text | | pure I/O or sequential code |

What makes each modelled component correct:

* *Wakeup*: the loop never sleeps over work or a quit that another thread gave
  it, and never blocks while it holds `ml_lock`.
* *Idlers and timeouts*: a handler is called only while it is alive, its memory
  outlives its callback, deleted memory is freed; timeouts run when due.
* *Descriptors*: what `ppoll()` found is given to the handler it was found for,
  and no handler is slept over.
* *Sources*: the sweeps stay inside the vector, what is ready is dispatched in
  the same iteration, what is deleted is disposed of.
* *Worker threads*: `finished()` is called once, nothing touches the struct
  afterwards, and a thread that ended is reported.
* *Vectors*: the sorted operations keep the order and lose nothing.
* *Flows*: packets reach every destination in the order they were sent, and a
  flow that failed to open or was closed leaves nothing behind.
* *CoAP*: every packet is sent or given up, every request is answered, timed out
  or cancelled and its callback is not called afterwards, and a reply outlives
  its callback.

`PROJECT.json` lists all components, with the reason for those left out, and
under `hazards` the places in the code where these properties are at risk.

## 2. Modules

| Module | Models | Built from |
|---|---|---|
| `MainLoop` | the run flag and the main thread, which the next two share | |
| `MainLoopWakeup` | `sol_run`, `sol_quit`, the notification pipe, `ppoll()`, signals | `MainLoop` |
| `Sources` | sources and the walks of an iteration over them | `MainLoop`, `Vector` |
| `MainLoopProofs` | theorems of both | `Sources`, `MainLoopWakeup`, `VectorProofs` |
| `HandlerLifecycle` | abstract specification: what add/delete promise | |
| `Idlers` | idlers with callers on every thread | implements `HandlerLifecycle` |
| `IdlersProofs` | its theorems | `Idlers` |
| `Vector` | operators: deletions from a `sol_vector` | |
| `PtrVector` | operators: sorted operations of `sol_ptr_vector` | `Vector` |
| `VectorProofs` | lemmas about both and about sequences | `PtrVector` |
| `SortedVector` | a client that builds vectors with `PtrVector`, checked against the meaning | `PtrVector` |
| `Timeouts` | timeouts and the sleep until the first one | `PtrVector`, implements `HandlerLifecycle` |
| `TimeoutsProofs` | theorems of `Timeouts` and `SortedVector` | `Timeouts`, `SortedVector`, `VectorProofs` |
| `WorkerThread` | worker threads composed with the idlers | `INSTANCE Idlers` |
| `WorkerThreadProofs` | its theorems | `WorkerThread`, `INSTANCE IdlersProofs` |
| `FlowStaticType` | operators: accepted connection tables, connection ids | |
| `FlowStatic` | one instance of a static flow | `FlowStaticType` |
| `FlowStaticProofs` | its theorems | `FlowStatic`, `VectorProofs` |
| `Descriptors` | descriptor handlers and the poll table | `Vector`, implements `HandlerLifecycle` |
| `DescriptorsProofs` | its theorems | `Descriptors`, `VectorProofs` |
| `Coap` | a CoAP endpoint, its callbacks, the network and the peers | `Vector` |
| `CoapProofs` | its theorems | `Coap`, `VectorProofs` |
| `MC...` | connection tables and symmetry sets for TLC | |

Definitions whose names begin with `Mut` are variants of the definition that
follows them, each with a plausible mistake; they are used only to confirm that
a property notices it.

### MainLoopWakeup

The main thread's program counter `lpc` follows one iteration: `check` (the run
flag), `fd_process` and `prepare` (is there work; block or not), `ppoll`, `fds`,
`ack_read`/`ack_clear` (`main_thread_ack()`), `signals`, `handlers`. A section
under `ml_lock` is one step, taken while the lock is free, unless it contains a
`read()` or `write()`, which are steps of their own with the lock held. Other
threads post (any `sol_*_add()`) and call `sol_quit()`. `sighandler` may fire at
every point. Posted work is due at once.

### Idlers

`idler_vector` and the stolen vector are sets with one order relation; `todo` is
what the walk still has to visit. A step under the lock is atomic; what the pass
does without it (the status test, the assignment, the callback) is split into
steps between which other threads act. `OtherThreadsDel` says whether other
threads call `sol_idle_del()`. Callers follow the API: a handle is deleted once
and not after its callback returned false.

### Timeouts

Sequences sorted with the operators of `PtrVector`, a clock that advances by
itself, the pass with its own reading `now`, and the sleep in two steps, because
`timespec_first()` releases the lock before it reads the expiry. The
notification pipe is one flag; `MainLoopWakeup` justifies that.

In between `timespec_first()` asks the sources: their `get_next_timeout()` and
`dispose()` are code of the application on the main thread, which adds and
deletes timeouts there too (`InUserCode`, `MayAdd`, `MayDel`), without a
notification. `LateCalls` says whether they may put a timeout in front of the one
that was found (`"add earlier"`) or delete that one (`"delete first"`); what does
neither is always allowed.

### WorkerThread

The state of `Idlers` is part of its state, and each call of `sol_idle_add()` or
`sol_idle_del()` is the action of `Idlers` conjoined with the worker's own
changes. `tpc` is the thread, `body` the main thread inside a callback, `cpc`
the main thread inside `sol_worker_thread_cancel()`.

### FlowStaticType and FlowStatic

`FlowStaticType` is what is computed once per type: `setup_conn_specs()`,
`first_conn_idx`, `setup_conn_ids()`, the checks of exported ports.
`FlowStatic` runs an instance: opening nodes one by one, connecting, undoing in
reverse, delivering, closing. `delay_send` (the pointer) and `timer` (the
timeout in the main loop) are two variables, since the code's correctness is in
keeping them together. Nodes may send from open, connect and process callbacks
and from their own handlers. Packets are numbers in the order of sending; `got`
records the connections a packet was delivered on.

### Descriptors

`mpc` follows `fd_process()`: `prepared` (the table is made, `ppoll()` sleeps),
`polled`, `walk`, `cb`, `timeouts` (`sol_mainloop_common_timeout_process()` after
every callback). `pollfds` is the table; the `owner` of an entry is a history
field, which the code does not have: it finds handlers by number. `sol_fd_add`,
`sol_fd_del` and `sol_fd_set_flags` are called on the main thread wherever code of
the application runs, and on another thread at any time.

### Sources

The four walks (`prepare`, `timeout`, `check`, `dispatch`) have the same actions,
with the pass as parameter; `ReadyAfter` is what differs. `sweeps[t]` are the
calls of `source_cleanup()` of thread `t` that are inside `dispose()`, with the
index each goes on from; a sweep that goes on beyond the end of the vector sets
`strayed`, and nothing is said of what happens then. `owed` is history.

### Coap

Handlers run one after the other; a reply callback is a frame of `stack`, pushed
by the handler that calls it (`respond`, `timeout`, `unobserve`, `destroy`) and
popped by its `...Returns` action, which is the rest of that handler. In between
the callback may call the API, once. `monitor` is the socket's write monitor,
`timer` says whether a packet or a reply has its timeout set, `sent` are the
requests that reached the network: a peer may answer any of them at any time, any
number of times or never. `exchange` is history. What the application and the
socket do beyond the rules is a member of `Careless` (section 4).

## 3. Runs

| Run | Checks | Instance | Distinct states |
|---|---|---|---|
| `wakeup` | `WakeupTypeOK`, `NoLostWakeup`, `AckNeverBlocks`, `PostedWorkRuns`, `QuitStops` | 2 threads, 2 posts each, 2 signals, storage for 1 | 193,191 |
| `idlers_threads` | `TypeOK`, `NoDanglingIdler`, `PendingCoversDeleted` | 3 idlers, all threads delete, symmetry | 6,233 |
| `idlers_main` | `DeleteIsFinal`, `ImplementsLifecycle`, `PassEnds`, `AddedIdlerRuns` | 3 idlers, main thread deletes | 3,652 |
| `worker` | `NoUseAfterFree`, `FinishedOnce`, `EndedIsFinished` | a worker with feedback and one that is cancelled | 19,884 |
| `sorted_vector` | `StaysSorted`, `TouchedIsLastOfItsKey`, `OthersKeepTheirOrder` | 5 elements, 4 keys, symmetry | 2,056 |
| `timeouts_threads` | `NoDanglingTimeout`, `VectorsSorted`, `ImplementsLifecycle` | 3 timeouts of 0, 1 or 2 ms, all threads delete, sources do anything, symmetry | 148,110 |
| `timeouts_main` | `SleepsNotTooLong`, `DueTimeoutRuns` | 3 timeouts of 1 or 2 ms, main thread deletes, `LateCalls = {}` | 139,017 |
| `flow` | `DeliveredInOrder`, `RoutedToAll`, `LinksMatchNodes`, `GoneIsClean`, `QueuedIsSettled` | 4 nodes, one a sink, 25 connection tables, 3 packets | 538,587 |
| `descriptors` | `NoDescriptorOverslept`, `EventsReachTheirHandlers`, `ImplementsLifecycle` | 3 handlers, 2 numbers, all threads, symmetry | 317,102 |
| `sources` | `SourcesStayValid`, `ReadyIsDispatched`, `DeletedIsDisposed` | 3 sources, main thread deletes, `dispose()` too | 76,907 |
| `coap` | `RepliesSurviveCallbacks`, `NoPacketStalls`, `ObserversDiffer`, `NoCallAfterEnd`, `EveryRequestIsSettled`, `QueueDrains` | 2 requests of any kind, 1 observer | 215,506 |
| `worker_both` | `FinishedOnce` is violated | 1 worker with feedback, cancelled | |

Where a module's `TypeOK` is not checked by itself it is a conjunct of one of the
invariants.

Deadlock is not checked: a loop with nothing to do sleeps, a process may have
called `sol_shutdown()`, a flow or a server may be gone, and the bounds end the
others.

### Bounds

* `MaxPosts`, `MaxSignals`, `MaxPackets`, `MaxRuns`: how often the environment
  acts. Two posts per thread let a second notification fall in every place of
  the acknowledgement of the first; two signals overflow the storage of one.
  Three packets: one being delivered, one behind it, one sent meanwhile.
* `MaxPending`: `idler_pending_deletion` can grow beyond the number of idlers
  when other threads revive idlers (below); the bound lets it exceed it.
* `MaxClock`: two ticks cover a timeout that becomes due before, in and after a
  pass, and a periodic one that is due again. Timeouts whose expiry lies behind
  the last tick do not expire.
* `MaxRuns = 1`: `sol_run()` once. With 2, `NoUseAfterFree` is violated through
  the reviving of idlers that section 4 describes.
* Five vector elements reach every path of the binary search, with runs of equal
  keys at both ends.
* Four nodes of `flow`: a source, one that receives and sends on, one that receives
  from both, and a sink, whose in port `setup_conn_ids()` does not come to.
* The connection tables of `flow` are all of up to two connections out of five
  (two ports of a node, a chain, an error port), and four with three connections
  or a port without a packet type; unsorted ones must be refused.
* Three handlers and two numbers: one handler is called while a second, with the
  number of a third that was closed, takes its place. One kind of event is
  enough, since the walk looks at whether there is any.
* `MaxNesting = 2`: a `dispose()` deletes a source, the `dispose()` of that one
  deletes none. Three sources: one in each sweep and one that stays.
* `MaxRetransmit = 2`: a first attempt, a retransmission, giving up (the code has
  4). `MaxRequests = 2`: one exchange in a callback of the other. `MaxId = 3`
  leaves an id for the unobserve packet that ends an observation; requests that
  would need more are not made. `MaxQueue = 2`: an answer to a peer waits behind
  a request that is retransmitted; requests join the queue at any time.

### Fairness

`MainLoopWakeup` and `WorkerThread`: weak fairness of the main thread and of each
thread inside an API call, which is what the kernel's scheduling gives; no thread
has to post, quit or cancel. `Idlers` and `Timeouts`: weak fairness of the main
thread's steps, that is, of the loop and of callbacks that return; time does not
have to pass. `Sources`: the same, and `dispose()` returns. `Coap`: callbacks
return (weak fairness); the main loop keeps serving the socket and the timeouts,
which are disabled again and again while callbacks run, so that strong fairness
is what it gives them: some `sendmsg()` succeeds, some retransmission timeout
that is set fires, each reply's timeout fires. Nothing has to arrive, and nobody
has to call the API. `FlowStatic`: weak fairness of the library's steps; nodes
need not send, and nobody has to open or close the flow.

## 4. Disagreements found

* `worker_both`: `sol_worker_thread_feedback_dispatch()` clears `thread->idler`
  (`sol-worker-thread-impl-posix.c:206`) although the thread may have stored the
  finishing idler there. A later cancel finds nothing to delete, frees the
  struct, and the idler finishes it again.

The others are seen by changing a constant in the configuration of a passing run;
`hazards` in `PROJECT.json` quotes the documentation they are at odds with, if
any.

| Configuration | Change | Violated | What happens |
|---|---|---|---|
| `MainLoopWakeup.cfg` | `EarlyThreads = TRUE` | `QuitStops` | `sol_mainloop_impl_run()` sets the flag after `sol_quit()` cleared it |
| `Idlers_main.cfg` | `OtherThreadsDel = TRUE` | `DeleteIsFinal` | the pass tests and assigns `idler->status` without the lock (`sol-mainloop-common.c:256`), and a `sol_idle_del()` in between is undone |
| `Timeouts_main.cfg` | `Periods = {0, 1}` | `DueTimeoutRuns` | two 0 ms timeouts take each other's place at the fixed `now`, and the pass does not end (`sol-mainloop-common.c:206`) |
| `Timeouts_main.cfg` | `OtherThreadsDel = TRUE` | `SleepsNotTooLong` | `timespec_first()` reads a timeout after the lock was released, and it may be freed |
| `Timeouts_main.cfg` | `LateCalls = {"add earlier"}` | `SleepsNotTooLong`, `DueTimeoutRuns` | a source adds a timeout in `get_next_timeout()`; the sleep is already decided by another one, and the main thread does not notify itself (`sol-mainloop-common.h:96`) |
| `Timeouts_main.cfg` | `LateCalls = {"delete first"}` | `SleepsNotTooLong`, `DueTimeoutRuns` | a source deletes the timeout that was found, and `timespec_first()` reads it (`sol-mainloop-common.c:310`) |
| `FlowStatic.cfg` | `INVARIANT EveryInIdDiffers` | `EveryInIdDiffers` | `setup_conn_ids()` walks in ports up to `ports_out_count` (`sol-flow-static.c:701`); connections beyond that, and so all that lead to a sink, have id 0 |
| `Descriptors.cfg` | `ReusedEarly = TRUE` | `EventsReachTheirHandlers` | a number closed and reopened between `fd_prepare()` and the walk: the new handler gets the old events |
| `Descriptors.cfg` | `ChangedLate = TRUE` | `NoDescriptorOverslept` | a handler that `get_next_timeout()` adds is not in the table and nobody notifies |
| `Sources.cfg` | `OtherThreadsDel = TRUE` | `SourcesStayValid` | two threads sweep; one shortens the vector while the other is in `dispose()`, and the other goes on beyond the end (`sol-mainloop-common.c:355`) |
| `Sources.cfg` | `MaxNesting = 3` | `SourcesStayValid` | the same on one thread, with deletions in `dispose()` three deep |
| `Coap.cfg` | `Careless = {"true after cancel"}` | `NoCallAfterEnd` | a callback cancels its request and returns true; `respond_packet()` keeps the reply (`sol-coap.c:1630`) |
| `Coap.cfg` | `Careless = {"cancel others"}` | `RepliesSurviveCallbacks` | a callback cancels another reply, and the walk over the vector skips or repeats |
| `Coap.cfg` | `Careless = {"calls on destroy"}` | `RepliesSurviveCallbacks` | a callback called by `sol_coap_server_destroy()` sends or cancels |
| `Coap.cfg` | `Careless = {"send error"}` | `NoPacketStalls` | `sendmsg()` fails other than with `EAGAIN`: the write monitor goes off with packets waiting (`sol-coap.c:816`) |

Two more are part of the models and contradict none of the properties: a port
without a packet type leaves connections behind (`ConnectUntyped` of
`FlowStatic`), and an unobserve packet from a peer that is not registered
registers it (`register_observer` of `Coap`).

## 5. Proofs

Checked with TLAPS; they hold for every value of the constants that satisfies
the named assumptions of the modules, which say what the constants are and
little more: the names of threads and the value for "no handler" differ from the
others, the bounds are natural numbers, and the handlers are finitely many
(`WakeupAssumption`, `IdlersAssumption`, `DescriptorsAssumption`,
`SortedVectorAssumption`, `TimeoutsAssumption`, `LateCallsAssumption`,
`SourcesAssumption`, `WorkerAssumption`); connection
tables are sequences of connections and nodes send on ports they have
(`FlowTypeAssumption`, `FlowAssumption`); `MaxRetransmit` is at least 1 and there
are ids for all requests (`CoapAssumption`). Where a theorem has a hypothesis of
its own, the property is false without it: section 4 shows the behaviour.

**`MainLoopProofs`** is about the sources and about the wakeup.

*Sources*, for any number of sources and threads: `ReadyAlwaysDispatched`
(`ReadyIsDispatched`), whoever deletes and however deep, and `SourcesAlwaysValid`
(`SourcesStayValid`) if only the main thread deletes and deletions in `dispose()`
nest at most two deep. Without either the property is false (section 4).
The invariant (`SourcesInvariant`) says that both vectors together hold what
is allocated, once (`MemoryInv`); that the sweeps inside `dispose()` are inside
that of different sources (`FrameInv`); that a source is counted until it is
freed (`CountInv`); what is true at each place of `fd_process()` (`PlaceInv`);
and that a source which said it is ready has been passed by the walk that
prepares and is still in front of the one that dispatches (`OwedInv`). `SweepInv`
says why a sweep that goes on after `dispose()` is still inside the vector. During
a pass a deletion in `dispose()` only marks, and the vector does not get shorter.
Outside, it sweeps at once: the inner sweep has in front of its index everything
that is marked, so that it leaves nothing for the outer one, which then stops
without looking at the vector again. A third level, or a second thread, can
leave something marked and a vector that is too short.

*Wakeup*: `WakeupTypeCorrect`, `NeverLosesWakeup`
(`NoLostWakeup`), `AckDoesNotBlock` (`AckNeverBlocks`), for any number of
threads, with `EarlyThreads` either way. Neither is inductive: whether the loop
is woken depends on what `have_notified` means. The invariant adds
`NotifiedInv` (the flag is up exactly while a byte is in the pipe, about to be
written, or read and not yet acknowledged), `OneByte` (those exclude one
another), `LockInv`, `ReadableInv` (a byte that `ppoll()` saw stays) and
`SleepInv` (from the last test on, a quit or a post has a wakeup coming).

**`IdlersProofs`**: `TypeCorrect`, `MemorySafe` (`NoDanglingIdler`),
`CounterCovers` (`PendingCoversDeleted`), whoever deletes, and `DeleteFinal`
(`DeleteIsFinal`) when only the main thread does, a hypothesis without which it
is false (section 4). The three invariants depend on one
another: the sweep stops when its count is used up, so it frees all marked idlers
only if the count covers them (lemma `Sweep`), and a vector given back by the
pass is free of marked idlers only if the sweep did. `OrderInv` and `PassInv`
complete the induction. `Refinement` (`ImplementsLifecycle`, same hypothesis as
`DeleteFinal`) maps every step to one of `HandlerLifecycle` or to none; both
rest on `WaitingInv`, that the idler about to be made ready is still waiting.

**`VectorProofs`**: lemmas about sequences. What a walk that deletes leaves
behind (`Kept`) is defined by recursion over the length; the provers cannot apply
the library's induction theorems, so an induction is turned into the choice of a
least counterexample: lemma `Least` gets it from the well-foundedness of `<` on the
natural numbers, and the step is then shown for that one number. `KeptEntries` says
that the result has exactly the entries kept, once each and in their order.
The binary search of `ptr_vector_find_sorted()` is a recursion over ranges of indices,
so the least counterexample is one of least width: `FindSorted` says that in a sorted
vector it ends at an equal key, or at the first greater one, or at the last entry if
all keys are smaller. From there `InsertIndexSplits` shows that the place of an
insertion has all keys that are not greater in front and all greater ones behind, and
`InsertedSorted` and `UpdatedSorted` what the two operations leave, the update under
the condition that the other entries are sorted.

**`FlowStaticProofs`**, for any number of nodes, connection tables, ports and
packets: `LinksAlwaysMatch` (`LinksMatchNodes`), `GoneAlwaysClean`
(`GoneIsClean`), `AlwaysDeliveredInOrder` (`DeliveredInOrder`), `AlwaysRoutedToAll`
(`RoutedToAll`). The invariant (`FlowInvariant`) says at each place which nodes are
open and which connections are made (`LinkInv`); that the packets in the queue are
those that are neither delivered nor given up, in the order of sending, and wait for
a timeout that is set (`QueueInv`); which connections the packet being delivered has
reached (`RouteInv`); and that what was delivered is older than what waits
(`OrderInv`). That ids differ on a port (`IdsDiffer`) is a fact about counting the
connections in front of one; it is claimed for the connections that
`setup_conn_ids()` numbers, while the routing half of `RoutedToAll` is about all of
them. No theorem has a hypothesis on the ports: nodes may be sinks.

**`CoapProofs`**, for any number of requests, observers and peers and any nesting
of callbacks: `RepliesAlwaysSurvive` (`RepliesSurviveCallbacks`),
`ObserversAlwaysDiffer` (`ObserversDiffer`), `PacketsNeverStall`
(`NoPacketStalls`), `NeverCalledAfterEnd` (`NoCallAfterEnd`). At the centre is
`Coherent`, a relation between the pending replies and the callbacks that run: a
reply is in use exactly while one runs for it, the flag that `SOL_REENTRANT_CALL`
saved says whether another one below does, and a walk's index is where its reply is.
`StackInv` says which handlers can be below which, `CountInv` that the ids do not
run out, `OverInv` that the reply of an exchange that is over only waits for its
callback to return. The hypothesis `CallbacksKeepRules` excludes callbacks that
cancel the replies of others during a walk or call the API of an endpoint that is
being destroyed; `PacketsNeverStall` excludes errors of `sendmsg()` other than
`EAGAIN`, `NeverCalledAfterEnd` callbacks that return true after cancelling.
`ObserversAlwaysDiffer` needs none of them.

**`DescriptorsProofs`**, for any number of handlers, numbers and threads:
`NeverOversleeps` (`NoDescriptorOverslept`, if no `get_next_timeout()` adds handlers
or changes flags), `FoundByNumber` (`EventsReachTheirHandlers`, if no number is
closed and opened again between `fd_prepare()` and the walk) and `Refinement`
(`ImplementsLifecycle`, without a hypothesis). The common invariant
(`DescriptorsInvariant`): both vectors together hold what is allocated, once
(`MemoryInv`); the count of pending deletions is exact, and no mark outlives the walk
(`CountInv`); while `fd_changed` is not set the table is up to date (`TableInv`).
`SleepInv` adds what the sleep needs. The search by number rests on
`MatchInv` and `ReachInv`: the entries of the table are in the order of the vector
that is walked (`Maps`), so that an entry is never behind the index when its handler
is looked up (`Reaches`), and `nfds` counts the entries in front (`Pending`), so that
the walk does not stop early.

**`TimeoutsProofs`**, for any number of timeouts, periods and threads:
`NeverDangles` (`NoDanglingTimeout`), `AlwaysSorted` (`VectorsSorted`), `Refinement`
(`ImplementsLifecycle`), all with deletions from every thread, and `SleepsInTime`
(`SleepsNotTooLong`) when only the main thread deletes and `LateCalls` is empty. The
last needs both: other threads and sources can each break it (section 4). The invariant
(`TimeoutsInvariant`) has the same `MemoryInv` and `CountInv` as the descriptors, and
`VectorsSorted`. Memory and order depend on one another: the places where timeouts are
inserted and moved are right only in sorted vectors, and a timeout that is armed anew
leaves the other vector sorted only because it is in one of them, once. After that
change its own vector is sorted except at the index of the pass, which is what
`UpdatedSorted` asks for; `MergedEntries` does the same for
`timeout_vector_update()`, one insertion after the other. `SleepInv` carries the sleep
over the gap in `timespec_first()`: the timeout that was found is still live, and
nothing expires before it unless a notification is pending. In the gap sources add only
behind it, which `AddSleeps` uses, and delete only others, which `DelSleeps` uses.

The same module holds the theorems of `SortedVector`, for any finite set of elements
and any keys: `ClientSorted` (`StaysSorted`), `TouchedAlwaysLast`
(`TouchedIsLastOfItsKey`), `OrderIsKept` (`OthersKeepTheirOrder`). The invariant is the
first two with the types: an update breaks the order at one index only, so what is left
without that entry is sorted, and the last of its equals is what the strict comparison
with the right neighbour in `sol_ptr_vector_update_sorted()` is for.

**`WorkerThreadProofs`**, for any finite set of workers and of feedback idlers:
`UsesIdlers` says that the idlers under worker threads take only steps of `Idlers`, so
that all theorems of `IdlersProofs` hold of them, with deletions from every thread.
`NeverUsedAfterFree` (`NoUseAfterFree`) and `AlwaysFinishedOnce` (`FinishedOnce`) hold
if no worker both sends feedback and is cancelled and if `sol_run()` is called once
(`Separate`). Without the first the run `worker_both` violates `FinishedOnce`; without
the second TLC violates `NoUseAfterFree` (section 3, bounds). The invariant
(`WorkersInvariant`) says how the struct, the thread, its lock and a cancellation go
together (`ThreadInv`), where the main thread is in a callback (`MainInv`), which state
the finishing idler is in (`FinInv`), and, as the core, that a feedback idler which can
still be called is in front of the finishing one (`FeedbackInv`, `WaitsFor`). That is
not obvious: the end of the thread deletes the pending feedback idler, but the main
loop may be between the test and the assignment of its status and revive it. It is
then in the pass that runs, while the finishing idler, added during that pass, waits
for the next one; or both wait in the same vector, the feedback idler first. The pass
keeps this order until the walk has come to the feedback idler (`WalksKeepWaiting`),
unless it is told to stop, after which nothing is called in the only run.

Only model-checked: all liveness properties (`PostedWorkRuns`, `QuitStops`,
`PassEnds`, `AddedIdlerRuns`, `EndedIsFinished`, `DueTimeoutRuns`,
`QueuedIsSettled`, `DeletedIsDisposed`, `EveryRequestIsSettled`, `QueueDrains`),
which need fairness and are out of the prover's reach. Every invariant and action
property of a passing run is stated by a theorem.

## 6. Not modelled, and the plan

Done, in this order: wakeup, idlers, worker threads, vectors, timeouts, static
flows, CoAP, sources, descriptors. Next:

1. Child watches, on top of the signal storage of `MainLoopWakeup`.
2. `FlowStatic`: a flow inside a flow, through exported ports, and nodes that
   send while they are closed.
3. Delayed writes of the memory-map storage and their cancellation.
4. The registration of an LWM2M client over `Coap`.

Risks that were met while reading and are outside the models: a `dispose()` that
deletes a source in `sol_shutdown()` (`sol-mainloop-common.c:522`);
`sol_fd_del()` of a handle that is deleted already, which counts it twice
(`sol-mainloop-impl-posix.c:775`); `sol_fd_add_flags()`, which reads and writes
the flags without the lock in between and does nothing if one of them is set
(`sol-mainloop.c:407`); exit statuses that are forgotten when `sol_quit()` stops
`child_watch_process()` (`sol-mainloop-impl-posix.c:491`); an allocation that
fails in the second half of `sol_ptr_vector_update_sorted()`
(`sol-vector.c:297`); an `options_size` that is too small, with which an undone
open is reported as a success (`sol-flow-static.c:434`); a `process()` that
deletes its flow (`sol-flow-static.c:340`); a node that sends from `disconnect()` or
`close()`, whose packet leaks, or, when `delay_send` is NULL, leaves a timeout that
points to the freed flow (`sol-flow-static.c:350`); in `sol-coap.c`, a reply callback
that drops the last reference to the server, which frees it under `respond_packet()`
(1800), cancelling by the
address of a packet that may have been freed (2110), ids that repeat after 65535
requests (1164), and the subscription to network events that outlives the server
(1931).

Left out of the models that exist: allocation failures (except where the code's
reaction to a failing callback covers the same path), `sol_init()`/
`sol_shutdown()` counting, the builds without threads or on GLib, Contiki, RIOT
and Zephyr, and the contents of packets, options and paths included.
`sol_timeout_del()` and `sol_idle_del()` test the handle once before they take the lock
(`sol-mainloop-common.c:593`, `640`); the models make test and section one step, which a
handle that is deleted once cannot tell apart. A pass that is entered after `sol_quit()`
in the same iteration is left at once; the models do not enter it. `POLLERR` and
`POLLHUP`, which `ppoll()` reports unasked, are not among the events of `Descriptors`.
Notifications of `Coap` are sent once, although an application may choose the type CON
for them (`sol-coap.c:1054`). With `"cancel others"` a walk over replies whose index is
beyond the shortened vector goes on from the vector's end, where the code stops.

Left out altogether: parsers, node
types, drivers, external protocol libraries, tools; `PROJECT.json` gives the
reason for each.
