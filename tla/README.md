# Verification of Clarion

Clarion is a peer-to-peer node. This directory holds TLA+ models of its own core code, the
TLC configurations that check them on small instances, and theorems that TLAPS proves for
every instance: each safety property that a run checks is one of them. Paths below are relative to the repository
root; `net/` stands for `libraries/net/` and `appbase/` for `libraries/appbase/`.

## The system

The repository holds two halves that do not yet meet in one process.

*The native node* (`programs/clarionc`). `main` runs `initialize`, `startup` and `exec` of an
appbase application whose only plugin is `net_plugin`. The plugin starts a listener and
connects to the configured remote endpoints; accepted sockets speak HTTP until a request asks
for a websocket; what arrives on one websocket is broadcast to all of them.

*The WASM bridge*. A guest program written against `libraries/clintrinsics` (C++ coroutines)
is run by a host, a node process (`packages/d`) or a browser (`packages/pwa`,
`packages/app`). `packages/bios` implements the imports of the guest: objects of the host are
named by indices into a table, results come back through callbacks.

| Component | State | Operations | Talks to |
|---|---|---|---|
| websocket session, shared state (`net/websocket_session.cpp`, `net/shared_state.cpp`) | the registry `sessions_` of raw pointers; per session the stream, `queue_`, `buffer_`, and the handlers that own it | `run`, `connect`, `on_accept`, `on_read`, `send`, `on_send`, `on_write`, destructor; `join`, `leave`, `send` | handlers posted through the `io_context`; the registry is shared by all sessions |
| listener, HTTP session, net plugin (`net/listener.cpp`, `net/http_session.cpp`, `net/net_plugin.cpp`) | acceptor; per connection a parser, a buffer, a stream with a timeout | `plugin_startup`, `on_accept`, `do_read`, `on_read`, `on_write`, `do_close`, `fail`, `handle_request` | hands the socket over to a websocket session |
| plugin lifecycle (`appbase/application.cpp`, `application.hpp`, `plugin.hpp`) | state per plugin, `initialized_plugins`, `running_plugins`, `_is_quiting` | `initialize`, `startup`, `shutdown`, `quit` | calls back into the plugins, which call the plugins they require |
| main loop (`application::exec`, `execution_priority_queue.hpp`) | the `io_service`, `handlers_`, `order_` | `post`, `add`, `execute_highest`, `exec`, `quit` | signals, other threads, handlers that post |
| signals (`application::startup`, `setup_signal_handling_on_ios`) | two `signal_set`s on two `io_service`s over one pipe of the process | arm, deliver, `stop`, `join`, arm again | startup thread and main thread |
| methods (`appbase/method.hpp`) | providers sorted by priority | `register_provider`, `unregister`, call through a policy | plugins |
| channels (`appbase/channel.hpp`) | subscribers | `subscribe`, `unsubscribe`, `publish` | main loop |
| guest coroutines and handles (`clintrinsics/coroutines.hpp`, `basic.hpp`) | tasks, awaitables in use, handles | `start`, `co_await`, `run`, release | host callbacks |
| guest database (`clintrinsics/database.hpp`) | handles of databases, transactions, cursors; `committed` | `openDb`, `createTransaction`, `setKV`, `everything`, `++`, `commit`, `abort`, destructor, `close` | host handlers |
| guest connections (`clintrinsics/connection.hpp`) | handle, four callbacks; the host keeps a raw `this` | `connect`, `listen`, `setup`, `sendMessage`, `close` | host handlers, which call back at every event |
| guest crypto (`clintrinsics/crypto.hpp`) | none | one call per operation | host handlers |
| host handlers (`packages/bios`) | the object table, which only grows | one handler per import | database and connection manager |
| node server (`packages/d`), browser hosts (`packages/pwa`, `packages/app`) | LMDB or IndexedDB, `ws` or browser websockets, the context | open, close, put, cursor; connect, message, close; create the context | bios interfaces |
| serialization (`libraries/clio`), keys (`libraries/clcrypto`) | none | pack, unpack, key order, base58 | everything that stores or sends |

What makes each of them hard, and what makes it correct:

- *Sessions.* No object owns a session; it lives while a handler bound to it waits. The
  registry points to it without owning it. Two handlers, `on_send` and `on_write`, share the
  duty of starting the next write and each relies on the other. Correct means: members see
  one order of messages without gaps, the write under way is of the queue's front, no pointer
  outlives its session, a session that fails goes away.
- *HTTP.* Pipelined requests, timeouts that race answers, a socket that changes its owner.
- *Lifecycle.* A recursion over a graph of requirements in which any step may throw and quit
  may come from another thread. Correct means: order of dependencies both ways, nothing shut
  down that did not start, nothing left running on a clean exit.
- *Loop.* Two queues in a row; priorities, first in first out within one; quit in the middle.
- *Signals.* Two reactors reading one pipe during the hand-over.
- *Methods.* The list of providers changes under a call.
- *Bridge.* Lifetimes cross a language boundary, asynchronous failures have no way back to
  the guest, callbacks interleave with the guest's own coroutines.

`PROJECT.json` lists the hazards at the lines where they bite, with the properties that cover
them or the reason why none does yet.

## Modules

```
Broadcast <---refines--- WebsocketSession <---INSTANCE--- NetServer
                              ^                          ^         ^
                 WebsocketSession_proofs <--INSTANCE-- NetServer_proofs  MCNetServer

KvStore <---refines--- GuestDb ---INSTANCE---> GuestTasks          GuestConnection

PluginLifecycle          ExecLoop          SignalHandover          MethodDispatch
```

`M_proofs` EXTENDS `M` and holds the theorems about it; `GuestDb_proofs` uses those of
`GuestTasks_proofs` as `NetServer_proofs` does those of `WebsocketSession_proofs`. The theorems
about `SignalHandover` are at the end of `ExecLoop_proofs`, which takes an instance of it:
both are about `application::exec` and what leads to it.

The four appbase modules are separate views of one process. `PluginLifecycle` takes the loop
as the single step `ExecReturns`, `ExecLoop` takes shutdown as the single step
`ShutdownReturns`, and both take a signal as a call of `quit`; `SignalHandover` shows when a
signal does become such a call. `MethodDispatch` has of the loop what a publication meets: the
poll and the choice of the highest priority.

The three guest modules are the WASM bridge: `GuestTasks` is what coroutines do with a host
that answers later, `GuestDb` puts the database on top of it, and `GuestConnection` is the
part in which the host calls first. A configuration names the module it checks where that
needs no definitions of its own; `MCNetServer` has some.

### WebsocketSession, the core

One thread runs the `io_context`, so each completion handler is one atomic action and the
interleaving is that of handlers.

| Model | Code |
|---|---|
| `phase[s]` | the awaits of `connect()`, `async_accept` of `run()`, then open, then destroyed |
| `sessions` | `shared_state::sessions_` |
| `reading[s]`, `writing[s]`, `posted[s]` | handlers that hold `shared_from_this()`: `on_read`, `on_write`, the posted `on_send`s |
| `queue[s]` | `queue_` |
| `broken[s]` | the stream failed; Beast fails every later operation on it |
| `count`, `joinedAt`, `delivered` | history: broadcasts so far, that number at join, messages written |

`Run`, `Connect`, `ConnectProgress`, `Opened`, `OpenFailed`, `OnRead`, `OnReadError`,
`OnSend`, `OnWrite`, `OnWriteError` are the handlers. `OnRead` contains the whole of
`shared_state::send`: the snapshot of the registry and one post per member, the sender
included. Each handler ends in `ReleaseUnless`: if it was the last to own the session, the
destructor runs, which calls `leave`. A message is the number of the `send` that made it.

`Broadcast` is what the sessions promise as a whole: messages get numbers, a member receives
those sent while it is a member, in order. It knows nothing of queues, handlers or writes.
`WebsocketSession` implements it with the identity mapping of the shared names (`Refines`).

### NetServer

Composes `WebsocketSession` with what is in front of it. A connection keeps one identity from
`OnAccept` through its HTTP session (`http[c]`) to the websocket session with the same name.
`OnRequest` reads one pipelined request and either starts a response or hands the socket over
(`WS!Run`). `OnAcceptError` disarms the acceptor for good, as `on_accept` returns without
arming it. A request is a record of what the tests of `handle_request` tell apart. A step of
the server is one of the sessions or leaves them alone (`SessionStep`, `UNCHANGED wsVars`):
that is how the modules are composed, and no property says it again.

### PluginLifecycle

`stack` is the recursion of `plugin<Impl>::initialize` and `startup`; a frame holds the
required plugins still to visit. The initial states range over every acyclic requirement on
three plugins and every set of plugins asked for. Each callback returns or throws; `Quit`
may come at any step of startup and exec.

### ExecLoop

`io` is the `io_service`, `handlers` the priority queue. A post passes through both, because
the associated executor of a posted function adds it to the priority queue instead of
calling it. `pc` is where the loop is: `PollOne` until `PollNothing`, then `ExecuteHighest`,
`HandlerReturns` or `HandlerThrows`, then `Loop` with its blocking `run_one`. `Quit` may come
from any thread at any moment until `exec` has returned.

The queue takes the highest priority and ages nobody. So `HandlersRun` has a condition,
`PostsEnd`: a handler that posts itself again and again starves those of lower priorities, and
posts that come faster than they are polled keep the loop at `poll_one`. `MaxPosts` makes the
condition true of the run. What holds without it is `OnlyHigherOvertake`, a part of
`RunInOrder`: a handler that waits is overtaken by higher priorities only.

### SignalHandover

Asio is external here and is modelled by what the code relies on: one pipe per process, a
reactor that is being run reads it and completes the wait of every registered `signal_set`,
as a handler in the queue of that set's own `io_service`; a stopped service runs no handler.
`ThreadReads` and `ThreadQuits` are two steps because reading the pipe and running the
handler are two turns of `io_service::run`, with a test for `stop` between them. A handler
that is running when `stop` is called needs no state of its own: the main thread only joins
until it has ended, so its step commutes to before the stop.

### MethodDispatch

Methods and channels are both a signal with a combiner, so they share a module: `policy` says
which it is. `InsertPlace` is the end of the group of a priority, `Without` a list after a
slot of it was disconnected. `iterating` is what the call has still to visit; Boost.Signals2 is external and is modelled
as documented: a slot disconnected during a call is skipped, one connected is not reached. A call of `first_provider_policy` without providers dereferences the end of the range; the
model gives it the outcome `Undefined` and goes no further. On a channel `Publish` and
`RunPublished` are the two halves of `publish`: the look at the subscribers, and the posted
handler, between which anything may happen. A publication without subscribers is dropped, one
that found some goes to whoever is subscribed when its handler runs. Each is posted with a
priority of its own (`urgency`). `Poll` is what the main loop does before it takes a handler:
what is published later (`n > visible`) is not in the priority queue yet, and of what is there
the highest priority goes first, then the oldest (`RunsFirst`). `MayPrecede` is the order that
remains for a subscriber; of two publications of one priority it is that of publication. Other
handlers of the loop are left out, since they neither publish for the loop nor reorder it. Moving a `handle` onto
one that is in use (`channel.hpp:72`) drops the old connection without disconnecting it; such
a subscriber is one that never leaves.

### GuestTasks

The guest's coroutines over the host's asynchronous handlers. `stack` is the call stack of
the guest: an entry is a frame and what it is on the stack for, its own code (`body`), a host
call that has not returned (`call`), `await_suspend` of a task it awaits (`await`), or its
`final_suspend` (`final`). Resumption nests: `Finish` puts the parent on top of the child's
`final` entry, a synchronous callback puts the task on top of its own `call` entry. `attached`
are the awaited tasks whose `Task` object still holds its promise, from `Await` to `Detach`,
which is the `promise = nullptr` after the nested `resume()` has returned. While guest code is
on the stack no handler of the host goes on, hence the guard `stack = <<>>`. `HostAnswers`
stands for the handlers of `packages/bios` that await and then call `wasmCallback`,
`CallHostAtOnce` for `diffieHellman`, which awaits nothing, `HostFails` for `throwError` in a
handler and for promises that never settle: no guest code learns of either. `HostThrows` is an
exception of a synchronous import: it unwinds the guest's frames down to the host's code that
entered them (`Unwound`), which destroys nothing, so a task in its own code is suspended for
ever (`hung`) and one in its `final_suspend` never frees its frame (`leaked`).
`MayFinishAtOnce = FALSE` restricts the guest to programs like `tests/web/a.cpp`, in which a
task that is awaited suspends before it ends.

### GuestDb and KvStore

`GuestDb` adds to each task of `GuestTasks` the locals of `testDb`: one database, at most one
transaction, the position of its range. `trx[t]` is the transaction as LMDB and the flag
`committed` have it, `view[t]` what it sees, `writer` who holds the one write lock.

The handlers are asynchronous for the guest but reach LMDB before their first `await`, so
their effect belongs to the call and only the callback comes later (`Ask`, then `HostAnswers`
or `HostFails`); `doomed` are the calls that will fail. `CreateTransaction`, `Commit` and
`Abort` return at once or throw through the guest (`Guest!HostThrows`), which a second commit or
abort always does (`EndAgain`). `OpenDb` succeeds only while nobody holds the write lock, since
`openDbi` with `create` begins a write transaction of its own. `Finish` destroys the
locals first: an open transaction is aborted, one that was aborted before is aborted again,
which throws. `CloseDb` contains the start of `printStats`, up to its `await`; `PrintStats` is
the rest, which meets a closed database and may die of it. `lost` counts the reader slots that
no code will ever free: that of `statTxn` (`db.ts:63`) with each close.

LMDB and node-lmdb are external: one write transaction in the environment, a second one
refused with an exception since it would block the only thread; `MaxReaders` slots; a commit
replaces the pages as a whole, a failed one ends the transaction; what was committed is on
disk; no call blocks the thread of the host for ever. `Restart` is the end of the process at any moment, be it by a signal, by the exit on an
uncaught exception (`packages/d/src/index.ts`) or by a crash.

Assumed of the guest: it puts and iterates no more in a transaction that it has ended. Not included: calls
that the host answers before it returns, and discarded tasks, which `GuestTasks` has and no
database call makes.

`KvStore` is the promise: a transaction sees the content as of its beginning with its own
writes on top, a commit changes the keys it has written and no other, everything else leaves
the content alone. The refinement maps `trx` to `mode`, where ended is ended; that the commit
of whole pages changes nothing but the written keys is `WriterIsCurrent`, that is, the lock.

### GuestConnection

`object[c]` and `handle` are the guest's side, `socket[c]` and `inbox[c]` the websocket's, and
`told[c]` is what the guest was called back with. `dangling` collects the events whose
`Connection` was gone, where the code would follow a dangling pointer.

`Dispatch` is one event of the event loop. A promise that is settled goes on before the next
one, hence the guard `Idle`; `resolving` are the sockets between their `open` event and the
continuation of `connect`. On node there is one exception (`MayDispatch`): `ws` gives out what
came with the answer to the handshake from a tick, and ticks precede promises, so `onMessage`
may be called before the handle is set. In a browser a binary message is a `Blob` that is read
asynchronously (`BlobRead`), while text messages, other reads and the close event go ahead.

The guest of the model sends and closes only with a handle it has, and destroys a
`Connection` only when it has been told of its end, as the server side of `tests/web/a.cpp`
does. `testNet` there does not: it returns after `close()` and its `Connection` is gone before
the close event comes; that is the mutant `HasClosed`. `never` is a socket that was never made
because what `connect` read as the address (`connection.hpp:121`, a string that is gone by the
time the host reads it) was none.

### Defective variants

Some operators are marked `Defect`. No action uses them: each is a variant of the operator
below it with a plausible bug, and `PROJECT.json` (`mutants`) says which property fails when
it takes that operator's place. They show that the properties are not vacuous.

## Runs

| Run | Shows | Bounds |
|---|---|---|
| `sessions` | sessions implement `Broadcast`; order, queue, registry; members get every message; broken sessions go | 3 sessions, 2 messages |
| `server` | one owner per socket, pipelined order, a socket is upgraded only when nothing is owed on it, HTTP connections and handshakes end | one accepted and one made connection, 3 requests, 1 message |
| `plugin_lifecycle` | order and completeness of initialize, startup, shutdown | 3 plugins, all acyclic requirements |
| `exec` | nothing lost, priorities, order, drain at quit; quit and signals end the loop, handlers run once the posts end | 3 priorities, 4 posts, 1 signal |
| `signal_handover` | late signals are not lost, startup returns | 2 plugins, 3 signals |
| `signal_lost` | *violation*, see Findings | 1 plugin, 1 signal |
| `method_dispatch` | order, result and completeness of a call; no publication missed or overtaken but by a higher priority or ahead of the poll | 3 providers, 2 priorities, 2 calls or publications |
| `method_void` | *violation*, see Findings | 2 providers, 1 call |
| `guest_tasks` | frames are destroyed once, nothing touches a dead one, each waiter has one resumer, every task ends or waits for a failed call | 3 tasks, 2 host calls each |
| `guest_tasks_at_once` | *violation*, see Findings | 2 tasks |
| `guest_db` | commits are atomic, isolated and durable; no lock or reader slot outlives its task; a writer ends or is stuck | 2 tasks, 3 host calls each, 2 keys, 1 value, 2 readers |
| `guest_connection` | no callback through a dangling pointer, order of messages, the handle is there, whoever waits is answered | 2 connections, 2 messages each, both hosts |

Why the bounds are enough. Three sessions are a sender, a member that keeps up and one that
lags, fails or joins in between; two messages fill a queue beyond its front, where both
branches of `on_send` and of `on_write` are taken. Three plugins give the
chain, the fork and the diamond without its tip, twice-visited plugins included. Four posts on
three priorities give two of one priority with others around them. Three providers with two
priorities give a tie, and changes before, at and behind the running one; two publications are a
tie or an overtaking, before or behind a poll. Three tasks are a
parent, its child and a grandchild or a sibling; two calls are one answered at once and one
answered later. Two tasks with a transaction are a writer that meets a reader or another
writer, or awaits it; three host calls are an open and two writes, or a write and a read; one
value tells a key that is there from one that is not, which is all a lost or a torn commit
changes; two reader slots are one for a task and one that `printStats` takes. Two connections
are one made and one accepted, or a promise and an event that must not meet; two messages are
an order. For the safety properties the proofs remove the bounds.

`CHECK_DEADLOCK FALSE` stands where the behaviours really end: when the bounds on messages,
requests, posts, signals or calls are used up and everything started has finished, nothing is
left to do. `plugin_lifecycle` checks for deadlock, with an explicit step for a main that has
returned.

### Fairness

- Sessions: posted handlers run (the `io_context` has one thread that never blocks); a write
  completes or fails, since the peer reads or its connection breaks; a read on a failed
  stream fails; a handshake proceeds or fails, by Beast's suggested timeouts. Reading a
  message is not fair: peers need not send.
- Server: the plugin starts; a request in the buffer is read, a write completes, or the 30
  second timer of `do_read` fires. Accepting is not fair, and an error of accept is only
  where the socket does not listen.
- Lifecycle and loop: the main thread takes its steps, so plugin callbacks and handlers return
  or throw. Nobody has to call `quit`.
- Signals: both threads take steps. Raising a signal is not fair.
- Guest tasks: guest code on the stack runs until it returns; the host answers or fails each
  call. Starting a task is not fair.
- Guest database: as above; the process need not restart, and `printStats` need not go on.
- Guest connections: the event loop runs; a websocket that is connecting or closing gets to an
  end of it by the timeouts of the host. Messages, sends and the end of an open connection are
  not fair.

## Proofs

Every invariant, action property and refinement that a passing run checks is also a theorem,
for every value of the constants. Further theorems state what no run has as a property: action
properties that complete the picture of a component, and the safety half of what the liveness
properties say. Their formulas are defined in the proofs modules, next to the theorems. Each
proofs module defines an inductive invariant `IInv`, checked by TLC before it was proved,
proves `Init => IInv` and `IInv /\ [Next]_vars => IInv'` with one lemma per action, and
concludes `Invariance == Spec => []IInv`; the theorems below follow from it. The constants are
as the modules' assumptions say; nothing else is assumed unless a hypothesis of the theorem
says so.

| Module | Theorem | States |
|---|---|---|
| `WebsocketSession_proofs` | `TypeCorrect` | `[]TypeOK` |
| | `NothingLostOrReordered` | `[]Segment` |
| | `NoDanglingSession` | `[]RegistryIsExact` |
| | `QueueDiscipline` | `[]WritesFollowTheQueue` |
| | `MembersStay` | `OnlyBrokenLeave` |
| | `Refinement` | `Refines`: implements `Broadcast` |
| | `PeersAgreeOnTheOrder` | `[]OneOrderForAll`: any two peers got the same messages in the same order |
| | `DeliveryProgresses` | `[]BacklogHasAHandler`, `WorkShrinks`: a member that lacks a message has a handler to run, and each brings it closer |
| | `SessionsEndForGood` | `OverForGood`: a destroyed session, like a broken stream, stays so |
| `NetServer_proofs` | `OneOwnerPerSocket` | `[]ServerInv` |
| | `PipelineOrder` | `[]AnsweredInOrder` |
| | `UpgradesComeLast` | `[]UpgradeComesLast` |
| | `SocketsAreHandedOver` | `HandOverIsOneStep` |
| | `ResponsesStay` | `ResponsesOnlyGrow` |
| | `SessionsKeepTheirPromises` | the invariants of the sessions, in the server |
| | `ServerBroadcasts` | `Refines` and `OnlyBrokenLeave` of the sessions, in the server |
| `PluginLifecycle_proofs` | `InOrderOfRequirements` | `[]RequiredComeFirst` |
| | `NoAssertionFails` | `[]LifecycleInv` |
| | `RequiredPluginsOutlive` | `[]RequiredOutlive` |
| | `NothingLeftStarted` | `[]CleanExit` |
| | `OnlyStartedShutDown` | `ShutdownOnlyStarted` |
| | `CallbacksOnceAndInOrder` | `StatesAdvance`: initialized, started, shut down, in this order and once |
| | `RecursionEnds` | `[]Shallow`, `CallsEnd`: `initialize` and `startup` recurse to an end |
| `ExecLoop_proofs` | `NoHandlerLost` | `[]LoopInv` |
| | `OrderOfExecution` | `[]RunInOrder` |
| | `DrainedFirst` | `[]DrainedBeforeShutdown` |
| | `QuitEndsTheLoop` | `[](Remaining \in Nat)`, `QuitIsHeeded`: the steps that remain after `quit()` fall |
| | `SignalsAreNotOvertaken` | `SignalsKeepTheirPlace` |
| | `OneReactorAtATime` | `[]HandoverInv` of `SignalHandover` |
| | `LateSignalsAreKept` | `[](LateSignalIsKept /\ StoppedBeforeJoined)` of `SignalHandover` |
| `MethodDispatch_proofs` | `LowerPrioritiesFirst` | `[]DispatchInv` |
| | `PoliciesAsDocumented` | `[]PoliciesKept` |
| | `NoPublicationMissed` | `[]SubscribersGetAll` |
| | `ReleasedAreNotCalled` | `[]OnlyTheConnectedWait`: a call runs nobody released before its turn |
| | `CallsAreFinite` | `CallsProgress` |
| `GuestTasks_proofs` | `FramesOutliveTheirUse` | `~MayFinishAtOnce => []FramesSafe` |
| | `EveryTaskWaitsForOneThing` | `~MayFinishAtOnce => []NobodyForgotten` |
| | `TasksWaitForTheHost` | `~MayFinishAtOnce => [](NoCycle /\ WaitsEndAtTheHost)`: no circular wait |
| | `TasksEndForGood` | `~MayFinishAtOnce => EndedForGood` |
| | `StuckTasksStayStuck` | `~MayFinishAtOnce => StuckForGood` |
| `GuestDb_proofs` | `NoLockIsLeaked` | `[]DbInv` |
| | `Refinement` | `Refines`: implements `KvStore` |
| | `StoreChangesByCommits` | `OnlyCommitsChangeTheStore`: by a commit, in the keys it wrote |
| | `SnapshotsAreKept` | `SnapshotsHold`: a reader sees one content from beginning to end |
| | `NoDeadlockUnderTheLock` | `[]LockWaitsForTheHost` |
| | `OnlyRestartsFreeTheLock` | `StuckLockIsLost` |
| `GuestConnection_proofs` | `AnswersHaveAHandle` | `[]ConnectionInv` |
| | `NoDanglingCallback` | `[]EventsFindTheirConnection` |
| | `OrderKept` | `[]MessagesInOrder` |
| | `EndsAreReported` | `[]EveryEndIsReported`: one close event for each end |
| | `NoTaskIsForgotten` | `[]WaitingHasAnEnd` |
| | `CloseIsFinal` | `SilentAfterClose` |

### Assumptions

The bounds are natural numbers, and: sets of plugins and of tasks of the database are finite (a
rank of the requirements is counted in plugins, readers are counted in tasks); priorities are
integers, as `int` is; `NoTask`, `NoValue` are outside the sets they extend; `Remotes` are
among the sessions and `Requests` of their type. Each is named in the module that declares the
constants, so that TLC evaluates it in the module's run. `OneReactorAtATime` and
`LateSignalsAreKept` have `SignalHandoverAssumption` as a hypothesis, since that module is only
instantiated there. The theorems of `GuestTasks` assume `~MayFinishAtOnce`: without it
`guest_tasks_at_once` refutes them (see Findings). That is a restriction of the guest program
which the database's calls meet: all of them answer later, and `GuestDb` has no other.

### The arguments

*Sessions.* `IInv` is the conjunction of the types, `Lifecycle`, `RegistryIsExact`,
`WriteBufferIsOwned`, `NoStalledQueue` and `Segment`. None of the last four is inductive
alone. `on_write` keeps the order only if what it removes is what was written
(`WriteBufferIsOwned`); a write is started rightly by `on_send` only if a queue of one element
has just become nonempty (`NoStalledQueue`); a member gets a message only if the registry has
it exactly while it lives (`RegistryIsExact`), and that needs `Lifecycle`: a session is
registered exactly while open, an open one that is not broken always reads, and one that is
opening or done has neither handlers nor a queue. `Lifecycle` is the strengthening that no
property states. `Refinement` maps `Opened` to `Join`, `OnRead` to `Send`, `OnWrite` to
`Deliver`, the handlers that destroy a session to `Leave` and the others to stuttering; that
`OnWrite` delivers the abstract member's next message is read off `Segment` and
`WriteBufferIsOwned`. `OneOrderForAll` follows from `Segment`: what a peer has at its place
`i` is message `joinedAt + i`. For delivery, `Work(s)` counts the handlers still to run, two
for a posted message and one for a queued one; `NoStalledQueue` is why one of them is ready.

*Server.* The invariant of the sessions is taken over as a whole: `WSP` is a second instance
of the session module, with its lemmas, and a few lemmas say that both instances mean the
same. What is added is `Answering`: while an HTTP session reads, it has answered what it has
read; while it writes, all but the last, which is no upgrade. `AnsweredInOrder` needs it: the
next response is that of the last request read, and no upgrade is ever answered. After an
upgrade `Answering` says that the upgrade is the one request without a response, which with
`AnsweredInOrder` is `UpgradeComesLast`. Since every
server step is a session step or leaves the sessions alone, and the server's
invariant contains theirs, `SessionsKeepTheirPromises` and `ServerBroadcasts` follow without a
second proof. `HandOver` and `Answers` classify the steps of one connection.

*Plugins.* The recursion is followed by `Visited` (what a frame no longer has to visit is in
the list already or is the call above it) and `StateIsEntered` (a state has advanced exactly
for those listed or on the stack). That no plugin is entered again while its own call is
under way is `Ranked`: an acyclic requirement has a rank, and it falls along the stack.
`Initializing`, `Starting`, `Executing` and `Stopping` say what the states are in each stage;
the last counts how far `shutdown` has come down the list, which is what keeps it from
stopping one twice. That the recursion ends is not seen from its depth alone, since it returns
and descends again. The measure of `CallsEnd` is lexicographic: the plugins not yet entered,
then the depth, then what the top frame has still to visit. `Shallow` bounds the depth: no
plugin is twice on the stack, since a rank falls along it.

*Loop.* Handlers enter the priority queue in the order in which they were posted, since the
`io_service` is a queue: so `order` counts those that moved (`Moved`), each got the number of
its post (`HandlersNumbered`), and those are the first `Moved` ones (`IoInOrder`). A handler is
queued or executed, not both (`MovedOnce`). First in first out within a priority is
`QueuedAreLater`, which `HighestIs` keeps: what is still queued was posted behind the top of the
heap or has a lower priority. `OnlyHigherOvertake` follows from the same. `NothingLost` counts the places of a handler; it is derived from these.
*Signals*: the types hold only because the pipe and each queue together contain at most what
was raised; reading the pipe copies it to both. `LateSignalsAreKept` adds that once the
startup thread has ended only the main loop reads the pipe, and not before its `signal_set` is
registered, so that what it reads reaches its queue. *The end of the loop*: after `quit()` `poll` moves
nothing into the priority queue, so `Remaining`, four steps for each handler there and those
left of the current round, falls with each step of the main thread and with no other does it
rise; the proof counts the queue as a finite set.

*Methods and channels.* `Ordered`: what a call has run and what it has still to visit are the
lower and the upper part of one ordered list, which survives `Unregister` in the middle, and
`Register` because the place it inserts at exists and keeps the order (`PlaceOfProvider`).
`Progress` says, per policy, which of those that ran threw. For channels `Published` says of
every publication that has run (`HasRun`) that it may precede all that are still pending, and
of what a subscriber has received that each may precede the next (`InTurn`) and the one being
handed on. That survives `RunPublished` because the one it takes runs first among those the
poll had found, and the others came too late for that poll; it survives `Publish` because
`visible` is at most `calls`, so that a new publication came too late for every handler that
has run. `NoneMissed` says that a subscriber has all since it joined but the pending ones and
the one being handed on.
`OnlyTheConnectedWait` is inductive with `IInv`: `Unregister` takes a provider out of both
lists, and that nothing of it remains needs that each list has it at most once (`Ordered`);
`Register` changes one list only, and a call visits those that were `offered` to it.

*Guest tasks.* The stack is the hard part. `OneEntry`: a frame is there at most once besides
its host calls. `AwaitedAbove`: over an `await_suspend` is the task it awaits, held by its
`Task` object and not at its end. `Waiting` gives every unfinished task one thing to wait for
and a parent at most one child, `Alive` and `Fresh` bound who may be on the stack or refer to
whom, and `StrandedWait` follows those whose `await_suspend` was cut off by an exception: no
chain of them comes back to life, hence their `Task` object never frees anything.
`NoCycle` is inductive with `Fresh`: a task is new when it is awaited, and a new task awaits
nobody, so it closes no circle. It is stated over sets of tasks, in each of which one awaits no
other; `WaitsEndAtTheHost` takes that one of the unfinished tasks of its set, which by
`Waiting` waits for the host or was failed by it. `StuckForGood` follows the continuations
upwards from a failed call: `StepKeeps` says what no step takes back.

*Guest database.* `IInv` of the tasks by composition (`GP`), the lock is held by the task with
the open write transaction (`LockHeld`), an open transaction belongs to a task that has not
come to its end (`OpenUnfinished`), the readers fit into their slots, counted as a finite set
(`ReadersFit`), and what the writer began with is what is there (`WriterIsCurrent`). The
last makes the commit of whole pages a commit of the written keys, which is the step of
`Refinement` that does not hold without it. There `SetKV`, `Commit`, the ends of
transactions and `Restart` map to the steps of `KvStore`; those that only move tasks stutter.
The action properties rest on the same classification of the steps, and
`LockWaitsForTheHost` and `StuckLockIsLost` on the theorems of the tasks, taken over with
`GP`, for the one task that `LockHeld` names.

*Connections.* `IInv` is `Orderly(c)` for each connection. `CloseIsLast` and `EndIsLast` make
the close event the last one; `HandleComes` says that whoever may still get a message has a handle
or gets it with the promise of `connect`; `InboxInOrder` and `NoneLost` put what has arrived, is
read and was told in one order. A second invariant, `Answered(c)`, is proved on top of it:
an ended websocket has its close event in the inbox or told, and a task that waits belongs to
a websocket on the way to its end or to an answer. `Task(c, x)` is injective (`TasksDiffer`),
so what happens to one call leaves the others as they were.

Sequence and least-element facts are lemmas of the modules. Induction is stated over a subset
of `Nat` (`Induction`, `LeastElement`), from the well-foundedness of `<` on `Nat`, because the
theorems of the library that take a predicate cannot be instantiated.

### Only model-checked

- Liveness, since fairness and `ENABLED` are beyond the prover. Twelve properties; behind most
  of them is a theorem that leaves the scheduling as the only thing to be assumed:

  | Checked by TLC | What is proved of it |
  |---|---|
  | `EventuallyDelivered` | `BacklogHasAHandler`, `WorkShrinks` |
  | `BrokenSessionsLeave`, `ConnectionsEnd`, `HandshakesEnd` | only that it is for good: `OverForGood`, `HandOverIsOneStep` |
  | `QuitEnds` | `Shallow`, `CallsEnd` |
  | `QuitEndsExec` | `QuitIsHeeded`, `SignalsKeepTheirPlace` |
  | `HandlersRun` | only the order: `RunInOrder`, with `OnlyHigherOvertake` |
  | `LateSignalsEnd`, `StartupReturns` | `LateSignalIsKept`, `StoppedBeforeJoined` |
  | `TasksEnd`, `WritersEnd` | `WaitsEndAtTheHost`, `LockWaitsForTheHost`; of their conditions, `StuckForGood`, `StuckLockIsLost` |
  | `TasksAreAnswered` | `WaitingHasAnEnd`, `EveryEndIsReported` |

- That the measures above reach their end: from "each step lowers it" to "it ends" is again
  fairness.
- The three refutations under Findings: a counterexample needs no proof.

## Findings

- *A signal during startup can be lost* (`signal_lost`). `appbase/README.md:107` promises a
  graceful exit on SIGTERM, SIGINT or SIGPIPE. `application::startup` stops the signal
  thread's `io_service` (`application.cpp:132`). If its reactor has taken the signal from the
  pipe but the handler has not run, the handler is dropped with the service and the
  `signal_set` armed on the main service never sees the signal. `LateSignalsEnd` shows that a
  signal raised once that thread has ended is safe.
- *The void `first_success_policy` always throws* (`method_void`). `method.hpp:14-15` and
  `60-63` document that it throws if no provider succeeds; the code neither returns after a
  success nor remembers it, and `method.hpp:88` is reached by every call.
- *A task that ends at once is destroyed twice* (`guest_tasks_at_once`).
  `coroutines.hpp:105-106` says that awaiting a task detaches it from its `Task` object and
  that it is destroyed when it is done. `await_suspend` resumes it first (`:95`) and detaches
  it afterwards (`:96`). If it ends in between, its parent goes on inside `final_suspend` and
  destroys the `Task`, which destroys the frame that is still running.

Seen on the way, of code whose documentation says too little to be contradicted:

- `testNet` (`tests/web/a.cpp`) destroys a `Connection` the host still calls back.
- The node host's `onClose` passes an object where the guest takes a number
  (`packages/d/src/connection/connection.ts:59`): the guest reads the code 0.
- `connection` is captured by the callbacks it owns (`tests/web/a.cpp`): the `shared_ptr`s form
  a cycle and an accepted `Connection` is never destroyed.
- After a failed host call inside a write transaction nobody can write until the process is
  restarted (`WritersEnd` names the condition).
- `openDb` of one name by two tasks makes two handles of which `dbs` knows the last;
  closing either closes the database of LMDB for both. Calls that fail for that reason are
  among those that `Ask` fails.

## Plan

Done: the modules above, in the order Broadcast, WebsocketSession, its proofs, NetServer,
PluginLifecycle, ExecLoop, SignalHandover, MethodDispatch (with channels), GuestTasks, KvStore,
GuestDb, GuestConnection, and the proofs of them all.

Next, in this order:

1. The browser's database (`packages/pwa/src/clarion/db.ts`): IndexedDB queues writers and
   commits by itself when the guest waits for something else, so it is not `KvStore`.
2. `ContextInit`: the check-then-await of `getContext` and `useClarion`.
3. `PeerMesh`: two nodes connected to each other, each running the broadcast.
4. `HostObjects`: the host's object table and the ownership of `ExternalObject`.
5. Pure operators of `clio` (`to_key` order, variable integers, `fracpack` offsets modulo
   2^16) and `base58`, against reference definitions over bounded inputs.

With each of these modules, theorems of the same kinds: for `ContextInit` that one context is
built and nobody gets it early, for `PeerMesh` how often a message is broadcast, for
`HostObjects` that no index is used after its release.

## Not modelled

- Program options and configuration files: parsing, no state after start.
- File bodies, MIME types and header fields of HTTP responses; the text of messages.
- `net/include/clarion/net/peer_session.hpp`: a stub that nothing uses.
- Memory exhaustion: `queue_` has no limit, the model bounds the messages instead.
- The order of `closeAll` in an orderly exit of the node host: after it nothing runs, so for
  the store it is the same as `Restart`.
- `delete`, `get`, `prev` and `end` of the database interfaces: no import of the guest reaches
  them. The text that `printStats` prints.
- Crypto handlers: values no property tells apart; their calls are those of `GuestTasks`.
- The browser's `DummyAcceptor`: nothing is ever accepted there.
- User interface (`packages/app`, `packages/pwa` beyond the bridge), `packages/tester`.
- Vendored libraries: fc, rapidjson, Boost.
