# gammaServer in TLA+

Models, model checks and proofs of the server `gamma` (`src/src/libcore`,
`src/src/gamma`): its task scheduler, the mailboxes of its epoll threads, the
life of its handlers, its timers, its connections (how they cut the bytes of a
socket into packets, queue what they write and are timed and closed), its http
connections and http client, the pools its objects come from, the coroutines of
its scripts with their timers, and the connections it keeps to other nodes.

`PROJECT.json` lists the components, the runs, the mutated definitions each
property detects, the lines of source every definition stands for, the
findings, the hazards and the theorems.

## 1. Inventory of the system

A gamma process has one main thread (`MainWorker`), some worker threads
(`HandlerQueue::createWorker`), some epoll threads (`EpollWorker`) and threads
for DNS and logging. Scripts and services are `Handler` objects; sockets are
`Accept`, `Client`, `Http`, `Https` and `Listener` objects of an epoll thread.
Everything else is a task posted from one of these to another.

| Part (source) | State | Operations | Talks to | What is hard | Correct means |
|---|---|---|---|---|---|
| Handler scheduler (`handler.cpp`, `handlerqueue.cpp`, `worker.cpp`) | per handler a deque of tasks and the flag `m_isInHandlerQueue`; one global run queue and its condition variable | `acceptTask`, `acceptTaskFront`, `acceptHandler`, `nextHandler`, `doHandler`, `doTask` | every thread posts; workers execute | the flag is set under one lock and the queue changed under another; wakeups may be stolen | one worker per handler, tasks in order, none stranded, none starved |
| GlobalHandler (`globalhandler.cpp`) | pools of handlers, names, reference counts | look-up, post, create, remove | all threads | objects are enqueued outside every lock while they may be removed | no use after the last release, no leak, no accepted task dropped |
| ActiveWorker, Active (`activeworker.cpp`, `active.cpp`, `epoll.h`) | `m_taskQueue`, `m_tempQueue`, an eventfd armed edge-triggered | `acceptTask`, `onActive` | all threads post to an epoll or main thread | write after unlock, interrupted reads, edge triggering | a FIFO mailbox that never sleeps on a task |
| Timer (`timer.cpp`, `timer.h`) | doubly linked lists by duration, a cached `m_waitTimeout` | `setTimer`, `updateTimer`, `removeTimer`, `update`, the sleep of the thread | callbacks arm and clear any timer | an update whose callbacks change the lists and the batch | lists stay lists, the thread does not oversleep, all timers are served |
| Packet framing (`epollhandler.cpp`, `accept.cpp`) | `m_tempReadPacket`, `m_tempHead`, the thread's read buffer | `readSocket`, `onAcceptRead`, `dispatchPacket` | epoll thread, handlers | a packet split anywhere; a dispatch that closes the connection in the middle of the loop | each packet once, whole, in order |
| Connections (`accept.cpp`, `client.cpp`, `epollworker.cpp`, `epoll.h`) | descriptor, state of identification, write queue, heartbeat timer | `openAccept`, `openClient`, `epollIn/Out/Remove/Check`, `sendPacket`, the timer callbacks | epoll thread, handlers | partial writes, events of closed objects, closes from inside a send | packets written whole and in order; a closed object stays closed |
| DestinationPool, DestinationGroup, ObjectPool (`destinationpool.h`, ...) | slots, idle objects, counters | `create`, `create(index)`, `get`, `idle`, `remove`, `getNextDestinationIndex` | owners under a lock or in one thread | a cyclic search in a full pool; a handle without version that finds the next object; an object given back twice | one object per slot, counters that agree with the slots, a slot given again only after all the others |
| HandlerCreator (`handlercreator.cpp`) | the interval of indexes of each module, the libraries | `loadModule`, `unloadModule`, `createObject`, `releaseObject` | GlobalHandler's pool | single slots from a cyclic search, none taken yet, are used as an interval | a module has its own handlers at its indexes, and nobody else's |
| Node connections (`mainhandler.cpp`, `globalnode.h`) | known nodes, `m_handleToNode`, the route table `GlobalNode` | `registerNode`, `onOpenClient(OK)`, `onCloseConnect`, `onTimerUpdate`, gossip | epoll threads, timers, other nodes | late closes, several clients for one node, failures | routes point to open connections; a lost node is connected again |
| Modules (`globalmodule.cpp`, `dispatcher.h`, `globalservice.cpp`) | versioned tables of handlers by type and index | `addInformation`, `dispatch...` | main handler, all senders | stale versions, restart of a node | only newer information is taken |
| TimerHandle (`timerhandle.cpp`, `objectpool.h`) | timers of handlers, run by the main thread, in a pool of versioned handles | `startTimerSync`, `changeTimerSync`, `removeTimerSync`, `timerCallback` | workers by tasks, main thread | a timer fires while its handler still changes or removes it | no timer is lost, none serves two owners |
| Http, Https (`http.cpp`, `https.cpp`) | parser state, one buffer for request and response, timeout | `epollIn/Out/Remove`, `responseRequest`, `timerCallback` | epoll thread, handlers | partial reads and writes; an answer after the close; events of a former connection | the whole answer to each request, no connection without end |
| MultiCurl (`multicurl.cpp`) | running and waiting requests, the limit of each, libcurl's timer | `acceptRequest`, `removeAndClearEasy`, `multiInfoRead`, timer callbacks | epoll thread, libcurl, scripts | callbacks that end one request and start another on the same object in the middle of a timer update; starts that fail | every request is answered once |
| Lua runtime (`src/bin/base/rpc.lua`) | coroutines by callback number, their timers | `execute`, `schedule`, calls, `doingTimeout`, `doingWithCO`, `destroyRpc` | handlers, main thread (timers) | answers and timeouts that cross; numbers that change while tasks for the old one are under way | every wait ends, a late answer ends no other wait |
| Client library (`src/client`) | the same framing and task queue as the server | | | | |
| Others | `Listener`, `Packet`, `Buffer`, configuration, logging, tokens, bindings, vendored libraries | | | data handling | |

`PROJECT.json` gives for each part what is modelled of it, and the hazards with
the line of source where each one bites.

## 2. Plan

Modules are written so that TLC can check and TLAPS can prove about the same
text: parameters are CONSTANTS with named assumptions, an action is one
operation or one critical section, invariants are conjunctions of named parts.

1. `HandlerQueue` and its abstraction `SerialMailbox`: everything in a gamma
   process runs through it. Proofs: inductive invariant, safety, refinement. *Done.*
2. `GlobalHandler`: composes `HandlerQueue` with creation, removal and
   reference counts. *Done.*
3. `ActiveWorker`: the other kind of mailbox, implementing the same
   `SerialMailbox`. Proofs as for 1. *Done.*
4. `Timer`: linked lists and sleep of an epoll or main thread. *Done.*
5. `AcceptRead`: the framing of packets. *Done.*
6. `NodeConnect`: the connections between nodes (main handler, route table,
   clients of the epoll threads, reconnection). *Done.*
7. `Connection`: write queue, heartbeat, states of `Accept` and `Client`,
   stale events of one `epoll_wait`. *Done.*
8. `DestinationPool`: slots and handles, with the invariant that ties counters
   to slots and the order in which handles return as theorems; `HandlerCreator`,
   the modules that are given intervals of its slots. *Done.*
9. `TimerHandle` and `Rpc`: timers of handlers in the main thread, composed with
   the coroutines that start, change and remove them. *Done.*
10. `Http`, `MultiCurl`: the http connections and the http client. *Done.*
11. Proofs: the entries and the sleeps of `Rpc`; the reference counts of
    `GlobalHandler` and its refinement of `HandlerQueue`; the framing of
    packets; the routes of `NodeConnect`; the edges and the write queue of
    `Connection`; the answers of `Http`; the lists of `Timer`; the requests of
    `MultiCurl`; the owners of the timers of `Rpc`. *Done.* Liveness is
    out of the prover's reach and stays model-checked.
12. Left: `GlobalModule` and `GlobalGroup` (versioned tables of modules), the
    SSL side of `Https`, the client library.

## 3. The modules and the code

A module that EXTENDS another adds actions or properties to it; MC modules only
give TLC the symmetry sets. Names follow the source; where an action is only part
of a function (a critical section), the comment says which. Operators whose
name starts with `Wrong` are variants of the definition that follows them, with
a mistake someone could make in that code. No specification uses them; they
show, substituted for the definition, that the properties can fail.

**`SerialMailbox`** is the promise both schedulers make: tasks of one owner are
executed one at a time, in the order of its queue, and (FairSpec) all of them.

**`HandlerQueue`** has one action for each critical section:
`AcceptTask`/`AcceptTaskFront` (the handler's lock), `AcceptHandler` and
`NextHandler` (the queue's lock), `DoTask` and `FinishHandler` (the handler's
lock inside `doTask` and at the end of `doHandler`). What a thread owes between
two sections is state: `enqueuing[th]` is the handler whose flag the thread has
set and that it has not enqueued yet. The condition variable is the set of
workers with `pc = "wait"`; `Signal` wakes one of them if there is one, and
`SpuriousWakeup` any at any time. A task is an object: while it is queued or
executed it is not posted again. `HandlerQueueProps` holds the properties and
the refinement mapping.

**`GlobalHandler`** conjoins each of these actions with the `retain` or
`release` its code makes and adds the look-up, creation and removal of
handlers. The pool is the set `registered`.

**`ActiveWorker`** models one worker: the lists `m_taskQueue` and
`m_tempQueue`, the position in the running batch, the eventfd's counter and
whether it is in epoll's ready list (edge-triggered: a write or an
`EPOLL_CTL_MOD` puts it there, `epoll_wait` takes it out). `writing` holds the
threads between the unlock and the write.

**`Timer`** has the lists with their head, tail and per-object pointers as in
the code, the cached `m_waitTimeout`, and one object call of the update per
action, so that a callback can arm and clear every object in between. Callbacks
are arbitrary: they return a new period or -1 and may first arm or clear any
object. The clock does not run backwards. `TimerProps` has its properties.

**`AcceptRead`** models the bytes by their positions in the peer's stream: a
buffer is an interval, a packet the interval its head describes. `ReadSocket` is
one `read`; `ParsePacket` one iteration of the loop of `onAcceptRead` with the
effect of the dispatch; the branches of that function are the other actions.
After a use of a released packet the behaviour is undefined: `pc = "undefined"`
and nothing is claimed of it (`intact` and `open` state of which connections
the other properties speak).

**`NodeConnect`** has the task queue of the main handler and one mailbox for
each epoll thread, which is what `HandlerQueue` and `ActiveWorker` promise. An
action is one task or one event of a client's socket. `info` is `m_hiveNodes`,
`route` the table of `GlobalNode`; `client` has every client opened so far, a
handle being its number, since a pool gives 65535 other handles before it gives
one again. A handle names its epoll thread, as `DestinationHandle::service`
does. A timer of the handler is a count by callback number, which is the node's
id. The packet with several addresses becomes as many tasks. `failed` is a
history of opens that failed at once.

**`Connection`** follows one object of `Accept` or `Client` through several
connections. `conn` has its fields, `sock` what the kernel keeps of its socket:
the poll mask, the edge-triggered ready list, the flag that makes space in the
send buffer an event (`SOCK_NOSPACE`), and all bytes written. `pc` and `event`
say where `Epoll::update` is with the events it has taken for this object. A
function of the code that may close the object or write to it (`SendPacket`,
`Dispatch`, the timer callbacks) is an operator that returns the set of its
outcomes, each an object and a socket; a caller uses it as the code does. Tasks
run while the thread waits or between `epoll_wait` and the object's own event,
which is how an event of a former socket reaches the object that has been
opened again. A socket's address in the batch is the object's, so a closed
object still gets its event; it then works on descriptor 0, which the model
takes to have nothing to read and to take what is written. `skipped` is history:
`epollActive` has used up an event that announced more than the connect.
Every command that changes the connection reaches both classes, as the code has it:
only an Accept that is not identified yet asks which command it is. A packet that
follows, in the same read, one that closes the connection is not dispatched here
(`AcceptRead` has that loop).
Packets that change nothing of the connection, encryption and the accept handler
of a script are left out; what a close tells the handler is in `NodeConnect`,
how packets are cut from the stream in `AcceptRead`.

**`DestinationPool`** has one action for each operation; the owner's lock, or its
one thread, makes them atomic. `slotIndex` and the cyclic search are as in
`getNextSlot`: the action gives the first free slot from there on. Sockets and
curls use `Create` and `Idle`, handlers `Reserve`, `CreateAt` and `Remove`.
`passed` is history: the slots the search has gone over since it gave each one.
`idle` of an object that was given back before goes by the handle it still has.
A search in a full pool never ends in the code; here `Reserve` is then disabled,
and the pool has its other operations, which is more than the code can do.
`PoolProps` has the properties.

**`HandlerCreator`** drives the pool as the start-up does, one operation of it per
step. `load` has the local variables of `loadModule`: the module leaves its old
interval (`UnloadNext`, `Unloaded`), asks for slots (`ReserveNext`), takes them for the
interval that ends with the last one (`Reserved`) and has its handlers made
(`CreateNext`). `Creator` is `findMatchInfo`, which finds the library that makes and
destroys the handler of an index. Each module has a library of its own here, which may
fail to load. The search that does not end is a phase of its own, `endless`. In the
phase `none` the pool is one of sockets or curls, used in any order (`UsePool`).

**`TimerHandle`** splits a timer as the code does: the handler's thread takes the
object out of the pool (`CreateTimerHandle`) and posts a task; the main thread
arms, changes, fires and gives back (`DoTimerTask`, `Expire`). The pool's idle
handles are a stack, and a handle carries the version of the object. **`Rpc`**
composes it with the script's coroutines: one action is one task of the handler,
run to the end (`HandlerQueue` shows that tasks exclude each other). What a
coroutine does between two waits is a choice among the ends of `Resume`: another
call, the next turn of a loop, or the end. The callback numbers, `m_cbMap` and
`timerHandle` of each coroutine are as in `rpc.lua`. `stray` is history: a loop
whose callback made a call that was answered sleeps on the timer of that call.

**`Http`** follows one object through several connections. The functions of the
class that may write, close or register are operators on a record of object,
socket and history, and give a set of outcomes; `epollIn` is a loop of steps
(`ReadSocket`), which run without other actions of the thread between them, the
peer's excepted. `Parse` is what `epollIn` relies on of http_parser: units that
follow those it has had give a request in the end, others anything. `event.fresh`
tells whether a task has changed the object between `epoll_wait` and its event.

**`MultiCurl`** keeps the order of the armed timers, which is the order of their
`m_index` and hence of each batch of `Timer::update`, and the objects of the
batch with the request they had when it was taken. libcurl may end any transfers
whenever it is called and set or clear its timer as it likes, with one exception
that its interface promises: adding a handle sets the timer.

## 4. The runs

| Run | Instance | Question |
|---|---|---|
| `scheduler` | 3 workers, 1 poster, 2 handlers, 3 ordinary tasks and 1 urgent | The inductive invariant of the scheduler, lost wakeups, that it implements `SerialMailbox`, and that every accepted task is executed |
| `handler_life` | 2 workers, the main thread and 1 poster, 2 handlers, 2 tasks | References, leaks, dropped tasks; `GlobalHandler` implements `HandlerQueue` |
| `active_worker` | the worker and 2 posters, 3 tasks | The mailbox of an epoll thread: order, lost wakeups, liveness |
| `timer` | 3 objects, periods 0 and 1, clock 0..1 | The lists, the cached sleep, the order and the liveness of timers |
| `accept_read` | 3 packets of 3 lengths, 2 connections on one object | Framing under every split of the stream into reads |
| `temp_packet` | 2 packets, 1 connection | Is the temporary packet cleared after use? No, see findings |
| `node_connect` | 2 other nodes with 2 addresses each, 2 epoll threads, 4 clients, 1 address received, 1 connection lost | Do routes lead to their nodes, is every close handled, is every known node connected again? |
| `connection` | 2 connections of one object, each with 2 packets of 2 units from handlers or its own timer, 2 from the peer, 1 interrupted call | Write queue, edge-triggered events and heartbeat under every order of tasks, timers, peer and kernel |
| `rpc` | 2 coroutines, 3 callback numbers, 2 calls, 4 timers with 4 versions | Does every wait end, by the right answer or timeout, does a handle that somebody keeps never come back, and does every timer go back to its pool? |
| `pool` | 4 slots that may all be used, 5 objects; 3 modules with 0, 1, 2 or 4 handlers, 3 loads | One object per slot and idle place, the order in which handles return; has each module its own handlers, and does the search for their indexes end? |
| `http` | 3 connections of one object, requests and answers of 3 units | Does the client get the whole answer, and does every connection end? |
| `multicurl` | 4 requests, 2 at a time, a queue of 1, 3 curls, 1 failed start | One answer for each request; limits that strike their own request |

The composite properties have named parts: `RefsExact` is `NoUseAfterFree` and
`NoLeak`; `Inv` of each module is its type invariant with `NoByteLost` and
`DispatchedWhenComplete` (`AcceptRead`), `ClosesAreHandled` (`NodeConnect`),
`NoEventLost` (`Connection`), `EntriesOK`, `TimersOwned` and `NoHandleReused` (`RpcProps`),
`AskedOnce` (`HttpProps`), `Accounted` and `NoneWaitsInVain` (`MultiCurlProps`).

Why the bounds are enough for the interesting cases:

- `scheduler`: three workers are the least for a wakeup to be stolen (one
  signalled, one busy that takes the handler, one asleep); four tasks on two
  handlers let a handler have tasks left at the end of a turn while the other is
  queued. Workers post from inside tasks, so that four threads race on a flag.
  What holds of it for any numbers is proved (section 7).
- `handler_life`: a worker, a poster with a look-up in flight and the main
  thread that removes hold references at the same time; two handlers let one be
  removed while the other runs and posts to it.
- `active_worker`: three tasks fill a running batch, the queue behind it and a
  post from inside the batch.
- `timer`: three objects give a list a head, a middle and a tail; a period of
  0 is due in the instant it is armed, a period of 1 after the only tick. The
  clock's bound (`Horizon`) stops the clock, not the timers.
- `accept_read`: a head of 2 bytes can itself be split; lengths 2, 3 and 4 are
  a head alone, one with a body and one that is too long before identification;
  the reader never keeps more than one packet and one head, so three packets
  cover a kept packet, one in the loop and one that follows.
- `node_connect`: four clients are the first of two nodes, one after a loss and
  one after a change of address, which is what the bounds on losses
  (`MaxLost`, refused connects included) and received addresses (`MaxGossip`)
  can cause. Two epoll threads let an old client close in one while the new one
  connects in the other; with one thread the two would stay in order. An open
  may also fail at once at any time.
- `connection`: a send buffer of 1 takes an answer, a ping or a pong whole, half of a
  packet of 2, or nothing of either; a second packet waits
  behind the rest of a first. A second connection of the object meets the events
  of the first. Two packets of the peer are any two of the commands, so that an
  Accept may be registered and then receive a ping, a pong or the answer to a
  registration. One interrupted call is enough for a read or a write to
  end early at each place.
- `rpc`: a loop and another coroutine, or one that calls twice, so that the
  answer to the first call may come in the wait for the second; three numbers
  let a loop change its number while tasks for the old one are under way. Four
  timers are as many as can be in use or about to be removed. With `Versions` = 4
  slots are given back four times and come round to their first handle in the run;
  nobody keeps a handle that long. With 3 a handle is kept until it comes
  round and `Inv` is violated; the code has 256.
- `pool`: as many slots may be used as there are, which is the code's own setting
  (65535), so the pool is full in many states; the fifth object replaces one by
  `create(index)`. What holds for any numbers is proved. The initial states are a pool
  that is used in any order (`UsePool`) and the pool of the handlers. For the
  latter 4 is also the index that `create(index)` refuses, as 65535 is in the
  code; numbers up to the number of slots make the search come round, an interval
  overlap another one, begin at 0 or below it, and the pool full, which
  `ModulesKeepSlots` excepts by its bound. Three modules are the least for a load that
  finds the pool full; three loads let a module be loaded again after another one.
- `http`: three units are written or read in one, two or three pieces. The
  second connection meets events taken for the first, the third those of an
  object that was marked while it was idle.
- `multicurl`: two requests run, one waits, one finds the queue full or comes
  later; one of them wants no answer. A third curl lets the pool give another
  object than the one given back. Two failed starts and five requests were
  checked too (968408 states) and showed nothing more.

Deadlock is checked except in the runs of `AcceptRead`, whose peer may have
nothing more to send, of `NodeConnect`, whose nodes may all be connected, of
`Connection` and `Http`, where every connection may be closed, and of `Rpc` and
`MultiCurl`, where every call may have ended.

## 5. Fairness

`HandlerQueue!FairSpec`: weak fairness of each worker's steps and of the
enqueue a thread owes (threads run), and strong fairness of `EndTask` (a task
makes finitely many posts and then returns; each post disables `EndTask` for a
moment). Posting and spurious wakeups are not fair. `ActiveWorker!FairSpec`: the
worker's loop `while(1) update()` runs, a posting thread that has left the lock
writes the eventfd, and a `read` is interrupted finitely often. `FairTimerSpec`:
the update loop of the thread runs and callbacks return; the clock need not
advance. `NodeConnect!FairSpec`: the main handler and the epoll threads run
(both are what the modules above show of them), a running timer fires, and
the kernel decides every connect one way or the other. No message has to
arrive, no connection has to be lost; losses end (`MaxLost`), without which no
node could stay connected. `Connection!FairSpec`: the thread takes and handles
the events of the object, a timer that runs fires, a connect completes or
fails, and the peer reads what it is sent, without which a full send buffer
stays full. Nothing has to be sent or closed, and no call is interrupted for
ever (`MaxSignals`). That the peer falls silent, which `SilentAcceptsEnd` is
about, is the bound `MaxReceived`; the property excepts an Accept whose timer
callback is `keepConnectOnline` (section 6). `Rpc!FairSpec`: the handler and the main
worker work off their queues and an armed timer expires; no answer has to come
and no coroutine has to start. `Http!FairSpec`: the thread handles what it has
taken and comes back to its timers, so that a timer that has expired is called
(strong fairness, since events come between); the peer owes nothing.
`FairCurlSpec`: ten seconds pass, so that each armed limit is taken at
last whatever else is taken with it (strong fairness: other callbacks come
between), and callbacks return; libcurl never has to finish a transfer.

## 6. Findings

`temp_packet`: when the last read of a split packet also brings the first bytes
of the next head, `onAcceptRead` returns without clearing `m_tempReadPacket`,
which its own comment demands; it keeps pointing to the released packet.

### Further disagreements

Five more configurations are not among the runs. Each checks one property, the
words of a comment, which TLC finds violated.

- `MCTaskOwnership.cfg` (module `MCGlobalHandler`), `TaskOwnsHandler`:
  `createDestination` publishes a handler before it calls `onInitialize`
  (`globalhandler.cpp:116`), and `checkOnDestroy` calls `onDestroy` while the
  handler can still be found; both run in the main thread. A worker can execute
  a task of the handler at the same time, where `handler.h:46` says of the task
  queue "确保任务独占主体的资源" (it ensures that a task has the object's
  resources to itself).
- `MCConnectedNode.cfg` (`MCNodeConnect`), `ConnectedNodeSkipped`: the close of a
  node's former client clears the route of the client that has replaced it,
  since `onCloseConnect` (`mainhandler.cpp:109`) looks only at the node. The
  reconnection timer then opens one more client, and the established one is used
  by nobody; `mainhandler.cpp:252` says "if the connection is already connected,
  skip". It needs an address that changes (the configured address of the
  discovery node and the one it announces may differ), two epoll threads, and a
  new client that is faster than the close of the old one.
- `MCQueueWaits.cfg` (`MCConnection`), `QueueWaitsForOut`: a packet sent to a
  client that still connects goes to the write queue, "已经在epoll中等待out事件"
  (already waiting in epoll for the out event, `accept.cpp:112`). That event is
  the one which announces the connect; `Client::epollActive` ends it there, and
  an edge-triggered socket with space reports nothing more until something else
  happens to it.
- `MCRpcLoop.cfg` (`MCRpc`), `TimeoutAlwaysComes`: `resumeCoroutine` says
  "设定超时移除的计时器 returnValue 为 timeout" (sets the timer that removes the
  wait, `rpc.lua:775`). When the callback of a loop has made a call and the call
  was answered, the timer of that call is still there, with the callback number
  that the loop gives up for its next turn; the loop changes this timer, whose
  timeout is then for a number nobody has, and the loop sleeps for ever.
- `MCHttpSplit.cfg` (`MCHttp`), `SplitRequestServed`: of a read that finds nothing
  `http.cpp:247` says "可以下次重新调用" (may be called again next time). But
  `epollIn` goes on to parse what the buffer holds from `m_offset` on, which is
  the part that it has parsed before; a request that comes in pieces is then
  refused, or taken for something else.

What the models show besides, and no line of source denies:

- `Connection`: `keepConnectOnline` returns its period although `sendPacket` has
  closed the connection, so the timer of an object in the pool is armed again,
  and the next connection of that object starts with a timer it did not set.
- `Connection`: an Accept that is identified and receives `COMMAND_RESPONSE` with a
  destination, the answer to a registration that it has not sent, does what a
  Client does (`epollhandler.cpp:254`; `accept.cpp:200` does not ask): its callback becomes
  `keepConnectOnline`, which never looks at `m_isOnline`. It pings its peer from then on
  and is not closed when the peer is silent.
- `HandlerCreator`: when the loads of a process ask for as many indexes as the pool
  has slots, the search comes round. The slots it gives are then no interval: a module
  may be given indexes of another one, or of the main handler, which its handlers
  replace. Begin 0 makes `create(0)` take a slot outside the interval, and the pool
  may get full; the next load never returns and holds the lock of GlobalHandler
  (`MCEndlessSearch.cfg`, module `MCDestinationPool`, `SearchEnds`, not among the runs). It
  takes 65535 handlers.
- `Http`: an `EPOLLIN` taken for a connection that a task closes in the same batch
  makes the idle object read descriptor 0 and leaves it in the pool with
  `HTTP_STATE_DESTROY`, which `setState` cannot change: its next connection is
  closed after its first read, whatever it asked. An `EPOLLOUT` finds no buffer there (`pc` =
  "crashed").
- `Rpc`: a coroutine that calls again after a timeout has the same callback
  number, so that the late answer to the first call ends the second; and a timer
  that fires while its change is under way ends the next call early.
- `MultiCurl`: a queued request that fails to start is dropped without an answer.
  If `multiAdd` fails for the last of the queue, the object goes to the pool with
  a request and an armed limit, which later answers a timeout for the dropped
  request and makes `m_requestCount` one too small. A transfer that ends in
  `onCurlEpollIn` is read only in the next `timerCallback` of the MultiCurl.

## 7. What is proved

For every number of workers, posters, handlers and tasks, finite or not except
for the workers (`HandlerQueueAssumption`):

- `GlobalHandler_proofs`, the scheduler: `IInv` is inductive
  (`InductiveInvariant`), hence `TypeCorrect`, `HandlersAreExclusive`,
  `FlagAdmitsOneToken`, `TasksAreScheduled`, `NoWakeupIsLost`; and `MailboxImplemented`: every step is
  a step of `SerialMailbox` or a stutter. Mutual exclusion alone is not
  inductive: a worker takes the handler at the head of the run queue, so one
  needs that a queued handler is not owned and not queued twice; a poster
  enqueues after it has left the lock, so one needs that the handler it holds
  is in no other place (`SingleToken`); and it may set the flag only when the
  handler is nowhere, which is `FlagIsToken`. `NoEmptyTurn` and `EnqueuesWork`
  carry "has a task" along the same path, and give the refinement its
  enabling condition (a turn starts the first task of its handler).
  `NoLostWakeup` counts awake workers against the queue and has a proof of its
  own, by lemmas on the cardinality of the set of awake workers; it is why the
  set of workers is assumed finite.
- `EpollThread_proofs`, the mailbox (`ActiveWorkerAssumption`): the same for
  an epoll thread, for any posters and tasks.
  `Signalled` (a queued task has a write that is pending, unread or being
  served) and `Armed` (an unread counter is in the ready list of the sleeping
  worker) together exclude a lost wakeup; `BatchOK` says that the list swapped
  in is empty, without which the swap would execute a batch twice.
- `EpollThread_proofs`, the timers (`TimerAssumption`; any number of objects and
  durations): `TimerIInv` is inductive. It says of the pointers that they make *some*
  sorted lists, one for each duration (`Lists`), rather than what `Chain` finds when it
  follows them: then every operation is proved on the lists. `ListRemove` takes one
  element out of one list whatever neighbours it has (`RemoveUnlinks`,
  `UnlinkedLists`), `LinkLast` appends (`LinkLastLists`), an update keeps what is behind
  the due prefixes (`CutDueLists`), and that `Chain` finds the lists again follows
  from the pointers (`ListsChain`). The lists stay sorted because an armed object
  is due by its duration from now at the latest (last conjunct of `ListsSorted`), so that the scan
  of an update finds all that are due (`DueCountIs`, `DueObjectsAreDue`) and the heads
  that stay bound all the others (`HeadsTimeoutIs`). `ListsHold`, `NeverOversleeps` and
  `TakesDue`, an action property. `Chain` and `Only` are recursive functions; what
  is needed of them is proved by the least index at which it would fail.
- `EpollThread_proofs`, the http client (`CurlAssumption`; any requests, limits and
  failures, and enough curls that the pool never is empty, where the code would make
  another): `CurlIInv` is inductive. Its core is the order of the armed timers:
  an object whose transfer runs is never behind libcurl's own timer, in the armed
  ones or in a batch (`BehindMulti` in `ArmedOK` and `BatchedOK`), since starting a
  transfer arms its limit and then libcurl's timer, and arming that one again only
  puts it further back. So the objects of a batch are called before the one that may
  start requests on them, which is `LimitsStrikeTheirOwn`. Objects in use are not all:
  a start that fails may leave a request on an idle object (`Stale`), whose limit still
  runs; `StaleOK` says that such objects are among the last given back and that there is none
  while requests are queued, so that none is given to a queued request in the
  middle of a batch. Each of them is due to one failure, which bounds the error of
  `m_requestCount` (`CurlPoolOK`). `AnswersOK` says that a request that is on an object
  or in the queue has no answer, which with `HoldersOK` (on one of them, once)
  gives `OneAnswer`. `CurlAccounts`.
- `DestinationPool_proofs` (`PoolAssumption`; objects may be without number):
  `PoolInv` is inductive. That no object is in two slots follows from
  `HandlesOK`, an object being in the slot its own handle names; `idle` goes by
  that handle, so `IdleOK` needs it too. `Counted` is the cardinality of the set
  of used slots, which each operation changes by one element or not at all; with
  it a create below the limit leaves a slot free (`FreeSlotExists`), since the
  limit is at most `MaxIndex`. `PassedOK` says what the cyclic search has gone
  over since it gave each slot, and gives `HandlesInTurn`, an action property.
- `Rpc_proofs` (`RpcAssumption`, `TimerHandleAssumption`): for any number of
  coroutines, timers, versions and calls the map has exactly the suspended
  coroutines (`EntriesExact`), and no answer ends the sleep of a `schedule`
  (`SleepIsUndisturbed`). The sleep is not inductive alone: a loop sleeps under
  the next number, so one needs that nothing knows a number that has not been
  given out (`Fresh`), and a call goes under the number of the coroutine that
  runs, so one needs that no sleeper has the same one, which is `EntriesOK`.
  `TypeOK` is part of the invariant; it holds because every slot on the stack is
  a slot of the pool.
- `Rpc_proofs`, the timers of the coroutines. Who owns a timer, and whether a
  timeout is on its way, depends on versions that do not come round while somebody
  keeps an old handle: `NoHandleReused`, a hypothesis on the behaviour, which the
  code relies on (no slot is given back 256 times while somebody keeps an old handle of
  it). It is not proved; the run `rpc` checks it on an instance in which
  versions do come round. Calls, callback numbers and wraparounds are without bound
  in the theorems.
  Under it `TimersInv` is inductive, and gives `TimersHaveOwners` and, while the
  pool has a timer for whoever waits (`TimersEnough`), `TimeoutsCome`. An exhausted
  pool is what `TimersEnough` excepts: a coroutine then waits without a timeout.
  `TimersOwned` alone is not inductive. That a
  slot is given back once (`PoolOK`) needs that it is armed or its start is on
  the way (`StartedOK`); that a start arms a timer that is not armed, and is done
  before the change and removal of the same handle, needs that it is the
  first task with that handle (`TasksOK`). A coroutine is resumed with its
  handle when an answer comes and without it when a timeout comes, so that
  one has to know that a timeout in the mailbox means that the timer was given back
  and that there is no second one for the same number (`OneTimeout`); numbers not
  given out have none (`TimersFresh`), so that a loop's next sleep starts clean. A
  handle is current for the coroutine that keeps it or in the task that
  removes it, not both (`OwnersOK`). `TimeoutsOK` is `TimeoutComes` with its
  exceptions, which each step carries on.

- `GlobalHandler_proofs`, the handlers: `LifeIInv` is inductive. The count of a handler is the
  cardinality of the set of its holders (`Counted`): the pool, the run queue, the
  callback of the loader, a worker and any number of threads; each retain adds
  one holder and each release takes one away. That nobody reaches a deleted handler
  follows from `EnqueuesHeld` (who owes the queue a handler holds it) and from
  `IInv` of the scheduler, which says in how many places a handler is; so the two
  invariants are one induction. `ReferencesAreExact`, `NoTaskIsDropped`, and the
  refinement in two steps: `SchedulerImplemented` (creation and removal are
  stutters of `HandlerQueue`, whose guards the references give) and with the
  theorem above `MailboxOfLivingHandlers`.
- `AcceptRead_proofs` (`AcceptReadAssumption`), for all lengths of packets and
  all reads: `IInv` is inductive, and gives `PacketsInStreamOrder` and
  `BytesAreAccountedFor`. `PositionOK` says where the parser is: behind the packets
  dispatched, on the first byte of the next one or within it. It holds as long
  as no released packet has been used (`intact`), which is the finding of section
  6. `EndOf` is recursive; what the proof needs of it (it is monotone, and the
  packet at a position is the only one there) is proved by the least
  counterexample, with the well-founded order of the naturals.
- `NodeConnect_proofs` (`NodeConnectAssumption`), for any nodes, workers,
  addresses and failures: `IInv` is inductive. `OrderOK` is its core: the main
  handler hears that a client was opened, was connected and was closed in this
  order, although two threads and two queues are between; without it a node could
  get its route after the close that has to take it away.
  `ClosedClientsAreReported`, `RoutesAreTrue`, `KnownNodesAreKept`.
- `Connection_proofs` (`ConnectionAssumption`), for any packets, buffer,
  interruptions and order of tasks, timers and events: `IInv` is inductive.
  `NoEventLost` speaks of the moments in which the thread is done with the
  connection, and most of them follow from the last `objectChange`, which makes the
  kernel look at the socket once more. `epollActive` does not do so: there
  one needs that an event taken without EPOLLIN has used up no input (the last
  conjunct of `IInv`). For a queued packet the argument is that every wait for
  space has set `noSpace`, so that the peer's reading wakes the socket. `NoEdgeIsLost`
  and `PacketsStayInOrder`; the second needs that a flattened sequence of
  sequences grows and is cut as the queue is, proved for `FlattenSeq` at the
  beginning of the module.

- `Http_proofs` (`HttpAssumption`), for all lengths of requests and answers and any
  number of connections of an object: `IInv` is inductive. It is stated on a
  world (object, socket, history), because `epollIn` and `epollOut` call each other
  in the middle of a step. `AnswerOK` is its core: before the first request nothing
  is owed or written; after it either a handler owes the answer, or the buffer has
  the rest of it from `m_offset` on and the socket is watched for space, never for
  input. So nothing is read into a buffer that is being written, and an answer
  starts where nothing was written. `ThreadOK` carries it through the events: one
  that was taken is true of the socket until a task runs, and from then on
  is old (`fresh`); this is where the exceptions of the properties come from.
  `ClientIsServed`, `RequestIsTakenOnce`, `AnswersAreIntact`.

The proofs take the assumptions named above and nothing else; the hypotheses on
the timers of `Rpc` are written in its theorems. Each inductive
invariant was checked by TLC on the states of its component's run before it
was proved.

Model-checked only: liveness, for fairness and ENABLED are out of the prover's
reach.

## 8. Not modelled

- `GlobalModule`, `GlobalGroup`, `Dispatcher`: tables of modules by version that
  are replaced under a lock, and the choice of a handler from them.
- `Https`: SSL under the reads and writes of `Http`, and `openHttps`.
- The client library (`src/client`), which repeats the framing and the task queue
  of the server; `Listener` and `MainWorker::initialize`.
- Of `rpc.lua` the encoding of remote requests (eproto) and the listeners;
  `queue.lua`, `timer_queue.lua` and the other scripts.
- Of `MultiCurl` the sockets, of `Http` the parser (external, as are libcurl, the
  kernel and the peers).
- Destruction of workers and of the process (the main loop does not end), the
  content of packets, encryption (with the flag of a shared buffer, see the
  hazards), configuration files, `dlopen` itself, logging, tokens. Memory
  allocation does not fail, nor does `epoll_ctl` for lack of it (`http.cpp:197`,
  where the object would get `HTTP_STATE_DESTROY`). The data race of `getTimerHandle`, which reads a
  vector without its lock.
- Three quarters of the lines under `src/` are bindings to Lua and vendored
  libraries (rapidjson, hiredis, http_parser, eproto, tolua, md5): parsers,
  containers and conversions without interacting state. The definitions here
  stand for lines of the server's own core and of `rpc.lua`.
