# A TLA+ development of qbus_collection

`qbus_collection` is a set of C libraries and modules around QBUS, a message bus between
processes. Every process has a module name, connects to others over TCP, learns from them which
modules they can reach, and sends requests that are routed, forwarded, answered and called back.
This directory holds TLA+ models of the core of that bus, the TLC runs that check them on small
instances, and theorems about them that TLAPS proves for every instance.

The models are written from the C code. A definition has the name of the function it stands for
where TLA+ allows it; `PROJECT.json` gives for each definition the lines it models, for each
property a mutation of the code that the run catches, the hazards the properties are aimed at,
and the findings.

## 1. Inventory

Paths are relative to `src/libs`.

### QBUS (`qbus/src`)

| Component | State | Operations | Talks to |
|---|---|---|---|
| Routing table, `core/qbus_route_items.c` | `routes_direct`: name to a pool of connections by uuid, with round marks; `routes_node`: name to the connection it is reached through; a mutex | add, update, get (round robin), rm, nodes, conns | called by the route under its mutex; built on `CapeMap` |
| Route, `core/qbus_route.c` | the table; `chains` (requests that wait for an answer) and `methods` with their mutexes; `on_changes_callbacks` | connection registered / dropped, one handler per type of frame, request, response, list of methods, observers | connections, methods, application callbacks |
| Method, `core/qbus_route_method.c` | callback, chain key and sender to go back to | call a request, call a response, continue the chain of a response | application callbacks, route |
| Connection, `core/qbus_connection.c` | queue of encoded frames and its mutex; frame being decoded; name and uuid of the remote end | send (queue, then mark), onSent (next frame), onRecv (decode, deliver) | route above, provider below |
| Frame, `core/qbus_frame.c` | header fields, payload, state of the decoder | encode, decode | connection |
| Engine and TCP provider, `core/qbus_engine.c`, `pvd_tcp/qbus_tcp.c` | list of physical connections, 10 s reconnect timer | listen, reconnect, on_done | AIO sockets and timers; creates and deletes connections |
| API, `qbus.c` | engines, configuration | send, continue, response, register, wait | application |
| Loggers, adapters (Python, Java), command line tools | - | output, bindings | - |

### CAPE (`cape/src`)

| Component | State | Operations | Talks to |
|---|---|---|---|
| AIO socket, `aio/cape_aio_sock.c` | flags (`mask`), reference counter, the buffer being written | onEvent, read, write, send, markSent, listen, close, onUnref; the accepting socket | AIO context; callbacks of the provider |
| AIO context, `aio/cape_aio_ctx.c` | epoll descriptor, list of handles and its mutex | next (one turn of the loop), add, mod, close | handles: sockets, timers, files |
| AIO timer, `aio/cape_aio_timer.c` | a timer descriptor | set, onEvent | AIO context |
| Queue, `sys/cape_queue.c` | list of jobs, worker threads with the job of each and its count, semaphore, observer thread | add, next, cancel a busy worker, CapeSync, delete | flow, qwebs, logger |
| Map, `stc/cape_map.c` | a binary tree with pointers to the parents, its size; cursors | insert, find, extract, erase, clear, iterate in both directions | everything |
| Other containers, formats, system layer | - | lists, strings, streams, data trees; JSON, tokens, numbers; files, time, processes | - |

### ADBL (`adbl/src`) and QJOBS (`qjobs/src`)

| Component | State | Operations | Talks to |
|---|---|---|---|
| Session, `core/adbl.c` | its own connection under a mutex | query, atomic increment and decrement | provider |
| Pool, `core/adbl_pool.c` | list of connections, each used or not, and its mutex | get, add, release | transactions |
| Transaction, `core/adbl.c` | a node of the pool, whether it has begun | insert, set, delete, insert-or-set, commit, rollback | pool, provider |
| MySQL provider, `pvd_mysql/adbl_mysql.c` | one connection | every statement with retries and reconnect | the server |
| Scheduler, `qjobs.c` | rows of timed events; a copy of the table and a pointer to the earliest row; a mutex | init, add, set, rm, the tick of the timer | ADBL; callbacks of the modules `jobs` and `flow` |

### QWEBS (`qwebs/src`) and the module FLOW (`../modules/flow/src`)

| Component | State | Operations | Talks to |
|---|---|---|---|
| Connection, `qwebs_connection.c` | the request being parsed, the answers to be written, flags of the connection, reference counter of its socket | onRecv, parser callbacks, send, onSendReady, onDone | AIO socket; API and page callbacks of the application |
| Websocket, `qwebs_prot_ws.c` | frame being decoded | upgrade, frames in, frames out | connection |
| Process, `flow_process.c`, `flow_run_dbw.c` | rows of processes, steps and counters in the database; `FlowRunDbw` objects in the queue, on a thread, or with a pending call | add, next, set, once, prev, step, abort, rm, continue the parent | ADBL, queue, QJOBS, QBUS |
| Step, `flow_run_step.c` | - | call, wait, sleep, split, if, variables | process |

The other parts are `qcrypt`, `qdata`, `qflow`, `qtee` (templates), the modules `auth`, `jobs`,
`pipe`, `webs`, the tool `cldd` and the web components `ng`.

### What is hard, and what makes it correct

* *Routing table*: connections come and go while names are shared by several processes. Correct
  when the table never holds a freed connection, a name is announced exactly while a process of
  that name is connected, a lookup finds it, and turns are fair.
* *Handshake and updates*: exchanges on several links run at the same time and links fail in the
  middle. Correct when both ends of a link come to agree, every exchange ends, and what a
  neighbour reaches is known.
* *Requests*: the chain key and the sender change at every hop, and a method may leave its answer to
  a request of its own. Correct when a callback is called once, with its own answer.
* *Socket*: marking runs without a lock on any thread; references are taken and given up in six
  places. Correct when frames leave in order, none is left behind, and the socket is freed once.
* *Queue of workers*: an observer cancels and restarts workers; shutdown joins them. Correct when a
  job is finished once, a wait ends with its jobs, and shutdown ends.
* *TCP provider*: reconnect by a timer, deletion of a connection inside its own callbacks. Correct
  when there is one way to a remote end at any time, nothing is used after it was freed, and a lost
  connection is tried again for ever.
* *Database layer*: threads share a pool, the server drops connections, statements are tried again.
  Correct when a transaction is stored as a whole or not at all and an atomic value goes to one caller.
* *Flow*: processes wait for their children, on two threads, with reports from outside, aborts,
  crashes, and users who move and remove processes. Correct when a process has one runner, does its steps in order, and its parent goes on
  once, after the last child.
* *Scheduler*: the table is changed while its copy is in use, and any call of the database may fail.
  Correct when an event runs, and runs again only for a reason.
* *Map*: extraction moves data between nodes while a cursor stands. Correct when the tree is a sorted
  set and an iteration returns every key once.
* *Web server*: requests come in any parts, answers from applications at any time. Correct when every
  request is answered once, in order, and the connection is released once.

The list `hazards` of `PROJECT.json` names these at their lines.

## 2. Modules

| Module | Models | Uses |
|---|---|---|
| `RouteTable` | the routing table as operators from tables to tables | - |
| `RouteItems` | one node: its table under the handlers of its connections | extends `RouteTable` |
| `Routing` | several nodes: handshake, updates, failing links | instance of `RouteTable` |
| `Chain` | requests and answers between several nodes | - |
| `AioSocket` | queue, socket and event loop of one connection | - |
| `Provider` | processes that listen and dial: engine, provider, timer, event loop, deletion | - |
| `Queue` | the queue of worker threads | implements `JobPool` |
| `Adbl` | sessions, pool and transactions on a MySQL server | implements `TrxStore` |
| `QJobs` | the scheduler of timed events | - |
| `Flow` | the processes of workflows on a loop thread and a worker | implements `TaskTree` |
| `CapeMap` | the tree and its cursor, with their pointers | implements `SortedMap` |
| `QWebs` | one connection of the web server, with the switch to a websocket | - |
| `JobPool`, `TrxStore`, `TaskTree`, `SortedMap` | what the user of a component may rely on | - |
| `RouteItemsProofs`, `RoutingProofs`, `ChainProofs`, `ConnectionProofs`, `ProviderProofs`, `QueueProofs`, `AdblProofs`, `FlowProofs` | theorems and their proofs | extends the module it is about; `ConnectionProofs` is about two, `QWebs` and `AioSocket`, and so is `FlowProofs`, about `Flow` and `QJobs` (for that the names of `AioSocket` and `Flow` differ from those of the other modules: `sockBuf`, `SocketSpec`, `FlowSpec`) |
| `MC...` | instances for TLC (constants that a configuration cannot write) | the module they instantiate |

The modules follow the layers: `Flow` takes one transaction of `Adbl` and one event of `QJobs` for a
step, `Chain` takes a frame of `AioSocket` for one message, `Routing` takes the links of `Provider`
for what comes up and fails. Each module ends with the properties. A definition marked "Mutant"
stands for a plausible bug in the definition after it; no behaviour uses it.

### RouteTable and RouteItems

A table is a record: the names with a context (`keys`), the context of each name (`direct`), and
the indirect routes (`nodes`). A context has the member of each slot, its round mark (`rr`), the
round and the `size` that `CapeMap` counts. `size` is a field of its own because the code decides
by it whether a context is empty, and because `cape_map_insert` counts insertions that it refuses.
Slot 0 is the member of the old protocol version, which has no uuid.

`RouteItems` has one action per handler: `ConnReg`, `OnRouteResponse`, `OnRouteUpdate`,
`ModuleFind` (every lookup moves the marks), `ConnRm`. Each runs its table operation under the
table's mutex, so it is one step. Connection objects are addresses: one that was freed may come
back as another connection. `said` and `overtaken` are histories.

### Routing

One process per name, at most one link between two processes, TCP channels in order. The end of a
stream is the frame `CLOSE`; a failure loses what is unread. `spaced` records that links only ever
changed when no frame was on its way: what is true only then is stated with it. Fairness is weak
fairness of "some handler runs": epoll reports a readable descriptor until it was read, and a
handler returns.

### Chain

The routing table is the constant `Hops` cut down to the open connections; a lookup prefers the module's
own connection, as `qbus_route_items_get` does. A node is inside at most
one application function (`running`), because everything runs on the thread of its event loop;
such a function returns or continues, and until then the node handles nothing else. The histories
`requests` and `about` say which request a frame, an entry or a function is about; no guard reads
them. A callback that is told "no route" gives up. A request to the own module may name a method that
is not there. Fairness: functions of the application return, and a node serves its connections.

### AioSocket

What a thread does between two points where another thread can be noticed is one step. The end of a
handler is cut where it matters: `ReturnMask`, `ClearMask`, `StoreFlags`, `Arm`; so is marking from
another thread: `SendPush`, `SendTest`, then `SendMark` or `SendModify` and `SendFlags`. The mutex of
the queue makes the push one step. The kernel takes a frame as a whole and the peer keeps reading.
Fairness is weak fairness of the event loop: epoll reports what is ready and asked for.

### Provider

Every process has one event loop, so the handling of one event is one step. `events` is the list of
handles of the AIO context, in its order, because `cape_aio_context_close` walks it; `listed` are the
connections of the provider, `routed` those the route knows. `Dial` and `Listen` open the ports of
`qbus_init`; `Report` is the end of a link at one of its ends, with everything that follows in the
callback: the route forgets the connection, the list forgets it, the timer is armed or, in a process
that closes, is not; `TimerExpires` dials again. `Delete` is `qbus_del`, part by part. A link is
modelled at both ends; `Break` and `Crash` leave them to be noticed by each on its own. `TimerFails`
and `InitFails` are the early returns when a socket cannot be created; the remote ends this happened
to are `lost`. `misused` records a use of a freed connection. Fairness: the loop runs, the kernel
reports broken links and expired timers; acceptance is strongly fair, because a link that breaks
before it is accepted leaves the accept queue and the next one has to be taken in the end.

### Queue and JobPool

The list of jobs is under a mutex; `item` and `busy_cnt` of a thread are not, so each access of the
worker and of the observer is a step. The semaphore counts. `OverCancel`, `OverKill`, `OverRelease`
and `OverRestart` are the parts of giving up on a job. `WakeWorker` also models what
`cape_thread_join` does with the list item it is given by mistake: nothing with an idle worker, a crash with a busy
one. `Hung` jobs never return, `Late` ones return after the limit, `Cancellable` ones return when
`on_cancel` was called. Fairness: the operating system gives every thread its turn. Deadlock is
checked: the one end without a next step is the deletion of everything.

### Adbl and TrxStore

The database is the set of statements that are stored; what a transaction has written is with its
connection (`pending`), and the server forgets it when the connection goes. `BeginTry` and the
statements go through `CheckError`, the retry of `adbl_check_error`; after `MaxRetries` each kind of
statement returns what the code returns. `holder` is the mutex of the session. Fairness: a thread
inside a call goes on; nothing makes a user begin a call, and nothing makes the server start again.

### QJobs

A call is a step for each wait for the database, with the mutex where the code takes it; `qjobs_rm`
takes none. `Fails` makes any call of the database fail, and `Restart` stops and starts the process.
`Uses` are the two ways the repository uses the scheduler: the module `jobs` calls everything on the loop
thread, the module `flow` adds events on its worker. Fairness: the clock goes on, the timer
expires, and calls come to an end.

### Flow and TaskTree

The rows (`task`, `sync`, `open`) are in the database and survive `Crash`; the queue, the pending
calls and the objects on the two threads (`ctx`) are in memory and do not. The `Run...` actions are the methods of the
steps; `Inherit` creates the children one by one, while the first may already run; `Dec` is the atomic
decrement by which the last child is known. A report of an announced item (`ProcessSet`) comes at any time,
also with the wrong code (`Mismatch`). Users repair a process (`Once`, `ProcessNext`), move it
(`ProcessPrev`, `ProcessStep`) and remove it with all below it (`ProcessRm`); rows that were removed
are in `gone`, and what is still on its way finds no row. The code lets them do so at any time; with
`MayDisturb = FALSE` they edit only what is at rest, as the test that is commented out in
`flow_process_prev` wanted, and do not repeat a split on the loop thread; `FlowDisturb.cfg` shows
what happens else. Steps before the one a process is moved to count as carried out, and in `TaskTree`
a child that was removed no longer holds its parent back. `EveryProcessSettles` leaves executions
with a move or repair out: somebody has to go on by hand. What depends on data is a choice.
Fairness: both threads go on, calls are answered, timers fire, announced reports come.

### CapeMap and SortedMap

The tree is a set of nodes with pointers; a freed node is no longer in `mem`, so a pointer to it
shows. `CursorExtract` moves the cursor back before it extracts, as the code does. The rotations are
left out because the code calls the rebalancing for the new leaf only, which has nothing to rotate:
`MapEraseBackward.cfg` shows the tree that comes of it.

### QWebs

`wire` holds the parts of requests the client has sent; `Recv` reads any number of them, because TCP
keeps no boundaries, and runs the callbacks of the parser over them; what a read leaves open stays
`here`. `Answer` is the application, inside the read or later. `Send`, `OnSendReady` and `OnUnref` are
the connection over its socket. `patient` is a history: the client has always waited for an answer
before it asked again. Fairness: the event loop serves the socket and the applications answer.

## 3. Runs

| Run | States | What it shows |
|---|---|---|
| `route_items` | 174,616 | all properties of the table, one link per process |
| `route_second_link` | violation | `NoDangling` fails when a process connects again before its old connection is dropped |
| `routing` | 17,035 | ends agree, exchanges end, neighbours are known, on a path of three |
| `chain` | 50,760 | callbacks are called once, with their answer, and all of them if no link fails |
| `aio_socket` | 12,885 | order, references, wake-ups of the loop's own sends, release |
| `provider` | 27,016 | one way to the remote end, no stale connection, deletion ends, linked in the end |
| `queue` | 154,771 | jobs are done once, waits and deletion end, the queue implements the pool |
| `adbl` | 75,476 | exclusive connections, atomic values, transactions as a whole, calls end |
| `qjobs` | 229,109 | events run, and again only for a reason |
| `flow` | 188,181 | one runner, steps in order, parents after children, processes settle |
| `cape_map` | 697,194 | the tree implements the sorted set, cursors are right |
| `qwebs` | 30,487 | answers once and in order, close after the last one, release |

Bounds, and why they are enough:

* `route_items`: three connection objects let two live connections of one pool meet a third that is
  registered, dropped and re-used. The four processes are two of one name, one of that name without
  a uuid and one of our own name; the lists name a module that is only indirect and one that is
  also direct. `MaxRound = 3` lets every member be served, wait, leave and come back between turns
  (the bound on overtaking is 2). Connection addresses are symmetric.
* `routing`: three nodes on a path make one node pass on what it learned; five link-ups let each
  link come up, fail and come up again while the other is in a handshake.
* `chain`: three requests let a request be forwarded, continued and continued again, or meet
  another one on the same nodes; one link fails.
* `aio_socket`: three frames (one in the buffer, two in the queue), one sending thread, two frames
  of the peer, a close or a reset at any time.
* `provider`: one process that listens and one that dials, two starts of each; three breaks let a
  link break, its successor break and the one after that; four links let the old ends of two
  links stand at the other process while a third is up.
* `queue`: two workers and three jobs make a worker take a job while the other one is given up; of
  the jobs one hangs, one hangs and can be cancelled, one returns. `Limit = 2` lets the observer
  count, see a job change, and count again. No job is late (`Late = {}`) and the queue is deleted
  when no worker is busy; the further configurations show the rest.
* `adbl`: two users with one transaction of two statements each (all four kinds) and one decrement
  each; two lost connections and one stop of the server, in any place between
  transactions; four tries are more than the losses and stops together.
* `qjobs`: two events that happen once or every tick, two ticks; one call of `qjobs_set` or answer
  CONTINUE, one failed call of the database or restart.
* `flow`: an order that splits into one or two deliveries, each of which calls another module, then a
  child that waits for two reports, or for none, then a sleep; one abort, two repairs, one move, one removal and one
  crash, three of these in one execution (without this bound: more than a million states, no violation in the
  part that was searched).
* `cape_map`: five keys give every shape of tree with five nodes, among them extraction of a
  node with two children whose next node is deep in the tree.
* `qwebs`: three requests or frames of the client, two of the application's own; the queue of answers
  holds two instead of 30. A fourth request (328,727 states) shows nothing else.

Deadlock is not checked where a bound stops the system (`routing`, `chain`, `provider`, `adbl`,
`flow`, `qwebs`); it is in the others.

### Further configurations

These are not in the list of runs. Each shows that a condition in a property, or a bound in a run, is
needed: TLC finds each property named here violated. Where a configuration has two of them, `-continue`
lets TLC report both; `ForwardsAreGone`, also in `ChainUnknown.cfg`, holds.

| Configuration | Module | Shows |
|---|---|---|
| `RoutingNoRoute.cfg` | `MCRouting` | `NoRouteIsTrue`: "no route" although a neighbour is connected to the module |
| | | `RouteMightReach`: two nodes keep each other as the way to a module that is gone |
| `ChainUnknown.cfg` | `MCChain` | `NobodyWaitsForNothing`: a local request for an unknown method is never answered |
| `AioSocketMarked.cfg` | `AioSocket` | `MarkedIsArmed`: a mark from another thread is lost |
| `AioSocketUnref.cfg` | `AioSocket` | `NotTouchedAfterFree`: a reset in the middle of a write gives one reference too many up |
| `ProviderGivesUp.cfg` | `MCProvider` | `RemoteIsTriedAgain`: a remote end is given up when a socket cannot be created |
| `QueueDeleteBusy.cfg` | `MCQueue` | `NeverCrashes`: deletion with a busy worker joins something that is no thread |
| `AdblLostDec.cfg` | `MCAdbl` | `ZeroMeansUsedUp`: a decrement whose answer was lost is done again |
| `FlowAbort.cfg` | `MCFlow` | `AbortedStays`: the answer of a pending call moves an aborted process on |
| `FlowLostMerge.cfg` | `MCFlow` | `NothingLost`: of two children that merge at the same time one loses its data |
| `FlowSplitEmpty.cfg` | `MCFlow` | `EveryProcessSettles`: a split over an empty list waits for ever |
| `FlowDisturb.cfg` | `MCFlow` | `OneRunner`: a process that is moved while its child runs is run twice |
| `MapEraseBackward.cfg` | `CapeMap` | `CursorIsExact`: a backward iteration that extracts stands at a freed node |
| | | `Balanced`: keys that come in order give a list |
| `QWebsOddUpgrade.cfg` | `QWebs` | `NobodyIsIgnored`: an unknown Upgrade is neither answered nor closed |
| `QWebsPipelined.cfg` | `QWebs` | `PipelinedInOrder`: answers to a client that does not wait come in any order |
| | | `NotUsedAfterFree`: the connection is written after its reference was given up |

## 4. Proofs

Each theorem is one of the specification, `Spec => []P`, for every value of the constants. Each
module has an inductive invariant that TLC checked first on the instance of the run; what it adds to
the properties is the argument.

| Module | Theorem | Property |
|---|---|---|
| `RouteItemsProofs` | `Fairness` | `RoundRobinIsFair` |
| | `NoDanglingReference`, `NoGhost`, `LookupFinds`, `RoutesAnnounced`, `RemovalFinds` | `NoDangling`, `NoGhostModule`, `LookupReachesTheModule`, `RoutesWereAnnounced`, `RemovalFindsTheConnection`, if no process has two links at a time |
| `RoutingProofs` | `EndsCorrect`, `ConnectionsCorrect` | `EndsAgree`, `NoDangling` |
| `ChainProofs` | `AnswersCorrect`, `CallsCorrect`, `AnswerCorrect` | `AnswersMatch`, `CalledAtMostOnce`, `OneAnswerToCome` |
| `ConnectionProofs` | `Refcount`, `FramesCorrect` | `RefcountIsRight`, `FramesInOrder` of `AioSocket` |
| | `WebAnswersCorrect` | `AnswersAreRight` of `QWebs` |
| `ProviderProofs` | `RouteCorrect`, `WayCorrect` | `RouteKnowsItsConnections`, `OneWayToTheRemote` |
| `QueueProofs` | `DoneOnceCorrect`, `WaitCorrect`, `PoolImplemented` | `DoneOnce`, `WaitMeansDone`, `ImplementsPool` |
| `AdblProofs` | `PoolCorrect` | `PoolIsExact` |
| | `DecrementsCorrect`, `StoreImplemented` | `EveryValueOnce`, `ImplementsStore`, if `FewFaults` |
| `FlowProofs` | `RunnerCorrect`, `OrderCorrect`, `TreeImplemented` | `OneRunner`, `StepsInOrder`, `ImplementsTree`, if operators edit what is at rest (`~ MayDisturb`) |
| | `RepeatsCorrect` | `RepeatsHaveAReason` of `QJobs` |

All of them also prove `TypeCorrect` (`WebTypeCorrect`, `SocketTypeCorrect`, `FlowTypeCorrect`), the type invariant.

* **RouteItems.** `Inv`: a member that has had its turn in this round may have seen each other member
  at most once since, one that still waits at most twice (`Bound`); this, with the marks being the
  current round or an earlier one, is what a turn, a newcomer and a leaver keep. `RoundRobinIsFair`
  alone is not inductive. That the pick is the smallest due slot needs that a nonempty set of numbers
  has a smallest element (`MinExists`, proved without induction over data). `Safe`: the live
  connections have different registrations, `size` is the number of uuids in the pool, a key has a
  member, and indirect routes were announced. `SecondLinks = FALSE` is needed: the run
  `route_second_link` shows what happens without it.
* **Routing.** `IInv` looks at the two ends of one link and what is on its way between them. A
  handshake is in one of three places: the request is on its way (and then is the first frame of its
  channel), or the answer is (and is the only one), or the connection has its name. A close is the last frame of a
  channel, and it is there exactly while the other end has not noticed. What a step of a node does to
  its other links is at most to leave an update for a neighbour that is known (`Elsewhere`). The table
  of a node is the one of its named connections, each the only member of its pool. Nothing is assumed
  of the topology.
* **Chain.** Every chain key has an owner, the request it was made for, and is in one place at a time:
  a frame on a channel, a function that runs, an entry that waits, or nowhere. Owners and places are
  functions that the invariant asserts to exist; with them an answer finds the entry of its own
  request, and finds it once. Failing links only move keys to nowhere. That the answer is on its way
  (`Answerable`) is about bearers: each request that waits has one, the frame, the function or the
  request made on its behalf that will bring its answer, and every frame, function and waiting child is
  the bearer of its request. It is kept because the chain to go back to is held by an entry of the node that
  made its key, and the connection to that node is up: the first thing sent there went over a link,
  and no link has failed. Only the bearer of a request can call its callback, so a request that is
  over has none.
* **AioSocket.** `SocketCounted` adds to the counter that frames in the queue are not the empty buffer
  and that nothing happens in a handler after the socket was freed. `SocketTyped` bounds the counter also
  after a reset: an error gives up one reference early, and then the event loop is on its way to
  removing the handle (`Doomed`). `Ordered`: what was sent, then the
  buffer, then the queue are the frames that were pushed, in their order; and removing the handle
  gives up enough references to free the socket, also after a reset.
* **QWebs.** A request is in one place: on the wire, with an application, in the cache, in the buffer of
  the socket, or answered (`OnePlace`); the wire is in the order of the requests, and a read takes the
  request in it out of all that is behind (`WireWell`). A client that waits has one request on its
  way (`OneAtATime`), so its answer finds an empty cache and is not thrown away, whatever the limit, and the
  server that is about to close has that answer in its hands (`Calm`). The counter is the number of
  holders - the event loop, the buffer, the parser, each open request (`Counted`) -, so an application
  that answers never releases a connection that is served.
* **Provider.** The list of handles says where a process is with a remote end: a socket whose link it
  dialled, a timer, or nothing while it starts, closes or after a failed creation; the two ends of a
  link agree on who dials whom as long as one of them holds it. The assumption that there are finitely many
  remote ends lets a process that starts have them in a list.
* **Queue.** A job is in one place: the list of its thread, the queue, the hands of one worker; one
  that is in none of them is done. The observer takes a job out of the hands of a worker only after it
  has stopped it, and a CapeSync counts the open jobs of its thread. The refinement maps these places
  to those of `JobPool`; each action is a step of it or leaves it alone. Jobs may be late and the
  queue may be deleted with busy workers: the theorems do not exclude it.
* **Adbl.** The place of a thread says what its transaction and its connection are, and a connection
  is marked exactly while a thread has it; this holds with any faults. `FewFaults` says that no
  connection breaks under a statement (`LoseBusy = FALSE`) and the tries outlast the faults
  (`MaxLosses + MaxStops < MaxRetries`). Both are needed: a break under a statement loses the answer of
  a decrement (`AdblLostDec.cfg`), and a decrement whose tries are used up returns a value
  that was not counted. `TrxStore` is implemented because the statements of a transaction that stand
  on the server are those of its thread up to the next one, or none.
* **QJobs.** Bookkeeping: an event whose row or copy still bears a date that a run has passed is owed
  a run, and each such event stands for an answer CONTINUE, a failed call or a restart that was not used
  up (`Owing`). It needs that nothing comes between the run, the write and the read. The mutex gives
  that for all but `qjobs_rm`, which takes none; `RmAssumption` says that the thread that calls it is the
  one whose timer ticks, as in the module `jobs`, or that none ticks.

* **Flow.** A process is in one place (`InOnePlace`): in the queue, with a pending call, on one of the two
  threads, open, asleep, about to be run by the thread that ended its last child, or waiting for its
  children; in each of them there is one dbw at most (`OneDbw`). The places change hands step by step,
  but for the children: they end on both threads in any order, and only the one that brings the counter to
  0 runs the parent. That it is the last one is what `Counts` says: the counter of a sync row is at least the
  number of children that have not decremented it and of those that are not created yet. It is not
  equal, since a removal takes children away and leaves the counter, and since a crash loses decrements.
  A process has children under one sync row only (`OneRow`), so another row of it cannot come to 0 at
  the same time. What was carried out follows from the place (`InStep`): whoever carries a dbw about
  has loaded the step the row stands at, before or after it was carried out as the state says; when an
  operator may repair or move a process, the state of its row tells which. Paths are recursive
  functions along the parents; they exist because a child is created after its parent (`WalkExists`, by
  least counterexample). Any workflows, lists and numbers of processes, aborts, repairs, removals, moves and crashes
  are allowed, though no repair or move after a crash (a row does not say what of its step was carried
  out), and `~ MayDisturb`: the code lets an operator edit a process that runs, and then `OneRunner`
  fails (`FlowDisturb.cfg`). For `TaskTree` a step that goes on has no child left, which the
  same invariant says (`Free`), and nobody stays below a removed process (`GoneBelow`).

Assumptions are only those on the constants, named in the modules: `NoConn` is no connection, uuids
are finitely many positive numbers, every job has one place in the plans, and so on.

Only model-checked:

* liveness: `EventuallyQuiet`, `EveryRequestIsAnswered`, `EveryFrameIsSent`, `ReleasedAfterClose`,
  `EveryJobIsDone`, `DeleteEnds`, `LinkedInTheEnd`, `EveryCallEnds`, `EveryProcessSettles`,
  `EveryEventRuns`, `ReleasedInTheEnd`;
* `SpacedChangesAreKnown`: it is about a path of three nodes, and false for other links;
* `CapeMap`: what a tree holds, and that its order is the one of the keys, needs induction over the tree.

## 5. Findings

The run `route_second_link` is listed as a finding: the removal of a connection looks the table up by
name and uuid, so the second link of a process takes the entry and the routes of the first out. The
further configurations show disagreements between the code and what it says of itself:

1. "no route" although a neighbour has one: only the first announcement of a module is kept
   (`qbus_route_items.c:385`). A module that is gone stays reachable by name, because lists are sent
   back to where they were learned.
2. A local request for an unknown method is never answered, although `qbus_send` reports that it goes on.
3. `cape_aio_socket_markSent` from another thread can be lost; the buffer's reference is given up
   twice after a reset ("it is safe to access the object everytime", `cape_aio_sock.h:25`).
4. "Add timer for reconnection" (`qbus_tcp.c:456`): not when the socket cannot be created.
5. "If there is a task running, it blocks until it has been finished" (`cape_queue.h:36`): a list item
   is joined in place of the thread.
6. "the result will be returned or an error if not possible" (`adbl.h:49`): a decrement
   that is tried again takes two.
7. "merge both TDATA's" and "abort -> deactivate the task" (`flow_run_dbw.c`): data of one child can be
   lost, and an aborted process goes on when its call is answered.
8. "this class implements a balanced binary tree" (`cape_map.h:8`): nothing is ever rotated.
9. "send error back and close connection" (`qwebs_connection.c:848`): the branch does neither.

Some things the properties state as they are: the entry of a local request that was answered at once
stays in `chains`; after a link failed the callbacks that waited for it are not called
(`EveryRequestIsAnswered` of `Chain`); the half request of a web client that left keeps its connection
for ever (`ReleasedInTheEnd`); after a crash a process that was between two steps waits for an operator
(`EveryProcessSettles`).

## 6. Plan

1. Two event loops with bounded kernel buffers: the spin on EAGAIN, mutual waiting.
2. Observers of the route under their mutex; a looked-up connection used on another thread.
3. The frame decoder against a reference definition, over any cut of the stream.
4. Pools of processes of one name in `Chain`; an abstract specification of request and answer that
   `Chain` implements.
5. The module `auth`: sessions and tokens over `qbus_continue` chains.

## 7. Not modelled

* QBUS: loading of engines, configuration, roles, loggers, adapters, command line tools; the decoder
  and the payload of frames.
* CAPE: UDP, ICMP, name resolution, files, the cache socket, the Windows and BSD variants; the signal descriptor
  beyond "SIGTERM ends the loop"; `cape_aio_accept_del` (it never closes the listening
  descriptor, `cape_aio_sock.c:1267`); a handle whose descriptor is 0; EINTR; lists, strings,
  streams, data trees as algorithms; formats.
* ADBL: the SQLite provider, the building of statements and the conversion of values.
* QJOBS: `qjobs_run`; a callback that answers NONE to an event without a period. The module `jobs` is a
  caller.
* FLOW: editing of workflows, worksteps and chains; lists and details for the user interface;
  a move into another sequence; an abort of a process whose parent was removed (it ends with an error);
  variables.
* QWEBS: the third-party parser, the mapping of addresses to sites and files, multipart bodies, templates.
* `auth`, `pipe`, `webs`, `cldd`, `qcrypt`, `qdata`, `qflow`, `qtee`, `ng`: applications, conversions and
  user interface; `PROJECT.json` gives the reasons.

## 8. Running

    tlc -config MCRouteItems.cfg MCRouteItems.tla
    tlc -config AioSocket.cfg AioSocket.tla
    tlc -config MCCapeMap.cfg CapeMap.tla
    tlapm RouteItemsProofs.tla        (and so on for each module of proofs)
