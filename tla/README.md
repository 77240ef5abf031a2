# Verification of miniWebChat

miniWebChat is a chat server in C++17: one reactor thread does all socket I/O with epoll, an
elastic thread pool executes the requests, two connection pools lead to MySQL (accounts) and Redis
(cached accounts, online flags, chat records). A terminal client in Python talks to it. These TLA+
modules model the program from the first byte of a request to the last byte of the answer, and from
`main()` to the exit of the process. TLC checks them on small instances; TLAPS proves the safety
properties for all instances.

Paths below are relative to the repository: `Server.hpp`, `Connection.hpp`, `Reactor.hpp`,
`BlockingQueue.hpp`, `Protocol.hpp`, `ChatService.hpp` are in `include/common/`, `ThreadPool.hpp`
is in `include/pool/`, the pools and drivers in `src/pool/`.

## 1. Inventory

| Component | State | Operations | Interacts with |
|---|---|---|---|
| ThreadPool | `running_`, `accepting_tasks_`, `task_queue_`, `live_threads_`, `busy_threads_`, `workers_`, `exited_thread_ids_`, two mutexes | constructor, `submit`, `worker_loop`, `manager_loop`, `shutdown` | the reactor submits; workers run `ChatService::onMessage` |
| BlockingQueue | `queue_`, `isshutdown_`, `capacity_`, two condition variables | `push`, `pop`, `pop_for`, `try_pop`, `shutdown` | is the task queue |
| Redis/MySQL connection pool | `all_connections_`, `idle_connections_`, `initialized_`, `shutting_down_`, `mutex_`, `cv_` | `init`, `acquire`, `releaseConnection`, destructor | workers and the reactor acquire; talks to the servers under its mutex |
| RedisConnection, MySQLConnection | `ctx_`/`conn_`, `connected_`, last error | `connect`, `ping`, `reconnect`, commands | the servers |
| ChatService | none but the key counter; works on connections and Redis | `onMessage`, `onConnectionClosed` | pools, connections, table of connections |
| Connection | `connected_`, `logged_in_`, user, `read_buffer_`, `write_buffer_`, `write_mtx_` | `handleRead`, `handleWrite`, `sendPacket`, `closeAndCleanup` | reactor thread and workers share it |
| Reactor | `handlers_`, the epoll registration, `running_` | `loop`, `add_fd`, `mod_fd`, `del_fd`, `stop` | calls back connections and the server; `mod_fd` is called by workers |
| Protocol | none | framing, JSON scanner and builder | connection, chat service |
| Server, main | `connections_`, `listen_fd_`, `stopped_` | `init`, `handleAccept`, `stop`, signal handlers | owns everything |
| cli_client | a socket | login, chat, receive | the server |

What is hard here, and what has to hold:

* **ThreadPool.** The manager grows the pool from stale samples while idle workers retire with a
  compare-and-exchange; shutdown meets submissions, retirements and the manager half-way. The pool
  must stay within its limits, lose no task queued before the shutdown, join every thread, and
  always terminate.
* **BlockingQueue.** Timeouts, spurious wakeups and a shutdown that notifies outside the mutex race
  with notifications that wake one thread each. Nobody may sleep through what he waits for.
* **Connection pools and drivers.** One wakeup per release, overtaking, servers that go away, refuse
  or answer too late: connections must be exclusive, no wakeup may be lost, places lost for good
  must have a reason, and no command may take the reply to another one for its own.
* **ChatService.** A login is a sequence of commands to two databases and of writes to shared flags;
  another worker or the closing of the connection can come between any two of them. Sessions must
  be unique, marked in Redis, answered, and their messages ordered.
* **Input path and protocol.** A stream is cut anywhere, ends anywhere, and in edge-triggered mode
  nothing is reported twice: exactly the valid frames must be submitted. What a user types passes
  through the escapes of three languages and a scanner that looks for keys as text.
* **Output path.** Appending and arming EPOLLOUT on a worker race with emptying and disarming on the
  reactor, and with the reuse of the descriptor.
* **Server lifecycle.** `stop()` runs in a signal handler on top of whatever the main thread is doing,
  and descriptors are reused at once: who closes what, who waits for whom, when does the process end.

`PROJECT.json` lists the hazards one by one, each with its line and its properties.

## 2. Modules

| Module | Models |
|---|---|
| `ThreadPool` | `ThreadPool.hpp`, with the task queue as an atomic object |
| `ThreadPoolInvariant`, `ThreadPoolProofs` | its inductive invariant; theorems and proofs |
| `TaskQueue` | `BlockingQueue.hpp` with its mutex and condition variables |
| `WorkQueue` | abstract specification of a blocking queue: what `ThreadPool` relies on |
| `TaskQueueProofs` | theorems and proofs |
| `Drivers` | what each operation of `RedisConnection` and `MySQLConnection` makes of a reply |
| `ConnectionPool` | both connection pools over `Drivers`, with the database server |
| `LendingPool` | abstract specification: what the users of a pool rely on |
| `ConnectionPoolProofs` | theorems and proofs |
| `ChatSession` | `ChatService`, `handleAccept`, `connections_`, the hash of a user in Redis |
| `ChatSessionProofs` | theorems and proofs: sessions; answers and their order |
| `Delivery` | the output side of `Connection` with the registration for EPOLLOUT |
| `PacketChannel` | abstract specification: what the senders of packets rely on |
| `DeliveryProofs` | theorems and proofs |
| `Framing` | the input side of `Connection`, with the frame functions of `Protocol.hpp` |
| `FramingProofs` | theorems and proofs |
| `Messages` | the texts: client, `Protocol.hpp`, the SQL query, and the client again |
| `Protocol` | composes `Framing` and `Messages` |
| `ProtocolProofs` | theorems and proofs: what the loops over texts compute, for every text |
| `Server` | `main.cpp`, `Server`, `Reactor` and the descriptors |
| `ServerProofs` | theorems and proofs |
| `MCThreadPool`, `MCChatSession`, `MCProtocol` | symmetry sets and definitions for TLC |

They overlap on purpose where components meet: what one module takes as an atomic object is
the subject of another. `ThreadPool` uses its queue as `WorkQueue` describes it, and `TaskQueue`
implements `WorkQueue`; both are theorems. `ChatSession`
counts the free Redis connections, which `ConnectionPool` lends; `Server` and `ChatSession` receive
frames, which `Framing` extracts, and send packets, which `Delivery` carries; `Protocol` is `Framing`
and `Messages` in one state space.

The grain of atomicity is one atomic access, one critical section up to the next call that may
block, or one command to a server. Faulty variants of some actions stand in front of the action
they distort; no specification uses them. They exist to show that each property would notice.

### ThreadPool

`thread[w]` is the program counter of worker `w` in `worker_loop`: `PopTask`/`PopNothing` are the
two results of `pop_for` (line 167), `BeginTask`, `EndTask`, `Tally` are `execute_task`,
`CheckRunning` and `CheckDrained` are the two halves of the test in line 175, `CheckIdle`,
`LoadLive`, `Retire`, `RetryRetire`, `StayCore`, `Bury`, `Return` are lines 179-203, and `Leave` is
line 205. `Retire` and `RetryRetire` are the two results of the exchange; a spurious failure of
`compare_exchange_weak` changes nothing and is a stuttering step. `manager` is the program counter
of `manager_loop`: `Wake`, the three samples, `Decide`, `ManagerSpawn`/`ManagerCount` (the two
halves of `create_worker`), `SwapExited`, `LockToReap`, `Reap`, `EndReaping`. `owner` goes through
the constructor, use, and `shutdown()`. `live` is a `size_t` with `CounterModulus` values. `early`
is a history variable: the tasks queued while `running_` was true.

A timed wait may time out whenever what it waits for is absent; an idle worker may find itself idle
for longer or shorter than `idle_timeout_`. Thread identities are reused after the join. A task
throws or returns: `execute_task` treats both alike.

The task queue is taken as atomic. `UsesWorkQueue` says that this use is one of `WorkQueue`: every
submission and every worker is a caller, a submission inside `push`, a worker that waits inside
`pop_for`; what a worker holds is what its last `pop_for` has returned, until it has executed it and
calls again. Submissions are named by their tasks, and `KindsAssumption` says that no task is a thread,
so that callers are not confused.

### TaskQueue and WorkQueue

`mtx_` is held from the beginning of a call to its return or its wait, so what a thread does in
between is one step: `Push`, `PushRefused`, `PushSleeps`, `Pop`, `PopNothing`, `PopSleeps`. `phase`
says whether a thread has just called, sleeps, was woken, or has run out of time (`Timeout`, which
still has to get the mutex and look at the predicate once more). `notify_one` wakes some sleeper;
`shutdown()` is `RaiseFlag`, `NotifyConsumers` and `NotifyProducers`, because it notifies after it
has unlocked. `WorkQueue` is a queue whose calls take effect in one step and are completed if they
can be; `TaskQueue` implements it, its own variables taken as they are.

### Drivers, ConnectionPool and LendingPool

`Drivers` is a table of functions: from the reply (or its absence) to what the operation returns
and the value of `connected_` afterwards. A Redis command without reply clears `connected_`, a
failed MySQL statement does not.

`acquire()` is `Enter`, then `TakeIdle`, `Ping`, `ReconnectSucceeds`/`ReconnectFails`, `Grow` and
`Sleep` inside `mutex_`, with `Relock` after a wakeup. `Use` is any command of a user, `Release` is
`releaseConnection` with its `notify_one`. `driver` is chosen at the start: MySQL, or Redis with or
without a password. The server works, refuses everything (a Redis that loads its data), or is down;
`link[c]` is the transport under a connection: none, good, dead, or late, when a reply is under way
for which nobody waits any more. A timeout leaves the transport of MySQL dead, because its client
library closes it, and that of Redis late, which is the worst that hiredis may leave; what hiredis
does is outside the repository. `crossed` records that a command took such a reply for its own. A
dropped connection stays in `all_connections_` and so in `made`.

`LendingPool` knows four places of a connection (absent, pooled, lent, lost) and who holds it.
`ConnectionPool` implements it under the mapping that computes the place of a connection from
`made`, `idle` and the locals of the users.

### ChatSession

A worker takes a request (`Take`), tests it (`Begin`), and for a login reads the hash in Redis
(`LoadProfile`, `LoadFlag`) or on a miss the table (`LoadFromTable`, `RefuseUnknown`) and fills the
cache (`FillProfile`, `FillFlag`), decides (`Refuse`), writes name and flag of the connection
(`SetUserInfo`, `Admit`), writes the online field (`MarkOnline`), answers (`Grant`) and announces the
user (`SpreadTo` for each connection of its snapshot, `SpreadDone`). A chat is `Record` and
`SpreadTo`. The reactor accepts, receives one frame at a time, and closes: `SeeSession`, `MarkOff`,
`Farewell`, `Logout`, `Remove` in the order of `onConnectionClosed` and `closeAndCleanup`. `slots`
counts the free Redis connections: whoever holds one inside `loadUserFromRedis` or
`cacheUserToRedis` keeps it between two commands. Texts and ids are abstracted to a kind and
the number of the request; every request that fails to parse or to validate is `malformed`.

The snapshot of the connections is taken in the same step as the preceding send or command. Only
the reactor changes the table, and its `Accept` and `Remove` can be moved before that step without
changing what anyone sees. MySQL has no pool here: it is only read, and each of its connections is
used for a single query, so waiting for it ends.

### Delivery

`StartSend`, `AppendPacket`, `Arm` are `sendPacket`; `Dispatch` is the reactor calling
`handleWrite`, which is `LockBuffer`, `Transmit`, `WouldBlock`, `SeeEmpty`, `Disarm`. The kernel is
modelled from how `Reactor.hpp` uses it: `mod_fd` makes a writable descriptor reported again, and
in edge-triggered mode otherwise only new room does (`PeerReads`). `CloseAndCleanup` closes the
connection at any time the reactor can, and `Accept` gives its descriptor to a successor: a sender
that tested `connected_` before the close then registers whatever descriptor it finds (`ArmStale`).

`PacketChannel` knows whether the connection is open, which packets have been decided upon, which
units it has promised to carry and which of them it has carried. `Delivery` implements it: what it has
promised is what was sent together with what is in the buffer, what it has carried is what was sent,
and a packet is settled as soon as its sender is past appending it. A packet for a connection that has
ended is refused, or accepted in vain.

### Framing, Messages and Protocol

In `Framing` the peer begins frames one after the other, each with the length its header declares,
valid or not (`Lengths`), sends them one unit at a time, and may finish or reset the stream anywhere.
`script` holds the lengths begun so far, `ends` where in the stream each of these frames ends, and
`stream` the units sent, each with its frame and its place in it. `Poll` is `epoll_wait` in either
trigger mode; `Recv`, `RecvEnds`, `WouldBlock`, `CheckHeader`, `Extract`, `NoMoreFrames` are the
steps of `handleRead`, which calls `hasInvalidFrameLength` once and `tryExtractFrame` until it fails.

`Messages` has no state: it computes the way of one request from `json.dumps()` in `cli_client.py`
through `parseClientMessage` with its scanner for keys, strings and objects, `sqlEscape` and MySQL's
reading of the literal, `escapeJson` and `buildResponse`, to `json.loads()` in the client. Texts are
sequences of the characters that any of this code tells apart; a key is one character, and so are
the digits of `\uXXXX`. Carriage return and tab are escaped and unescaped like the line feed and
are left out. Each loop of the code is a recursive function over the positions of the text, whose
body (`UnescapeAt`, `BracketAt`) is one round of the loop. A client chooses any text as the id of a
request, except those that `LooksLikeData` describes: `data` itself, and what ends with a quote and
`data`. Such an id is misread (below); the client of the repository numbers its requests
(`cli_client.py` lines 85 and 106). `Protocol` composes the two.
Because `FramesExact` makes the bodies independent of how
the stream was cut, its two properties try every request as soon as any body has been submitted.

### Server

The main thread is a stack of activations, the running one first; a label names the place. `main`
goes through `initReactor`, `initListen`, `initAdd`, `wait`, `dispatch`, `exit`, `destroy`. The loop
takes events of registered descriptors in any order, chosen when they are dispatched, and pushes the
callback: `handleAccept` (`Accept`, `Register`, `Insert` and their failures), `handleRead` (`Read`,
`Submit`, `PushTask`), `handleWrite` (`Write`) or `closeAndCleanup` (`Cas`, `DelFd`, `Logout`,
`FarewellTo`, `FarewellSent`, `RemoveConnection`, `CloseFd`). `ThenWrite` is the second callback of
one event, whose handler may have been erased by the first. `Signal` pushes `stop()` on top of
anything. The mutexes the main thread holds follow from the labels on the stack, so a step that
needs one of them is never taken again: `Stuck` says so. `owner[f]` is who opened descriptor `f`,
`stray` records that somebody closed one he did not own. The kernel hands out the lowest free number.

What this module leaves to others: a login is one step that needs the Redis mutex, a broadcast one
step that needs the table and one that needs `write_mtx_` of a receiver. Signals reach only the main
thread, to which Linux delivers a signal for the process while that thread does not block it, and
nothing here does. The test of `stopped_` and its setting are one step: a signal between them runs
`stop()` a second time on the nothing that the first has left. After the first `stop()` a further
signal has no effect and is left out; signals during the destruction of the members are not
modelled. Clients are interchangeable, so a fixed one of them is the next.

## 3. What the runs check

| Run | Instance | Shows |
|---|---|---|
| `threadpool_safety` | 1 core, 2 max, 5 thread identities, 2 tasks | limits, early tasks, joins; is a user of `WorkQueue` |
| `threadpool_live` | 1 core, 2 max, 4 identities, 1 task | `shutdown()` returns; a queued task is executed |
| `threadpool_stranded` | as safety | **violated**: the queue is empty after the shutdown |
| `task_queue` | capacity 1, 2 producers, 2 consumers, 2 calls each, 1 spurious wakeup | no wakeup is lost; implements `WorkQueue` with its liveness |
| `pool` | 3 users, min 1, max 2, 4 calls, 2 outages or timeouts, 1 spurious wakeup, all drivers | implements `LendingPool`; exclusive connections, no lost wakeup, what shrinks the pool, no reply crossed, and when `acquire()` returns |
| `session_single` | 2 clients, 2 accounts, 1 worker, 3 requests | unique sessions, marks in Redis, order of messages |
| `session_pair` | 2 clients, 1 account, 2 workers and the reactor on one Redis connection, 2 requests, failures, expiry | one answer per request; name before flag; every request gets through |
| `session_double` | 2 workers | **violated**: one session per user |
| `session_ghost` | 1 worker | **violated**: online in Redis means a session |
| `delivery` | 3 senders, 2 units per packet, room for 3, edge-triggered, one reuse of the descriptor | frames intact, output is noticed, every packet is sent; implements `PacketChannel` |
| `protocol` | header of 2 units, bodies of up to 2, reads of up to 3, up to 3 frames of declared lengths 0 to 3, both trigger modes; names of 1 and texts of 3 characters and one more, 12 characters | exactly the valid frames are submitted, none left behind, bounded buffer; requests are understood and shown as typed |
| `server` | 2 clients, descriptors 3 to 5, 1 worker, 1 queued task, a signal anywhere | who closes which descriptor, whether the tables agree, when the process aborts or is stuck, what is left at exit, and that a stop ends it |

### Bounds

* **Thread pool.** One core worker and one more are the fewest that retire and leave the manager
  something to reap; two tasks make `pending > live` possible, the burst that asks for more workers.
  With five identities an unjoined thread does not stop the pool from growing. A modulus of 8
  exceeds every count; only its wrap at zero matters.
* **Task queue.** With capacity 1 the queue is full and empty within one call of each side, and two
  threads on each side let one overtake the other.
* **Connection pool.** Three users over two connections give holders, a sleeper and an overtaker; with
  four calls one of them comes back. `Conns` has one identity more than `MaxConns`, so that growing
  beyond the limit would be possible. Two failures break a connection that was already replaced
  once, or let a timeout follow an outage. One spurious wakeup differs from none, and further ones
  repeat it.
* **Sessions.** Two clients, two accounts and three requests contain two logins of one user, a login
  under another name on the same connection, and a chat. One worker and two workers are separate
  instances because order and uniqueness hold for one only. Expiry and failing commands are switched
  off where the property is about the mark in Redis, which they destroy by themselves.
* **Output.** A packet of two units is torn or not; room for three leaves one packet and a half in
  the kernel.
* **Input.** Declared lengths run from 0 to one more than the limit, so both invalid sides occur at
  every position of three frames; a read of three units ends inside headers and bodies alike.
* **Messages.** Every string of up to the limit and one character more over the characters the code
  tells apart; four characters are enough for a key between quotes, an escape at the end, and brackets
  in any order.
* **Server.** With three descriptors and two clients the process runs out of them, and the one that is
  closed is the next to be given out, to a client or a database connection.

`CHECK_DEADLOCK FALSE` is used in `pool` only: when all its places are lost, every thread really
sleeps for ever. All other runs look for deadlocks, and the states in which the system may rest
are spelled out: `Stopped` (the pool has shut down), `Resting` (nobody is in a call that could be
completed), `AllGone` (every client has left), `AtRest` (nothing to send, or everything read),
`Over` (the process has ended, or is stuck as `Stuck` describes; that this happens by a signal only
is a property).

### Fairness

Weak fairness of each thread is all that is assumed: the operating system schedules threads, timed
waits end, tasks return, and calls to the servers return because both drivers configure timeouts
(`RedisConnection.cpp` 193-213, `MySQLConnection.cpp` 138-158). In `Delivery` the peer keeps
reading. Nobody is obliged to submit, to shut down, to send a request or to hang up; no outage has
to end, no signal has to come. A failing Redis command is always possible and never necessary.

The liveness runs therefore show that what has begun ends, not that anything begins. A thread
waiting for a mutex gets it under weak fairness only because the mutex is asked for finitely often
in these instances: the calls are bounded, and a starvation by an endless stream of overtakers is
outside the models.

### Disagreements found

1. `threadpool_stranded`: a `submit()` that read `accepting_tasks_` before a shutdown can leave its
   task in the queue for ever, with a future that never becomes ready.
2. `session_double`: two logins of one user that two workers execute at the same time are both
   granted. `OneSessionUnlessOverlap` shows that without expiry and failures nothing else leads there.
3. `session_ghost`: a user can stay marked online without a session, when the connection closes while
   its login is being executed, or logs in under another name. He is refused until the key expires.

More were met while modelling. Several properties name them as their exception, so the runs show
that they are the only ones:

* A signal before `Reactor::init` is forgotten, because `init()` sets `running_` again and `stop()`
  does nothing the second time; one before the listening socket exists leaves it open
  (`StopTakesEffect`, `ReleasedAtExit`).
* A signal that finds the main thread with a mutex that `stop()` or a worker needs leaves the process
  stuck (`StuckBySignalOnly`).
* A connection that closes in the read callback of an event that also reports EPOLLOUT leaves the loop
  with a reference to an erased handler; a frame submitted after the pool has been shut down throws
  out of `main()` (`AbortExplained`).
* After a failed registration a descriptor is closed twice (`OnlyOwnClosed`); after a failed
  `accept()` in edge-triggered mode the waiting clients stay in the backlog (`BacklogIsNoticed`).
* Frames that arrive together with the end of the stream are discarded (`NoneLeftBehind`).
* Characters outside ASCII, which the client sends as `\uXXXX`, stay so in names and texts and count
  six characters each.
* A request whose id is `data`, or ends with a quote and `data`, is misread: the scanner takes the id
  for the key (`Protocol.hpp` lines 216-222). `MessagesAssumption` excludes these ids; the proof of
  `RequestUnderstood` shows that there are no others.
* One command to Redis that times out costs the pool a place for good (`LostIsDisconnected`,
  `AcquireReturns`).
* The key of a user expires after 24 hours although the session lasts, and a second login is then
  granted even with one worker (`session_double` with one worker and `MayExpire = TRUE`).
* The table compares names without regard to case, the keys in Redis do not: another spelling of a
  name gets a second session of the same account.
* `create_worker` starts the thread before it counts it, so `busy_threads_` can exceed `live_threads_`
  for a moment, against the comment in `ThreadPool.hpp` line 33; the limits hold nevertheless.
* Closing a connection makes the reactor wait for a Redis connection, although `README.md` line 161
  says that the thread pool keeps the reactor from blocking.

## 4. What is proved

Theorems about states are of the form `Spec => []P` or `Spec => Abstract!Spec` (two have `Spec /\
[]NoOverlap` on the left), follow from an inductive invariant of their module, and hold for every
value of the constants that the named assumptions admit (`Init` and each step, then the temporal
step). `ProtocolProofs` is about functions on texts, and its theorems hold for every text. No lemma
is left without a proof.

| Module | Theorems | For all |
|---|---|---|
| `ThreadPoolProofs` | `Invariance`, `TypeCorrect`, `LiveStaysWithinLimits`, `EarlyTasksAreDone`, `EveryThreadTracked`, `RetiredIsKnown`, `TasksInOnePlace`, `PoolUsesWorkQueue` | tasks, finite sets of threads, limits with `0 < core <= max`, capacities |
| `TaskQueueProofs` | `Invariance`, `TypeCorrect`, `NoWakeupLost`, `QueueImplementsWorkQueue` | finite sets of threads, capacities |
| `ConnectionPoolProofs` | `Invariance`, `TypeCorrect`, `ConnectionsExclusive`, `NoWakeupLost`, `LostAreDisconnected`, `RepliesAreOwn`, `PoolImplementsLending` | finite sets of users and connections, limits that `init()` accepts, all drivers |
| `ChatSessionProofs` | `Invariance`, `TypeCorrect`, `SessionsHaveNames` | clients, accounts, finite sets of workers, sizes of the pool, with expiry and failures |
| | `OneSessionUnlessOverlap`, `SessionsMarkedUnlessOverlap` | the same with no expiry and no failures, as long as logins of one account do not overlap |
| | `OneSessionPerUser`, `SessionsAreMarked` | the same with one worker, no expiry and no failures |
| | `RequestsAreAnswered` | clients, accounts, finite sets of workers, sizes of the pool, with expiry and failures |
| | `ChatsAreInOrder` | the same with one worker |
| `FramingProofs` | `Invariance`, `TypeCorrect`, `SubmittedAreExact`, `NoFrameLeftBehind`, `BufferStaysBounded` | declared lengths, limits, sizes of `recv()`, numbers of frames, both trigger modes |
| `ProtocolProofs` | `UnescapeUndoesDumps`, `EscapesAreUndone`, `RequestsAreUnderstood`, `TextsArrive` | alphabets, limits, request ids that do not look like the key `data` |
| `DeliveryProofs` | `Invariance`, `TypeCorrect`, `WaitingOutputIsNoticed`, `PacketsStayWhole`, `DeliveryImplementsChannel` | senders, packet lengths, room, both trigger modes |
| `ServerProofs` | `Invariance`, `TypeCorrect`, `OwnDescriptorsClosed`, `TablesAlwaysAgree`, `BacklogsAreNoticed`, `OnlySignalsStick`, `AbortsAreExplained`, `AllReleasedAtExit` | finite sets of clients and descriptors, workers, capacities |

Hardly any of the safety properties is inductive alone. What is added:

**ThreadPool** (`ThreadPoolInvariant`).

* `Roles`: which phases of owner and manager exclude each other, and who holds `workers_mtx_`. It
  gives that the manager is gone before the owner joins the workers, and so that nothing is created
  behind its back.
* `Limits`: between `Decide` and the last `create_worker` of a round, `live` plus the workers still
  to be created stays within `max_threads_`. This is where the stale sample is harmless: other
  threads only decrease `live`, so what the manager saw is an upper bound.
* `Census`: until the first worker leaves, `live` and the one worker not yet counted add up to the
  number of active workers.
* `BusyIsExact`: `busy` is the number of workers inside a task, so it never wraps.
* `Tracking`: where the `std::thread` and the id of each worker are kept.
* `LeavingMeansStopped` and `Custody`: where each early task is; as soon as a worker leaves, no
  early task is queued, and one that was taken is in the hands of a working thread.

`OnePlace` is inductive with these: a task is once in the queue or in the hands of one worker, so none
is executed twice (`TasksInOnePlace`). With it each step of the pool is one of `WorkQueue` or leaves its
variables alone, also where a worker lets go of its task on the way from one call to the next
(`StepUses`); together with `QueueImplementsWorkQueue` this joins the two levels at which the queue
is modelled.

**TaskQueue.** `Kinds` (who may execute what) and `ClosedFirst` (the flag is raised before anybody
is notified). The argument for `NoLostWakeup` counts: every step changes the number of items and
the number of threads on their way to take one by the same amount, or makes the first smaller;
the lemma `Balance` states this once for both sides. The refinement then needs no more than that
each step is a step of `WorkQueue` or leaves its variables alone; the fairness of `WorkQueue` is
checked by the run `task_queue`.

**ConnectionPool.** `Roles` (who has a local connection and who the mutex), `Apart` (each
connection is in one place, once), `Settled` (a transport with a late reply belongs to a connection
whose `connected_` is cleared, which `releaseConnection` drops and `ping` does not ask), and `Calm`
(while nothing has failed, links are good), without which `LostIsDisconnected` could not exclude
losses before the first failure. The refinement computes the place of a connection and follows it
through every step.

**ChatSession.** With any number of workers: `Roles` (a busy worker has a task, one inside
`handleLogin` a login), `Census` (each Redis connection is free or in the hands of one worker in
`flag` or `fillFlag`), `Closing`, and `Named` (a name is never erased, and who is about to set the
flag has written one). Uniqueness is stated for logins of one account that do not overlap
(`NoOverlap`: no two workers are between the first look at an account and its mark in Redis); one
worker satisfies this by itself. The notion that carries the proof is `Owns(c, n)`: c has the
session of n, or had it until the reactor began to close c and has not yet marked n offline. Then
`Unique` (one owner per name), `Marked` (an owner is online in Redis, or just being let in), `Alone`
(whom a worker found offline nobody else owns), `Cached` (who is online is in the cache, so a miss
means offline; while the cache is being filled the user is offline) and `Admitted` (who sets the flag
of a connection finds the name of a session there, or one that is about to begin) are inductive
together. `Admitted` is what the logins of two accounts on one connection need, which may overlap and
overwrite each other's name. Three lemmas say what a worker may do: something else, find the user
offline, or let him in. `Cached` is where expiry breaks the argument, `Alone` where overlapping logins
do: so `session_double` shows the only way to two sessions that is left without expiry and failures.

For the answers, with any number of workers: requests are numbered as they
are asked; `Numbered` says that the queue holds the newest ones in their order and that every other
one that is unfinished is with exactly one worker; `Present` that who sends requests was accepted,
that the connected are in the table (so a snapshot reaches them), and that whoever chats has a
session while connected; `Heard` that no packet is about a request that is still in the queue;
`Answered` that a request has no answer while it is pending and one afterwards. A login is answered
by a step of its own, `Grant` or a refusal, but a chat by its broadcast, somewhere in the middle: this
is why pending depends on the rest of the snapshot. For the order, with one worker: `Greeted` (whoever has a
session was told, or is being told), `Newest` (what the worker has still to send is newer than every
chat that was sent), and `Ordered` are inductive together. `Newest` is where a second worker breaks
the argument. Neither needs an assumption on expiry or failures.

**Framing.** `Layout` says where the frames lie in the stream: one behind the other, all but the last
one whole. `Aligned` says that what has been read is the submitted frames and the buffer, so that a
header is looked for exactly where the peer has put one; with it each extracted body is the next one
(`FramesExact`), also when a read ends inside a header. `Drained` (between two reads there is no frame
in the buffer) gives `BufferBounded`, and with the history of where `handleRead()` last ended
`NoneLeftBehind`. That frames are numbered and placed by arithmetic, instead of by a recursion over
the script, is what makes this provable.

**Messages.** What a recursive function computes for every text needs an induction over positions,
and the induction theorems of the library take an operator as a parameter. The proof states induction
for sets instead (`Induct`: a set that contains the first number and with each number the next one
contains them all), which follows from `NatLessThanWellFounded` and the least element it gives
(`Smallest`). From it come `Recursion` (a function that satisfies such a recursion exists, so the one
that the definition chooses satisfies it) and one lemma per loop.

* *Escapes.* `FlattenLayout` says where the piece of each character lies in a concatenation.
  `UnescapeDumped`, `LoadsEscapeJson` and `SqlReadsSqlEscape` follow the loop of the reader from the
  start of one piece to the start of the next: after as many pieces, as many characters of the
  original have come out. The argument needs only that each piece is read back as its character, and
  that no piece ends within an escape.
* *Ends of strings.* In an escaped text every quote has a backslash in front that is not escaped
  itself (`Marks`). So the first quote that ends a literal is the one behind the text (`StringEndAt`),
  and the brackets of a text are not counted (`ObjectLoop`).
* *Keys.* The scanner looks for a key between quotes anywhere, in values as well. `FieldTokens` shows
  where such a place can be: a value is framed by quotes, so one that is, or ends with a quote and,
  the name of the key looks like the key. `HeaderIs`, `LoginPlaces` and `ChatReads` give the layout of
  a packed request; before the key `data` only the type and the id are values, a type is never
  `data`, and the id is what `LooksLikeData` excludes. Inside the object a username may end like the
  key `password`; this is harmless, because the next colon behind it is the one of the key itself
  (`FieldValue`).

`RequestsAreUnderstood` and `TextsArrive` put these together for login and chat, for valid texts and
for those that are empty or too long.

**Delivery.** `LockedByReactor`, `DisarmsEmpty` (the registration is taken back only while the
buffer is empty and locked) and `Armed` (while there is output, the descriptor is registered or a
sender is about to register it). `FramesIntact` is inductive with the types: it gives each unit its
place, `PlacesWithin` is the arithmetic of these places, `FramesGrow` adds a packet behind them, and
`CutAndJoin` says that a partial `send()` moves units without changing the whole. For the refinement
`OpenWhileWriting` is added: `handleWrite()`, once past its test, finds the connection open until it
has ended or closed it itself. Then a `send()` is `Carry`, the step of a sender `Accept` or `Refuse`,
and the reuse of the descriptor `Reopen`, where the senders that become stale are those that are late.

**Server.** The proofs number the activations of the main thread from the bottom (`frames`), so that a
step changes, ends or covers the last one and leaves the others as they are. `Structure` and
`Nesting` say what may lie on what: callbacks only on the loop, a close on the callback or `stop()`
that has called it, and one activation of `stop()` at most, on top of anything. The rest says what an
activation may rely on while others lie on it:

* `Fresh`, `Newcomers`, `ClosedOnce`: a connection that is being accepted is open and known to its
  activation alone; past the compare-and-swap of `connected_` one activation closes it.
* `Registered`, `Tabled`, `Owned`, `Listening`: who is registered is in the table or about to be
  inserted, or is about to be unregistered; who is in the table is registered or being closed; a
  connection owns the descriptor it names unless its registration has failed. From these follow
  `OnlyOwnClosed` and, as nothing lies on the loop while it waits, `TablesAgree`.
* `Noticed`: unless `stop()` has begun, some activation is accepting whenever no report is due.
* `Swept`, `Users`, `Stopping`, `Halting`: what `stop()` has still to close, that whoever reads, has a
  task or a session is in the table or being closed, that nothing is left for the workers once they
  are joined, and what the signal had interrupted. They give `ReleasedAtExit`.
* `Reported`, `Apart`, `Refused`: while the server runs nobody is busy with the descriptors that the
  loop has still to dispatch; a newly accepted one is not among them; after the pool has gone down no
  frame is read except by the call that the signal has interrupted. They give `AbortExplained`.
  `Apart` is what keeps a connection that is accepted under a reused number from being read after
  `stop()`.

For `StuckBySignalOnly` it is enough that without a signal only `written` lies below a running
activation with a mutex, and that the close on it neither takes this mutex nor sends to its own
connection.

TLC has checked each invariant on the instances above before it was proved (`Exclusion` with two
workers, two clients and two accounts under the next-state relation `Next /\ NoOverlap'`), and there is no safety
property that is only model-checked. Liveness and fairness are (`ShutdownReturns`, `EarlyTaskRuns`,
`AcquireReturns`, `EverythingEnds`, `AllIsSent`, `EveryFrameHandled`, `StopTakesEffect`, and the
fairness of `WorkQueue`), as they need `ENABLED`, which is out of the prover's reach.

## 5. Plan

Done: all modules of section 2, their runs, and the proofs of section 4; every safety property that a
passing run checks is proved, and so are the four refinements, without their fairness.

What could follow: the order of chats (`ChatsInOrder`) with several workers that never execute two
requests of one client at the same time.

## 6. Not modelled

* The SQL schema, which is static data: one table of users.
* Reading the configuration from the environment, and the texts of errors, logs and answers.
* Moving a connection object, which nobody does; `std::thread` failing for lack of resources;
  allocation failure.
* The terminal loop of `cli_client.py` beyond the messages it packs and reads: in the models a client
  may send any request at any time.
* The strings of a connection (`Connection.hpp` line 43) are written by a worker and read by others
  without a lock. A torn string has no counterpart in models whose names are values; only the order of
  the writes is checked (`SessionHasName`).
* Two spellings of one account (`Server.hpp` line 322), for the same reason.
