# Microservice_Framework in TLA+

Specifications, model checking and proofs for the C++ microservice framework of
this repository: a platform library (threads, connections, messages), a message
gateway, a register center, a configuration center, authentication and logging.
Paths below are relative to `src/src/` unless a directory is named.

## 1. Inventory

### Platform library (`cplatform/`)

| Part | State | Operations | Interacts with |
|---|---|---|---|
| Thread pool: `CThreadPool`, `CCThreadPool`, `CThread`, `CTask` | threads of a pool, `lastThread_`, per thread `tasks_`, pipe, `base_`, `isExit_`; static `allThreads`, `isAllExit` | `init`, `dispatch`, `addTask`/`activate`, `notify`, `exitAllThread`, `wait` | runs `init()` of tasks and the libevent loop of their connections |
| Connection: `CComeTask`, `CServiceClient` | `bev_`, `isConnected_`, `isConnecting_`, `autoDelete_`, `timerEvent_`, `autoConnectTimerEvent_`, `mtx_` | `init`, `connect`, `eventCb`, `closeBev`, the timers, `writeMsg`, `startConnect`, `autoConnect` | event thread, network, threads of the users |
| Framing: `CMsgEvent`, `CMsg`, `CServiceHandle` | `head_`, `msg_`, `pbHead_`, table of callbacks per message type | `sendMsg`, `readCb`, `recvMsg`, `clear`, `close` | bytes of the connection; calls the handlers of all services |
| Server: `CService` | two pools | `start`, `init`, `listenCb` | creates a handle for every accepted socket and dispatches it |
| Log client: `CLogClient` | `logs_` (bounded), local file | `addLog`, `timerCb`, `startLog` | every part logs; log server |
| SSL, tools, watchdog | handles of OpenSSL; none; the child process | wrappers; formatting; fork and wait | |

### Services

| Part | State | Operations | Interacts with |
|---|---|---|---|
| Gateway (`cmsgateway/`) | `clientMap_`, `clientMapLastIdx_`, `clientCbs_`; per proxy `callbackTasks_` | `mainFunc`, `sendMsg`, `regEvent`, `delEvent`, `readCb` of proxies and handles | register client (list of instances), instances, clients |
| Register center (`registerserver/`) | `serviceMap`, in memory only | `registerReq`, `getServiceReq` | register clients |
| Register client (`registerclient/`) | `pbServiceMap`, `pbClientMap`, cache file | `registerServer`, `connetedCb`, `timerCb`, `getServiceReq/Res`, `getAllService`, `getServices`, `loadLocalFile` | center; gateway and all services |
| Config center (`configserver/`, `configclient/`) | table of configurations; `configMap`, `curServiceConfig`, `allConfigs`, cache file | upload, download, download all, delete, `startGetConfig`, timer | MySQL, config GUI, services |
| Authentication (`cauth/`) | tables of users and tokens; `loginMap_` | `login`, `addUser`, token check, `LoginReq/Res`, `getLoginInfo` | MySQL, config GUI |
| Log server (`clog/`) | table of logs | `addLogReq` | MySQL, log clients |
| MySQL wrapper (`cmysql/`) | one connection, one result | queries | DAOs |
| Config GUI (`configgui/`) | forms | upload, edit, delete, log in | config and auth clients |

libevent, the MySQL client library, protobuf, OpenSSL and Qt are external. Where
a model needs them it states what `src/` relies on. The repository has no tests;
its comments are the only statements about what the code should do, and the
findings of section 5 quote them.

### What is hard here, and what makes each part correct

- **Threads without locks in libevent.** Event bases are `NOLOCK`; everything
  about a connection has to happen on its thread, and the only bridge is the task
  list plus a byte in a pipe. Correct: no wake-up is lost, a task is begun once, in
  order, on the thread whose turn it was; marked threads end.
- **Connections that come back.** Timers, flags read without the mutex and
  `delete this`. Correct: a client ends up connected, is never deleted, has one
  timer, and its flags say what is the case. (The second and the third do not always
  hold: section 6.)
- **A byte stream.** Frames are written in three calls, between which the connection may
  be lost and made again, and arrive in pieces.
  Correct: a handler sees whole messages, in order, and nothing of an old connection.
- **Answers that find their way by an address.** Correct: an answer
  reaches the client that asked, and every request is settled; instances are used in turn.
- **State that is rebuilt after restarts.** The center forgets everything.
  Correct: running services are listed again, once each; caches do not go back.
- **Late answers and shared results** in the config and auth clients; **bounded
  queues** in the log client. Correct: a call gets its own answer and its own row; a
  service gets its own configuration; only the oldest logs are dropped, and only when the
  queue is full.

The list of hazards with their lines, and the property for each, is in `PROJECT.json`.

## 2. Modules

| Module | Models | Extends / instantiates |
|---|---|---|
| `TaskExecutor` | what users of a pool rely on: tasks are given out in turn and begun first in, first out | |
| `ThreadPool` | `cthreadpool.cpp`, `cthread.cpp` | implements `TaskExecutor` |
| `MsgChannel` | a reliable ordered channel whose connection may be lost, in the middle of a message too | |
| `MsgEvent` | `cmsgevent.cpp`, `cmsg.h` over a byte stream | implements `MsgChannel` |
| `ComeTask` | `ccometask.cpp`, `cserviceclient.cpp` | |
| `ServiceProxy` | `cmsgateway/` | |
| `RegisterCenter` | `registerserver/`, `registerclient/` | |
| `LogDelivery` | what logging promises: logs wait in a bounded list, are handed to one connection each in turn, and are stored once and in order | |
| `LogClient` | `clogclient.cpp`, `clog/` | implements `LogDelivery` |
| `ConfigCenter` | `configserver/`, `configclient/`, the calls of `configgui/` | |
| `Auth` | `cauth/`, and of `cmysql/` what a login does | |
| `ThreadPoolProofs`, `MsgEventProofs`, `ComeTaskProofs`, `ServiceProxyProofs`, `RegisterCenterProofs`, `LogClientProofs`, `ConfigCenterProofs`, `AuthProofs` | theorems (section 4) | the module they are about |
| `MC...` | instances for TLC | the module of that name |

Definitions named `X_Something` that precede a definition `X` are deliberately
wrong variants of `X`. They are used by no specification; putting one in the place
of `X` breaks the property `PROJECT.json` names with it, which shows that the
property depends on that line of the code.

**ThreadPool.** `mainPc` is the thread that calls `init` and then `dispatch`: for each
thread `StartThread` (`setup()`, which may fail at the pipe or at the base, and
the start of the thread) and `RegisterThread` (`threads_` and, under its mutex,
`allThreads`); then `AddTask` and `Activate` in turn. `workerPc[t]` follows
`mainFunc`: `LoopTest` reads `isExit_`, `PollNothing` is a pass of the event loop
without work, `NotifyRead`, `NotifyPop` and `TaskInit` are the steps of
`notify()`. `exitPc` is the caller of `exitAllThread`, which holds the mutex while
it marks one thread after the other. A task is a number in dispatch order.

**MsgEvent.** One direction of a connection. A byte is `<<message, part,
position>>`; `wire` is what was written and not read off the socket, `inbuf` the
input buffer of the bufferevent. `SendLen`, `SendHead`, `SendBody` are the three
calls of `writeMsg`; `Receive` is a read event with any prefix of the wire that
`MayEndWith` allows; `RecvLen`, `RecvHead`, `RecvBody` are the three parts of
`recvMsg`, and `Dispatch` the rest of the loop in `readCb()`. `CloseBev` loses the
connection and `Connect` makes the next, at any point of a `sendMsg` of another thread:
`writeMsg` takes the `bev_` there is at that moment, so what is left of a frame is written
on the next connection (`torn`), or `sendMsg` finds none and returns (`GiveUp`).
`FreshHandle` says which way the messages go: from a client, to a server that has
a new object for each connection, or to a client, whose object has whatever was left in
`head_` and `msg_`; the handle that sends to it is deleted with its connection, and its
`sendMsg` with it. `MsgChannel` promises nothing of a torn connection.

**ComeTask.** `evPc` is the event thread with this object, `conPc` other threads
that call `connect()`. The critical sections of `mtx_` are single steps, every
unlocked read of a flag is a step of its own. `conn` merges `bev_` and the state
of its socket. `bufferevent_socket_connect` on a bufferevent whose socket is
connecting or connected fails and leaves it as it is (libevent 2.1); this is the one
fact about libevent the model adds. `AutoDelete` is the value of `autoDelete_` with which
the client's task is dispatched; `startConnect` clears it only after that. `timers` counts the timer events that are
on the event base, whichever of them `timerEvent_` points to.

**ServiceProxy.** One service with several instances. An address stands for
memory: `handle[a]` is the client whose `CRouterHandle` lives there, 0 when it was
freed. `Route` takes `clientMapMtx_` (`holder`), `RegEvent` enters the callback, and
`sendMsg` is three steps, two `WritePart` and `WriteBody`, or `WriteFails` where there is no
`bev_`; the mutex is released by `Return`. `ReplyBegin` to
`ReplyEnd` holds `callbackTasksMtx_` of the proxy. A proxy has a `bev_` (`Dial`) and is then
connected (`ProxyUp`); the rest of its connection is `ComeTask`. Requests and answers on a lost
connection are gone, and so is a request of which a part was written on it (`ProxyDown`).
The rest of that frame is still written if the proxy dials meanwhile; on such a
connection (`torn`) a later request may be taken for a part of something else, which `stray`
remembers. `answers`, `lost`, `stray` and `waits` are history variables. The
round robin tests the connections of the list in one step, and `waits` starts again
when the list grows, so that a proxy passed over by the reset of the index is not counted.

**RegisterCenter.** Lists are sequences of clients, a client standing for name, ip
and port. `sending` is the list for the gateway while it is serialized without the
mutex: when the map grows meanwhile, what is sent may be whole or unparsable.
The cache file is truncated in one step (`GetServiceRes`) and written in the next
(`SaveFile`); a restart may come in between. `getServices` is a thread of a user that
asks, sleeps and looks, and holds `pbServiceMapMtx` while it sleeps: the event thread
that must store the answer waits for that mutex and gets it only in the instant
between two rounds.

**LogClient.** A log is the thread that made it and a number. `Compose` is `addLog`
up to its lock, `AddLog` the critical section; `evPc` and `log` are the event
thread inside `timerCb`, which pops with the mutex and sends without it. Nothing
else happens on that thread meanwhile: `Connect`, `Connected`, `Flush` and `CloseBev`
need `evPc = "loop"`. A new connection is itself logged by the event thread.
`wire[c]` is what the server's handle of connection `c` has received and not read:
it goes on with that after the client has given the connection up, so that two
handles may insert in turn. `listed`, `dropped` and `lost` are histories. `LogDelivery`
sees each connection as one queue, `Carried`: what the server has not read, then the
output buffer, then the log in the hands of `timerCb`. `TimerPop` is its `Send`, the
insert its `Store`; each failure takes logs from the ends of such queues (`Lose`); `TimerSend`
and `Flush` move a log inside its queue, which `LogDelivery` does not see. The texts are
assumed to fit the maximal message size and no frame to be cut within its head (`MsgEvent`
has these cases).

**ConfigCenter.** A content is the number of its upload, 0 the empty
`privatepb`; `keyOf` remembers whose it is. The table is a function from ids to rows,
and `lastId` the id given last, which is not used again when its row is deleted. Each DAO function is one critical
section of `mysql_Mtx` and one step with its answer; a query may fail, and then
`getResult` returns no rows, which the code takes for "no such row". `startPc`
tells the two functions `startGetConfig` apart: one (`"lookup"`) reads the cache file, gets
the address of the center in a callback of its own and connects once, after `init()` has
returned without setting a reconnect timer; the other waits for the connection, sets the
timer of the configuration only if it came, and reconnects. `Reconnects(c)` says who does.
The service passes no ip of its own, as all callers in the repository, so
`IsLocal` compares ports. `toolPc` is the thread of the window or of a test program:
`ListStart`, `ListSend`, `ListReturn` are `downloadAllConfig` (with or without the
`close()` the window calls first), `LoadConfig`, `GetConfig` and `SaveEdited` an edit.
`stale` records that a list asked for by an earlier call was still to come.

**Auth.** A client logs in (`LoginReq` forgets the login of the user, `SendLogin` writes the
request, `LoginFound` and `LoginGivenUp` are the wait of `getLoginInfo`) or adds a user;
`LoginRes` is the event thread. `Receive` is a handle on its thread of the pool. From
there `pc[t]` and `stmt[t]` follow `CAuthDAO::login` statement by statement: `Query` and
`Read` are the two halves of `mysql_real_query`, `CheckInserted` the test in
`CMysql::insert`, `Store` and `Fetch` are `getResult` with the one `result_` of the
process, `ReadId` is `getInsertId`, `UseUser` and `UseToken` what `login()` reads of the row,
`Answer` the answer of `loginReq`; for a name with a semicolon or a quote (`Forbidden`)
`Receive` goes on to it at once, with an answer nobody has set. `login()` takes no mutex and `CMysql` has none, so the
statements of two threads may interleave; `mixed` remembers the requests that did. The MySQL
library is external and not made for that. The model says what follows from its
protocol: statements are executed in the order they were sent, whoever reads next
gets the next answer, and a reader that finds answers out of order loses the
connection. A crash of the process is left out, as is the expiry of tokens.

## 3. Runs

| Run | Instance | Shows |
|---|---|---|
| `thread_pool` | 2 threads, 5 tasks, pipe of 2 bytes, setup failures, exit at any time; 9,093 states | `WakeupPerTask`, refinement of `TaskExecutor`, every dispatched task begins, marked threads end |
| `framing` | 3 messages of sizes 0, 1, 3 (maximum 3), 1 lost connection, between two calls of `writeMsg` too, server side; bodies cut anywhere, the first head of a connection cut anywhere; 97,961 states | whole messages and the refinement of `MsgChannel` on every connection that begins with a message, nothing stays in the buffer |
| `framing_cut` | 2 messages, every head may be cut | *violation*: a previous head is dispatched again with an empty body |
| `framing_torn` | 3 messages, a client that sends, 1 lost connection, no cuts | *violation*: a message sent completely on the next connection is never received |
| `connection` | a client with timer and a second connecting thread, `autoDelete_` set until `startConnect` clears it, and a server handle; 6 failures; 2,169 states | flags are backed, no timer left on a deleted object, reconnection unless a connection failed before `autoDelete_` was cleared |
| `connection_two_threads` | a client, one connecting thread | *violation*: an open connection marked not connected |
| `gateway` | 2 instances, 2 addresses, 2 clients, 3 requests, 1 lost connection, between two calls of `writeMsg` too; patient clients; 349,792 states | answers go home; round robin; every request settled |
| `gateway_leave` | the same with clients that leave while they wait | *violation*: an answer to a freed handle |
| `register` | gateway and 2 services of one name, 2 restarts or lost connections, 1 request for one name, 1 call of `getServices` that looks twice; 430,000 states | no double entries, cache equals file, all services known in the end |
| `log` | 2 threads with a log each and up to 2 logs of connections, a list of `LOG_LIST_MAX` = 1 (so of 2), 1 failure; 24,267 states | every log is in exactly one place, rows of a connection in order, no loss without a failure, every log settles, refinement of `LogDelivery` |
| `config` | 2 keys with the same port, pages of 1, page 2 asked for, 3 operations of the tool, 1 failure, both ways to start a service; 483,552 states | one row per key unless a select failed, lists belong to their call, no content under the key of another, the service follows the table unless it lost its only connection |
| `auth` | a client, 3 users of whom one is known and one name forbidden, 2 handle threads, 2 requests, 1 lost connection or failed statement; 150,477 states | every `OK` to a login that did not mix with another was checked and has its own token and role, or is for a forbidden name and has neither name nor token; a call returns an answer to this client about this user, nothing is left on the MySQL connection, every login is answered |

**Bounds.** `MaxTasks` = 5 goes twice around two threads and past the pipe's
capacity of 2, so that the dispatcher blocks. Three messages cover a frame after
a dispatched one on each side of a break; lengths are scaled to the least that can
be cut (2 bytes of length word, 2 of head, bodies up to 3), and one connection can be lost
after each of the three parts of each of them. `MaxTrouble` = 6
covers a refused call, a failed attempt and a lost connection in any order with
both connecting threads. Three requests are what it takes for one client to have used both
proxies while another waits, which is when answers could mix. In
`RegisterCenter` two troubles allow a restart of the center with a
restart of the gateway or with a reconnection of a service; the gateway has at
most one request for all services outstanding, as its loop asks every 3 s. The
counters of troubles and requests only bound the environment. In `LogClient` four
logs pass through a list of two, so that it overflows, and one failure can be a
refused attempt, a lost connection with logs in every place, a server restart or a
failed insert. In `ConfigCenter` three operations are what it takes to have rows of
both keys and then change one, or to let an edit follow an upload. In `Auth` a client
has one handle at a time, so it takes a lost connection, whose request is still being worked
on, and a new one on the next thread for two requests to overlap; two requests are also
enough for an answer that comes after its login was given up. `Patience` in `RegisterCenter`
is the number of rounds of `getServices`: two, so that the event thread can get its answer in
between two of them.

**Assumptions on the environment.** Where a property or an instance excepts a case the
code does not exclude, the exception is in the definition or in the `.cfg`, and the next
table says what the code does in it. Three of them have a violation run of their own:

| Assumption | In | Without it |
|---|---|---|
| a length word and its head arrive together, but in the first frame of an object | `framing`, `Promise` | run `framing_cut` |
| the connection does not begin within a frame (`~torn`) | `framing`, `Whole`, `Implements`; `gateway` counts such requests as `stray` | run `framing_torn` |
| a client waits for its answer before it sends again or leaves | `gateway`, `AnswersGoHomeAlways` | run `gateway_leave` |
| the reader is a new object (`FreshHandle`) | `framing`, `Promise` | a client completes a half-read frame with bytes of the next connection |
| no connection failed before `startConnect` cleared `autoDelete_` | `Reconnects`; the case is in the run | the client deletes itself, and its owner goes on using it |
| a service without a reconnect timer has kept its connection | `FollowsTable`; the case is in the run | it misses every later change |
| no select of an upload failed | `OneRowPerKey`; the case is in the run | a second row with the same key |
| no earlier list is still to come | `OwnList`; the case is in the run | the call returns the list of another page |
| the statements of a login did not mix with those of another thread (`mixed`) | `TokenIsOwn`, `CleanBetweenLogins`; the case is in the run | it may get the token of another, or a role read from freed rows |
| no answer to an earlier login is still to come | the last part of `OwnAnswer`; the case is in the run | the earlier answer is returned |

Both keys of `config` have the same port, so that `IsLocal` takes the configuration of either
for the own one; `FollowsTable` says that the timer brings the own one back. What
`ContentsKeepTheirKey` says of ports is trivial there and rests on the theorem, which is for
any ports. `MsgEvent` assumes one sending thread per connection, the mutex being
taken for one call of `writeMsg` only. `Auth` assumes that the MySQL library always answers:
a read that blocks for ever would keep its login from being answered.

**Fairness.** Threads that can run do run (weak fairness of the worker, event
thread, handle and proxy steps): the program has no priorities and every wait is
a bounded sleep. In `ComeTask` the auto-connect timer and the connected event are
strongly fair: libevent keeps an event active until its callback has run, whatever other
callbacks run before it. A connection attempt that does not fail
succeeds. In `ServiceProxy` instances answer and lost connections come back
(their timer, and the loop of `mainFunc` every 3 s); a handle goes on with its
`sendMsg`. In `RegisterCenter` the
gateway's `GetAllService` is strongly fair: the mutex is free again and again and the
loop comes back every 3 s. In `LogClient` and `ConfigCenter` timers and event threads come back to their
work again and again, reconnection is a timer where there is one (`Reconnects`), handles read what arrives; nothing is
assumed of users, and nothing of queries but that they are tried. In `Auth` the threads of
the pool are weakly fair; a handle that has a request to read is strongly fair, because its
thread serves other connections in between.
Deadlock checking is off where the system really stops:
all tasks done and threads ended, all messages sent, a deleted handle, all
clients gone. The register run checks it.

## 4. Proofs

Each proof module extends the module it is about and proves its theorems for every value
of the constants that satisfies the named assumptions of that module; what a theorem needs
besides is in its statement. The runs check that what is proved is not vacuous, and the
strengthened invariants were checked with TLC before they were proved.

**`ThreadPoolProofs`:** `TypeCorrect` (`TypeOK`), `NoLostWakeup` (`WakeupPerTask`),
`PoolRefinesExecutor` (`ImplementsExecutor`).

`WakeupPerTask` counts, for each working thread, tasks against bytes in the pipe,
the byte about to be written and the byte just read. It is not inductive alone: a step
of `notify` may only pop when the list is not empty, which needs the count; a
thread must have had no tasks before it was started (`NothingBeforeInit`), the
dispatcher's intermediate state must refer to a valid thread and task
(`DispatchInProgress`), and what a worker holds must agree with where it is
(`WorkerState`). `Inv` is the conjunction of these; each action has a step of its own.
In the refinement `AddTask` is `Submit`, `TaskInit` is `Begin` of the thread, everything else
stutters.

**`MsgEventProofs`:** `TypeCorrect` (`TypeOK`): however the network cuts the stream and
whatever a wrong length word says, neither buffer is filled past its size. `HeadFirst` is
what `TypeOK` lacks: the body is read only after the head is complete, as `recvMsg` sets the
size of an empty body without looking at what it has received of it.

`Whole` (`WholeMessages`) and `Implements` (`ImplementsChannel`, the refinement of
`MsgChannel`) are proved for any number of messages, sizes and lost connections, wherever
these are lost and made again, for every connection that begins with a message (`~torn`), under
`Promise`: bodies fit into `MAX_MSG_SIZE`, every connection has a new object (the server
side), and the network cuts no length word, and no head but the first of an object. Without
any of `~torn` and the last two parts they are false (findings 1 and 2, and section 6).
The inductive invariant `StreamInv` says of a function `at` where each message begins among the unread bytes, before them if it is negative: `Placed` (the bytes that are
there are the ones of the message, part and position that `at` gives), `Written` (the stream
ends where `sendMsg` goes on), `WellCut` (what has arrived does not end within a head, but
for the first), `Reading` (`head_`, `msg_` and `pbHead_` hold just the bytes of the next
message that lie before the unread ones) and `Numbered` (what was delivered is an initial
part of what was sent, each with its body). `Streaming` says that this holds while there
is a connection that is not torn, and that what was delivered stays as it is when the
connection is lost; `Chained` gives the places of the messages from which `at` of the next
connection is made. Reading moves all of `at` down
(`PartRead`), sending adds a place (`Begun`), a new connection begins where the
next message will. A step of the callback that delivers is `Deliver` of the channel, `SendLen`
is its `Begin`, the last part of `sendMsg` or `GiveUp` its `End`, and the rest are stutters (`ChannelStep`).

**`ComeTaskProofs`:** `TypeCorrect` (`TypeOK`), `FlagsNeverOverclaim` (`FlagsAreBacked`),
`NoTimerAfterDelete` (`NoTimerOnDeleted`). `IInv` says where the start of a client and the
event thread are (`StartInv`), that only users of a kept client call `connect()`
(`ConnectorInv`), that a handle never connects (`HandleInv`), that an object which would be
deleted has had one bufferevent only (`OneBev`), so that `clearTimers` frees the one timer
there is, and what each flag promises at each place of the event thread (`FlagsInv`).
Objects that are kept may gather timers (section 6), which is why `OneBev` is needed.

**`ServiceProxyProofs`:** `TypeCorrect` (`TypeOK`) and `NoInstanceStarves`
(`NoStarvedInstance`) for all clients; `AnswersGoHomeAlways` (`AnswersGoHome`)
assumes `Patient`: clients wait for their answers.
For `NoInstanceStarves`, `TurnInv` bounds `waits[i]` by the distance of the instance from
`lastIdx`. For the other, everything on its way to or from an instance
(`Flight`) has a client that waits for it, whose handle is at the address it was sent
from (`HomeInv`), and a handle that is about to forward, or in the middle of it, has nothing in
flight (`BusyInv`). So no
address is freed while an answer to it is on its way.

**`RegisterCenterProofs`:** `TypeCorrect` (`TypeOK`), `NoDoubleEntryAlways`
(`NoDoubleEntry`), `FileIsMemoryAlways` (`FileIsMemory`). The last two are inductive with
`MapTypes`, the types of the maps and of the lists on their way. `TypeOK` has two bounds that
are not. That no more lists wait for the gateway than `1 + MaxAsks * (1 + Patience)` needs
everything that can become such a list (`Outstanding`: the questions behind the registration, a
map that is being serialized, the lists) and how often `getServices` has asked (`Asked`):
each round it waits allows one more question, and the list of all names is asked for only when
nothing is on its way (`CountInv`). That no list in memory is longer than there are clients
follows from `EntriesInv`: no list holds a client twice, in the center, on its way, in the
memory or in the file; it needs `IsFiniteSet(Clients)`, which the module assumes by name.

**`LogClientProofs`:** `TypeCorrect` (`TypeOK`), `NoLossWithoutFailure` (`LossNeedsFailure`),
`LatestWaitAlways` (`LatestWait`), `RowsStoredInOrder` (`StoredInOrder`),
`OnePlaceAlways` (`OnePlace`), `ClientImplementsDelivery` (`ImplementsDelivery`).

`TypeOK` contains that the numbers of connections stay in `Conns`, that is, that the
client makes no more of them than one for each failure and one to begin with. This is
not inductive: `TypeInv` adds `Unrepaired`, which is 1 while there is no bufferevent or
one whose server side is gone, and `conn + Unrepaired <= trouble + 1`. A failure may
raise the left side and does raise the right one; `Connect` takes from `Unrepaired`
what it adds to `conn`. `LossNeedsFailure` rests on `Untroubled`: before the first failure
a bufferevent once made stays, the timer runs only after one was made, and a
connection that is up has its server side.
`LatestWait` rests on `WaitInv`: what waits is a suffix of what was listed. No run checks
it by itself, as `LogDelivery` says the same with its steps: `Log` appends, and only the
head leaves. For the order of the rows, `StagesInv` follows a connection's logs from its
rows through the wire to the buffers, each in order and each before the next, `AheadInv`
puts what is further on before what follows it, and `FreshInv` says that a connection that
was not made yet has nothing. `OnePlace` says of each log that was listed that the set
`Places` of its positions has one element. In `OnceInv`, `SplitNow` says that what was
listed is split between the places (a lemma `Split...` for each kind of move), `NoneTwice`
that no place holds a log twice, and `NewInv` that a log which is listed next was never
listed before.

The refinement of `LogDelivery` uses all of these together (`DeliveryInv`) and `LinkInv`: the
timer runs only once there is a connection, and nothing is under way to a server side that
is gone. `FreshInv` is why a log is never handed to a connection while a later one is in
use, and why `Connect` leaves no log behind in the old queue; `SplitNow` is why exactly the
logs that leave a queue unstored are counted as gone (`LoseMaps`) and why a log about to be listed is
known nowhere (`LogMaps`). There is one lemma for each kind of step (`SendMaps`, `StoreMaps`,
`LoseClosed`, `MovesStay`, ...), and the `Join...` and `EndsFacts` lemmas say what queues put
one behind the other do.

**`ConfigCenterProofs`:** `TypeCorrect` (`TypeOK`), `OneRowPerKeyAlways` (`OneRowPerKey`),
`OwnListAlways` (`OwnList`), `ContentsKeepTheirKeyAlways` (`ContentsKeepTheirKey`). `Inv` says of every
message, on every connection, what it may carry (`MessageInv`, `QueueInv`), of every row that
its content was uploaded under its key (`RowInv`), and of the list in memory that it is the
one of the last call unless an earlier one was still to come (`ListInv`). `ServiceInv` and
`ToolInv` say of memory and file of the service that what they hold was uploaded under a key
with its port, and of the map of the tool that it keeps keys apart. That the service has its
own configuration only is false (section 6).

**`AuthProofs`:** `OwnAnswerAlways` (`OwnAnswer`), `TokenIsOwnAlways` (`TokenIsOwn`),
`CleanBetweenLoginsAlways` (`CleanBetweenLogins`), `TypeCorrect` (`TypeOK`). `NetInv` has the types and that requests
and answers are on the connection of their client or on none that is up (`OwnConn`, `OnInv`,
`JobInv`). `ExpectInv` says which answers a waiting client can still get, so that
`loginMap_` has nothing for the user or the answer to this login, if it is not late;
`KnownInv` says of every entry of `loginMap_` that it answers a login of this client
for this user, and `ShownInv` of what was returned. For the tokens,
`AloneInv` describes a thread whose request has met no other: the one answer in flight, the
rows that wait, the result and the insert id are those of its last statement (`OwnWork`);
the answer to a forbidden name is as nobody has set it (`Unchecked`, `NoToken`).
`mixed` is set for all requests at work when a second one starts, so a thread that starts
alone keeps this until it is done; `CleanInv` is what it leaves behind, and `TokenStays` that
rows of `cms_token` are not changed after that. `TypeOK` speaks also of what mixed logins read:
`DataInv` types every reply, row and id wherever it waits, whoever asked for it. That ids
stay within the bound needs that there are no more tokens than requests: `OnceInv` follows
each request, which waits in one queue once, then has one thread, which inserts one token
(`TokensFit`); `SentInv` says what has been sent, and `HistoryInv` types what the clients know.

Only model-checked: all liveness properties, as the prover has no rules for fairness and
ENABLED. Every invariant and the three refinements that the passing runs check are proved.

## 5. Findings

1. `framing_cut`: `CMsgEvent::readCb` dispatches a message that was never sent when a
   head arrives in pieces (`cmsgevent.cpp:62`, against `cmsgevent.h:16-18`).
2. `framing_torn`: a connection lost and made again between two calls of `writeMsg` begins
   with the rest of a frame, and what is sent on it is not received (`cmsgevent.cpp:163`,
   against `cmsgevent.h:33`).
3. `connection_two_threads`: `connect()` clears the flags of an open connection
   (`ccometask.cpp:189`, against `ccometask.h:139`).
4. `gateway_leave`: `CRouterHandle::close()` is never called, so the answer to a
   client that left goes to freed memory or to another client
   (`cserviceproxyclient.cpp:34`, against `crouterhandle.h:11`, `cserviceproxy.h:21`).

## 6. Not modelled, and the plan

Not modelled: SSL, tools, generated code, the watchdog (its effect is the restart actions).
Modelled in part: `CService` (its dispatch is `Submit`, its accepted connections are the new
handles of the other models; its listener is libevent), the MySQL wrapper (what a login and
the config server use of it; building of statements, binary data and transactions are
sequential code around the client library), the gateway, the config client, the config GUI.
Within modelled parts: malformed protobuf bodies, what an instance makes of the rest of a frame
(`stray`), two senders on one connection, the walk of `exitAllThread` over threads that `init`
is still adding (the mutex is held while it marks, so a thread registered later is not
marked; the property speaks of the listed ones), the reconnect loop's
unlocked copy of `clientMap_`, several services in the gateway, files that cannot be
opened, the local file of the log client, schemas
(`loadProto`) and widgets of the configuration tool, that the window closes its
connection from another thread than the event thread, the expiry of tokens.

Observed while modelling; the models have these behaviours, but no run is about them:

- Timers accumulate: every `initBev` adds one and forgets the one before (`ccometask.cpp:255`;
  `ccometask.h:56` says there is only one).
- A client that reconnects completes a half-read frame with bytes of the new connection:
  `closeBev` clears another `msg_` than the one `recvMsg` fills (`ccometask.cpp:313`).
- A client refused at once may delete itself before `startConnect` has cleared `autoDelete_`
  (`cserviceclient.cpp:19`); the config and auth clients do not clear it before.
- A service takes the configuration of another host with its port for its own until its timer
  brings its own back (`cconfigclient.cpp:397`; line 401 says that it does not).
- A service that looks the center up has no reconnect timer (`ccometask.cpp:281`).
- A login with a forbidden character in the name is answered with the default `OK`, without
  name and token (`cauthdao.cpp:86`; `cmsgcom.proto:50` says "login succeeded").
- Logins that overlap may get the token of each other (`cauthdao.cpp:127`) or read their role
  from rows that were freed (`cmysql.cpp:254`).
- A login may return the answer to the one before it that gave up (`cauthclient.cpp:15`).

And outside the models, or without a statement in the repository they contradict:
`addLog` queues the request without the service name, port and time it has just set
(`clogclient.cpp:99`); the tool may edit an old version from `configMap`
(`configedit.cpp:203`); `startGetConfig` without a connection in time leaves a
client without a timer (`cconfigclient.cpp:217`); the answer to a login with a wrong
password has no user name, and `LoginRes` drops it, so that the window waits until its timeout
(`cauthclient.cpp`); a second request of a client that did not wait for its answer may make two
proxies write to one handle together (the comment at `cserviceproxyclient.cpp:33` asks whether
this can be).

Left, in this order:

1. Gateway over `ComeTask`: the proxy's connection as a refinement instead of up
   and down; `CService` with `TaskExecutor` and handles.
2. Proofs: the exit of the pool as action properties; consequences of `LogDelivery` stated
   in its own terms.
