# Verification of snow

snow is an event-driven TCP server library in C++ (about 2600 lines). A user
derives a class from `server_base`, tells with `pkg_check` where a packet ends
and answers packets in a `session`. This directory holds TLA+ models of the
parts whose correctness depends on the order of events, TLC configurations that
check them on small instances, and proofs that TLAPS checks for every instance.

Paths below are relative to `src/`.

## The system

`server::start` creates four worker threads (`thread_poll`). Each runs

    while (!m_stop_flag) { check(); scheduler::instance().run(); prepare(); }

`scheduler::instance()` is thread_local: every worker has its own epoll
instance, its own timer queue and its own awakener. What workers share is the
list of acceptors, each with a mutex, the list of connections, without one, and
the stop flag, a plain bool.

| component | state | operations | talks to |
|---|---|---|---|
| server (`server.*`) | `m_stop_flag`, `m_acceptors`, `m_connections`, limits | init, start, stop, check, run, handle_new_connection, handle_close | acceptors, scheduler, connections |
| acceptor (`net/acceptor.*`) | listening socket, event, `m_mutex` | try_lock, unlock, enable_event_call_back, handle_read | server (callback), poller |
| connection (`net/connection.*`) | socket, event, timer, receive and send buffer, position in the list | start, send, handle_read, handle_write, handle_timeout, handle_close | server (callback), session (callback), scheduler |
| tcp_socket (`net/tcp_socket.*`) | descriptor | read, write, listen, accept | kernel |
| buffer (`net/buffer.*`) | array, size, two indexes | append, ensure_writeable_bytes, increase_*_index | - |
| scheduler (`scheduler.*`) | poller, timer queue, awakener, task queue | run, post, spawn | everything that has an event |
| timers (`timer/*`) | timers by address, timer descriptor | start, cancel, run, handle_timeout | connections, scheduler |
| awakener (`awakener.*`) | socket pair | wake_up, handle_read | scheduler |
| session, sample (`session.*`, `samples/echo.cpp`) | response handler | process, send_to_client | connection::send |
| thread_poll, config, endpoint, net_helper, logger | threads, limits, addresses | start/join, init, parsing, write | server |

Two parts are special. The files `event/event.h` and `event/poller.h`, with the
event and poller classes that everything includes, are not in the repository;
their behaviour is modelled from their callers and marked external. The files
`event/event.hpp` and `event/poller.hpp` are an unfinished replacement with
another interface, without callers.

### What is hard here

* Handing over the listening sockets: a worker that gets an acceptor's mutex
  with try_lock arms the acceptor in its own epoll, for one report, and the mutex
  stays locked until `handle_read` runs, in a later turn of the loop. Nobody is
  woken when the mutex becomes free.
* Lifetime: epolls, timer queues and events already in a worker's hand hold
  plain pointers to connections; the connection's own handler destroys it.
  Descriptors move between objects and their numbers are used again.
* The unlocked `std::list` of connections, changed by all workers.
* Errors: descriptors run out, `::write` fails or stops half way, `::readv`
  fails; the results go through unsigned numbers on their way up.
* Index arithmetic of the buffers over long sequences of partial reads, partial
  writes and appends.
* Waiting: what is pending in a send buffer is written only with the next answer;
  the awakener's loop and its full socket pair hold a worker for ever.
* Timers that are ordered by address, armed with a wrong unit and never run.
* Writes that block: a client that does not read stops the worker that answers it.
* Starting: a configuration that is read half, endpoints that are skipped or end
  the process, a second start, a stop that comes too early.

`PROJECT.json` lists each hazard with its line and the properties about it.

## Modules

| module | what it is | extends |
|---|---|---|
| `Server` | workers, acceptors, kernel queues and the life of connections | |
| `ConnService` | what the workers promise together: one server per listening socket, every client taken once and kept by its worker | |
| `MCServer` | Server with the symmetry set TLC uses | Server |
| `Buffer` | the operators of `snow::buffer` on records with its members | |
| `ByteStream` | what each direction of a connection promises: bytes come out in order, once, until the stream is broken | |
| `SendPath` | connection::send and tcp_socket::write | Buffer |
| `RecvPath` | connection::handle_read and tcp_socket::read | Buffer |
| `Connection` | one connection and its client, in numbers of bytes: who waits for what | |
| `TimerQueue` | timer, timer_queue and timer_fd, every operation in any order | |
| `Timeouts` | the same timers as the connections of a worker use them | TimerQueue |
| `Scheduler` | post, the task queue and the awakener beside a worker's other events | |
| `Ownership` | descriptors and the objects that hold them, from accept to ~server | |
| `Config` | config::init as a function of the file | |
| `Startup` | server::init, start, the joining of the threads, stop | Config |
| `MCStartup` | hosts, endpoints and files for Startup | Startup |
| `Logger` | log statements of many threads and the writer's lock | |
| `ServerProofs`, `BufferProofs`, `SendPathProofs`, `RecvPathProofs`, `ConnectionProofs`, `TimerProofs`, `StartupProofs`, `LoggerProofs` | theorems; Ownership's are in `StartupProofs`, Scheduler's and Timeouts' in `TimerProofs` | their modules, TLAPS |

The modules share no state; each takes from the others what they establish.
The formulas of Ownership are called `FdInit`, `FdNext`, `FdSpec`, those of
Scheduler `LoopInit`, `LoopNext`, `LoopSpec` and those of Timeouts `ConnSpec` and so
on, since a module of theorems extends them together with another module.
Server abstracts a socket to what its peer did (`quiet`, `data`, `data_fin`,
`fin`, `rst`). SendPath and RecvPath look into one connection, whose operations
all run on its one worker (Server: `HomeThread`); Connection puts the two
directions together and forgets the contents of the bytes. Timeouts is about one
worker, for the same reason. Startup takes from Server that a worker which is not
blocked for ever ends after stop (`StopEnds`): the strong fairness of `WorkerEnds`.

### Server

One action per step between which another worker can be scheduled in a way that
matters: each try_lock, each enable_event_call_back, epoll_wait, each event's
dispatch, each turn of the accept loop, unlock, each adopted socket, the begin
and the end of the list's insert and erase, connection::start and each read.
`pc[t]` names the place; `at[t]` and `conn[t]` are the local variables. The
functions map as follows.

| code | actions |
|---|---|
| server::run, check | RunLoop, TryLock, Arm, CheckDone, Exit |
| scheduler::run | Poll (PollReturns), PollIdle, Dispatch |
| acceptor::handle_read | Accept, Unlock, Adopt, AdoptDone |
| server::handle_new_connection | Adopt (up to the insert), Insert, Start |
| connection::handle_read, handle_close, server::handle_close, ~connection | ReadOn, SendReturns, ReadEnd, Erase |
| server::stop, ~server | Stop, Teardown |

The insert and the erase of `m_connections` take two steps, so that two workers
can be inside at a time; that is a data race, `raced` remembers it, and from
then on the list may lose any of its elements, or keep nodes that were freed. A
timer matters here only through the queue that refers to it. `Teardown` is the end
of ~server, in the main thread: the timers it cancels and the events it disables
belong to schedulers that went with their workers. What a call on such an object
does is undefined, and changes nothing in the model.

External: readiness in epoll, EPOLLONESHOT (a report disables the event), the
accept queue with its backlog, the descriptor limit (`::accept` reserves a
descriptor before it looks at the queue), peers that send, close and reset at
any time, and `disable_all`, which acts on the poller the event was given last.

### Buffer, SendPath, RecvPath

A buffer is a record with the four members. Sizes and indexes wrap at `SizeMax`,
which stands for 2^64; an index that wrapped below zero designates, as a
pointer, memory before the array, where `Garbage` is read. Contents are byte
numbers: byte i is the i-th byte handed to send, or sent by the peer, so a lost,
doubled or displaced byte shows. `slipped` remembers that
`ensure_writeable_bytes` set the indexes back without moving the bytes, `errors`
counts the writes that returned -1.

`SendPath` lets a handler send responses of any length of `Sizes`, and `::write`
take any part of what it is offered or fail. The sockets of clients block, so a
part is taken only when a signal stops the write after it copied something.
`RecvPath` lets the peer's bytes arrive in any portions and `::readv` return any
part of them, in two areas; the user's `pkg_check` knows packets of `PkgLen`
bytes.

### Connection

The client sends requests of some packets, waits for each answer, may finish its
side of the stream, reset the connection, or stop reading. The worker reads
(`Read`), dispatches packet by packet (`Dispatch`) and writes an answer for each:
`Dispatch` enters a blocking `::write` (`writing`), which comes back with all or,
on a signal or a reset, a part (`WriteTakes`), or fails (`WriteBreaks`); nothing
makes a client read, so a write may last for ever. The connection is destroyed at
the end of the stream (`ReadEnd`).

After a reset the first call fails with ECONNRESET, a read then finds the end, and
a write raises SIGPIPE, which nothing handles (`killed`). If the client had finished
its side before, the kernel leaves EPIPE instead, and the first write already kills.
`WriteFails` has both. `pending` is what the send buffer holds; only the answers
write it, because handle_write is registered with no event.

The user's `pkg_check` is one that knows packets of `PkgLen` bytes. The sample's
returns `len`, all there is; RecvPath has that case as packets of one byte.

### TimerQueue, Timeouts

timer_queue gives its descriptor a call-back that would run the expired timers.
`timer_fd::handle_read` reads the descriptor and does not call it (`m_cb`): no
timer ever runs. So `handle_timeout`, `reset`, `insert`, `timer::run`, `repeat`,
`restart` and `m_interval` are reached by no call and are left out; `get_expired`
is kept as the function it is (`GetExpired`), for its comment. What is left is the
set, its order and the arming: `m_timers`, per timer `m_expiration` and
`m_running`, and `deadline`, when the descriptor becomes readable. A timer is its
address, since the set is ordered by address. Actions: `Construct` (the
constructor with a call-back), `Start`, `Cancel`, `SetTimeStamp`, `HandleRead`,
`Tick`. `constructed` remembers the timers that came with that constructor, which
leaves m_running as the memory was; `process` records the two ways to misuse the
set, an insert of an element that is there and an erase of one that is gone.
`HowMuchTimeFromNow` divides and multiplies as the code does, with `Kilo` for 1000
and `MinDelay` for 100.

`TimerQueue` has every operation in any order, also those without a caller in the
repository (the constructor and set_time_stamp, which are public). `Timeouts` has the
connections that start and cancel the timers (`Open`, `Receive`, `Close`) and the
worker's poller; a report of epoll (`Report`) and its handling (`HandleReport`) are
two steps, with other handlers between.

### Scheduler

`Post`, `EndPush` and `WakeUp` are the steps of scheduler::post: the push into
the deque takes two steps, as nothing protects it; the write blocks while the
socket pair is full. Nothing takes a task from the queue and runs it, so
`m_task_queue` is only their number, of which a race may lose any. The worker
polls, serves its events in any order (`Poll`, `Serve`, `ServeAwakener`,
`DispatchDone`), and stays in the awakener's loop (`Read`), whose condition is an
unsigned number on a blocking socket.

### Ownership

Descriptors are numbers, and the kernel gives out the lowest free one. Objects
that hold one: the acceptor, the elements of each worker's vector of accepted
sockets (which grows, moves its elements and destroys them), and connections.
`BeginAccept` to `Adopted` are acceptor::handle_read, `Close` is the end of a
connection, `DestroyServer` is ~server by the thread that called start.

### Config, Startup

A file is the list of its endpoints, a partial function with its numbers, and
the place where reading it throws; `Settings` is what config::init makes of it.
In Startup, `ReadConfig`, `NextEndpoint` and `FinishInit` are server::init, with
get_local_addr (`LocalAddr`), std::stoi, htons (`% PortMod`), and the bind and
listen of an acceptor, whose failure ends the process in an assertion. `Start`,
`Join`, `JoinThrows`, `StartReturns` and `Stop` are start, thread_poll and stop;
a worker may block in `::write` or in `::accept` (`WorkerBlocks`), resume
(`WorkerResumes`), and end after stop when it is not blocked (`WorkerEnds`).
`endpoint(sockaddr)` leaves `m_valide` as the memory was: the
model chooses.

### Logger

A statement builds its line in its own object (`Build`); the destructor drops
it or goes for the lock (`Write`), and prints it in two parts (`Emit`), since a
stream may flush in the middle of a line.

## Runs

| run | question | bounds |
|---|---|---|
| `server_safety` | hand-over, references, list, descriptor exhaustion; Server implements ConnService | 2 workers, 2 acceptors, 3 clients, 2 descriptors, backlog 2, 2 events per poll |
| `server_liveness` | queued clients are accepted, closed ones destroyed, workers stop | 2 workers, 1 acceptor, 2 clients, backlog 1 |
| `send_errors` | what send keeps through partial and failed writes | 9 bytes in responses of 0, 1, 2 and 4, array of 3, 2 failures |
| `send_wire` | violation: wrong bytes on the wire without any failure | responses of 1, 2 and 4, no failures |
| `recv_framed` | packets of 3 from arbitrary portions | 24 bytes, kernel queue 9, areas of 3 and 4 |
| `connection` | what client and worker wait for, and how a connection ends | packets of 2, requests of 1 to 3 packets, 10 bytes |
| `timer_queue` | when the set is misused, and for when the descriptor is armed | 3 timers, stamps 0 and 4, `Kilo` 2, `MinDelay` 1, clock to 5 |
| `timeouts` | timers as connections use them: what is queued, and whether a report is read | 3 connections, `Kilo` 2, `MinDelay` 1, clock to 7 |
| `startup` | files, endpoints, limits, start, stop, blocked workers | 111 lists of endpoints on 5 hosts, or numbers {-1, 3, 7, 5000} in any of 4 fields; an exception at every place; ports of 6 bits, 2 threads, 2 starts |
| `scheduler` | whether a wake-up is lost, and what becomes of posters and of other events | the worker and another thread, 3 posts each, 2 sources, 2 datagrams |
| `logger_lines` | lines of several threads | 3 threads, 2 statements each |
| `ownership` | who closes which descriptor | 2 workers, descriptors 0 to 5, standard input open or closed |

Why these are enough. Two workers and two acceptors give every conflict of the
hand-over (a third worker only adds another loser of a try_lock); three clients
with two descriptors exhaust the descriptors with a client still waiting, and two
events in one report let a worker hold an event of one kind while it serves the
other. The byte modules need responses smaller and larger than the array, a
buffer that is partly consumed, and totals of several arrays; the relations
between `Reserve`, `Common` and `RcvBuf` are those of the code (1500 bytes asked
for, a second area that a read can fill, a kernel queue larger than either).
Three timers are a first address, another one and one that comes and goes; with
`Kilo` 2 durations of several "seconds" and their remainders fit into the clock.
Two datagrams are a socket pair that can be empty, partly full and full, and
three posts of one thread overfill it. Two endpoints can collide with each other
and with the address in the code; nothing in init looks at more than one endpoint
and the acceptors before it, nor at numbers and endpoints together, which is why
the files of `startup` have one or the other (`SmallInit`).

The symmetry set (permutations of workers and of clients) is used in the safety
run only. Deadlock is not checked where the system stops by itself: workers leave
their loop after stop, the byte modules, the clock, the posts and the log
statements end at their bound, and a process may end.

### What holds

* `ServantHoldsLock`, `NoAbandonedLock`, `NoLostAcceptor`: the hand-over works
  without any wake-up. Only the one-shot event makes the first true, and only
  the order "check before poll" the last.
* `NoDanglingReference`, `HomeThread`: nothing leads to a destroyed connection,
  and a connection stays on one worker. That is also what makes `timer::cancel`,
  which looks in its caller's queue, correct.
* `ListExactUntilRace`: the list is right until two workers are inside it.
* `ExhaustionTrapsWorker`: with no descriptor left some worker is caught in the
  accept loop, holding an acceptor and connections it has not started.
* `ServiceSpec` (of ConnService) and, for each direction, `StreamSpec` (of
  ByteStream).
* `NothingLost`, `MemorySafeUntilFailure`, `NoPacketWaits`, `SizeBounded` about
  the bytes.
* `WaitsOnlyForPending`, `GoesWithClient`, `EndLosesOnlyPending`,
  `KilledByUnanswered`: a client that reads waits for nothing but the rest of an
  answer that a write left; a connection that was reset ends, and so does one whose
  client has finished, unless a write into it blocks for ever; the end loses only
  that rest; only a client that leaves with requests unanswered kills the server, two
  packets, or one if it had finished its side before the reset.
* `NeverWokenEarly`: errors of unit and order make the descriptor's deadline late,
  never early. `MisuseTakesAConstructor`: start and cancel use the set correctly;
  only a timer of the other constructor breaks it. `QueueIsOpenConnections`,
  `ReportIsDrained`: so the queue is right in the server, and its descriptor is
  read when it becomes readable, though that runs no timer.
* `NoWakeUpIsLost`: while a task is queued a wake-up is on its way, or there, or the
  worker is taking one. `PostReturns`, `EventsServed`: posters come back and events
  are served, until the worker is in the awakener's loop, or blocked by its own
  wake-up.
* `ReadyMeansServing`, `LimitsInRange`, `ReturnsStopped`, `StopEndsStart`
  about starting, `OneOwner`, `NeverZero` about descriptors,
  `LinesWhole`, `FatalIsPrinted` about the log.

### What does not

Each of these is an entry under findings. `send_wire` is the run with the
counterexample of the gravest; for the others the modules hold the property, and
a configuration of the name given here makes TLC produce the counterexample
within seconds (`tlc -config <file> <module>`).

* `ensure_writeable_bytes` with room at the front but not at the end moves the
  indexes and not the bytes: wrong bytes are sent (`send_wire`) and dispatched
  (`RecvPath_echo.cfg`). Their number stays right (`LengthKept`).
* A response of no bytes fails the assertion in `tcp_socket::write`
  (`SendPath_NeverWritesNothing.cfg`).
* `tcp_socket::write` takes -1 for a success; an index moves below zero, and a
  later append fails its assertion (`SendPath_RoomIsMade.cfg`).
* A partial write's rest is written only with the next answer, however long the
  client is ready to read it (`Connection_AnswerArrives.cfg`).
* The awakener's handler does not come back from the first wake-up
  (`Scheduler_WakeUpReturns.cfg`).
* `m_max_connecction` is never looked at (config.yaml:13; `MCServer_maxconn.cfg`).
* Nanoseconds are taken for microseconds (`TimerQueue_FiresOnTime.cfg`); a call of
  get_expired would move out one of several expired timers
  (`TimerQueue_AllExpiredMovedOut.cfg`).
* Idle connections never time out (config.yaml:14; `Timeouts_IdleTimesOut.cfg`); a
  handler can withdraw the timer's report before it is read
  (`Timeouts_ReportIsCurrent.cfg`).
* `procnum` is overwritten (`MCStartup_ProcNumRespected.cfg`), the log level is
  not clamped (`MCStartup_LogLevelBounded.cfg`) and not looked at
  (`Logger_LevelRespected.cfg`).
* An endpoint gets the address of another interface than it names
  (`MCStartup_InterfaceRespected.cfg`) and is served over TCP whatever protocol it
  names (`MCStartup_ProtoRespected.cfg`).

### Fairness

* Server: weak fairness of each worker's steps: the operating system runs every
  thread. epoll_wait has a time-out, so a poll with nothing to report ends as
  well. Nothing is assumed of peers: they may never send or close. In particular
  accepted sockets stay blocking (only the listening ones are made non-blocking),
  so a handler's `::write` waits for the peer to read; the step `SendReturns` has
  no fairness, and the liveness properties say `PeersRead`: no worker is in
  `::write` for ever. They also let go of every promise once the descriptors are
  exhausted, when workers are caught in `accept`.
* Connection: weak fairness of the worker's read (whatever it returns) and of
  its dispatch. A write into a connection that is up has none: the client owes
  nothing, not even to read. The kernel ends a write into a connection that was
  reset. What depends on a client that reads says `ClientReads`: no write blocks for
  ever.
* Timeouts: weak fairness of the report, of its handler and of the clock.
* Scheduler: weak fairness of the worker's and the posters' steps, for a worker
  whose handlers return (no blocked `::write`, descriptors left for accept); strong
  fairness of a blocked wake-up, since the kernel lets waiting writers in as often
  as there is room.
* Startup: weak fairness of start's loop over its threads, and strong fairness of
  each worker's end: one that is not blocked comes to the head of its loop and sees
  the flag, which is what `StopEnds` shows of Server. Nothing makes a blocked
  worker resume, so `StopEndsStart` says `WorkersResume`.
* Logger: weak fairness of printing and unlocking, strong fairness of the lock,
  which std::mutex needs so that no thread is passed over for ever.

## Proofs

TLAPS checks all of them with no unproved step, for every value of the constants
that satisfies the named assumptions. Those are mild: sets are finite and not
empty, bounds are natural numbers, the port of an endpoint is any int
(`StartupAssumption`), and for the byte modules a multiple of the sizes in play stays below `SizeMax`, that is, buffers
are not a large part of the address space. `SendPathAssumption` is
`2 * (InitSize + MaxSent + MaxErrors) < SizeMax`, `RecvPathAssumption` asks for
eight times the sizes of the receive buffer.

Every invariant a passing run checks is the statement of a theorem, and so are
both refinements.

### Server

* The mutexes. `TypeCorrect`: `TypeOK` is not inductive alone; `Placement` is
  added: a worker inside handle_read works on an acceptor of the list, one inside
  a connection's operation on a connection. `AcceptingIsExclusive`, `LockIsUsed`,
  `HandoverNeedsNoWakeup`, that is `ServantHoldsLock`, `NoAbandonedLock` and
  `NoLostAcceptor`: the inductive invariant (`LockInv`) adds two facts. A worker
  answers for an acceptor in one way at a time (`OneStage`): were it armed and in
  hand at once, the first handle_read would free the mutex under the second. And
  no acceptor event is left over when a worker polls again (`NoEventLeft`): the
  report would replace it, and its mutex would have no one to free it.
  `NoLostAcceptor` holds because the worker that frees a mutex still has to come
  back to check.
* The connections. `ConnInv` gives each client one worker and one stage of its
  life. It waits in one accept queue (`OneBacklog`), else two workers could take
  it; one worker at most is creating its connection, and nothing refers to it
  before it is started (`OneCreator`), else an event could come between the insert
  and start; what is open is being created or started, and only what is open has
  a running timer or a place in the list (`StartedOrCreating`); and what leads to
  a connection (timer queue, epoll, active_events, its handler) is of the worker
  that started it, its handler runs once at a time, and a worker that exits
  leaves nothing behind (`References`). A connection's event is not in hand a
  second time while its handler runs, so the handler may destroy it. `ReferencesAreAlive` and `ConnectionsStayHome`
  (`NoDanglingReference`, `HomeThread`) follow.
* The next three rest on `StepKinds`: a step either brings one connection to its
  next stage or leaves all of them, and the accept loops, alone. `ListIsExact`
  uses that only the ends of an insert and of an erase change the list.
* `ExhaustionTraps`: only the accept loop takes descriptors (`ClientsGrow`), so
  the worker that took the last one is in it, with its sockets and its mutex; and
  it stays there as long as none is free (`TrappedStays`), whoever stops the server
  or closes a client (`NothingFreesTheTrapped`).
* `WorkersAreTheService`: the refinement of ConnService. Who keeps a client is
  read off the state (`Keeper`): the worker that creates its connection or whose
  epoll has it; `KeeperRight` says that there is only one. Each step then takes a
  client, lets one go, changes the server of a socket, or stutters.

### Buffer, SendPath, RecvPath

* `BufferProofs` has lemmas about single operations on a buffer whose indexes are
  in order (`Ordered`), among them `EnsureMakesRoom` (room, count and bounds) and
  `AppendContents` (contents); about what kind of bytes an array holds (`Holds`);
  and about a buffer whose read index lies up to some bytes before its array
  (`Wide`), which is what failed writes make of it.
* `SendPathProofs`: `SendInv` says that until a write fails, the indexes are in
  order within an array of at most `InitSize + sent` bytes, and the wire and the
  pending bytes add up to what was sent; until an append slips also that their
  contents are the bytes in order. Each kind of send is a write (`WriteMoves`)
  after or before an append (`AppendExtends`). From it follow `SafeUntilFailure`,
  `CountIsKept`, `BytesAreKept` and `SendIsAStream`, the refinement of ByteStream.
  After failures `SendInv` says nothing. `FaultInv` holds for ever: the read index
  is at most `errors` bytes before the array, and the wire and the pending bytes
  are `errors` more than was sent. So `FailuresAreCounted` (each -1 that is taken
  for a success makes one byte that nobody sent) and `TypeCorrect`.
* `RecvPathProofs`: `RecvInv` says the same of the receive buffer and the
  dispatched bytes, with the bound of the array (`Sound`) and that no packet waits.
  The bound needs both: what is left of the last call is less than a packet, so
  an array that must grow was nearly empty. Theorems `CountIsKept`,
  `BytesAreKept`, `PacketsAreDispatched`, `BufferStaysSmall`, `ReceiveIsAStream`,
  and `TypeCorrect`, since slips and all only ever copy bytes of the stream or
  garbage.
* `SendsAreCounted` and `ReadsAreCounted` tie these modules to Connection, which
  only has numbers: a send writes some of the pending and the new bytes and keeps
  the others, and one byte more when the write fails (`ToWrite + 1` there); a read
  dispatches every complete packet and keeps the rest. They hold of every step,
  after slips and failures too, but for sends that end the process, which takes
  a failed write before.

### The other modules

* `ConnectionProofs`: `IInv` adds that everything counted is a whole number of
  packets where it has to be (`WholePackets`), that answers are conserved until an
  error (`Conserved`), that no packet waits between dispatches (`NoneWaits`), and
  what a reset leaves, with and without an error fetched (`AfterReset`). Theorems
  `TypeCorrect`, `EndKeepsTheRest`, `OnlyUnansweredKill`.
* `TimerProofs`: `IInv` is the types, a clock past the epoch, `RunningIsQueued`
  and `MisuseTakesAConstructor`: a timer that no other constructor queued is inserted
  and erased in turn, and its m_running tells which comes next. The arithmetic of
  `HowMuchTimeFromNow` is bounded from below once (never earlier than asked), which
  gives `WakesNoneEarly`. For Timeouts, `ConnInv` adds that nothing came with the
  other constructor and `QueueIsOpenConnections` itself
  (`QueueFollowsConnections`).
  For Scheduler, `NoWakeUpIsLost` is inductive with the types (`WakeUpForEachTask`):
  a wake-up leaves `waking` only for the socket, and the socket only for a worker
  that stays in the loop. `LostStaysLost` is the reason why `WakeUpReturns` fails,
  and takes no fairness: a worker in the awakener's loop, or blocked by its own
  wake-up, never leaves it and serves nothing more. For the second case
  `PosterServes` says that a worker which posts has not left the handler of another
  event.
* `StartupProofs`: `StartInv` (the first start joins its threads in order,
  which ended because of stop; a second finds the joined ones), `LimitsInv`, and `ReadyInv` (the acceptors that
  were made listen on different addresses of the host). Theorems
  `StartReturnsStopped`, `LimitsHold`, `InitMakesServing`, `TypeCorrect`.
  For Ownership, `FdInv` adds to the two properties that the sockets a worker
  has not adopted are above zero, that it has no vector outside handle_read
  (`VectorInv`), and that zero is the standard input or the acceptor
  (`ZeroIsKept`). Each step takes descriptors that were nobody's or gives up some
  of one worker's (`OwnersFollow`). Theorems `DescriptorsHaveOneOwner`,
  `ConnectionsAreAboveZero`.
* `LoggerProofs`: the lock is held from taking it to releasing it (`MutexHeld`),
  a half-printed line is the last (`LastPart`), lines have the numbers of their
  statements (`Numbered`). Theorems `TypeCorrect`, `LinesKept`, which is
  `LinesWhole` and `LinesInOrder`.

Some statements (`LengthKept`, `PhantomsCounted`, `RunningIsQueued`,
`LinesInOrder`, the types, the two theorems about counts, `LostStaysLost` and
`NothingFreesTheTrapped`) are proved and not listed with a run.

Only model-checked: the liveness properties, since liveness under fairness is
outside what the prover does (`QueuedIsAccepted`, `ClosedIsDestroyed`, `StopEnds`,
`StopEndsStart`, `ReportIsDrained`, `PostReturns`, `EventsServed`, `FatalIsPrinted`,
`WaitsOnlyForPending`, `GoesWithClient`), and that the properties under "What does
not" are violated.

## Not modelled

* udp and raw sockets: their operations are empty or return constants and have
  no caller.
* `event/event.hpp`, `event/poller.hpp`: an unfinished replacement that does not
  compile and has no caller (poller.hpp:120 would give epoll_wait no room).
* `timer_queue::handle_timeout` and what only it calls (`reset`, `insert`,
  `timer::run`, `repeat`, `restart`), and with them `connection::handle_timeout` and
  the intervals: `timer_fd::handle_read` does not call m_cb.
* `connection::stop` and `connection::handle_write`, the move constructor of
  buffer, the other operations of socket: no caller. `scheduler::spawn`,
  `server::prepare` and a session's set_timeout are empty.
* What log lines and printed endpoints look like.
* `std::list` inside (external): Server only records that two workers were in it,
  and what a worker does with a node that was freed is left out.
* The memory model of the stop flag, which the model reads and writes atomically.

## Plan

1. Done: all modules above. `ConnList`, once planned to follow `std::list` pointer
   by pointer, was dropped: the list is external code, and what a race leaves of
   it is undefined.
2. Done: theorems for every invariant the runs check, for both refinements
   and for the counts that Connection takes from SendPath and RecvPath.
3. Left: the safety halves of liveness properties, as `LostStaysLost` is one of
   `EventsServed` (in Connection: that only the next answer or the end
   takes what is pending; in Server: that a queued client is only taken by the
   worker that holds its acceptor).
