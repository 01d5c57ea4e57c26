------------------------------- MODULE Server -------------------------------
(***************************************************************************)
(* The running server of snow: the worker threads that server::start       *)
(* creates, each looping through server::run; the acceptors they hand to   *)
(* each other with a try_lock on acceptor::m_mutex; the epoll instance and *)
(* the timer queue every thread owns through its thread_local scheduler;   *)
(* and the life of a connection from the listen queue to its destruction.  *)
(*                                                                         *)
(* Byte contents, buffers and the timer descriptor are the subject of      *)
(* other modules; here a peer only makes a socket readable, ends its       *)
(* stream or resets it.                                                    *)
(*                                                                         *)
(* External code (not in the repository): the event class and the poller   *)
(* with the interface that acceptor, connection and scheduler call         *)
(* (set_poller, enable_reading, enable_oneshot, disable_all, poll), the    *)
(* kernel's sockets and epoll, and the user's packet handlers, which       *)
(* return, but may call connection::send on the way.                       *)
(***************************************************************************)
EXTENDS Integers, FiniteSets

CONSTANTS
  Threads,          \* the workers of m_thread_poll
  NumAcceptors,     \* length of the list m_acceptors
  Conns,            \* the clients that may connect, each at most once
  MaxFds,           \* descriptors the process can hold for clients
  ListenBacklog,    \* second argument of ::listen
  MaxEvents,        \* events one epoll_wait reports at most
  MaxConnection,    \* m_max_connecction, as configured
  NoThread,         \* an unlocked mutex, an event without a poller
  NoConn            \* a thread that works on no connection

ASSUME ServerAssumption ==
  /\ Threads # {} /\ IsFiniteSet(Threads)
  /\ IsFiniteSet(Conns)
  /\ NumAcceptors \in Nat \ {0}
  /\ MaxFds \in Nat \ {0}
  /\ ListenBacklog \in Nat \ {0}
  /\ MaxEvents \in Nat \ {0}
  /\ MaxConnection \in Nat \ {0}
  /\ NoThread \notin Threads
  /\ NoConn \notin Conns

Acceptors == 1 .. NumAcceptors

VARIABLES
  m_stop_flag,      \* server::m_stop_flag
  pc,               \* where each worker is, see Location
  at,               \* per worker: the acceptor check() or handle_read works on
  conn,             \* per worker: the connection it is creating or reading
  m_mutex,          \* per acceptor: the worker that holds acceptor::m_mutex
  armed,            \* per acceptor: the workers whose epoll has it enabled
  backlog,          \* per acceptor: clients the kernel has queued
  activeA,          \* per worker: acceptor events left in active_events
  activeC,          \* per worker: connection events left in active_events
  sockets,          \* per worker: the local vector of acceptor::handle_read
  life,             \* per client: see Life
  peer,             \* per client: what the kernel would deliver, see Peer
  poller,           \* per client: event::m_poller of connection::m_io_event
  watched,          \* per worker: connections its epoll reports as readable
  timers,           \* per worker: timer_queue::m_timers of its scheduler
  running,          \* connections whose timer has m_running set
  m_connections,    \* the clients on the list server::m_connections
  writers,          \* workers inside an insert or erase of that list
  raced             \* history: two workers were inside one at a time

loopVars == <<pc, at, conn>>
lockVars == <<m_mutex, armed, activeA>>
netVars  == <<backlog, peer>>
connVars == <<activeC, sockets, life, poller, watched, timers, running>>
listVars == <<m_connections, writers, raced>>
vars == <<m_stop_flag, loopVars, lockVars, netVars, connVars, listVars>>

Location == {"loop", "check", "arm", "poll", "dispatch", "accept", "unlock",
             "adopt", "insert", "start", "read", "send", "erase", "exited"}
Life == {"unborn", "queued", "accepted", "open", "gone"}
Peer == {"quiet", "data", "data_fin", "fin", "rst"}

TypeOK ==
  /\ m_stop_flag \in BOOLEAN
  /\ pc \in [Threads -> Location]
  /\ at \in [Threads -> 1 .. NumAcceptors + 1]
  /\ conn \in [Threads -> Conns \cup {NoConn}]
  /\ m_mutex \in [Acceptors -> Threads \cup {NoThread}]
  /\ armed \in [Acceptors -> SUBSET Threads]
  /\ backlog \in [Acceptors -> SUBSET Conns]
  /\ activeA \in [Threads -> SUBSET Acceptors]
  /\ activeC \in [Threads -> SUBSET Conns]
  /\ sockets \in [Threads -> SUBSET Conns]
  /\ life \in [Conns -> Life]
  /\ peer \in [Conns -> Peer]
  /\ poller \in [Conns -> Threads \cup {NoThread}]
  /\ watched \in [Threads -> SUBSET Conns]
  /\ timers \in [Threads -> SUBSET Conns]
  /\ running \in SUBSET Conns
  /\ m_connections \in SUBSET Conns
  /\ writers \in SUBSET Threads
  /\ raced \in BOOLEAN

\* server::start clears the stop flag before it starts the threads; every
\* worker is at the head of the loop of server::run.
Init ==
  /\ m_stop_flag = FALSE
  /\ pc = [t \in Threads |-> "loop"]
  /\ at = [t \in Threads |-> 1]
  /\ conn = [t \in Threads |-> NoConn]
  /\ m_mutex = [a \in Acceptors |-> NoThread]
  /\ armed = [a \in Acceptors |-> {}]
  /\ backlog = [a \in Acceptors |-> {}]
  /\ activeA = [t \in Threads |-> {}]
  /\ activeC = [t \in Threads |-> {}]
  /\ sockets = [t \in Threads |-> {}]
  /\ life = [c \in Conns |-> "unborn"]
  /\ peer = [c \in Conns |-> "quiet"]
  /\ poller = [c \in Conns |-> NoThread]
  /\ watched = [t \in Threads |-> {}]
  /\ timers = [t \in Threads |-> {}]
  /\ running = {}
  /\ m_connections = {}
  /\ writers = {}
  /\ raced = FALSE

-----------------------------------------------------------------------------
(* The clients, the kernel and the caller of server::stop.                 *)

Connect(c, a) ==
  /\ life[c] = "unborn"
  /\ Cardinality(backlog[a]) < ListenBacklog
  /\ life' = [life EXCEPT ![c] = "queued"]
  /\ backlog' = [backlog EXCEPT ![a] = @ \cup {c}]
  /\ UNCHANGED <<m_stop_flag, loopVars, lockVars, listVars, peer, activeC,
                 sockets, poller, watched, timers, running>>

Connected(c) == life[c] \in {"queued", "accepted", "open"}

PeerMoves(c, from, to) ==
  /\ Connected(c)
  /\ peer[c] = from
  /\ peer' = [peer EXCEPT ![c] = to]
  /\ UNCHANGED <<m_stop_flag, loopVars, lockVars, backlog, connVars, listVars>>

PeerSends(c) == PeerMoves(c, "quiet", "data")

PeerCloses(c) == PeerMoves(c, "quiet", "fin") \/ PeerMoves(c, "data", "data_fin")

PeerResets(c) == \E from \in {"quiet", "data", "data_fin"} : PeerMoves(c, from, "rst")

\* server::stop only sets the flag: no worker is woken.
Stop ==
  /\ ~m_stop_flag
  /\ m_stop_flag' = TRUE
  /\ UNCHANGED <<loopVars, lockVars, netVars, connVars, listVars>>

-----------------------------------------------------------------------------
(* server::run and server::check.                                          *)

Goto(t, from, to) ==
  /\ pc[t] = from
  /\ pc' = [pc EXCEPT ![t] = to]

RunLoop(t) ==
  /\ ~m_stop_flag
  /\ Goto(t, "loop", "check")
  /\ at' = [at EXCEPT ![t] = 1]
  /\ UNCHANGED <<m_stop_flag, conn, lockVars, netVars, connVars, listVars>>

\* The worker leaves server::run. Its thread_local scheduler is destroyed:
\* ~poller closes the epoll descriptor, and the set of timers goes with the
\* timer queue. No mutex is released and no m_running flag is reset.
Exit(t) ==
  /\ m_stop_flag
  /\ Goto(t, "loop", "exited")
  /\ armed' = [a \in Acceptors |-> armed[a] \ {t}]
  /\ watched' = [watched EXCEPT ![t] = {}]
  /\ timers' = [timers EXCEPT ![t] = {}]
  /\ UNCHANGED <<m_stop_flag, at, conn, m_mutex, activeA, netVars, activeC,
                 sockets, life, poller, running, listVars>>

\* acceptor::try_lock on the next acceptor of the list. It fails for the
\* worker that already holds the mutex too (pthread_mutex_trylock: EBUSY).
TryLock(t) ==
  /\ at[t] \in Acceptors
  /\ \/ /\ m_mutex[at[t]] = NoThread
        /\ Goto(t, "check", "arm")
        /\ m_mutex' = [m_mutex EXCEPT ![at[t]] = t]
        /\ UNCHANGED at
     \/ /\ m_mutex[at[t]] # NoThread
        /\ pc[t] = "check"
        /\ at' = [at EXCEPT ![t] = @ + 1]
        /\ UNCHANGED <<pc, m_mutex>>
  /\ UNCHANGED <<m_stop_flag, conn, armed, activeA, netVars, connVars, listVars>>

\* acceptor::enable_event_call_back: the event moves to this worker's poller
\* and is enabled for one report.
Arm(t) ==
  /\ Goto(t, "arm", "check")
  /\ armed' = [armed EXCEPT ![at[t]] = @ \cup {t}]
  /\ at' = [at EXCEPT ![t] = @ + 1]
  /\ UNCHANGED <<m_stop_flag, conn, m_mutex, activeA, netVars, connVars, listVars>>

CheckDone(t) ==
  /\ at[t] = NumAcceptors + 1
  /\ Goto(t, "check", "poll")
  /\ UNCHANGED <<m_stop_flag, at, conn, lockVars, netVars, connVars, listVars>>

-----------------------------------------------------------------------------
(* scheduler::run.                                                         *)

ReadyA(t) == {a \in Acceptors : t \in armed[a] /\ backlog[a] # {}}
ReadyC(t) == {c \in watched[t] : peer[c] # "quiet"}

\* A fault: enable_oneshot is not called.
Disarm_NoOneshot(t, A) == UNCHANGED armed

\* A reported acceptor was enabled with EPOLLONESHOT: the report disables it.
Disarm(t, A) ==
  armed' = [a \in Acceptors |-> IF a \in A THEN armed[a] \ {t} ELSE armed[a]]

\* epoll_wait reports the ready events, MaxEvents of them if there are more.
PollReturns(t, A, C) ==
  /\ Goto(t, "poll", "dispatch")
  /\ LET ready == Cardinality(ReadyA(t)) + Cardinality(ReadyC(t))
     IN  /\ ready > 0
         /\ Cardinality(A) + Cardinality(C) = IF ready < MaxEvents THEN ready ELSE MaxEvents
  /\ activeA' = [activeA EXCEPT ![t] = A]
  /\ activeC' = [activeC EXCEPT ![t] = C]
  /\ Disarm(t, A)
  /\ UNCHANGED <<m_stop_flag, at, conn, m_mutex, netVars, sockets, life,
                 poller, watched, timers, running, listVars>>

\* A fault: epoll_wait without a time-out.
PollIdle_NoTimeout(t) == FALSE /\ UNCHANGED vars

\* epoll_wait comes back with no event of an acceptor or a connection: the
\* time-out of 1000000 ms, a signal, or the timer descriptor, whose handler
\* touches nothing this module tracks.
PollIdle(t) ==
  /\ ReadyA(t) = {} /\ ReadyC(t) = {}
  /\ Goto(t, "poll", "loop")
  /\ UNCHANGED <<m_stop_flag, at, conn, lockVars, netVars, connVars, listVars>>

RunAcceptorEvent(t, a) ==
  /\ a \in activeA[t]
  /\ Goto(t, "dispatch", "accept")
  /\ at' = [at EXCEPT ![t] = a]
  /\ activeA' = [activeA EXCEPT ![t] = @ \ {a}]
  /\ UNCHANGED <<m_stop_flag, conn, m_mutex, armed, netVars, connVars, listVars>>

RunConnectionEvent(t, c) ==
  /\ c \in activeC[t]
  /\ Goto(t, "dispatch", "read")
  /\ conn' = [conn EXCEPT ![t] = c]
  /\ activeC' = [activeC EXCEPT ![t] = @ \ {c}]
  /\ UNCHANGED <<m_stop_flag, at, lockVars, netVars, sockets, life, poller,
                 watched, timers, running, listVars>>

\* A fault: server::run polls again without a check().
DispatchDone_NoCheck(t) ==
  /\ activeA[t] = {} /\ activeC[t] = {}
  /\ Goto(t, "dispatch", "poll")
  /\ UNCHANGED <<m_stop_flag, at, conn, lockVars, netVars, connVars, listVars>>

DispatchDone(t) ==
  /\ activeA[t] = {} /\ activeC[t] = {}
  /\ Goto(t, "dispatch", "loop")
  /\ UNCHANGED <<m_stop_flag, at, conn, lockVars, netVars, connVars, listVars>>

-----------------------------------------------------------------------------
(* acceptor::handle_read and server::handle_new_connection.                *)

FdsInUse == Cardinality({c \in Conns : life[c] \in {"accepted", "open"}})

\* A fault: any error of ::accept ends the loop.
AcceptEnds_AnyError(a) == backlog[a] = {} \/ FdsInUse >= MaxFds

\* ::accept fails with EAGAIN, the one error that ends the loop.
AcceptEnds(a) == backlog[a] = {} /\ FdsInUse < MaxFds

\* One turn of the loop of tcp_socket::accept. With every descriptor in use
\* ::accept fails with EMFILE, whatever is queued, and the loop turns again:
\* the worker takes no step until a descriptor is free.
Accept(t) ==
  LET a == at[t] IN
  /\ \/ /\ pc[t] = "accept"
        /\ FdsInUse < MaxFds
        /\ \E c \in backlog[a] :
             /\ backlog' = [backlog EXCEPT ![a] = @ \ {c}]
             /\ life' = [life EXCEPT ![c] = "accepted"]
             /\ sockets' = [sockets EXCEPT ![t] = @ \cup {c}]
        /\ UNCHANGED pc
     \/ /\ Goto(t, "accept", "unlock")
        /\ AcceptEnds(a)
        /\ UNCHANGED <<backlog, life, sockets>>
  /\ UNCHANGED <<m_stop_flag, at, conn, lockVars, peer, activeC, poller,
                 watched, timers, running, listVars>>

\* A fault: handle_read returns to its loop with the mutex held.
Unlock_Forgotten(t) ==
  /\ Goto(t, "unlock", "adopt")
  /\ UNCHANGED <<m_stop_flag, at, conn, lockVars, netVars, connVars, listVars>>

\* The mutex is released before the new sockets are looked at.
Unlock(t) ==
  /\ Goto(t, "unlock", "adopt")
  /\ m_mutex' = [m_mutex EXCEPT ![at[t]] = NoThread]
  /\ UNCHANGED <<m_stop_flag, at, conn, armed, activeA, netVars, connVars, listVars>>

\* Two workers inside std::list::insert or erase at a time is a data race.
EnterList(t) ==
  /\ writers' = writers \cup {t}
  /\ raced' = (raced \/ writers # {})

\* A fault: the element is neither linked nor unlinked.
LeaveList_NoLink(t, content) ==
  /\ writers' = writers \ {t}
  /\ UNCHANGED <<m_connections, raced>>

\* Racing writes may lose any node of the list, and may leave linked, or link
\* again, a node that was erased and freed.
LeaveList(t, content) ==
  /\ writers' = writers \ {t}
  /\ \/ m_connections' = content
     \/ raced /\ m_connections' \in SUBSET {c \in Conns : life[c] \in {"open", "gone"}}
  /\ UNCHANGED raced

\* The next socket becomes a connection, and m_connections.insert begins.
Adopt(t, c) ==
  /\ c \in sockets[t]
  /\ Goto(t, "adopt", "insert")
  /\ conn' = [conn EXCEPT ![t] = c]
  /\ sockets' = [sockets EXCEPT ![t] = @ \ {c}]
  /\ life' = [life EXCEPT ![c] = "open"]
  /\ EnterList(t)
  /\ UNCHANGED <<m_stop_flag, at, lockVars, netVars, activeC, poller, watched,
                 timers, running, m_connections>>

Insert(t) ==
  /\ Goto(t, "insert", "start")
  /\ LeaveList(t, m_connections \cup {conn[t]})
  /\ UNCHANGED <<m_stop_flag, at, conn, lockVars, netVars, connVars>>

\* A fault: the timer says it runs, and is in no queue.
StartTimer_FlagOnly(t, c) == running' = running \cup {c} /\ UNCHANGED timers

\* timer::start called by worker t: the queue is the one of t's scheduler.
StartTimer(t, c) ==
  /\ timers' = IF c \in running THEN timers
               ELSE [timers EXCEPT ![t] = @ \cup {c}]
  /\ running' = running \cup {c}

\* connection::start: the event is registered with the poller of the calling
\* thread's scheduler, then the timer is started.
Start(t) ==
  LET c == conn[t] IN
  /\ Goto(t, "start", "adopt")
  /\ conn' = [conn EXCEPT ![t] = NoConn]
  /\ poller' = [poller EXCEPT ![c] = t]
  /\ watched' = [watched EXCEPT ![t] = @ \cup {c}]
  /\ StartTimer(t, c)
  /\ UNCHANGED <<m_stop_flag, at, lockVars, netVars, activeC, sockets, life, listVars>>

AdoptDone(t) ==
  /\ sockets[t] = {}
  /\ Goto(t, "adopt", "dispatch")
  /\ UNCHANGED <<m_stop_flag, at, conn, lockVars, netVars, connVars, listVars>>

-----------------------------------------------------------------------------
(* connection::handle_read and the destruction of a connection.            *)

\* A fault: the event of a connection that ends stays registered.
DisableAll_Skipped(c) == UNCHANGED watched

\* event::disable_all, on the poller the event was given.
DisableAll(c) ==
  watched' = [t \in Threads |-> IF t = poller[c] THEN watched[t] \ {c} ELSE watched[t]]

\* timer::cancel called by worker t: the queue is the one of t's scheduler,
\* whichever queue the timer is in.
CancelTimer(t, c) ==
  /\ timers' = IF c \in running THEN [timers EXCEPT ![t] = @ \ {c}] ELSE timers
  /\ running' = running \ {c}

\* A fault: the test for 0 is missing.
StreamEnded_Never(c) == FALSE

\* tcp_socket::read returned 0. When it fails it returns size_t(-1), which is
\* not below zero: the second half of the test in handle_read never holds.
StreamEnded(c) == peer[c] = "fin"

\* A read that returns bytes dispatches the complete packets, and a handler
\* may send. After a read that failed the connection stays, and its next read
\* returns 0.
ReadOn(t) ==
  LET c == conn[t] IN
  /\ pc[t] = "read"
  /\ ~StreamEnded(c)
  /\ \/ /\ Goto(t, "read", "dispatch")
        /\ conn' = [conn EXCEPT ![t] = NoConn]
     \/ /\ peer[c] # "rst"
        /\ Goto(t, "read", "send")
        /\ UNCHANGED conn
  /\ peer' = [peer EXCEPT ![c] = IF @ = "data" THEN "quiet" ELSE "fin"]
  /\ UNCHANGED <<m_stop_flag, at, lockVars, backlog, connVars, listVars>>

\* ::write comes back from a handler's connection::send. The sockets that
\* ::accept returns are never made non-blocking: the worker waits here until
\* the peer reads or resets. A write that fails takes the socket's error, and
\* the next read returns 0.
SendReturns(t) ==
  LET c == conn[t] IN
  /\ Goto(t, "send", "dispatch")
  /\ conn' = [conn EXCEPT ![t] = NoConn]
  /\ \/ UNCHANGED peer
     \/ peer[c] = "rst" /\ peer' = [peer EXCEPT ![c] = "fin"]
  /\ UNCHANGED <<m_stop_flag, at, lockVars, backlog, connVars, listVars>>

\* A read that returns 0 cancels the timer, disables the event and enters
\* server::handle_close, which erases the connection from the list.
ReadEnd(t) ==
  LET c == conn[t] IN
  /\ Goto(t, "read", "erase")
  /\ StreamEnded(c)
  /\ CancelTimer(t, c)
  /\ DisableAll(c)
  /\ EnterList(t)
  /\ UNCHANGED <<m_stop_flag, at, conn, lockVars, netVars, activeC, sockets,
                 life, poller, m_connections>>

\* The list node is unlinked and destroyed: ~connection finds its timer
\* cancelled and disables the event again, ~socket closes the descriptor.
Erase(t) ==
  LET c == conn[t] IN
  /\ Goto(t, "erase", "dispatch")
  /\ conn' = [conn EXCEPT ![t] = NoConn]
  /\ LeaveList(t, m_connections \ {c})
  /\ CancelTimer(t, c)
  /\ DisableAll(c)
  /\ life' = [life EXCEPT ![c] = "gone"]
  /\ UNCHANGED <<m_stop_flag, at, lockVars, netVars, activeC, sockets, poller>>

\* Once every worker has been joined, ~server destroys the connections that
\* are left on the list. ~connection cancels a timer that still says m_running,
\* in the queue of the main thread's scheduler, although the queue it was added
\* to is gone, and disables the event in a poller that went with its worker.
\* What a call on such an object does is undefined; here it changes nothing.
Teardown(c) ==
  /\ \A t \in Threads : pc[t] = "exited"
  /\ c \in m_connections
  /\ m_connections' = m_connections \ {c}
  /\ running' = running \ {c}
  /\ DisableAll(c)
  /\ life' = [life EXCEPT ![c] = "gone"]
  /\ UNCHANGED <<m_stop_flag, loopVars, lockVars, netVars, activeC, sockets,
                 poller, timers, writers, raced>>

-----------------------------------------------------------------------------

\* A call of epoll_wait that reports something.
Poll(t) == \E A \in SUBSET ReadyA(t), C \in SUBSET ReadyC(t) : PollReturns(t, A, C)

Dispatch(t) ==
  \/ \E a \in Acceptors : RunAcceptorEvent(t, a)
  \/ \E c \in Conns : RunConnectionEvent(t, c)
  \/ DispatchDone(t)

HandleAccept(t) ==
  \/ Accept(t) \/ Unlock(t)
  \/ \E c \in Conns : Adopt(t, c)
  \/ Insert(t) \/ Start(t) \/ AdoptDone(t)

HandleRead(t) == ReadOn(t) \/ ReadEnd(t) \/ Erase(t)

Worker(t) ==
  \/ RunLoop(t) \/ Exit(t) \/ TryLock(t) \/ Arm(t) \/ CheckDone(t)
  \/ Poll(t) \/ PollIdle(t) \/ Dispatch(t) \/ HandleAccept(t) \/ HandleRead(t)

Environment ==
  \/ \E c \in Conns, a \in Acceptors : Connect(c, a)
  \/ \E c \in Conns : PeerSends(c) \/ PeerCloses(c) \/ PeerResets(c)
  \/ Stop

Next ==
  \/ \E t \in Threads : Worker(t) \/ SendReturns(t)
  \/ Environment
  \/ \E c \in Conns : Teardown(c)

Spec == Init /\ [][Next]_vars

\* A worker that can take a step takes one: the scheduler of the operating
\* system runs every thread. Nothing makes ::write return.
Fairness == \A t \in Threads : WF_vars(Worker(t))

FairSpec == Spec /\ Fairness

-----------------------------------------------------------------------------
(* Properties.                                                             *)

\* Worker t answers for acceptor a: it is about to enable it, has it enabled
\* in its epoll, has its event in hand, or is inside its handle_read.
Serving(t, a) ==
  \/ pc[t] = "arm" /\ at[t] = a
  \/ t \in armed[a]
  \/ a \in activeA[t]
  \/ pc[t] \in {"accept", "unlock"} /\ at[t] = a

\* Whoever is served an acceptor's event holds its mutex, so handle_read runs
\* on one worker at a time and acceptor::unlock is called by the owner
\* (acceptor.cpp:48-51).
ServantHoldsLock ==
  \A a \in Acceptors, t \in Threads : Serving(t, a) => m_mutex[a] = t

\* A mutex taken in server::check is never left behind: its owner still
\* answers for the acceptor, unless it left server::run.
NoAbandonedLock ==
  \A a \in Acceptors, t \in Threads :
    m_mutex[a] = t => Serving(t, a) \/ pc[t] = "exited"

\* Worker t calls try_lock on acceptor a before it next blocks in epoll_wait.
WillCheck(t, a) ==
  /\ pc[t] \notin {"poll", "exited"}
  /\ pc[t] \in {"check", "arm"} => at[t] <= a

\* No wake-up is needed between workers: while an acceptor's mutex is free,
\* some worker is on its way to try_lock it (server.cpp:112-131); all of them
\* blocked in epoll_wait with a listening socket nobody watches cannot happen.
NoLostAcceptor ==
  ~m_stop_flag => \A a \in Acceptors :
    m_mutex[a] = NoThread => \E t \in Threads : WillCheck(t, a)

\* Nothing that a worker will follow leads to a destroyed connection: not an
\* event left in active_events (scheduler.cpp:47-50), not one in an epoll,
\* not an entry of a timer queue, which holds references.
NoDanglingReference ==
  \A t \in Threads :
    /\ activeC[t] \cup watched[t] \cup timers[t] \subseteq {c \in Conns : life[c] = "open"}
    /\ pc[t] \in {"start", "read", "send", "erase"} => life[conn[t]] = "open"

\* A connection stays with the worker that accepted it: only that one is
\* given its events, and its timer sits in the queue that timer::cancel, which
\* takes the scheduler of its caller (timer.cpp:47), will look in.
HomeThread ==
  \A t \in Threads, c \in Conns :
    /\ c \in watched[t] \cup activeC[t] => poller[c] = t
    /\ c \in activeC[t] \/ (pc[t] = "read" /\ conn[t] = c) => c \in timers[t] \cap running
    /\ c \in running /\ poller[c] = t => c \in timers[t] \/ pc[t] = "exited"

\* Until two workers have been inside m_connections at a time, the list holds
\* exactly the connections that were inserted and not erased.
ListExactUntilRace ==
  ~raced => m_connections =
    {c \in Conns : life[c] = "open" /\ \A t \in Threads : ~(pc[t] = "insert" /\ conn[t] = c)}

FdsExhausted == FdsInUse >= MaxFds

\* The loop of tcp_socket::accept (tcp_socket.cpp:83-97) gives up on EAGAIN
\* only: whenever the descriptors are used up, the worker that took the last
\* one is caught in the loop, with new sockets it has not started and with
\* the mutex of its acceptor.
ExhaustionTrapsWorker ==
  FdsExhausted => \E t \in Threads :
    pc[t] = "accept" /\ sockets[t] # {} /\ m_mutex[at[t]] = t

\* The worker that took client c: it has the socket in its local vector, is
\* creating the connection, or registered it with its own poller.
Keeper(c) ==
  LET creating == {t \in Threads : \/ c \in sockets[t]
                                   \/ pc[t] \in {"insert", "start"} /\ conn[t] = c}
  IN  IF creating = {} THEN poller[c] ELSE CHOOSE t \in creating : TRUE

Service == INSTANCE ConnService WITH
  waiting <- backlog,
  holder  <- m_mutex,
  keeper  <- [c \in Conns |-> Keeper(c)],
  left    <- {c \in Conns : life[c] = "gone"}

\* The workers implement the service: one server per listening socket, every
\* client taken once and kept by the worker that accepted it.
ServiceSpec == Service!Spec

\* No worker stays in a blocking ::write for ever.
PeersRead == \A t \in Threads : []<>(pc[t] # "send")

\* A client that reached the listen queue is accepted, unless the server
\* stops or runs out of descriptors, or some peer never reads: the worker that
\* writes to it may have the event of the acceptor in hand.
QueuedIsAccepted ==
  PeersRead => \A c \in Conns :
    life[c] = "queued" ~> life[c] # "queued" \/ m_stop_flag \/ FdsExhausted

\* A connection whose peer has closed is destroyed, under the same proviso.
ClosedIsDestroyed ==
  PeersRead => \A c \in Conns :
    life[c] = "open" /\ peer[c] = "fin" ~> life[c] = "gone" \/ m_stop_flag \/ FdsExhausted

\* After server::stop every worker leaves server::run, though nothing wakes
\* it, under the same proviso.
StopEnds ==
  PeersRead => (m_stop_flag ~> (\A t \in Threads : pc[t] = "exited") \/ FdsExhausted)

\* config.yaml:13 limits the TCP connections; server::init stores the limit
\* in m_max_connecction and nothing reads it.
MaxConnectionRespected == Cardinality({c \in Conns : life[c] = "open"}) <= MaxConnection
=============================================================================
