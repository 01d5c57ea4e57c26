------------------------------ MODULE Startup -------------------------------
(***************************************************************************)
(* The life of a server object: init, with the configuration, the          *)
(* configured endpoints and their acceptors; start, with its threads; stop *)
(* and the return of start. What the threads do meanwhile is the subject   *)
(* of Server; here a thread is blocked, in a ::write to a peer that does   *)
(* not read or in the loop of ::accept without descriptors, or it runs.    *)
(*                                                                         *)
(* The host is the list getifaddrs returns, empty when it fails.           *)
(***************************************************************************)
EXTENDS Config

CONSTANTS
  EndpointLists,  \* contents of "interface"
  Hosts,          \* lists of interfaces
  PortMod,        \* 2^16
  FixedAddr,      \* 192.168.89.134, the address in server::init
  FixedPort,      \* 50000
  Threads,        \* the 4 of server::start
  MaxStarts       \* bound on the calls of start

ASSUME StartupAssumption ==
  /\ PortMod \in Nat \ {0} /\ FixedPort \in 1 .. PortMod - 1
  /\ Threads \in Nat \ {0} /\ MaxStarts \in Nat
  /\ \A list \in EndpointLists :    \* std::stoi returns any int
       list \in Seq([colon : BOOLEAN, name : STRING, slash : BOOLEAN, numeric : BOOLEAN,
                    port : Int, proto : STRING])

VARIABLES
  host,          \* the interfaces of this host
  file,          \* config.yaml
  settings,      \* the members server::init takes from config, and config::m_log_level,
                 \* which it does not ask for
  todo,          \* endpoints init has not looked at
  m_acceptors,   \* the addresses of the acceptors, and whether they have a handler
  m_stop_flag,
  m_threads,     \* thread_poll::m_threads
  joining,       \* the thread join waits for
  starts,        \* history: calls of start
  process        \* where the thread that calls init and start is

initVars == <<host, file, settings, todo, m_acceptors>>
runVars == <<m_stop_flag, m_threads, joining, starts>>
vars == <<initVars, runVars, process>>

Files == [endpoints : EndpointLists, numbers : Numbers, throws : 1 .. NothingThrows]

\* The members of server before init.
Unset == [m_proc_num |-> 0, m_log_level |-> 0, m_max_connecction |-> 0,
          m_connection_timeout |-> 0, m_max_request_per_second |-> 0]

ThreadState == {"running", "blocked", "finished", "joined"}

TypeOK ==
  /\ settings \in [m_proc_num : Int, m_log_level : Int, m_max_connecction : Int,
                   m_connection_timeout : Int, m_max_request_per_second : Nat]
  /\ \A i \in DOMAIN m_acceptors :
       m_acceptors[i].port \in 0 .. PortMod - 1 /\ m_acceptors[i].handler \in BOOLEAN
  /\ m_stop_flag \in BOOLEAN
  /\ m_threads \in Seq(ThreadState)
  /\ joining \in 0 .. Len(m_threads) + 1
  /\ starts \in 0 .. MaxStarts
  /\ process \in {"new", "endpoints", "ready", "joining", "returned",
                  "terminated", "aborted"}

Init ==
  /\ host \in Hosts
  /\ file \in Files
  /\ settings = Unset
  /\ todo = <<>>
  /\ m_acceptors = <<>>
  /\ m_stop_flag = TRUE
  /\ m_threads = <<>>
  /\ joining = 0
  /\ starts = 0
  /\ process = "new"

-----------------------------------------------------------------------------
(* server::init.                                                           *)

ReadConfig ==
  /\ process \in {"new", "ready"}
  /\ settings' = Settings(file)
  /\ todo' = file.endpoints
  /\ process' = "endpoints"
  /\ UNCHANGED <<host, file, m_acceptors, runVars>>

\* utils::get_local_addr takes the first interface that has an address and
\* whose name differs from the one asked for.
Others(name) == {i \in DOMAIN host : host[i].family # "none" /\ host[i].name # name}
LocalAddr(name) == host[CHOOSE i \in Others(name) : \A j \in Others(name) : i <= j]

\* Text before a colon is the interface; port follows the colon, or stands in
\* the first place of an endpoint without one. Without a slash it stays 0.
InterfaceOf(e) == IF e.colon THEN e.name ELSE ""
PortOf(e) == IF e.slash THEN e.port ELSE 0

\* std::stoi finds no number, and nothing catches what it throws.
StoiThrows(e) == e.slash /\ ~e.numeric

HasAddr(e) == Others(InterfaceOf(e)) # {} /\ LocalAddr(InterfaceOf(e)).family \in {"inet", "inet6"}

\* htons takes 16 bits.
AddrOf(e) ==
  LET local == LocalAddr(InterfaceOf(e))
  IN  [family |-> local.family, addr |-> local.addr, port |-> PortOf(e) % PortMod, handler |-> FALSE]

Owns(addr) == \E i \in DOMAIN host : host[i].family = "inet" /\ host[i].addr = addr

\* The socket is an AF_INET one whatever the address. SO_REUSEADDR does not
\* help against a socket that listens, which every earlier acceptor does. Port
\* 0 is any free port.
Binds(a) ==
  /\ a.family = "inet" /\ Owns(a.addr)
  /\ a.port = 0 \/ \A i \in DOMAIN m_acceptors :
       m_acceptors[i].addr # a.addr \/ m_acceptors[i].port # a.port

\* endpoint(sockaddr) leaves m_valide as it was in memory.
Skip(e) ==
  /\ ~StoiThrows(e)
  /\ PortOf(e) = 0 \/ ~HasAddr(e) \/ \E m_valide \in BOOLEAN : ~m_valide
  /\ UNCHANGED <<m_acceptors, process>>

Take(e) ==
  /\ ~StoiThrows(e) /\ PortOf(e) # 0 /\ HasAddr(e)
  /\ \/ Binds(AddrOf(e)) /\ m_acceptors' = Append(m_acceptors, AddrOf(e)) /\ UNCHANGED process
     \/ ~Binds(AddrOf(e)) /\ process' = "aborted" /\ UNCHANGED m_acceptors

NextEndpoint ==
  /\ process = "endpoints" /\ todo # <<>>
  /\ \/ Skip(Head(todo))
     \/ Take(Head(todo))
     \/ StoiThrows(Head(todo)) /\ process' = "terminated" /\ UNCHANGED m_acceptors
  /\ todo' = Tail(todo)
  /\ UNCHANGED <<host, file, settings, runVars>>

FixedEndpoint == [family |-> "inet", addr |-> FixedAddr, port |-> FixedPort, handler |-> FALSE]

\* A fault: an acceptor gets its handler as it is made, except the last.
WithHandlers_NotLast(acceptors) ==
  [i \in DOMAIN acceptors |-> [acceptors[i] EXCEPT !.handler = i < Len(acceptors)]]

WithHandlers(acceptors) == [i \in DOMAIN acceptors |-> [acceptors[i] EXCEPT !.handler = TRUE]]

\* The endpoint in the code is added to those of the file.
FinishInit ==
  /\ process = "endpoints" /\ todo = <<>>
  /\ \/ /\ Binds(FixedEndpoint)
        /\ m_acceptors' = WithHandlers(Append(m_acceptors, FixedEndpoint))
        /\ process' = "ready"
     \/ ~Binds(FixedEndpoint) /\ process' = "aborted" /\ UNCHANGED m_acceptors
  /\ UNCHANGED <<host, file, settings, todo, runVars>>

-----------------------------------------------------------------------------
(* server::start and stop.                                                 *)

Started == m_threads \o [i \in 1 .. Threads |-> "running"]

\* thread_poll::start adds its threads to those that are there. (A server that
\* is started without init has no acceptors and no limits; left out.)
Start ==
  /\ process \in {"ready", "returned"}
  /\ starts < MaxStarts
  /\ starts' = starts + 1
  /\ m_stop_flag' = FALSE
  /\ settings' = [settings EXCEPT !.m_proc_num = Threads]
  /\ m_threads' = Started
  /\ joining' = 1
  /\ process' = "joining"
  /\ UNCHANGED <<host, file, todo, m_acceptors>>

Becomes(i, from, to) ==
  /\ i \in DOMAIN m_threads
  /\ m_threads[i] = from
  /\ m_threads' = [m_threads EXCEPT ![i] = to]
  /\ UNCHANGED <<initVars, m_stop_flag, joining, starts, process>>

\* A handler's ::write waits for its peer, or ::accept for a descriptor.
WorkerBlocks(i) == Becomes(i, "running", "blocked")
WorkerResumes(i) == Becomes(i, "blocked", "running")

\* server::run returns at the head of its loop.
WorkerEnds(i) == m_stop_flag /\ Becomes(i, "running", "finished")

Joined == [m_threads EXCEPT ![joining] = "joined"]

Join ==
  /\ process = "joining"
  /\ joining <= Len(m_threads)
  /\ m_threads[joining] = "finished"
  /\ m_threads' = Joined
  /\ joining' = joining + 1
  /\ UNCHANGED <<initVars, m_stop_flag, starts, process>>

\* std::thread::join of a joined thread throws, which nothing catches.
JoinThrows ==
  /\ process = "joining"
  /\ joining <= Len(m_threads)
  /\ m_threads[joining] = "joined"
  /\ process' = "terminated"
  /\ UNCHANGED <<initVars, runVars>>

\* A fault: start waits for one thread more than there are.
AllJoined_OneMore == joining > Len(m_threads) + 1

\* A fault: the last thread is left out.
AllJoined_ButLast == joining >= Len(m_threads)

AllJoined == joining > Len(m_threads)

StartReturns ==
  /\ process = "joining"
  /\ AllJoined
  /\ process' = "returned"
  /\ UNCHANGED <<initVars, runVars>>

\* stop comes from any thread.
Stop ==
  /\ process \notin {"terminated", "aborted"}
  /\ m_stop_flag' = TRUE
  /\ UNCHANGED <<initVars, m_threads, joining, starts, process>>

Worker(i) == WorkerBlocks(i) \/ WorkerResumes(i) \/ WorkerEnds(i)

Next ==
  \/ ReadConfig \/ NextEndpoint \/ FinishInit
  \/ Start \/ Join \/ JoinThrows \/ StartReturns
  \/ \E i \in DOMAIN m_threads : Worker(i)
  \/ Stop

\* The threads are run: a worker that is not blocked time and again comes to
\* the head of its loop and sees the flag (Server: StopEnds). Nothing makes a
\* blocked one resume.
Fairness ==
  /\ WF_vars(Join \/ JoinThrows \/ StartReturns)
  /\ \A i \in 1 .. MaxStarts * Threads : SF_vars(WorkerEnds(i))

Spec == Init /\ [][Next]_vars /\ Fairness

-----------------------------------------------------------------------------
(* Properties.                                                             *)

\* Whatever the file holds and wherever reading it fails, the limits a server
\* works with are at least their minimum (config.cpp:71, 74, 82).
LimitsInRange ==
  process # "new" =>
    /\ settings.m_max_connecction >= MIN_CONNECTION
    /\ settings.m_connection_timeout >= MIN_CONNECTION_TIMEOUT

\* init returns only with acceptors that listen on different addresses of this
\* host and have their handler, one of them the address in the code: on a host
\* without that address init ends the process (server.cpp:73-80).
ReadyMeansServing ==
  process = "ready" =>
    /\ Owns(FixedAddr)
    /\ \E i \in DOMAIN m_acceptors : m_acceptors[i].addr = FixedAddr /\ m_acceptors[i].port = FixedPort
    /\ \A i \in DOMAIN m_acceptors :
         /\ m_acceptors[i].handler /\ Owns(m_acceptors[i].addr)
         /\ \A j \in 1 .. i - 1 : m_acceptors[i].port = 0 \/ m_acceptors[i] # m_acceptors[j]

\* start returns only after stop was called, and with every thread joined
\* (server.cpp:85-94, thread_poll.cpp:15-19).
ReturnsStopped ==
  process = "returned" => m_stop_flag /\ \A i \in DOMAIN m_threads : m_threads[i] = "joined"

\* No worker is blocked for ever.
WorkersResume ==
  \A i \in 1 .. MaxStarts * Threads :
    []<>(i \in DOMAIN m_threads => m_threads[i] # "blocked")

\* A stop that comes after the flag is cleared makes the first start return
\* (server.cpp:86, 93), unless a worker is blocked for ever.
StopEndsStart ==
  WorkersResume =>
    ((process = "joining" /\ starts = 1 /\ m_stop_flag) ~> process = "returned")

\* config.yaml:7 "procnum : 10 #默认为cpu物理线程数".
ProcNumRespected ==
  process = "joining" /\ starts = 1 /\ Given(file, "procnum") /\ file.numbers["procnum"] > 0 =>
    Len(m_threads) = file.numbers["procnum"]

\* config.yaml:4 "- eth1:10000/tcp": an endpoint that names an interface with
\* an address is served at that address.
InterfaceRespected ==
  process = "ready" /\ file.throws > 1 =>
    \A k \in DOMAIN file.endpoints, i \in DOMAIN host :
      LET e == file.endpoints[k]
      IN  e.colon /\ e.slash /\ e.numeric /\ e.port \in 1 .. PortMod - 1 /\ e.proto = "tcp"
          /\ host[i].name = e.name /\ host[i].family = "inet"
          => \E a \in DOMAIN m_acceptors :
               m_acceptors[a].addr = host[i].addr /\ m_acceptors[a].port = e.port

\* config.yaml:2 "- eth0:10000/udp": no tcp socket listens for an endpoint of
\* another protocol.
ProtoRespected ==
  process = "ready" =>
    \A a \in DOMAIN m_acceptors :
      \/ m_acceptors[a].port = FixedPort
      \/ \E k \in DOMAIN file.endpoints :
           file.endpoints[k].port % PortMod = m_acceptors[a].port /\ file.endpoints[k].proto = "tcp"

\* config.h:66 declares "MAX_LOG_LEVEL;//                  = 6;", config.h:65
\* a minimum of 0.
LogLevelBounded == settings.m_log_level \in 0 .. MAX_LOG_LEVEL
=============================================================================
