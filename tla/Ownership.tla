----------------------------- MODULE Ownership ------------------------------
(***************************************************************************)
(* Who owns which descriptor, from the acceptor's socket to ~server. Every *)
(* worker accepts into a vector of tcp_sockets, moves them into            *)
(* connections and closes a connection whose client is gone; numbers that  *)
(* are free again are taken by whoever accepts next. When the workers have *)
(* ended, the thread that called start destroys the server.                *)
(*                                                                         *)
(* The kernel gives out the lowest free number. Descriptors of epoll, the  *)
(* timers and the awakeners are left out, as they live as long as a        *)
(* worker's scheduler.                                                     *)
(*                                                                         *)
(* The names that other modules have too start with Fd, so that a module   *)
(* can extend this one beside Startup.                                     *)
(***************************************************************************)
EXTENDS Integers, Sequences, FiniteSets, FiniteSetsExt, Functions

CONSTANTS
  Workers,
  MaxFd        \* the largest number a descriptor may have

ASSUME OwnershipAssumption == Workers # {} /\ MaxFd \in Nat \ {0}

VARIABLES
  open,           \* the descriptors that are open
  inherited,      \* those the process was started with
  acceptor,       \* m_fd of the acceptor's socket
  sockets,        \* per worker: m_fd of the elements of handle_read's vector
  room,           \* per worker: its capacity
  connections,    \* per worker: m_fd of the connections it started
  at,             \* per worker: 0 in its loop, -1 while it accepts, else the
                  \* socket it turns into a connection
  exited,         \* workers that have left server::run
  fate            \* "runs", or how it ended

fdVars == <<open, inherited, acceptor, sockets, room, connections, at, exited, fate>>

Fds == 0 .. MaxFd
NoFd == -1

FdTypes ==
  /\ open \subseteq Fds /\ inherited \subseteq Fds
  /\ acceptor \in Fds
  /\ sockets \in [Workers -> Seq(Fds \cup {NoFd})]
  /\ room \in [Workers -> Nat]
  /\ connections \in [Workers -> SUBSET Fds]
  /\ at \in [Workers -> Int] /\ \A w \in Workers : at[w] \in -1 .. Len(sockets[w]) + 1
  /\ exited \subseteq Workers
  /\ fate \in {"runs", "zero", "foreign erase", "ended"}

\* The acceptor is made before any worker runs, with standard input closed or
\* not.
FdInit ==
  /\ inherited \in {{0}, {}}
  /\ acceptor = Min(Fds \ inherited)
  /\ open = inherited \cup {acceptor}
  /\ sockets = [w \in Workers |-> <<>>]
  /\ room = [w \in Workers |-> 0]
  /\ connections = [w \in Workers |-> {}]
  /\ at = [w \in Workers |-> 0]
  /\ exited = {}
  /\ fate = "runs"

\* A fault: a moved socket keeps its number.
LeftBehind_Kept(fd) == fd

\* What the move constructor leaves in the socket that was moved from.
LeftBehind(fd) == NoFd

\* ~socket for sockets that hold these numbers.
ClosedWith(fds) == fds \ {NoFd}

BeginAccept(w) ==
  /\ fate = "runs" /\ at[w] = 0 /\ w \notin exited
  /\ sockets' = [sockets EXCEPT ![w] = <<>>]
  /\ room' = [room EXCEPT ![w] = 0]
  /\ at' = [at EXCEPT ![w] = -1]
  /\ UNCHANGED <<open, inherited, acceptor, connections, exited, fate>>

\* A fault: the result of ::accept is not looked at.
NewFd_Unchecked == {IF Fds \subseteq open THEN NoFd ELSE Min(Fds \ open)}

\* Without a free number ::accept fails, and the loop turns again.
NewFd == IF Fds \subseteq open THEN {} ELSE {Min(Fds \ open)}

\* A vector that is full moves its elements to a new array and destroys them.
Accept(w) ==
  /\ fate = "runs" /\ at[w] = -1
  /\ \E fd \in NewFd :
       LET grows == Len(sockets[w]) = room[w]
           left  == IF grows THEN {LeftBehind(old) : old \in Range(sockets[w])} ELSE {}
       IN
         /\ sockets' = [sockets EXCEPT ![w] = Append(@, fd)]
         /\ room' = IF grows THEN [room EXCEPT ![w] = IF @ = 0 THEN 1 ELSE 2 * @] ELSE room
         /\ open' = (open \cup {fd}) \ ClosedWith(left)
  /\ UNCHANGED <<inherited, acceptor, connections, at, exited, fate>>

AcceptDone(w) ==
  /\ fate = "runs" /\ at[w] = -1
  /\ at' = [at EXCEPT ![w] = 1]
  /\ UNCHANGED <<open, inherited, acceptor, sockets, room, connections, exited, fate>>

\* The next socket is moved into a new connection, which asserts that its
\* number is above zero, and is started by this worker.
Adopt(w) ==
  /\ fate = "runs" /\ at[w] \in DOMAIN sockets[w]
  /\ LET fd == sockets[w][at[w]]
     IN  \/ /\ fd > 0
            /\ connections' = [connections EXCEPT ![w] = @ \cup {fd}]
            /\ UNCHANGED fate
         \/ fd <= 0 /\ fate' = "zero" /\ UNCHANGED connections
  /\ sockets' = [sockets EXCEPT ![w][at[w]] = LeftBehind(@)]
  /\ at' = [at EXCEPT ![w] = @ + 1]
  /\ UNCHANGED <<open, inherited, acceptor, room, exited>>

\* handle_read returns and its vector is destroyed.
Adopted(w) ==
  /\ fate = "runs" /\ at[w] = Len(sockets[w]) + 1
  /\ open' = open \ ClosedWith(Range(sockets[w]))
  /\ sockets' = [sockets EXCEPT ![w] = <<>>]
  /\ at' = [at EXCEPT ![w] = 0]
  /\ UNCHANGED <<inherited, acceptor, room, connections, exited, fate>>

\* A connection ends with its client: m_connections.erase destroys it.
Close(w) ==
  /\ fate = "runs" /\ at[w] = 0 /\ w \notin exited
  /\ \E fd \in connections[w] :
       /\ connections' = [connections EXCEPT ![w] = @ \ {fd}]
       /\ open' = open \ ClosedWith({fd})
  /\ UNCHANGED <<inherited, acceptor, sockets, room, at, exited, fate>>

\* server::stop was called and the worker sees it. Its scheduler is destroyed
\* with the queue its connections' timers are in; the connections stay.
Exit(w) ==
  /\ fate = "runs" /\ at[w] = 0
  /\ exited' = exited \cup {w}
  /\ UNCHANGED <<open, inherited, acceptor, sockets, room, connections, at, fate>>

WorkersJoined == exited = Workers

\* start has returned and ~server destroys the list of connections and then
\* the acceptors. The timer of a connection that is still open runs, so its
\* destructor cancels it in the queue of the thread that destroys: m_id belongs
\* to another set, and what follows is undefined. Only ~server without open
\* connections is carried further.
DestroyServer ==
  /\ fate = "runs" /\ WorkersJoined
  /\ \/ /\ \A w \in Workers : connections[w] = {}
        /\ open' = open \ ClosedWith({acceptor})
        /\ fate' = "ended"
     \/ /\ \E w \in Workers : connections[w] # {}
        /\ fate' = "foreign erase"
        /\ UNCHANGED open
  /\ UNCHANGED <<inherited, acceptor, sockets, room, connections, at, exited>>

FdNext ==
  \/ \E w \in Workers :
       BeginAccept(w) \/ Accept(w) \/ AcceptDone(w) \/ Adopt(w) \/ Adopted(w) \/ Close(w) \/ Exit(w)
  \/ DestroyServer

FdSpec == FdInit /\ [][FdNext]_fdVars

-----------------------------------------------------------------------------
(* Properties.                                                             *)

\* What a worker's objects hold: the elements of its vector, and its connections.
Held(w) == Range(sockets[w]) \ {NoFd}
Owned(w) == Held(w) \cup connections[w]

Owners ==
  /\ open = inherited \cup {acceptor} \cup UNION {Owned(w) : w \in Workers}
  /\ acceptor \notin inherited
  /\ \A w \in Workers :
       /\ Owned(w) \cap (inherited \cup {acceptor}) = {}
       /\ Held(w) \cap connections[w] = {}
       /\ \A i, j \in DOMAIN sockets[w] :
            i # j /\ sockets[w][i] # NoFd => sockets[w][i] # sockets[w][j]
       /\ \A v \in Workers \ {w} : Owned(v) \cap Owned(w) = {}

\* Every open descriptor has one owner, and what an object holds is open: no
\* number is closed twice, lost, or used by two after it was given out again
\* (socket.cpp:40-59, tcp_socket.cpp:88, acceptor.cpp:53-57).
OneOwner == FdTypes /\ (fate = "runs" => Owners)

\* The assertion m_fd > 0 of a connection holds although a socket may be 0:
\* the acceptor's is the first, and it is kept (connection.cpp:13).
NeverZero == fate # "zero"
=============================================================================
