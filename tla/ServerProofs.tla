---------------------------- MODULE ServerProofs ----------------------------
(***************************************************************************)
(* Theorems about Server, for every number of workers, acceptors and       *)
(* clients: type correctness; the protocol by which the workers hand the   *)
(* listening sockets to each other; the life of connections and what       *)
(* refers to them; the list; the exhaustion of descriptors; and that the   *)
(* workers implement ConnService.                                          *)
(***************************************************************************)
EXTENDS Server, FiniteSetTheorems, TLAPS

USE ServerAssumption DEF ServerAssumption, Acceptors, Goto

-----------------------------------------------------------------------------

\* A worker inside enable_event_call_back or acceptor::handle_read works on an
\* acceptor of the list, one inside connection's operations on a connection.
Placement ==
  \A t \in Threads :
    /\ pc[t] \in {"arm", "accept", "unlock"} => at[t] \in Acceptors
    /\ pc[t] \in {"insert", "start", "read", "send", "erase"} => conn[t] \in Conns

TypeInv == TypeOK /\ Placement

\* TypeOK with Placement is inductive.
LEMMA TypeInvariant == Spec => []TypeInv
<1>1. Init => TypeInv
  <2> SUFFICES ASSUME Init PROVE TypeInv
    OBVIOUS
  <2>1. at \in [Threads -> 1 .. NumAcceptors + 1] /\ pc \in [Threads -> Location]
    BY DEF Init, Location
  <2>2. m_mutex \in [Acceptors -> Threads \cup {NoThread}]
    BY DEF Init
  <2>3. Placement
    BY DEF Init, Placement
  <2>4. life \in [Conns -> Life] /\ peer \in [Conns -> Peer]
    BY DEF Init, Life, Peer
  <2>5. QED
    BY <2>1, <2>2, <2>3, <2>4 DEF Init, TypeInv, TypeOK
<1>2. TypeInv /\ [Next]_vars => TypeInv'
  <2> SUFFICES ASSUME TypeInv, [Next]_vars PROVE TypeInv'
    OBVIOUS
  <2> USE DEF TypeInv, TypeOK, Placement, loopVars, lockVars, netVars, connVars, listVars
  <2>1. ASSUME NEW c \in Conns, NEW a \in Acceptors, Connect(c, a) PROVE TypeInv'
    BY <2>1 DEF Connect, Life
  <2>2. ASSUME NEW c \in Conns, PeerSends(c) \/ PeerCloses(c) \/ PeerResets(c)
        PROVE  TypeInv'
    BY <2>2 DEF PeerSends, PeerCloses, PeerResets, PeerMoves, Peer
  <2>3. CASE Stop
    BY <2>3 DEF Stop
  <2>4. ASSUME NEW t \in Threads, RunLoop(t) PROVE TypeInv'
    BY <2>4 DEF RunLoop, Location
  <2>5. ASSUME NEW t \in Threads, Exit(t) PROVE TypeInv'
    BY <2>5 DEF Exit, Location
  <2>6. ASSUME NEW t \in Threads, TryLock(t) PROVE TypeInv'
    <3>1. CASE m_mutex[at[t]] = NoThread
      <4>1. /\ at[t] \in Acceptors /\ pc[t] = "check" /\ UNCHANGED at
            /\ pc' = [pc EXCEPT ![t] = "arm"]
            /\ m_mutex' = [m_mutex EXCEPT ![at[t]] = t]
        BY <2>6, <3>1 DEF TryLock
      <4>2. pc' \in [Threads -> Location]
        BY <4>1 DEF Location
      <4>3. m_mutex' \in [Acceptors -> Threads \cup {NoThread}]
        BY <4>1
      <4>4. Placement'
        BY <2>6, <4>1 DEF TryLock
      <4>5. QED
        BY <2>6, <4>1, <4>2, <4>3, <4>4 DEF TryLock
    <3>2. CASE m_mutex[at[t]] # NoThread
      <4>1. at[t] \in Acceptors /\ at' = [at EXCEPT ![t] = at[t] + 1] /\ pc[t] = "check"
        BY <2>6, <3>2 DEF TryLock
      <4>2. at' \in [Threads -> 1 .. NumAcceptors + 1]
        BY <4>1
      <4>3. Placement'
        BY <2>6, <3>2, <4>1 DEF TryLock
      <4>4. QED
        BY <2>6, <3>2, <4>2, <4>3 DEF TryLock
    <3>3. QED
      BY <3>1, <3>2
  <2>7. ASSUME NEW t \in Threads, Arm(t) PROVE TypeInv'
    BY <2>7 DEF Arm, Location
  <2>8. ASSUME NEW t \in Threads, CheckDone(t) PROVE TypeInv'
    BY <2>8 DEF CheckDone, Location
  <2>9. ASSUME NEW t \in Threads, Poll(t) PROVE TypeInv'
    BY <2>9 DEF Poll, PollReturns, Disarm, ReadyA, ReadyC, Location
  <2>10. ASSUME NEW t \in Threads, PollIdle(t) PROVE TypeInv'
    BY <2>10 DEF PollIdle, Location
  <2>11. ASSUME NEW t \in Threads, NEW a \in Acceptors, RunAcceptorEvent(t, a)
         PROVE  TypeInv'
    BY <2>11 DEF RunAcceptorEvent, Location
  <2>12. ASSUME NEW t \in Threads, NEW c \in Conns, RunConnectionEvent(t, c)
         PROVE  TypeInv'
    BY <2>12 DEF RunConnectionEvent, Location
  <2>13. ASSUME NEW t \in Threads, DispatchDone(t) PROVE TypeInv'
    BY <2>13 DEF DispatchDone, Location
  <2>14. ASSUME NEW t \in Threads, Accept(t) PROVE TypeInv'
    <3>1. CASE pc[t] = "accept" /\ UNCHANGED pc
      <4>1. PICK c \in backlog[at[t]] :
              /\ backlog' = [backlog EXCEPT ![at[t]] = @ \ {c}]
              /\ life' = [life EXCEPT ![c] = "accepted"]
              /\ sockets' = [sockets EXCEPT ![t] = @ \cup {c}]
        BY <2>14, <3>1 DEF Accept
      <4>2. at[t] \in Acceptors /\ c \in Conns
        BY <3>1
      <4>3. backlog' \in [Acceptors -> SUBSET Conns]
        BY <4>1, <4>2
      <4>4. life' \in [Conns -> Life] /\ sockets' \in [Threads -> SUBSET Conns]
        BY <4>1, <4>2 DEF Life
      <4>5. QED
        BY <2>14, <3>1, <4>3, <4>4 DEF Accept
    <3>2. CASE Goto(t, "accept", "unlock")
      BY <2>14, <3>2 DEF Accept, Location
    <3>3. QED
      BY <2>14, <3>1, <3>2 DEF Accept
  <2>15. ASSUME NEW t \in Threads, Unlock(t) PROVE TypeInv'
    BY <2>15 DEF Unlock, Location
  <2>16. ASSUME NEW t \in Threads, NEW c \in Conns, Adopt(t, c) PROVE TypeInv'
    BY <2>16 DEF Adopt, EnterList, Location, Life
  <2>17. ASSUME NEW t \in Threads, Insert(t) PROVE TypeInv'
    BY <2>17 DEF Insert, LeaveList, Location
  <2>18. ASSUME NEW t \in Threads, Start(t) PROVE TypeInv'
    BY <2>18 DEF Start, StartTimer, Location
  <2>19. ASSUME NEW t \in Threads, AdoptDone(t) PROVE TypeInv'
    BY <2>19 DEF AdoptDone, Location
  <2>20. ASSUME NEW t \in Threads, ReadOn(t) PROVE TypeInv'
    <3>1. /\ UNCHANGED <<m_stop_flag, at, m_mutex, armed, activeA, backlog, activeC, sockets,
                       life, poller, watched, timers, running, m_connections, writers, raced>>
          /\ pc[t] = "read" /\ conn[t] \in Conns
      BY <2>20 DEF ReadOn
    <3>2. peer' \in [Conns -> Peer]
      <4>1. PICK p \in Peer : peer' = [peer EXCEPT ![conn[t]] = p]
        BY <2>20, <3>1 DEF ReadOn, Peer
      <4>2. QED
        BY <4>1
    <3>3. CASE pc' = [pc EXCEPT ![t] = "dispatch"] /\ conn' = [conn EXCEPT ![t] = NoConn]
      BY <3>1, <3>2, <3>3 DEF Location
    <3>4. CASE pc' = [pc EXCEPT ![t] = "send"] /\ UNCHANGED conn
      BY <3>1, <3>2, <3>4 DEF Location
    <3>5. QED
      BY <2>20, <3>3, <3>4 DEF ReadOn
  <2>21. ASSUME NEW t \in Threads, ReadEnd(t) PROVE TypeInv'
    BY <2>21 DEF ReadEnd, CancelTimer, DisableAll, EnterList, Location
  <2>22. ASSUME NEW t \in Threads, Erase(t) PROVE TypeInv'
    BY <2>22 DEF Erase, CancelTimer, DisableAll, LeaveList, Location, Life
  <2>23. ASSUME NEW c \in Conns, Teardown(c) PROVE TypeInv'
    BY <2>23 DEF Teardown, DisableAll, Life
  <2>24. ASSUME NEW t \in Threads, SendReturns(t) PROVE TypeInv'
    BY <2>24 DEF SendReturns, Location, Peer
  <2>25. CASE UNCHANGED vars
    BY <2>25 DEF vars
  <2>26. QED
    BY <2>1, <2>2, <2>3, <2>4, <2>5, <2>6, <2>7, <2>8, <2>9, <2>10, <2>11, <2>12,
       <2>13, <2>14, <2>15, <2>16, <2>17, <2>18, <2>19, <2>20, <2>21, <2>22, <2>23,
       <2>24, <2>25
       DEF Next, Worker, Environment, Dispatch, HandleAccept, HandleRead
<1>3. QED
  BY <1>1, <1>2, PTL DEF Spec, TypeInv

\* Every variable keeps its type in every behaviour of the workers, the
\* kernel and the clients.
THEOREM TypeCorrect == Spec => []TypeOK
  BY TypeInvariant, PTL DEF TypeInv

-----------------------------------------------------------------------------
(* The hand-over of the acceptors.                                         *)

Enabling(t, a) == pc[t] = "arm" /\ at[t] = a
Accepting(t, a) == pc[t] \in {"accept", "unlock"} /\ at[t] = a

\* A worker answers for an acceptor in one way at a time.
OneStage ==
  \A a \in Acceptors, t \in Threads :
    /\ t \in armed[a] => a \notin activeA[t] /\ ~Enabling(t, a) /\ ~Accepting(t, a)
    /\ a \in activeA[t] => ~Enabling(t, a) /\ ~Accepting(t, a)

\* Every event of active_events is run before the worker polls again.
NoEventLeft ==
  \A t \in Threads :
    pc[t] \in {"loop", "check", "arm", "poll", "exited"} => activeA[t] = {}

\* The inductive invariant of the hand-over.
LockInv ==
  /\ ServantHoldsLock
  /\ NoAbandonedLock
  /\ OneStage
  /\ NoEventLeft
  /\ NoLostAcceptor

LEMMA LockInvInit == Init => LockInv
  BY DEF Init, LockInv, ServantHoldsLock, NoAbandonedLock, OneStage, NoEventLeft,
         NoLostAcceptor, Serving, WillCheck, Enabling, Accepting

LEMMA LockInvStep == TypeInv /\ LockInv /\ [Next]_vars => LockInv'
<1> SUFFICES ASSUME TypeInv, LockInv, [Next]_vars PROVE LockInv'
  OBVIOUS
<1> USE DEF TypeInv, TypeOK, Placement, LockInv, ServantHoldsLock, NoAbandonedLock,
            OneStage, NoEventLeft, NoLostAcceptor, Serving, WillCheck, Enabling,
            Accepting, loopVars, lockVars, netVars, connVars, listVars
<1>1. ASSUME NEW c \in Conns, NEW a \in Acceptors, Connect(c, a) PROVE LockInv'
  BY <1>1 DEF Connect
<1>2. ASSUME NEW c \in Conns, PeerSends(c) \/ PeerCloses(c) \/ PeerResets(c)
      PROVE  LockInv'
  BY <1>2 DEF PeerSends, PeerCloses, PeerResets, PeerMoves
<1>3. CASE Stop
  BY <1>3 DEF Stop
<1>4. ASSUME NEW t \in Threads, RunLoop(t) PROVE LockInv'
  BY <1>4 DEF RunLoop
<1>5. ASSUME NEW t \in Threads, Exit(t) PROVE LockInv'
  BY <1>5 DEF Exit
<1>6. ASSUME NEW t \in Threads, TryLock(t) PROVE LockInv'
  <2>1. at[t] \in Acceptors /\ pc[t] = "check" /\ UNCHANGED <<armed, activeA, m_stop_flag>>
    BY <1>6 DEF TryLock
  <2>2. CASE m_mutex[at[t]] = NoThread
    <3>1. /\ pc' = [pc EXCEPT ![t] = "arm"]
          /\ m_mutex' = [m_mutex EXCEPT ![at[t]] = t]
          /\ UNCHANGED at
      BY <1>6, <2>2 DEF TryLock
    <3>2. \A s \in Threads : ~Serving(s, at[t])
      BY <2>1, <2>2
    <3>3. ServantHoldsLock' /\ NoAbandonedLock'
      BY <2>1, <2>2, <3>1, <3>2
    <3>4. OneStage' /\ NoEventLeft'
      BY <2>1, <3>1, <3>2
    <3>5. NoLostAcceptor'
      BY <2>1, <3>1
    <3>6. QED
      BY <3>3, <3>4, <3>5
  <2>3. CASE m_mutex[at[t]] # NoThread
    <3>1. at' = [at EXCEPT ![t] = at[t] + 1] /\ UNCHANGED <<pc, m_mutex>>
      BY <1>6, <2>3 DEF TryLock
    <3>2. \A s \in Threads, a \in Acceptors :
            /\ Serving(s, a)' <=> Serving(s, a)
            /\ Enabling(s, a)' <=> Enabling(s, a)
            /\ Accepting(s, a)' <=> Accepting(s, a)
      BY <2>1, <3>1
    <3>3. \A s \in Threads, a \in Acceptors :
            m_mutex[a] = NoThread /\ WillCheck(s, a) => WillCheck(s, a)'
      BY <2>1, <2>3, <3>1
    <3>4. ServantHoldsLock' /\ NoAbandonedLock' /\ OneStage' /\ NoEventLeft'
      BY <2>1, <3>1, <3>2
    <3>5. NoLostAcceptor'
      BY <2>1, <3>1, <3>3
    <3>6. QED
      BY <3>4, <3>5
  <2>4. QED
    BY <2>2, <2>3
<1>7. ASSUME NEW t \in Threads, Arm(t) PROVE LockInv'
  BY <1>7 DEF Arm
<1>8. ASSUME NEW t \in Threads, CheckDone(t) PROVE LockInv'
  BY <1>8 DEF CheckDone
<1>9. ASSUME NEW t \in Threads, Poll(t) PROVE LockInv'
  BY <1>9 DEF Poll, PollReturns, Disarm, ReadyA, ReadyC
<1>10. ASSUME NEW t \in Threads, PollIdle(t) PROVE LockInv'
  BY <1>10 DEF PollIdle
<1>11. ASSUME NEW t \in Threads, NEW a \in Acceptors, RunAcceptorEvent(t, a)
       PROVE  LockInv'
  BY <1>11 DEF RunAcceptorEvent
<1>12. ASSUME NEW t \in Threads, NEW c \in Conns, RunConnectionEvent(t, c)
       PROVE  LockInv'
  BY <1>12 DEF RunConnectionEvent
<1>13. ASSUME NEW t \in Threads, DispatchDone(t) PROVE LockInv'
  BY <1>13 DEF DispatchDone
<1>14. ASSUME NEW t \in Threads, Accept(t) PROVE LockInv'
  <2>1. UNCHANGED <<at, m_mutex, armed, activeA, m_stop_flag>>
    BY <1>14 DEF Accept
  <2>2. CASE UNCHANGED pc
    BY <2>1, <2>2
  <2>3. CASE Goto(t, "accept", "unlock")
    BY <2>1, <2>3
  <2>4. QED
    BY <1>14, <2>2, <2>3 DEF Accept
<1>15. ASSUME NEW t \in Threads, Unlock(t) PROVE LockInv'
  BY <1>15 DEF Unlock
<1>16. ASSUME NEW t \in Threads, NEW c \in Conns, Adopt(t, c) PROVE LockInv'
  BY <1>16 DEF Adopt
<1>17. ASSUME NEW t \in Threads, Insert(t) PROVE LockInv'
  BY <1>17 DEF Insert
<1>18. ASSUME NEW t \in Threads, Start(t) PROVE LockInv'
  BY <1>18 DEF Start
<1>19. ASSUME NEW t \in Threads, AdoptDone(t) PROVE LockInv'
  BY <1>19 DEF AdoptDone
<1>20. ASSUME NEW t \in Threads, ReadOn(t) PROVE LockInv'
  <2>1. /\ UNCHANGED <<at, m_mutex, armed, activeA, m_stop_flag>>
        /\ Goto(t, "read", "dispatch") \/ Goto(t, "read", "send")
    BY <1>20 DEF ReadOn
  <2>2. CASE Goto(t, "read", "dispatch")
    BY <2>1, <2>2
  <2>3. CASE Goto(t, "read", "send")
    BY <2>1, <2>3
  <2>4. QED
    BY <2>1, <2>2, <2>3
<1>21. ASSUME NEW t \in Threads, ReadEnd(t) PROVE LockInv'
  BY <1>21 DEF ReadEnd
<1>22. ASSUME NEW t \in Threads, Erase(t) PROVE LockInv'
  BY <1>22 DEF Erase
<1>23. ASSUME NEW c \in Conns, Teardown(c) PROVE LockInv'
  BY <1>23 DEF Teardown
<1>24. ASSUME NEW t \in Threads, SendReturns(t) PROVE LockInv'
  BY <1>24 DEF SendReturns
<1>25. CASE UNCHANGED vars
  BY <1>25 DEF vars
<1>26. QED
  BY <1>1, <1>2, <1>3, <1>4, <1>5, <1>6, <1>7, <1>8, <1>9, <1>10, <1>11, <1>12,
     <1>13, <1>14, <1>15, <1>16, <1>17, <1>18, <1>19, <1>20, <1>21, <1>22, <1>23,
     <1>24, <1>25
     DEF Next, Worker, Environment, Dispatch, HandleAccept, HandleRead

LEMMA LockInvariant == Spec => []LockInv
<1>1. TypeInv /\ LockInv /\ [Next]_vars => LockInv'
  BY LockInvStep
<1>2. QED
  BY <1>1, LockInvInit, TypeInvariant, PTL DEF Spec

\* acceptor::handle_read runs on the owner of the acceptor's mutex, so on one
\* worker at a time, and acceptor::unlock is called by the owner.
THEOREM AcceptingIsExclusive == Spec => []ServantHoldsLock
  BY LockInvariant, PTL DEF LockInv

\* Whoever took an acceptor's mutex in server::check answers for the acceptor
\* until the mutex is released, or has left server::run.
THEOREM LockIsUsed == Spec => []NoAbandonedLock
  BY LockInvariant, PTL DEF LockInv

\* No set of workers can block in epoll_wait with an acceptor whose mutex is
\* free: the hand-over needs no wake-up.
THEOREM HandoverNeedsNoWakeup == Spec => []NoLostAcceptor
  BY LockInvariant, PTL DEF LockInv
-----------------------------------------------------------------------------
(* One worker and one stage for every connection.                          *)

\* Where a worker has no event of a connection in hand; where it works on one.
Idle == {"loop", "check", "arm", "poll", "exited"}
InConnection == {"insert", "start", "read", "send", "erase"}
Apart == Location \ (InConnection \cup {"exited"})

\* Worker t accepted client c and has not started its connection.
Creating(t, c) == c \in sockets[t] \/ (pc[t] \in {"insert", "start"} /\ conn[t] = c)

\* A client waits in one accept queue.
OneBacklog ==
  \A a \in Acceptors : \A c \in backlog[a] :
    life[c] = "queued" /\ \A b \in Acceptors : c \in backlog[b] => a = b

\* One worker at most is creating a connection, and no event refers to it yet.
OneCreator ==
  \A t \in Threads, c \in Conns :
    /\ c \in sockets[t] => life[c] = "accepted"
    /\ pc[t] \in {"insert", "start"} /\ conn[t] = c => life[c] = "open"
    /\ Creating(t, c) =>
         /\ poller[c] = NoThread
         /\ \A s \in Threads : Creating(s, c) => s = t

\* An open connection is being created or has been started, only one that is
\* open has a timer that runs, and only what was a connection is on the list.
StartedOrCreating ==
  \A c \in Conns :
    /\ poller[c] # NoThread => life[c] \in {"open", "gone"}
    /\ life[c] = "open" => poller[c] # NoThread \/ \E t \in Threads : Creating(t, c)
    /\ c \in running => life[c] = "open" /\ poller[c] # NoThread
    /\ c \in m_connections => life[c] \in {"open", "gone"}

\* What leads to a connection: the timer queue, the epoll and active_events of
\* the worker that started it, and its handler, which runs once at a time. A
\* worker that exits leaves nothing behind.
References ==
  \A t \in Threads :
    /\ \A c \in timers[t] : poller[c] = t /\ life[c] = "open" /\ c \in running
    /\ watched[t] \cup activeC[t] \subseteq timers[t]
    /\ pc[t] \in {"read", "send", "erase"} =>
         poller[conn[t]] = t /\ life[conn[t]] = "open" /\ conn[t] \notin activeC[t]
    /\ pc[t] \in {"read", "send"} => conn[t] \in timers[t]
    /\ \A c \in running : poller[c] = t => c \in timers[t] \/ pc[t] = "exited"
    /\ pc[t] \in Idle => activeC[t] = {}
    /\ pc[t] = "exited" => timers[t] = {}

\* The inductive invariant of the connections.
ConnInv == OneBacklog /\ OneCreator /\ StartedOrCreating /\ References

LEMMA ConnInvInit == Init => ConnInv
  BY DEF Init, ConnInv, OneBacklog, OneCreator, StartedOrCreating, References, Creating

\* A step that moves one worker between places outside of connection's
\* operations, and touches no connection.
LEMMA QuietMove ==
  ASSUME TypeInv, ConnInv, NEW t \in Threads, NEW l \in Apart, pc[t] \in Apart,
         pc' = [pc EXCEPT ![t] = l],
         l \in Idle => activeC[t] = {},
         UNCHANGED <<connVars, conn, backlog, m_connections>>
  PROVE  ConnInv'
<1> USE DEF TypeInv, TypeOK, Apart, InConnection, Idle, connVars
<1>1. \A s \in Threads :
        /\ pc'[s] = IF s = t THEN l ELSE pc[s]
        /\ pc'[s] \in InConnection => pc'[s] = pc[s] /\ pc[s] \in InConnection
        /\ pc[s] \in InConnection => pc'[s] = pc[s]
        /\ pc'[s] \in Idle => activeC[s] = {}
        /\ pc[s] = "exited" <=> pc'[s] = "exited"
  BY DEF ConnInv, References
<1>2. \A s \in Threads, c \in Conns : Creating(s, c)' <=> Creating(s, c)
  BY <1>1 DEF Creating
<1>3. OneBacklog'
  BY DEF ConnInv, OneBacklog
<1>4. OneCreator'
  BY <1>1, <1>2 DEF ConnInv, OneCreator
<1>5. StartedOrCreating'
  BY <1>2 DEF ConnInv, StartedOrCreating
<1>6. References'
  BY <1>1 DEF ConnInv, References
<1>7. QED
  BY <1>3, <1>4, <1>5, <1>6 DEF ConnInv

LEMMA ConnInvStep == TypeInv /\ ConnInv /\ [Next]_vars => ConnInv'
<1> SUFFICES ASSUME TypeInv, ConnInv, [Next]_vars PROVE ConnInv'
  OBVIOUS
<1> USE DEF loopVars, lockVars, netVars, connVars, listVars
<1>1. ASSUME NEW c \in Conns, NEW a \in Acceptors, Connect(c, a) PROVE ConnInv'
  <2>1. OneBacklog'
    BY <1>1 DEF TypeInv, TypeOK, Placement, Connect, ConnInv, OneBacklog
  <2>2. OneCreator'
    BY <1>1 DEF TypeInv, TypeOK, Placement, Connect, ConnInv, OneCreator, Creating
  <2>3. StartedOrCreating'
    BY <1>1 DEF TypeInv, TypeOK, Placement, Connect, ConnInv, StartedOrCreating, Creating
  <2>4. References'
    BY <1>1 DEF TypeInv, TypeOK, Placement, Connect, ConnInv, References, Idle
  <2>5. QED
    BY <2>1, <2>2, <2>3, <2>4 DEF ConnInv
<1>2. ASSUME NEW c \in Conns, PeerSends(c) \/ PeerCloses(c) \/ PeerResets(c)
      PROVE  ConnInv'
  BY <1>2 DEF PeerSends, PeerCloses, PeerResets, PeerMoves, ConnInv, OneBacklog, OneCreator,
              StartedOrCreating, References, Creating
<1>3. CASE Stop
  BY <1>3 DEF Stop, ConnInv, OneBacklog, OneCreator, StartedOrCreating, References, Creating
<1>4. ASSUME NEW t \in Threads, RunLoop(t) PROVE ConnInv'
  <2>1. "check" \in Apart /\ pc[t] \in Apart
    BY <1>4 DEF RunLoop, Apart, Location, InConnection
  <2>2. activeC[t] = {}
    BY <1>4 DEF RunLoop, ConnInv, References, Idle
  <2>3. QED
    BY <1>4, <2>1, <2>2, QuietMove DEF RunLoop
<1>5. ASSUME NEW t \in Threads, Exit(t) PROVE ConnInv'
  <2>1. OneBacklog'
    BY <1>5 DEF TypeInv, TypeOK, Placement, Exit, ConnInv, OneBacklog
  <2>2. OneCreator'
    BY <1>5 DEF TypeInv, TypeOK, Placement, Exit, ConnInv, OneCreator, Creating
  <2>3. StartedOrCreating'
    BY <1>5 DEF TypeInv, TypeOK, Placement, Exit, ConnInv, StartedOrCreating, Creating
  <2>4. References'
    BY <1>5 DEF TypeInv, TypeOK, Placement, Exit, ConnInv, References, Idle
  <2>5. QED
    BY <2>1, <2>2, <2>3, <2>4 DEF ConnInv
<1>6. ASSUME NEW t \in Threads, TryLock(t) PROVE ConnInv'
  <2>1. CASE UNCHANGED pc
    BY <1>6, <2>1 DEF TryLock, ConnInv, OneBacklog, OneCreator, StartedOrCreating, References,
                      Creating
  <2>2. CASE Goto(t, "check", "arm")
    <3>1. "arm" \in Apart /\ pc[t] \in Apart
      BY <2>2 DEF Apart, Location, InConnection
    <3>2. activeC[t] = {}
      BY <2>2 DEF ConnInv, References, Idle
    <3>3. QED
      BY <1>6, <2>2, <3>1, <3>2, QuietMove DEF TryLock
  <2>3. QED
    BY <1>6, <2>1, <2>2 DEF TryLock
<1>7. ASSUME NEW t \in Threads, Arm(t) PROVE ConnInv'
  <2>1. "check" \in Apart /\ pc[t] \in Apart
    BY <1>7 DEF Arm, Apart, Location, InConnection
  <2>2. activeC[t] = {}
    BY <1>7 DEF Arm, ConnInv, References, Idle
  <2>3. QED
    BY <1>7, <2>1, <2>2, QuietMove DEF Arm
<1>8. ASSUME NEW t \in Threads, CheckDone(t) PROVE ConnInv'
  <2>1. "poll" \in Apart /\ pc[t] \in Apart
    BY <1>8 DEF CheckDone, Apart, Location, InConnection
  <2>2. activeC[t] = {}
    BY <1>8 DEF CheckDone, ConnInv, References, Idle
  <2>3. QED
    BY <1>8, <2>1, <2>2, QuietMove DEF CheckDone
<1>9. ASSUME NEW t \in Threads, Poll(t) PROVE ConnInv'
  <2>1. \A s \in Threads, d \in Conns : Creating(s, d)' <=> Creating(s, d)
    BY <1>9 DEF Poll, PollReturns, TypeInv, TypeOK, Placement, Creating
  <2>2. OneBacklog'
    BY <1>9 DEF TypeInv, TypeOK, Placement, Poll, PollReturns, Disarm, ReadyA, ReadyC, ConnInv,
                OneBacklog
  <2>3. OneCreator'
    BY <1>9 DEF TypeInv, TypeOK, Placement, Poll, PollReturns, Disarm, ReadyA, ReadyC, ConnInv,
                OneCreator, Creating
  <2>4. StartedOrCreating'
    BY <1>9, <2>1 DEF Poll, PollReturns, ConnInv, StartedOrCreating
  <2>5. References'
    BY <1>9 DEF TypeInv, TypeOK, Placement, Poll, PollReturns, Disarm, ReadyA, ReadyC, ConnInv,
                References, Idle
  <2>6. QED
    BY <2>2, <2>3, <2>4, <2>5 DEF ConnInv
<1>10. ASSUME NEW t \in Threads, PollIdle(t) PROVE ConnInv'
  <2>1. "loop" \in Apart /\ pc[t] \in Apart
    BY <1>10 DEF PollIdle, Apart, Location, InConnection
  <2>2. activeC[t] = {}
    BY <1>10 DEF PollIdle, ConnInv, References, Idle
  <2>3. QED
    BY <1>10, <2>1, <2>2, QuietMove DEF PollIdle
<1>11. ASSUME NEW t \in Threads, NEW a \in Acceptors, RunAcceptorEvent(t, a)
       PROVE  ConnInv'
  <2>1. "accept" \in Apart /\ pc[t] \in Apart
    BY <1>11 DEF RunAcceptorEvent, Apart, Location, InConnection
  <2>2. QED
    BY <1>11, <2>1, QuietMove DEF RunAcceptorEvent, Idle
<1>12. ASSUME NEW t \in Threads, NEW c \in Conns, RunConnectionEvent(t, c)
       PROVE  ConnInv'
  <2>1. OneBacklog'
    BY <1>12 DEF TypeInv, TypeOK, Placement, RunConnectionEvent, ConnInv, OneBacklog
  <2>2. OneCreator'
    BY <1>12 DEF TypeInv, TypeOK, Placement, RunConnectionEvent, ConnInv, OneCreator, Creating
  <2>3. StartedOrCreating'
    BY <1>12 DEF TypeInv, TypeOK, Placement, RunConnectionEvent, ConnInv, StartedOrCreating,
                 Creating
  <2>4. References'
    BY <1>12 DEF TypeInv, TypeOK, Placement, RunConnectionEvent, ConnInv, References, Idle
  <2>5. QED
    BY <2>1, <2>2, <2>3, <2>4 DEF ConnInv
<1>13. ASSUME NEW t \in Threads, DispatchDone(t) PROVE ConnInv'
  <2>1. "loop" \in Apart /\ pc[t] \in Apart
    BY <1>13 DEF DispatchDone, Apart, Location, InConnection
  <2>2. QED
    BY <1>13, <2>1, QuietMove DEF DispatchDone, Idle
<1>14. ASSUME NEW t \in Threads, Accept(t) PROVE ConnInv'
  <2>1. CASE Goto(t, "accept", "unlock") /\ UNCHANGED <<backlog, life, sockets>>
    <3>1. "unlock" \in Apart /\ pc[t] \in Apart
      BY <2>1 DEF Apart, Location, InConnection
    <3>2. QED
      BY <1>14, <2>1, <3>1, QuietMove DEF Accept, Idle
  <2>2. CASE pc[t] = "accept" /\ UNCHANGED pc
    <3>1. PICK c \in backlog[at[t]] :
            /\ backlog' = [backlog EXCEPT ![at[t]] = @ \ {c}]
            /\ life' = [life EXCEPT ![c] = "accepted"]
            /\ sockets' = [sockets EXCEPT ![t] = @ \cup {c}]
      BY <1>14, <2>2 DEF Accept, TypeInv, TypeOK
    <3>2. /\ at[t] \in Acceptors /\ c \in Conns
          /\ life[c] = "queued"
          /\ \A d \in Conns : life'[d] = IF d = c THEN "accepted" ELSE life[d]
          /\ \A s \in Threads : sockets'[s] = IF s = t THEN sockets[t] \cup {c} ELSE sockets[s]
      BY <2>2, <3>1 DEF TypeInv, TypeOK, Placement, ConnInv, OneBacklog
    <3>3. /\ poller[c] = NoThread /\ c \notin running /\ c \notin m_connections
          /\ \A s \in Threads : ~Creating(s, c)
      BY <3>2 DEF TypeInv, TypeOK, Placement, ConnInv, OneCreator, StartedOrCreating, Creating
    <3>4. UNCHANGED <<pc, conn, poller, watched, timers, running, activeC, m_connections>>
      BY <1>14, <2>2 DEF Accept
    <3>5. \A s \in Threads, d \in Conns :
            Creating(s, d)' <=> Creating(s, d) \/ (s = t /\ d = c)
      BY <3>2, <3>4 DEF Creating
    <3>6. OneBacklog'
      BY <3>1, <3>2 DEF TypeInv, TypeOK, Placement, ConnInv, OneBacklog
    <3>7. OneCreator'
      BY <3>2, <3>3, <3>4, <3>5 DEF ConnInv, OneCreator, Creating
    <3>8. StartedOrCreating'
      BY <3>2, <3>3, <3>4, <3>5 DEF ConnInv, StartedOrCreating
    <3>9. References'
      BY <3>2, <3>3, <3>4 DEF TypeInv, TypeOK, Placement, ConnInv, References
    <3>10. QED
      BY <3>6, <3>7, <3>8, <3>9 DEF ConnInv
  <2>3. QED
    BY <1>14, <2>1, <2>2 DEF Accept
<1>15. ASSUME NEW t \in Threads, Unlock(t) PROVE ConnInv'
  <2>1. "adopt" \in Apart /\ pc[t] \in Apart
    BY <1>15 DEF Unlock, Apart, Location, InConnection
  <2>2. QED
    BY <1>15, <2>1, QuietMove DEF Unlock, Idle
<1>16. ASSUME NEW t \in Threads, NEW c \in Conns, Adopt(t, c) PROVE ConnInv'
  <2>1. /\ life[c] = "accepted"
        /\ \A d \in Conns : life'[d] = IF d = c THEN "open" ELSE life[d]
    BY <1>16 DEF Adopt, TypeInv, TypeOK, Placement, ConnInv, OneCreator
  <2>2. \A s \in Threads, d \in Conns : Creating(s, d)' <=> Creating(s, d)
    BY <1>16 DEF Adopt, TypeInv, TypeOK, Placement, Creating
  <2>3. Creating(t, c)
    BY <1>16 DEF Adopt, Creating
  <2>4. OneBacklog'
    BY <1>16, <2>1 DEF Adopt, TypeInv, TypeOK, Placement, ConnInv, OneBacklog
  <2>5. OneCreator'
    BY <1>16 DEF TypeInv, TypeOK, Placement, Adopt, EnterList, ConnInv, OneCreator, Creating
  <2>6. StartedOrCreating'
    BY <1>16, <2>1, <2>2, <2>3 DEF Adopt, EnterList, ConnInv, StartedOrCreating, OneCreator
  <2>7. References'
    BY <1>16 DEF TypeInv, TypeOK, Placement, Adopt, EnterList, ConnInv, References, Idle
  <2>8. QED
    BY <2>4, <2>5, <2>6, <2>7 DEF ConnInv
<1>17. ASSUME NEW t \in Threads, Insert(t) PROVE ConnInv'
  <2>1. \A s \in Threads, d \in Conns : Creating(s, d)' <=> Creating(s, d)
    BY <1>17 DEF Insert, TypeInv, TypeOK, Placement, Creating
  <2>2. life[conn[t]] = "open" /\ UNCHANGED <<life, poller, running>>
    BY <1>17 DEF Insert, TypeInv, TypeOK, Placement, ConnInv, OneCreator
  <2>3. \A d \in m_connections' : d = conn[t] \/ d \in m_connections \/ life[d] \in {"open", "gone"}
    BY <1>17 DEF Insert, LeaveList
  <2>4. OneBacklog'
    BY <1>17 DEF TypeInv, TypeOK, Placement, Insert, LeaveList, ConnInv, OneBacklog
  <2>5. OneCreator'
    BY <1>17 DEF TypeInv, TypeOK, Placement, Insert, LeaveList, ConnInv, OneCreator, Creating
  <2>6. StartedOrCreating'
    BY <2>1, <2>2, <2>3 DEF ConnInv, StartedOrCreating
  <2>7. References'
    BY <1>17 DEF TypeInv, TypeOK, Placement, Insert, LeaveList, ConnInv, References, Idle
  <2>8. QED
    BY <2>4, <2>5, <2>6, <2>7 DEF ConnInv
<1>18. ASSUME NEW t \in Threads, Start(t) PROVE ConnInv'
  <2> DEFINE c == conn[t]
  <2>1. /\ c \in Conns /\ life[c] = "open" /\ Creating(t, c) /\ poller[c] = NoThread
        /\ c \notin running
        /\ \A s \in Threads : Creating(s, c) => s = t
    BY <1>18 DEF Start, TypeInv, TypeOK, Placement, ConnInv, OneCreator, StartedOrCreating,
                 Creating
  <2>2. \A s \in Threads : c \notin timers[s] /\ c \notin watched[s] /\ c \notin activeC[s]
    BY <2>1 DEF TypeInv, TypeOK, Placement, ConnInv, References
  <2>3. /\ UNCHANGED <<life, sockets, backlog, activeC, m_connections>>
        /\ pc[t] = "start"
        /\ pc' = [pc EXCEPT ![t] = "adopt"]
        /\ conn' = [conn EXCEPT ![t] = NoConn]
        /\ poller' = [poller EXCEPT ![c] = t]
        /\ watched' = [watched EXCEPT ![t] = @ \cup {c}]
        /\ timers' = [timers EXCEPT ![t] = @ \cup {c}]
        /\ running' = running \cup {c}
    BY <1>18, <2>1 DEF Start, StartTimer
  <2>4. \A s \in Threads, d \in Conns :
          Creating(s, d)' <=> Creating(s, d) /\ ~(s = t /\ d = c)
    <3>1. c \notin sockets[t]
      BY <2>1 DEF ConnInv, OneCreator
    <3>2. QED
      BY <2>3, <3>1 DEF Creating, TypeInv, TypeOK, Placement
  <2>5. \A d \in Conns : poller'[d] = IF d = c THEN t ELSE poller[d]
    BY <2>1, <2>3 DEF TypeInv, TypeOK, Placement
  <2> HIDE DEF c
  <2>6. OneBacklog'
    BY <2>3 DEF ConnInv, OneBacklog
  <2>7. OneCreator'
    BY <2>1, <2>3, <2>4, <2>5 DEF ConnInv, OneCreator, TypeInv, TypeOK, Placement
  <2>8. StartedOrCreating'
    BY <2>1, <2>3, <2>4, <2>5 DEF ConnInv, StartedOrCreating, TypeInv, TypeOK, Placement
  <2>9. References'
    <3>1. \A s \in Threads :
            /\ timers'[s] = IF s = t THEN timers[t] \cup {c} ELSE timers[s]
            /\ watched'[s] = IF s = t THEN watched[t] \cup {c} ELSE watched[s]
            /\ pc'[s] = IF s = t THEN "adopt" ELSE pc[s]
            /\ s # t => conn'[s] = conn[s]
      BY <2>3 DEF TypeInv, TypeOK, Placement
    <3>2. \A s \in Threads : pc[s] \in {"read", "send", "erase"} => conn[s] # c
      BY <2>1 DEF ConnInv, References
    <3>3. QED
      BY <2>1, <2>2, <2>3, <2>5, <3>1, <3>2
         DEF ConnInv, References, Idle, TypeInv, TypeOK, Placement
  <2>10. QED
    BY <2>6, <2>7, <2>8, <2>9 DEF ConnInv
<1>19. ASSUME NEW t \in Threads, AdoptDone(t) PROVE ConnInv'
  <2>1. "dispatch" \in Apart /\ pc[t] \in Apart
    BY <1>19 DEF AdoptDone, Apart, Location, InConnection
  <2>2. QED
    BY <1>19, <2>1, QuietMove DEF AdoptDone, Idle
<1>20. ASSUME NEW t \in Threads, ReadOn(t) PROVE ConnInv'
  <2>1. /\ UNCHANGED <<backlog, connVars, m_connections>>
        /\ pc[t] = "read"
        /\ \/ pc' = [pc EXCEPT ![t] = "dispatch"] /\ conn' = [conn EXCEPT ![t] = NoConn]
           \/ pc' = [pc EXCEPT ![t] = "send"] /\ UNCHANGED conn
    BY <1>20 DEF ReadOn
  <2>2. \A s \in Threads, d \in Conns : Creating(s, d)' <=> Creating(s, d)
    BY <2>1 DEF TypeInv, TypeOK, Placement, Creating
  <2>3. \A s \in Threads :
          /\ s # t => pc'[s] = pc[s] /\ conn'[s] = conn[s]
          /\ pc'[t] = "dispatch" \/ (pc'[t] = "send" /\ conn'[t] = conn[t])
    BY <2>1 DEF TypeInv, TypeOK, Placement
  <2>4. OneBacklog'
    BY <2>1 DEF ConnInv, OneBacklog
  <2>5. OneCreator'
    BY <2>1, <2>2, <2>3 DEF ConnInv, OneCreator
  <2>6. StartedOrCreating'
    BY <2>1, <2>2 DEF ConnInv, StartedOrCreating
  <2>7. References'
    BY <2>1, <2>3 DEF ConnInv, References, Idle
  <2>8. QED
    BY <2>4, <2>5, <2>6, <2>7 DEF ConnInv
<1>21. ASSUME NEW t \in Threads, ReadEnd(t) PROVE ConnInv'
  <2>1. OneBacklog'
    BY <1>21 DEF TypeInv, TypeOK, Placement, ReadEnd, CancelTimer, DisableAll, EnterList,
                 ConnInv, OneBacklog
  <2>2. OneCreator'
    BY <1>21 DEF TypeInv, TypeOK, Placement, ReadEnd, CancelTimer, DisableAll, EnterList,
                 ConnInv, OneCreator, Creating
  <2>3. StartedOrCreating'
    BY <1>21 DEF TypeInv, TypeOK, Placement, ReadEnd, CancelTimer, DisableAll, EnterList,
                 ConnInv, StartedOrCreating, Creating
  <2>4. References'
    BY <1>21 DEF TypeInv, TypeOK, Placement, ReadEnd, CancelTimer, DisableAll, EnterList,
                 ConnInv, References, Idle
  <2>5. QED
    BY <2>1, <2>2, <2>3, <2>4 DEF ConnInv
<1>22. ASSUME NEW t \in Threads, Erase(t) PROVE ConnInv'
  <2> DEFINE c == conn[t]
  <2>1. /\ c \in Conns /\ life[c] = "open" /\ poller[c] = t /\ pc[t] = "erase"
        /\ c \notin activeC[t]
    BY <1>22 DEF Erase, TypeInv, TypeOK, Placement, ConnInv, References
  <2>2. /\ UNCHANGED <<sockets, backlog, activeC, poller>>
        /\ pc' = [pc EXCEPT ![t] = "dispatch"]
        /\ conn' = [conn EXCEPT ![t] = NoConn]
        /\ life' = [life EXCEPT ![c] = "gone"]
        /\ running' = running \ {c}
        /\ \A d \in m_connections' : d \in m_connections \/ life[d] \in {"open", "gone"}
    BY <1>22 DEF Erase, CancelTimer, LeaveList
  <2>3. \A s \in Threads, d \in Conns :
          /\ Creating(s, d)' <=> Creating(s, d)
          /\ ~Creating(s, c)
    BY <2>1, <2>2 DEF Creating, TypeInv, TypeOK, Placement, ConnInv, OneCreator
  <2>4. \A d \in Conns : life'[d] = IF d = c THEN "gone" ELSE life[d]
    BY <2>1, <2>2 DEF TypeInv, TypeOK, Placement
  <2>5. \A s \in Threads :
          /\ timers'[s] = timers[s] \ {c}
          /\ watched'[s] = watched[s] \ {c}
          /\ c \notin activeC[s]
    BY <1>22, <2>1 DEF Erase, CancelTimer, DisableAll, TypeInv, TypeOK, Placement, ConnInv,
                       References
  <2>6. \A s \in Threads :
          /\ pc'[s] = IF s = t THEN "dispatch" ELSE pc[s]
          /\ s # t => conn'[s] = conn[s]
          /\ s # t /\ pc[s] \in {"insert", "start", "read", "send", "erase"} => conn[s] # c
    BY <2>1, <2>2, <2>3 DEF TypeInv, TypeOK, Placement, ConnInv, References, Creating
  <2> HIDE DEF c
  <2>7. OneBacklog'
    BY <2>1, <2>2, <2>4 DEF ConnInv, OneBacklog, TypeInv, TypeOK, Placement
  <2>8. OneCreator'
    BY <2>1, <2>2, <2>3, <2>4, <2>6 DEF ConnInv, OneCreator, Creating
  <2>9. StartedOrCreating'
    BY <2>1, <2>2, <2>3, <2>4 DEF ConnInv, StartedOrCreating
  <2>10. References'
    BY <2>1, <2>2, <2>4, <2>5, <2>6 DEF ConnInv, References, Idle, TypeInv, TypeOK, Placement
  <2>11. QED
    BY <2>7, <2>8, <2>9, <2>10 DEF ConnInv
<1>23. ASSUME NEW c \in Conns, Teardown(c) PROVE ConnInv'
  <2>1. /\ life[c] \in {"open", "gone"}
        /\ \A d \in Conns : life'[d] = IF d = c THEN "gone" ELSE life[d]
        /\ running' = running \ {c} /\ m_connections' = m_connections \ {c}
        /\ UNCHANGED <<pc, conn, backlog, sockets, activeC, poller, timers>>
        /\ \A s \in Threads : watched'[s] \subseteq watched[s] /\ pc[s] = "exited"
    BY <1>23 DEF Teardown, DisableAll, TypeInv, TypeOK, Placement, ConnInv, StartedOrCreating
  <2>2. \A s \in Threads, d \in Conns :
          /\ Creating(s, d)' <=> Creating(s, d)
          /\ ~Creating(s, c)
    BY <2>1 DEF Creating, ConnInv, OneCreator
  <2>3. OneBacklog'
    BY <2>1 DEF TypeInv, TypeOK, Placement, ConnInv, OneBacklog
  <2>4. OneCreator'
    BY <2>1, <2>2 DEF ConnInv, OneCreator, Creating
  <2>5. StartedOrCreating'
    BY <2>1, <2>2 DEF ConnInv, StartedOrCreating
  <2>6. References'
    BY <2>1 DEF TypeInv, TypeOK, Placement, ConnInv, References, Idle
  <2>7. QED
    BY <2>3, <2>4, <2>5, <2>6 DEF ConnInv
<1>24. ASSUME NEW t \in Threads, SendReturns(t) PROVE ConnInv'
  <2>1. OneBacklog'
    BY <1>24 DEF TypeInv, TypeOK, Placement, SendReturns, ConnInv, OneBacklog
  <2>2. OneCreator'
    BY <1>24 DEF TypeInv, TypeOK, Placement, SendReturns, ConnInv, OneCreator, Creating
  <2>3. StartedOrCreating'
    BY <1>24 DEF TypeInv, TypeOK, Placement, SendReturns, ConnInv, StartedOrCreating, Creating
  <2>4. References'
    BY <1>24 DEF TypeInv, TypeOK, Placement, SendReturns, ConnInv, References, Idle
  <2>5. QED
    BY <2>1, <2>2, <2>3, <2>4 DEF ConnInv
<1>25. CASE UNCHANGED vars
  BY <1>25 DEF vars, ConnInv, OneBacklog, OneCreator, StartedOrCreating, References, Creating
<1>26. QED
  BY <1>1, <1>2, <1>3, <1>4, <1>5, <1>6, <1>7, <1>8, <1>9, <1>10, <1>11, <1>12,
     <1>13, <1>14, <1>15, <1>16, <1>17, <1>18, <1>19, <1>20, <1>21, <1>22, <1>23,
     <1>24, <1>25
     DEF Next, Worker, Environment, Dispatch, HandleAccept, HandleRead

LEMMA ConnInvariant == Spec => []ConnInv
<1>1. TypeInv /\ ConnInv /\ [Next]_vars => ConnInv'
  BY ConnInvStep
<1>2. QED
  BY <1>1, ConnInvInit, TypeInvariant, PTL DEF Spec

\* No event in hand, no epoll, no timer queue and no handler leads to a
\* connection that was destroyed.
THEOREM ReferencesAreAlive == Spec => []NoDanglingReference
<1>1. TypeInv /\ ConnInv => NoDanglingReference
  BY DEF TypeInv, TypeOK, Placement, ConnInv, References, OneCreator, NoDanglingReference
<1>2. QED
  BY <1>1, TypeInvariant, ConnInvariant, PTL

\* A connection's events, its timer and its handlers are those of the worker
\* that accepted it.
THEOREM ConnectionsStayHome == Spec => []HomeThread
<1>1. TypeInv /\ ConnInv => HomeThread
  BY DEF TypeInv, TypeOK, Placement, ConnInv, References, HomeThread
<1>2. QED
  BY <1>1, TypeInvariant, ConnInvariant, PTL

-----------------------------------------------------------------------------
(* The steps in which a connection comes to its next stage.                *)

InsertOf(t, c) == pc[t] = "insert" /\ conn[t] = c
StartOf(t, c) == pc[t] = "start" /\ conn[t] = c

\* Every connection keeps its stage, and a worker stays in the accept loop.
Quiet ==
  /\ UNCHANGED <<life, backlog, sockets, poller, m_connections>>
  /\ raced => raced'
  /\ \A t \in Threads, c \in Conns :
       (InsertOf(t, c)' <=> InsertOf(t, c)) /\ (StartOf(t, c)' <=> StartOf(t, c))
  /\ \A t \in Threads : pc[t] = "accept" => pc'[t] = "accept" /\ at'[t] = at[t]

LEMMA StepKinds ==
  TypeInv /\ [Next]_vars =>
    \/ Quiet /\ (UNCHANGED m_mutex \/ \E t \in Threads : TryLock(t) \/ Unlock(t))
    \/ \E c \in Conns, a \in Acceptors : Connect(c, a)
    \/ \E t \in Threads : Accept(t) \/ Insert(t) \/ Start(t) \/ Erase(t)
    \/ \E t \in Threads, c \in Conns : Adopt(t, c)
    \/ \E c \in Conns : Teardown(c)
<1> SUFFICES ASSUME TypeInv, [Next]_vars,
                    ~\E c \in Conns, a \in Acceptors : Connect(c, a),
                    ~\E t \in Threads : Accept(t) \/ Insert(t) \/ Start(t) \/ Erase(t),
                    ~\E t \in Threads, c \in Conns : Adopt(t, c),
                    ~\E c \in Conns : Teardown(c)
             PROVE  Quiet /\ (UNCHANGED m_mutex \/ \E t \in Threads : TryLock(t) \/ Unlock(t))
  OBVIOUS
<1> USE DEF TypeInv, TypeOK, Quiet, InsertOf, StartOf, loopVars, lockVars, netVars,
            connVars, listVars
<1>1. ASSUME NEW c \in Conns, PeerSends(c) \/ PeerCloses(c) \/ PeerResets(c)
       PROVE  Quiet /\ UNCHANGED m_mutex
  BY <1>1 DEF PeerSends, PeerCloses, PeerResets, PeerMoves
<1>2. CASE Stop
  BY <1>2 DEF Stop
<1>3. ASSUME NEW t \in Threads, RunLoop(t) PROVE Quiet /\ UNCHANGED m_mutex
  BY <1>3 DEF RunLoop
<1>4. ASSUME NEW t \in Threads, Exit(t) PROVE Quiet /\ UNCHANGED m_mutex
  BY <1>4 DEF Exit
<1>5. ASSUME NEW t \in Threads, TryLock(t) PROVE Quiet
  BY <1>5 DEF TryLock
<1>6. ASSUME NEW t \in Threads, Arm(t) PROVE Quiet /\ UNCHANGED m_mutex
  BY <1>6 DEF Arm
<1>7. ASSUME NEW t \in Threads, CheckDone(t) PROVE Quiet /\ UNCHANGED m_mutex
  BY <1>7 DEF CheckDone
<1>8. ASSUME NEW t \in Threads, Poll(t) PROVE Quiet /\ UNCHANGED m_mutex
  BY <1>8 DEF Poll, PollReturns
<1>9. ASSUME NEW t \in Threads, PollIdle(t) PROVE Quiet /\ UNCHANGED m_mutex
  BY <1>9 DEF PollIdle
<1>10. ASSUME NEW t \in Threads, Dispatch(t) PROVE Quiet /\ UNCHANGED m_mutex
  BY <1>10 DEF Dispatch, RunAcceptorEvent, RunConnectionEvent, DispatchDone
<1>11. ASSUME NEW t \in Threads, Unlock(t) PROVE Quiet
  BY <1>11 DEF Unlock
<1>12. ASSUME NEW t \in Threads, AdoptDone(t) PROVE Quiet /\ UNCHANGED m_mutex
  BY <1>12 DEF AdoptDone
<1>13. ASSUME NEW t \in Threads, ReadOn(t) PROVE Quiet /\ UNCHANGED m_mutex
  BY <1>13 DEF ReadOn
<1>14. ASSUME NEW t \in Threads, ReadEnd(t) PROVE Quiet /\ UNCHANGED m_mutex
  BY <1>14 DEF ReadEnd, EnterList
<1>15. ASSUME NEW t \in Threads, SendReturns(t)
       PROVE  Quiet /\ UNCHANGED m_mutex
  BY <1>15 DEF SendReturns
<1>16. CASE UNCHANGED vars
  BY <1>16 DEF vars
<1>17. QED
  BY <1>1, <1>2, <1>3, <1>4, <1>5, <1>6, <1>7, <1>8, <1>9, <1>10, <1>11, <1>12,
     <1>13, <1>14, <1>15, <1>16
     DEF Next, Worker, Environment, HandleAccept, HandleRead

-----------------------------------------------------------------------------
(* The list of connections.                                                *)

ExactList ==
  m_connections = {c \in Conns : life[c] = "open" /\ \A t \in Threads : ~InsertOf(t, c)}

LEMMA ListStep ==
  TypeInv /\ ConnInv /\ ListExactUntilRace /\ [Next]_vars => ListExactUntilRace'
<1> SUFFICES ASSUME TypeInv, ConnInv, ListExactUntilRace, [Next]_vars, ~raced'
             PROVE  ExactList'
  BY DEF ListExactUntilRace, ExactList, InsertOf
<1> USE DEF ExactList, TypeInv, TypeOK, Placement, InsertOf, loopVars, lockVars, netVars,
            connVars, listVars
<1>1. ~raced => ExactList
  BY DEF ListExactUntilRace
<1>2. CASE Quiet
  <2>1. \A t \in Threads, c \in Conns : InsertOf(t, c)' <=> InsertOf(t, c)
    BY <1>2 DEF Quiet
  <2>2. QED
    BY <1>1, <1>2, <2>1 DEF Quiet
<1>3. ASSUME NEW c \in Conns, NEW a \in Acceptors, Connect(c, a) PROVE ExactList'
  BY <1>1, <1>3 DEF Connect
<1>4. ASSUME NEW t \in Threads, Accept(t) PROVE ExactList'
  <2>1. \A d \in Conns : life'[d] = "open" <=> life[d] = "open"
    BY <1>4 DEF Accept, ConnInv, OneBacklog
  <2>2. \A s \in Threads, d \in Conns : InsertOf(s, d)' <=> InsertOf(s, d)
    BY <1>4 DEF Accept
  <2>3. QED
    BY <1>1, <1>4, <2>1, <2>2 DEF Accept
<1>5. ASSUME NEW t \in Threads, NEW c \in Conns, Adopt(t, c) PROVE ExactList'
  <2>1. life[c] = "accepted" /\ \A d \in Conns : life'[d] = IF d = c THEN "open" ELSE life[d]
    BY <1>5 DEF Adopt, ConnInv, OneCreator
  <2>2. \A s \in Threads, d \in Conns :
          InsertOf(s, d)' <=> InsertOf(s, d) \/ (s = t /\ d = c)
    BY <1>5 DEF Adopt
  <2>3. QED
    BY <1>1, <1>5, <2>1, <2>2 DEF Adopt, EnterList
<1>6. ASSUME NEW t \in Threads, Insert(t) PROVE ExactList'
  <2>1. /\ conn[t] \in Conns /\ life[conn[t]] = "open" /\ UNCHANGED life
        /\ m_connections' = m_connections \cup {conn[t]} /\ ~raced
    BY <1>6 DEF Insert, LeaveList, ConnInv, OneCreator
  <2>2. \A s \in Threads, d \in Conns :
          InsertOf(s, d)' <=> InsertOf(s, d) /\ d # conn[t]
    BY <1>6 DEF Insert, ConnInv, OneCreator, Creating
  <2>3. QED
    BY <1>1, <2>1, <2>2
<1>7. ASSUME NEW t \in Threads, Start(t) PROVE ExactList'
  <2>1. \A s \in Threads, d \in Conns : InsertOf(s, d)' <=> InsertOf(s, d)
    BY <1>7 DEF Start
  <2>2. QED
    BY <1>1, <1>7, <2>1 DEF Start
<1>8. ASSUME NEW t \in Threads, Erase(t) PROVE ExactList'
  <2>1. /\ conn[t] \in Conns
        /\ \A d \in Conns : life'[d] = IF d = conn[t] THEN "gone" ELSE life[d]
        /\ m_connections' = m_connections \ {conn[t]} /\ ~raced
    BY <1>8 DEF Erase, LeaveList
  <2>2. \A s \in Threads, d \in Conns : InsertOf(s, d)' <=> InsertOf(s, d)
    BY <1>8 DEF Erase
  <2>3. QED
    BY <1>1, <2>1, <2>2
<1>9. ASSUME NEW c \in Conns, Teardown(c) PROVE ExactList'
  <2>1. /\ \A d \in Conns : life'[d] = IF d = c THEN "gone" ELSE life[d]
        /\ m_connections' = m_connections \ {c} /\ ~raced
        /\ \A s \in Threads, d \in Conns : InsertOf(s, d)' <=> InsertOf(s, d)
    BY <1>9 DEF Teardown
  <2>2. QED
    BY <1>1, <2>1
<1>10. QED
  BY <1>2, <1>3, <1>4, <1>5, <1>6, <1>7, <1>8, <1>9, StepKinds

\* Until two workers change m_connections at a time, it has every connection
\* that was inserted and not erased, and no other.
THEOREM ListIsExact == Spec => []ListExactUntilRace
<1>1. Init => ListExactUntilRace
  BY DEF Init, ListExactUntilRace
<1>2. QED
  BY <1>1, ListStep, TypeInvariant, ConnInvariant, PTL DEF Spec

-----------------------------------------------------------------------------
(* Descriptors.                                                            *)

Clients == {c \in Conns : life[c] \in {"accepted", "open"}}

\* Worker t is caught in the accept loop.
Trapped(t) == pc[t] = "accept" /\ sockets[t] # {} /\ m_mutex[at[t]] = t

\* Only the accept loop takes a descriptor.
LEMMA ClientsGrow ==
  ASSUME TypeInv, ConnInv, [Next]_vars, ~(Clients' \subseteq Clients)
  PROVE  \E t \in Threads : Accept(t) /\ ~Goto(t, "accept", "unlock")
<1> USE DEF TypeInv, TypeOK, Placement, Clients
<1>1. ASSUME Quiet PROVE FALSE
  BY <1>1 DEF Quiet
<1>2. ASSUME NEW c \in Conns, NEW a \in Acceptors, Connect(c, a) PROVE FALSE
  BY <1>2 DEF Connect
<1>3. ASSUME NEW t \in Threads, Insert(t) \/ Start(t) \/ Erase(t) PROVE FALSE
  BY <1>3 DEF Insert, Start, Erase, connVars
<1>4. ASSUME NEW t \in Threads, NEW c \in Conns, Adopt(t, c) PROVE FALSE
  BY <1>4 DEF Adopt, ConnInv, OneCreator
<1>5. ASSUME NEW c \in Conns, Teardown(c) PROVE FALSE
  BY <1>5 DEF Teardown
<1>6. ASSUME NEW t \in Threads, Accept(t), Goto(t, "accept", "unlock") PROVE FALSE
  <2>1. UNCHANGED life
    BY <1>6 DEF Accept
  <2>2. QED
    BY <2>1
<1>7. QED
  BY <1>1, <1>2, <1>3, <1>4, <1>5, <1>6, StepKinds

\* A worker that is caught stays where it is while every descriptor is used.
LEMMA TrappedStays ==
  ASSUME TypeInv, LockInv, [Next]_vars, FdsExhausted, NEW w \in Threads, Trapped(w)
  PROVE  Trapped(w)'
<1> USE DEF TypeInv, TypeOK, Placement, Trapped, loopVars, lockVars, netVars, connVars,
            listVars
<1>1. at[w] \in Acceptors
  OBVIOUS
<1>2. ASSUME Quiet, UNCHANGED m_mutex PROVE Trapped(w)'
  BY <1>2 DEF Quiet
<1>3. ASSUME Quiet, NEW t \in Threads, TryLock(t) PROVE Trapped(w)'
  BY <1>1, <1>3 DEF Quiet, TryLock
<1>4. ASSUME Quiet, NEW t \in Threads, Unlock(t) PROVE Trapped(w)'
  <2>1. m_mutex[at[t]] = t /\ at[t] \in Acceptors /\ t # w
    BY <1>4 DEF Unlock, LockInv, ServantHoldsLock, Serving
  <2>2. QED
    BY <1>1, <1>4, <2>1 DEF Quiet, Unlock
<1>5. ASSUME NEW c \in Conns, NEW a \in Acceptors, Connect(c, a) PROVE Trapped(w)'
  BY <1>5 DEF Connect
<1>6. ASSUME NEW t \in Threads, Accept(t) PROVE FALSE
  <2>1. FdsInUse \in Nat
    <3>1. IsFiniteSet(Clients)
      BY FS_Subset DEF Clients
    <3>2. QED
      BY <3>1, FS_CardinalityType DEF FdsInUse, Clients
  <2>2. QED
    BY <1>6, <2>1 DEF Accept, AcceptEnds, FdsExhausted
<1>7. ASSUME NEW t \in Threads, Insert(t) \/ Start(t) \/ Erase(t) PROVE Trapped(w)'
  BY <1>7 DEF Insert, Start, Erase
<1>8. ASSUME NEW t \in Threads, NEW c \in Conns, Adopt(t, c) PROVE Trapped(w)'
  BY <1>8 DEF Adopt
<1>9. ASSUME NEW c \in Conns, Teardown(c) PROVE Trapped(w)'
  BY <1>9 DEF Teardown
<1>10. QED
  BY <1>2, <1>3, <1>4, <1>5, <1>6, <1>7, <1>8, <1>9, StepKinds

LEMMA ExhaustionStep ==
  TypeInv /\ LockInv /\ ConnInv /\ ExhaustionTrapsWorker /\ [Next]_vars
    => ExhaustionTrapsWorker'
<1> SUFFICES ASSUME TypeInv, LockInv, ConnInv, ExhaustionTrapsWorker, [Next]_vars,
                    FdsExhausted'
             PROVE  \E t \in Threads : Trapped(t)'
  BY DEF ExhaustionTrapsWorker, Trapped
<1>1. CASE FdsExhausted
  <2>1. PICK w \in Threads : Trapped(w)
    BY <1>1 DEF ExhaustionTrapsWorker, Trapped
  <2>2. QED
    BY <1>1, <2>1, TrappedStays
<1>2. CASE ~FdsExhausted
  <2>1. ~(Clients' \subseteq Clients)
    <3> SUFFICES ASSUME Clients' \subseteq Clients PROVE FALSE
      OBVIOUS
    <3>1. IsFiniteSet(Clients)
      BY FS_Subset DEF Clients
    <3>2. Cardinality(Clients') <= Cardinality(Clients)
      BY <3>1, FS_Subset
    <3>3. Cardinality(Clients) \in Nat /\ Cardinality(Clients') \in Nat
      BY <3>1, FS_Subset, FS_CardinalityType
    <3>4. QED
      BY <1>2, <3>2, <3>3 DEF FdsExhausted, FdsInUse, Clients
  <2>2. PICK t \in Threads : Accept(t) /\ ~Goto(t, "accept", "unlock")
    BY <2>1, ClientsGrow
  <2>3. /\ pc[t] = "accept" /\ UNCHANGED <<pc, at, m_mutex>>
        /\ \E c : sockets' = [sockets EXCEPT ![t] = @ \cup {c}]
    BY <2>2 DEF Accept, loopVars, lockVars
  <2>4. m_mutex[at[t]] = t /\ sockets'[t] # {}
    BY <2>3 DEF TypeInv, TypeOK, Placement, LockInv, ServantHoldsLock, Serving
  <2>5. QED
    BY <2>3, <2>4 DEF Trapped
<1>3. QED
  BY <1>1, <1>2

\* Whenever the descriptors are used up, some worker is caught in the accept
\* loop, with the mutex of an acceptor and with sockets it has not started.
THEOREM ExhaustionTraps == Spec => []ExhaustionTrapsWorker
<1>1. Init => ExhaustionTrapsWorker
  <2> SUFFICES ASSUME Init PROVE ~FdsExhausted
    BY DEF ExhaustionTrapsWorker
  <2>1. {c \in Conns : life[c] \in {"accepted", "open"}} = {}
    BY DEF Init
  <2>2. FdsInUse = 0
    BY <2>1, FS_EmptySet DEF FdsInUse
  <2>3. QED
    BY <2>2 DEF FdsExhausted
<1>2. QED
  BY <1>1, ExhaustionStep, TypeInvariant, LockInvariant, ConnInvariant, PTL DEF Spec

\* While the descriptors are used up nothing frees a worker that is caught: not
\* a stop, not its own clients, only a descriptor that another worker closes, of
\* which its next call of accept has to learn (tcp_socket.cpp:83-97).
THEOREM NothingFreesTheTrapped ==
  Spec => [][FdsExhausted => \A t \in Threads : Trapped(t) => Trapped(t)']_vars
<1>1. ASSUME TypeInv, LockInv, [Next]_vars, FdsExhausted, NEW t \in Threads, Trapped(t)
      PROVE  Trapped(t)'
  BY <1>1, TrappedStays
<1>2. TypeInv /\ LockInv /\ [Next]_vars =>
        [FdsExhausted => \A t \in Threads : Trapped(t) => Trapped(t)']_vars
  BY <1>1
<1>3. QED
  BY <1>2, TypeInvariant, LockInvariant, PTL DEF Spec

-----------------------------------------------------------------------------
(* The workers implement ConnService.                                      *)

\* Worker t took client c.
KeptBy(t, c) == Creating(t, c) \/ poller[c] = t

KeeperRight ==
  \A c \in Conns :
    /\ \A t \in Threads : KeptBy(t, c) <=> Keeper(c) = t
    /\ Keeper(c) \in Threads \cup {NoThread}

\* Keeper is the only worker that took the client.
LEMMA KeeperIsRight == TypeInv /\ ConnInv => KeeperRight
<1> SUFFICES ASSUME TypeInv, ConnInv, NEW c \in Conns
             PROVE  /\ \A t \in Threads : KeptBy(t, c) <=> Keeper(c) = t
                    /\ Keeper(c) \in Threads \cup {NoThread}
  BY DEF KeeperRight
<1> DEFINE creating == {t \in Threads : Creating(t, c)}
<1>1. Keeper(c) = IF creating = {} THEN poller[c] ELSE CHOOSE t \in creating : TRUE
  BY DEF Keeper, Creating
<1>2. CASE creating = {}
  BY <1>1, <1>2 DEF KeptBy, TypeInv, TypeOK
<1>3. CASE creating # {}
  <2>1. PICK t \in Threads : Creating(t, c)
    BY <1>3
  <2>2. poller[c] = NoThread /\ \A s \in Threads : Creating(s, c) <=> s = t
    BY <2>1 DEF ConnInv, OneCreator
  <2>3. creating = {t}
    BY <2>2
  <2>4. Keeper(c) = t
    BY <1>1, <2>3
  <2>5. QED
    BY <2>2, <2>4 DEF KeptBy
<1>4. QED
  BY <1>2, <1>3

Keepers == [c \in Conns |-> Keeper(c)]
Gone == {c \in Conns : life[c] = "gone"}

\* Who keeps whom is what ConnService is told.
LEMMA KeepersFollow ==
  ASSUME KeeperRight, KeeperRight', NEW c \in Conns,
         \A t \in Threads : KeptBy(t, c)' <=> KeptBy(t, c)
  PROVE  Keeper(c)' = Keeper(c)
<1>1. CASE Keeper(c) \in Threads
  BY <1>1 DEF KeeperRight
<1>2. CASE Keeper(c) \notin Threads
  BY <1>2 DEF KeeperRight
<1>3. QED
  BY <1>1, <1>2

LEMMA ServiceStep ==
  ASSUME TypeInv, LockInv, ConnInv, KeeperRight, KeeperRight', [Next]_vars
  PROVE  [Service!Next]_(Service!vars)
<1> USE DEF TypeInv, TypeOK, Placement, loopVars, lockVars, netVars, connVars, listVars
<1> DEFINE SameKeepers == \A s \in Threads, d \in Conns : KeptBy(s, d)' <=> KeptBy(s, d)
<1>1. SameKeepers => Keepers' = Keepers
  BY KeepersFollow DEF Keepers
<1>2. CASE Quiet /\ (UNCHANGED m_mutex \/ \E t \in Threads : TryLock(t) \/ Unlock(t))
  <2>1. SameKeepers
    BY <1>2 DEF Quiet, KeptBy, Creating, InsertOf, StartOf
  <2>2. UNCHANGED <<backlog, Keepers, Gone>>
    BY <1>1, <1>2, <2>1 DEF Quiet, Gone
  <2>3. CASE UNCHANGED m_mutex
    BY <2>2, <2>3 DEF Service!vars, Keepers, Gone
  <2>4. ASSUME NEW t \in Threads, TryLock(t), ~UNCHANGED m_mutex PROVE Service!Next
    <3>1. Service!Acquire(at[t], t) /\ at[t] \in Acceptors
      BY <2>2, <2>4 DEF TryLock, Service!Acquire, Keepers, Gone
    <3>2. QED
      BY <3>1 DEF Service!Next
  <2>5. ASSUME NEW t \in Threads, Unlock(t) PROVE Service!Next
    <3>1. at[t] \in Acceptors /\ m_mutex[at[t]] = t
      BY <2>5 DEF Unlock, LockInv, ServantHoldsLock, Serving
    <3>2. Service!Release(at[t], t)
      BY <2>2, <2>5, <3>1 DEF Unlock, Service!Release, Keepers, Gone
    <3>3. QED
      BY <3>1, <3>2 DEF Service!Next
  <2>6. QED
    BY <1>2, <2>3, <2>4, <2>5
<1>3. ASSUME NEW c \in Conns, NEW a \in Acceptors, Connect(c, a) PROVE Service!Next
  <2>1. SameKeepers /\ UNCHANGED <<m_mutex, Gone>>
    BY <1>3 DEF Connect, KeptBy, Creating, Gone
  <2>2. Keeper(c) = NoThread
    <3>1. life[c] = "unborn"
      BY <1>3 DEF Connect
    <3>2. poller[c] = NoThread
      BY <3>1 DEF ConnInv, StartedOrCreating
    <3>3. \A t \in Threads : ~Creating(t, c)
      BY <3>1 DEF ConnInv, OneCreator, Creating
    <3>4. QED
      BY <3>2, <3>3 DEF KeeperRight, KeptBy
  <2>3. \A b \in Acceptors : c \notin backlog[b]
    BY <1>3 DEF Connect, ConnInv, OneBacklog
  <2>4. Service!Arrive(c, a)
    BY <1>1, <1>3, <2>1, <2>2, <2>3 DEF Connect, Service!Arrive, Keepers, Gone
  <2>5. QED
    BY <2>4 DEF Service!Next
<1>4. ASSUME NEW t \in Threads, Accept(t) PROVE [Service!Next]_(Service!vars)
  <2>1. CASE Goto(t, "accept", "unlock") /\ UNCHANGED <<backlog, life, sockets>>
    <3>1. SameKeepers /\ UNCHANGED <<m_mutex, Gone, backlog>>
      BY <1>4, <2>1 DEF Accept, KeptBy, Creating, Gone
    <3>2. QED
      BY <1>1, <3>1 DEF Service!vars, Keepers, Gone
  <2>2. CASE pc[t] = "accept" /\ UNCHANGED pc
    <3>1. PICK c \in backlog[at[t]] :
            /\ backlog' = [backlog EXCEPT ![at[t]] = @ \ {c}]
            /\ life' = [life EXCEPT ![c] = "accepted"]
            /\ sockets' = [sockets EXCEPT ![t] = @ \cup {c}]
      BY <1>4, <2>2 DEF Accept
    <3>2. at[t] \in Acceptors /\ c \in Conns /\ life[c] = "queued" /\ m_mutex[at[t]] = t
      BY <2>2, <3>1 DEF ConnInv, OneBacklog, LockInv, ServantHoldsLock, Serving
    <3>3. UNCHANGED <<m_mutex, Gone, pc, conn, poller>>
      BY <1>4, <2>2, <3>1, <3>2 DEF Accept, Gone
    <3>4. \A s \in Threads, d \in Conns :
            KeptBy(s, d)' <=> KeptBy(s, d) \/ (s = t /\ d = c)
      BY <3>1, <3>3 DEF KeptBy, Creating
    <3>5. \A d \in Conns : d # c => Keeper(d)' = Keeper(d)
      BY <3>4, KeepersFollow
    <3>6. Keeper(c)' = t
      BY <3>2, <3>4 DEF KeeperRight
    <3>7. Keepers' = [Keepers EXCEPT ![c] = t]
      BY <3>2, <3>5, <3>6 DEF Keepers
    <3>8. Service!Take(c, at[t], t)
      BY <3>1, <3>2, <3>3, <3>7 DEF Service!Take, Keepers, Gone
    <3>9. QED
      BY <3>2, <3>8 DEF Service!Next
  <2>3. QED
    BY <1>4, <2>1, <2>2 DEF Accept
<1>5. ASSUME NEW t \in Threads, NEW c \in Conns, Adopt(t, c) PROVE UNCHANGED Service!vars
  <2>1. SameKeepers /\ UNCHANGED <<m_mutex, Gone, backlog>>
    BY <1>5 DEF Adopt, KeptBy, Creating, Gone, ConnInv, OneCreator
  <2>2. QED
    BY <1>1, <2>1 DEF Service!vars, Keepers, Gone
<1>6. ASSUME NEW t \in Threads, Insert(t) PROVE UNCHANGED Service!vars
  <2>1. SameKeepers /\ UNCHANGED <<m_mutex, Gone, backlog>>
    BY <1>6 DEF Insert, KeptBy, Creating, Gone
  <2>2. QED
    BY <1>1, <2>1 DEF Service!vars, Keepers, Gone
<1>7. ASSUME NEW t \in Threads, Start(t) PROVE UNCHANGED Service!vars
  <2>1. /\ conn[t] \in Conns /\ Creating(t, conn[t]) /\ poller[conn[t]] = NoThread
        /\ \A s \in Threads : Creating(s, conn[t]) => s = t
    BY <1>7 DEF Start, ConnInv, OneCreator, Creating
  <2>2. SameKeepers /\ UNCHANGED <<m_mutex, Gone, backlog>>
    BY <1>7, <2>1 DEF Start, KeptBy, Creating, Gone
  <2>3. QED
    BY <1>1, <2>2 DEF Service!vars, Keepers, Gone
<1>8. ASSUME NEW t \in Threads, Erase(t) PROVE Service!Next
  <2>1. PICK c \in Conns : c = conn[t]
    BY <1>8 DEF Erase
  <2>2. life[c] = "open" /\ poller[c] = t /\ life' = [life EXCEPT ![c] = "gone"]
    BY <1>8, <2>1 DEF Erase, ConnInv, References
  <2>3. SameKeepers /\ UNCHANGED <<m_mutex, backlog>>
    BY <1>8 DEF Erase, KeptBy, Creating
  <2>4. Keeper(c) = t
    BY <2>2 DEF KeeperRight, KeptBy
  <2>5. Gone' = Gone \cup {c} /\ c \notin Gone
    BY <2>2 DEF Gone
  <2>6. Service!Leave(c)
    BY <1>1, <2>3, <2>4, <2>5 DEF Service!Leave, Keepers, Gone
  <2>7. QED
    BY <2>6 DEF Service!Next
<1>9. ASSUME NEW c \in Conns, Teardown(c) PROVE [Service!Next]_(Service!vars)
  <2>1. life[c] \in {"open", "gone"} /\ life' = [life EXCEPT ![c] = "gone"]
    BY <1>9 DEF Teardown, ConnInv, StartedOrCreating
  <2>2. SameKeepers /\ UNCHANGED <<m_mutex, backlog>>
    BY <1>9 DEF Teardown, KeptBy, Creating
  <2>3. CASE life[c] = "gone"
    <3>1. UNCHANGED Gone
      BY <2>1, <2>3 DEF Gone
    <3>2. QED
      BY <1>1, <2>2, <3>1 DEF Service!vars, Keepers, Gone
  <2>4. CASE life[c] = "open"
    <3>1. Keeper(c) # NoThread
      <4>1. PICK t \in Threads : KeptBy(t, c)
        BY <2>4 DEF KeptBy, ConnInv, StartedOrCreating
      <4>2. QED
        BY <4>1 DEF KeeperRight
    <3>2. Gone' = Gone \cup {c} /\ c \notin Gone
      BY <2>1, <2>4 DEF Gone
    <3>3. Service!Leave(c)
      BY <1>1, <2>2, <3>1, <3>2 DEF Service!Leave, Keepers, Gone
    <3>4. QED
      BY <3>3 DEF Service!Next
  <2>5. QED
    BY <2>1, <2>3, <2>4
<1>10. QED
  BY <1>2, <1>3, <1>4, <1>5, <1>6, <1>7, <1>8, <1>9, StepKinds

\* The workers together are the service of ConnService: one server per
\* listening socket, and every client taken once, by the worker that serves its
\* socket, and kept by that worker until it leaves.
THEOREM WorkersAreTheService == Spec => ServiceSpec
<1>1. Init => Service!Init
  BY DEF Init, Service!Init, Keeper
<1>2. TypeInv /\ ConnInv => KeeperRight
  BY KeeperIsRight
<1>3. TypeInv /\ LockInv /\ ConnInv /\ KeeperRight /\ KeeperRight' /\ [Next]_vars
        => [Service!Next]_(Service!vars)
  BY ServiceStep
<1>4. QED
  BY <1>1, <1>2, <1>3, TypeInvariant, LockInvariant, ConnInvariant, PTL
     DEF Spec, ServiceSpec, Service!Spec
=============================================================================
