---------------------------- MODULE StartupProofs ----------------------------
(***************************************************************************)
(* Theorems about Startup, for every host, every file and every number of  *)
(* threads: the limits of a server, its acceptors when init returns, and   *)
(* when start returns. And about Ownership, for any workers and any limit  *)
(* of descriptors: each has one owner, from the acceptor's socket to       *)
(* ~server.                                                                *)
(***************************************************************************)
EXTENDS Startup, Ownership, WellFoundedInduction, TLAPS

USE StartupAssumption, ConfigAssumption DEF StartupAssumption, ConfigAssumption

-----------------------------------------------------------------------------
(* The threads of start.                                                   *)

\* The first start joins its threads one after the other, and none has ended
\* without a stop. A second start finds them joined before its own and gets no
\* further.
StartInv ==
  /\ starts \in Nat
  /\ m_threads \in Seq(ThreadState)
  /\ process \in {"new", "endpoints", "ready"} => starts = 0
  /\ starts = 0 => m_threads = <<>>
  /\ process = "joining" =>
       \/ /\ starts = 1
          /\ joining \in Nat \ {0}
          /\ \A i \in 1 .. joining - 1 : i \in DOMAIN m_threads => m_threads[i] = "joined"
          /\ \A i \in DOMAIN m_threads : m_threads[i] \in {"finished", "joined"} => m_stop_flag
       \/ joining = 1 /\ Len(m_threads) > 0 /\ m_threads[1] = "joined"
  /\ process = "returned" =>
       starts = 1 /\ m_stop_flag /\ \A i \in DOMAIN m_threads : m_threads[i] = "joined"
  /\ starts > 0 => Len(m_threads) > 0

LEMMA StartInvInit == Init => StartInv
  BY DEF Init, StartInv

\* No thread is written before its place or behind the last.
LEMMA OneThread ==
  ASSUME m_threads \in Seq(ThreadState), NEW i \in DOMAIN m_threads,
         NEW state \in ThreadState,
         m_threads' = [m_threads EXCEPT ![i] = state]
  PROVE  /\ m_threads' \in Seq(ThreadState)
         /\ DOMAIN m_threads' = DOMAIN m_threads /\ Len(m_threads') = Len(m_threads)
         /\ m_threads'[i] = state
         /\ \A j \in DOMAIN m_threads : j # i => m_threads'[j] = m_threads[j]
  OBVIOUS

LEMMA StartInvStep == StartInv /\ [Next]_vars => StartInv'
<1> SUFFICES ASSUME StartInv, [Next]_vars PROVE StartInv'
  OBVIOUS
<1> USE DEF StartInv
<1>1. CASE ReadConfig
  BY <1>1 DEF ReadConfig, runVars
<1>2. CASE NextEndpoint
  <2>1. process = "endpoints" /\ UNCHANGED runVars
        /\ process' \in {"endpoints", "terminated", "aborted"}
    BY <1>2 DEF NextEndpoint, Skip, Take
  <2>2. QED
    BY <2>1 DEF runVars
<1>3. CASE FinishInit
  BY <1>3 DEF FinishInit, runVars
<1>4. CASE Start
  <2> DEFINE new == [i \in 1 .. Threads |-> "running"]
             S == ThreadState
  <2>1. new \in Seq(S) /\ Len(new) = Threads
    BY DEF ThreadState
  <2>2. m_threads' = m_threads \o new /\ starts' = starts + 1 /\ joining' = 1 /\ process' = "joining"
    BY <1>4 DEF Start, Started
  <2>n. \A i \in 1 .. Threads : new[i] = "running"
    OBVIOUS
  <2> HIDE DEF new
  <2>3. m_threads' \in Seq(S) /\ Len(m_threads') = Len(m_threads) + Threads /\ Len(m_threads) \in Nat
    <3>1. m_threads \in Seq(S)
      OBVIOUS
    <3> HIDE DEF S
    <3>2. m_threads \o new \in Seq(S) /\ Len(m_threads \o new) = Len(m_threads) + Len(new)
      BY ONLY <2>1, <3>1
    <3>3. QED
      BY <2>1, <2>2, <3>1, <3>2
  <2>4. CASE process = "ready"
    <3>1. m_threads = <<>> /\ starts = 0 /\ Len(m_threads) = 0
      BY <2>4
    <3>2. \A i \in DOMAIN m_threads' : m_threads'[i] = "running"
      BY <2>1, <2>2, <2>n, <3>1
    <3>3. QED
      BY <2>2, <2>3, <3>1, <3>2
  <2>5. CASE process = "returned"
    <3>1. Len(m_threads) > 0 /\ m_threads[1] = "joined"
      BY <2>5
    <3>2. m_threads'[1] = m_threads[1]
      BY <2>1, <2>2, <3>1
    <3>3. QED
      BY <2>2, <2>3, <3>1, <3>2
  <2>6. QED
    BY <1>4, <2>4, <2>5 DEF Start
<1>5. CASE Join
  <2>1. /\ process = "joining" /\ joining <= Len(m_threads) /\ m_threads[joining] = "finished"
        /\ m_threads' = [m_threads EXCEPT ![joining] = "joined"]
        /\ joining' = joining + 1 /\ starts' = starts /\ process' = process
    BY <1>5 DEF Join, Joined
  <2>2. starts = 1 /\ joining \in Nat \ {0}
    BY <2>1
  <2>3. joining \in DOMAIN m_threads
    BY <2>1, <2>2
  <2>4. /\ m_threads' \in Seq(ThreadState)
        /\ DOMAIN m_threads' = DOMAIN m_threads /\ Len(m_threads') = Len(m_threads)
        /\ m_threads'[joining] = "joined"
        /\ \A j \in DOMAIN m_threads : j # joining => m_threads'[j] = m_threads[j]
    BY <2>1, <2>3, OneThread DEF ThreadState
  <2>5. \A i \in 1 .. joining' - 1 : i \in DOMAIN m_threads' => m_threads'[i] = "joined"
    BY <2>1, <2>2, <2>4
  <2>6. m_stop_flag /\ m_stop_flag' = m_stop_flag
    BY <1>5, <2>1, <2>2, <2>3 DEF Join
  <2>7. QED
    BY <2>1, <2>2, <2>4, <2>5, <2>6
<1>6. CASE JoinThrows
  BY <1>6 DEF JoinThrows, runVars
<1>7. CASE StartReturns
  <2>1. /\ process = "joining" /\ joining > Len(m_threads)
        /\ process' = "returned" /\ UNCHANGED runVars
    BY <1>7 DEF StartReturns, AllJoined
  <2>2. starts = 1 /\ joining \in Nat \ {0}
    BY <2>1
  <2>3. \A i \in DOMAIN m_threads : m_threads[i] = "joined"
    BY <2>1, <2>2
  <2>4. QED
    BY <2>1, <2>2, <2>3 DEF runVars
<1>8. ASSUME NEW i \in DOMAIN m_threads, Worker(i) PROVE StartInv'
  <2>1. PICK state \in {"running", "blocked", "finished"} :
          /\ m_threads[i] \in {"running", "blocked"}
          /\ m_threads' = [m_threads EXCEPT ![i] = state]
          /\ state = "finished" => m_stop_flag
          /\ UNCHANGED <<m_stop_flag, joining, starts, process>>
    BY <1>8 DEF Worker, WorkerBlocks, WorkerResumes, WorkerEnds, Becomes
  <2>2. /\ m_threads' \in Seq(ThreadState)
        /\ DOMAIN m_threads' = DOMAIN m_threads /\ Len(m_threads') = Len(m_threads)
        /\ m_threads'[i] = state
        /\ \A j \in DOMAIN m_threads : j # i => m_threads'[j] = m_threads[j]
    <3>1. state \in ThreadState
      BY DEF ThreadState
    <3>2. QED
      BY <2>1, <3>1, OneThread
  <2>3. \A j \in DOMAIN m_threads : m_threads[j] = "joined" => m_threads'[j] = "joined"
    BY <2>1, <2>2
  <2>4. m_threads # <<>>
    OBVIOUS
  <2>5. QED
    BY <2>1, <2>2, <2>3
<1>9. CASE Stop
  BY <1>9 DEF Stop
<1>10. CASE UNCHANGED vars
  BY <1>10 DEF vars, runVars
<1>11. QED
  BY <1>1, <1>2, <1>3, <1>4, <1>5, <1>6, <1>7, <1>8, <1>9, <1>10 DEF Next

\* start returns only after stop was called, and with every thread joined
\* (server.cpp:85-94, thread_poll.cpp:15-19).
THEOREM StartReturnsStopped == Spec => []ReturnsStopped
<1>1. StartInv => ReturnsStopped
  BY DEF StartInv, ReturnsStopped
<1>2. QED
  BY <1>1, StartInvInit, StartInvStep, PTL DEF Spec

-----------------------------------------------------------------------------
(* The limits.                                                             *)

\* Whatever stands in a file, and wherever it throws.
LEMMA SettingsInRange ==
  ASSUME NEW f \in Files
  PROVE  /\ Settings(f).m_max_connecction >= MIN_CONNECTION
         /\ Settings(f).m_connection_timeout >= MIN_CONNECTION_TIMEOUT
<1>1. ASSUME NEW field \in DOMAIN f.numbers
      PROVE  f.numbers[field] \in Int
  <2>1. f.numbers \in Numbers
    BY DEF Files
  <2>2. PICK S \in SUBSET DOMAIN Position : f.numbers \in [S -> Ints]
    BY <2>1 DEF Numbers
  <2>3. QED
    BY <1>1, <2>2
<1>2. AtLeast(1, f, "max_connection", 100) >= 1
  BY <1>1 DEF AtLeast, Given, Larger
<1>3. AtLeast(1000, f, "connection_timeout", 60000) >= 1000
  BY <1>1 DEF AtLeast, Given, Larger
<1>4. QED
  BY <1>2, <1>3 DEF Settings, MIN_CONNECTION, MIN_CONNECTION_TIMEOUT

LimitsInv == file \in Files /\ LimitsInRange

\* The limits a server works with are at least their minimum
\* (config.cpp:71, 74, 82).
THEOREM LimitsHold == Spec => []LimitsInRange
<1>1. Init => LimitsInv
  BY DEF Init, LimitsInv, LimitsInRange
<1>2. LimitsInv /\ [Next]_vars => LimitsInv'
  <2> SUFFICES ASSUME LimitsInv, [Next]_vars PROVE LimitsInv'
    OBVIOUS
  <2>1. CASE ReadConfig
    BY <2>1, SettingsInRange DEF ReadConfig, LimitsInv, LimitsInRange
  <2>2. CASE Start
    <3>1. settings'.m_max_connecction = settings.m_max_connecction
          /\ settings'.m_connection_timeout = settings.m_connection_timeout
          /\ process # "new" /\ file' = file
      BY <2>2 DEF Start
    <3>2. QED
      BY <3>1 DEF LimitsInv, LimitsInRange
  <2>3. CASE file' = file /\ settings' = settings /\ (process' = "new" => process = "new")
             /\ (process = "new" => process' = "new")
    BY <2>3 DEF LimitsInv, LimitsInRange
  <2>4. NextEndpoint \/ FinishInit \/ Join \/ JoinThrows \/ StartReturns \/ Stop \/ UNCHANGED vars
        \/ (\E i \in DOMAIN m_threads : Worker(i))
        => file' = file /\ settings' = settings /\ (process' = "new" <=> process = "new")
    BY DEF NextEndpoint, Skip, Take, FinishInit, Join, JoinThrows, StartReturns, Stop, Worker, WorkerBlocks, WorkerResumes, WorkerEnds,
           Becomes,
           vars, initVars, runVars
  <2>5. QED
    BY <2>1, <2>2, <2>3, <2>4 DEF Next
<1>3. LimitsInv => LimitsInRange
  BY DEF LimitsInv
<1>4. QED
  BY <1>1, <1>2, <1>3, PTL DEF Spec

-----------------------------------------------------------------------------
(* The acceptors.                                                          *)

IsSeq(s) == Len(s) \in Nat /\ s = [i \in 1 .. Len(s) |-> s[i]]

LEMMA Appended ==
  ASSUME NEW s, NEW e, IsSeq(s)
  PROVE  /\ IsSeq(Append(s, e))
         /\ Len(Append(s, e)) = Len(s) + 1
         /\ \A i \in 1 .. Len(s) : Append(s, e)[i] = s[i]
         /\ Append(s, e)[Len(s) + 1] = e
<1> DEFINE S == {s[i] : i \in 1 .. Len(s)} \cup {e}
<1>1. s \in Seq(S) /\ e \in S
  <2>1. s \in [1 .. Len(s) -> S] /\ Len(s) \in Nat
    BY DEF IsSeq
  <2>2. e \in S
    OBVIOUS
  <2> HIDE DEF S
  <2>3. s \in Seq(S)
    BY <2>1
  <2>4. QED
    BY <2>2, <2>3
<1> HIDE DEF S
<1>2. /\ Append(s, e) \in Seq(S)
      /\ Len(Append(s, e)) = Len(s) + 1
      /\ \A i \in 1 .. Len(s) : Append(s, e)[i] = s[i]
      /\ Append(s, e)[Len(s) + 1] = e
  BY ONLY <1>1
<1> DEFINE t == Append(s, e)
<1>3. t \in Seq(S)
  BY <1>2
<1> HIDE DEF t
<1>4. IsSeq(t)
  BY <1>3 DEF IsSeq
<1>5. QED
  BY <1>2, <1>4 DEF t

IsAddress(a) == a = [family |-> a.family, addr |-> a.addr, port |-> a.port, handler |-> a.handler]

\* Every acceptor is bound to an address of the host, and none shares address
\* and port with an earlier one, unless the kernel chose its port.
Bound(acceptors) ==
  /\ IsSeq(acceptors)
  /\ \A i \in 1 .. Len(acceptors) : IsAddress(acceptors[i])
  /\ \A i \in 1 .. Len(acceptors) : Owns(acceptors[i].addr)
  /\ \A i \in 1 .. Len(acceptors) : \A j \in 1 .. i - 1 :
       \/ acceptors[i].port = 0
       \/ acceptors[j].addr # acceptors[i].addr
       \/ acceptors[j].port # acceptors[i].port

ReadyInv == Bound(m_acceptors) /\ ReadyMeansServing

LEMMA BindKeepsBound ==
  ASSUME Bound(m_acceptors), NEW a, Binds(a), IsAddress(a)
  PROVE  Bound(Append(m_acceptors, a))
<1> DEFINE more == Append(m_acceptors, a)
           n == Len(m_acceptors)
<1>1. IsSeq(m_acceptors) /\ n \in Nat /\ DOMAIN m_acceptors = 1 .. n
  BY DEF Bound, IsSeq
<1>2. /\ IsSeq(more) /\ Len(more) = n + 1
      /\ \A i \in 1 .. n : more[i] = m_acceptors[i]
      /\ more[n + 1] = a
  BY <1>1, Appended
<1>3. /\ Owns(a.addr)
      /\ a.port = 0 \/ \A i \in 1 .. n : m_acceptors[i].addr # a.addr \/ m_acceptors[i].port # a.port
  BY <1>1 DEF Binds
<1>4. /\ \A i \in 1 .. n : Owns(m_acceptors[i].addr) /\ IsAddress(m_acceptors[i])
      /\ \A i \in 1 .. n : \A j \in 1 .. i - 1 :
           \/ m_acceptors[i].port = 0
           \/ m_acceptors[j].addr # m_acceptors[i].addr
           \/ m_acceptors[j].port # m_acceptors[i].port
  BY DEF Bound
<1> HIDE DEF more, n
<1>5. ASSUME NEW i \in 1 .. n + 1 PROVE i \in 1 .. n \/ i = n + 1
  BY <1>1
<1>6. \A i \in 1 .. Len(more) : Owns(more[i].addr) /\ IsAddress(more[i])
  BY <1>2, <1>3, <1>4, <1>5
<1>7. ASSUME NEW i \in 1 .. n + 1, NEW j \in 1 .. i - 1
      PROVE  more[i].port = 0 \/ more[j].addr # more[i].addr \/ more[j].port # more[i].port
  <2>1. j \in 1 .. n
    BY <1>1
  <2>2. CASE i \in 1 .. n
    BY <1>2, <1>4, <2>1, <2>2
  <2>3. CASE i = n + 1
    BY <1>2, <1>3, <2>1, <2>3
  <2>4. QED
    BY <1>5, <2>2, <2>3
<1>8. QED
  BY <1>2, <1>6, <1>7 DEF Bound, more

LEMMA ReadyInvStep == ReadyInv /\ [Next]_vars => ReadyInv'
<1> SUFFICES ASSUME ReadyInv, [Next]_vars PROVE ReadyInv'
  OBVIOUS
<1>1. Bound(m_acceptors) /\ ReadyMeansServing
  BY DEF ReadyInv
<1>2. host' = host /\ (\A addr : Owns(addr)' <=> Owns(addr))
  <2>1. host' = host
    BY DEF Next, ReadConfig, NextEndpoint, FinishInit, Start, Join, JoinThrows, StartReturns,
           Worker, WorkerBlocks, WorkerResumes, WorkerEnds,
           Becomes, Stop, vars, initVars
  <2>2. QED
    BY <2>1 DEF Owns
<1>3. CASE NextEndpoint
  <2>1. process' # "ready"
    BY <1>3 DEF NextEndpoint, Skip, Take
  <2>2. ASSUME NEW e, Take(e), m_acceptors' # m_acceptors
        PROVE  /\ Binds(AddrOf(e)) /\ m_acceptors' = Append(m_acceptors, AddrOf(e))
               /\ IsAddress(AddrOf(e))
    BY <2>2 DEF Take, AddrOf, IsAddress
  <2>3. m_acceptors' # m_acceptors => \E e : Take(e)
    BY <1>3 DEF NextEndpoint, Skip
  <2>4. Bound(m_acceptors')
    BY <1>1, <2>2, <2>3, BindKeepsBound
  <2>5. Bound(m_acceptors)'
    BY <1>2, <2>4 DEF Bound, IsSeq
  <2>6. QED
    BY <2>1, <2>5 DEF ReadyInv, ReadyMeansServing
<1>4. CASE FinishInit
  <2>1. CASE process' = "aborted" /\ UNCHANGED m_acceptors
    <3>1. Bound(m_acceptors)'
      BY <1>1, <1>2, <2>1 DEF Bound, IsSeq
    <3>2. QED
      BY <2>1, <3>1 DEF ReadyInv, ReadyMeansServing
  <2>2. CASE /\ Binds(FixedEndpoint)
             /\ m_acceptors' = WithHandlers(Append(m_acceptors, FixedEndpoint))
    <3> DEFINE all == Append(m_acceptors, FixedEndpoint)
               n == Len(m_acceptors)
    <3>1. Bound(all)
      <4>1. IsAddress(FixedEndpoint)
        BY DEF IsAddress, FixedEndpoint
      <4>2. QED
        BY <1>1, <2>2, <4>1, BindKeepsBound
    <3>2. Len(all) = n + 1 /\ n \in Nat /\ all[n + 1] = FixedEndpoint /\ IsSeq(all)
      BY <1>1, Appended DEF Bound, IsSeq
    <3> HIDE DEF all, n
    <3>3. m_acceptors' = [i \in 1 .. Len(all) |-> [all[i] EXCEPT !.handler = TRUE]]
      BY <2>2, <3>2 DEF WithHandlers, IsSeq, all
    <3>4. Len(m_acceptors') = Len(all) /\ DOMAIN m_acceptors' = 1 .. Len(all)
      BY <3>2, <3>3
    <3>5. ASSUME NEW i \in 1 .. Len(all)
          PROVE  /\ m_acceptors'[i].addr = all[i].addr /\ m_acceptors'[i].port = all[i].port
                 /\ m_acceptors'[i].handler /\ IsAddress(m_acceptors'[i])
      <4> DEFINE a == all[i]
      <4>1. IsAddress(a)
        BY <3>1 DEF Bound
      <4>2. m_acceptors'[i] = [a EXCEPT !.handler = TRUE]
        BY <3>3
      <4> HIDE DEF a
      <4>3. m_acceptors'[i] = [family |-> a.family, addr |-> a.addr, port |-> a.port, handler |-> TRUE]
        BY <4>1, <4>2 DEF IsAddress
      <4>4. QED
        BY <4>3 DEF IsAddress, a
    <3>6. Bound(m_acceptors)'
      <4>1. IsSeq(m_acceptors')
        BY <3>2, <3>3, <3>4 DEF IsSeq
      <4>2. ASSUME NEW i \in 1 .. Len(all)
            PROVE  Owns(m_acceptors[i].addr)' /\ IsAddress(m_acceptors[i])'
        <5>1. Owns(all[i].addr)
          BY <3>1 DEF Bound
        <5>2. m_acceptors'[i].addr = all[i].addr /\ IsAddress(m_acceptors[i])'
          BY <3>5 DEF IsAddress
        <5>3. Owns(m_acceptors[i].addr)'
          BY <1>2, <5>1, <5>2 DEF Owns
        <5>4. QED
          BY <5>2, <5>3
      <4>3. ASSUME NEW i \in 1 .. Len(all), NEW j \in 1 .. i - 1
            PROVE  \/ m_acceptors'[i].port = 0
                   \/ m_acceptors'[j].addr # m_acceptors'[i].addr
                   \/ m_acceptors'[j].port # m_acceptors'[i].port
        <5>1. j \in 1 .. Len(all)
          BY <3>2
        <5>2. all[i].port = 0 \/ all[j].addr # all[i].addr \/ all[j].port # all[i].port
          BY <3>1 DEF Bound
        <5>3. QED
          BY <3>5, <5>1, <5>2
      <4>4. /\ \A i \in 1 .. Len(m_acceptors') : Owns(m_acceptors[i].addr)' /\ IsAddress(m_acceptors[i])'
            /\ \A i \in 1 .. Len(m_acceptors') : \A j \in 1 .. i - 1 :
                 \/ m_acceptors'[i].port = 0
                 \/ m_acceptors'[j].addr # m_acceptors'[i].addr
                 \/ m_acceptors'[j].port # m_acceptors'[i].port
        BY <3>4, <4>2, <4>3
      <4>5. QED
        BY <4>1, <4>4 DEF Bound, IsAddress, IsSeq
    <3>7. m_acceptors'[n + 1].addr = FixedAddr /\ m_acceptors'[n + 1].port = FixedPort
          /\ n + 1 \in DOMAIN m_acceptors'
      BY <3>2, <3>4, <3>5 DEF FixedEndpoint
    <3>8. Owns(FixedAddr)
      BY <2>2 DEF Binds, FixedEndpoint
    <3>9. \A i \in DOMAIN m_acceptors' : m_acceptors'[i].handler
      BY <3>4, <3>5
    <3>10. ReadyMeansServing'
      BY <1>2, <3>6, <3>7, <3>8, <3>9 DEF ReadyMeansServing, Bound
    <3>11. QED
      BY <3>6, <3>10 DEF ReadyInv
  <2>3. QED
    BY <1>4, <2>1, <2>2 DEF FinishInit
<1>5. CASE UNCHANGED m_acceptors /\ (process' = "ready" => process = "ready")
  <2>1. Bound(m_acceptors)'
    BY <1>1, <1>2, <1>5 DEF Bound, IsSeq
  <2>2. ReadyMeansServing'
    BY <1>1, <1>2, <1>5 DEF ReadyMeansServing
  <2>3. QED
    BY <2>1, <2>2 DEF ReadyInv
<1>6. ReadConfig \/ Start \/ Join \/ JoinThrows \/ StartReturns \/ Stop \/ UNCHANGED vars
      \/ (\E i \in DOMAIN m_threads : Worker(i))
      => UNCHANGED m_acceptors /\ (process' = "ready" => process = "ready")
  BY DEF ReadConfig, Start, Join, JoinThrows, StartReturns, Stop, Worker, WorkerBlocks, WorkerResumes, WorkerEnds,
           Becomes, vars, initVars
<1>7. QED
  BY <1>3, <1>4, <1>5, <1>6 DEF Next

\* When init returns, every acceptor listens on an address of this host that
\* no other has, and has its handler; the address in the code is one of them
\* (server.cpp:37-80).
THEOREM InitMakesServing == Spec => []ReadyMeansServing
<1>1. Init => ReadyInv
  BY DEF Init, ReadyInv, Bound, IsSeq, ReadyMeansServing
<1>2. ReadyInv => ReadyMeansServing
  BY DEF ReadyInv
<1>3. QED
  BY <1>1, <1>2, ReadyInvStep, PTL DEF Spec

-----------------------------------------------------------------------------
(* Types.                                                                  *)

Limits == [m_proc_num : Int, m_log_level : Int, m_max_connecction : Int,
           m_connection_timeout : Int, m_max_request_per_second : Nat]

\* What config::init makes of any file is numbers.
LEMMA SettingsAreNumbers ==
  ASSUME NEW f \in Files
  PROVE  Settings(f) \in Limits
<1>1. ASSUME NEW field, Given(f, field)
      PROVE  f.numbers[field] \in Int
  <2>1. f.numbers \in Numbers
    BY DEF Files
  <2>2. PICK S \in SUBSET DOMAIN Position : f.numbers \in [S -> Ints]
    BY <2>1 DEF Numbers
  <2>3. QED
    BY <1>1, <2>2 DEF Given
<1>2. /\ AtLeast(Nprocs, f, "procnum", Nprocs) \in Int
      /\ AtLeast(1, f, "max_connection", 100) \in Int
      /\ AtLeast(1000, f, "connection_timeout", 60000) \in Int
  BY <1>1 DEF AtLeast, Larger
<1>3. LogLevel(f) \in Int
  <2> DEFINE v == f.numbers["level"]
             low == Larger(0, v)
  <2>1. CASE Given(f, "level")
    <3>1. v \in Int
      BY <1>1, <2>1
    <3>2. low \in Int
      BY <3>1 DEF Larger
    <3> HIDE DEF v, low
    <3>3. Smaller(low, v) \in Int
      BY <3>1, <3>2 DEF Smaller
    <3>4. QED
      BY <2>1, <3>3 DEF LogLevel, v, low
  <2>2. CASE ~Given(f, "level")
    BY <2>2 DEF LogLevel
  <2>3. QED
    BY <2>1, <2>2
<1>4. QED
  BY <1>2, <1>3 DEF Settings, Limits, MIN_CONNECTION, MIN_CONNECTION_TIMEOUT

\* An acceptor's port is one of 16 bits, whatever number the file has.
LEMMA PortsAreShort ==
  /\ FixedEndpoint.port \in 0 .. PortMod - 1
  /\ \A e : (e.port \in Int => AddrOf(e).port \in 0 .. PortMod - 1)
<1>1. FixedEndpoint.port \in 0 .. PortMod - 1
  BY DEF FixedEndpoint
<1>2. ASSUME NEW e, e.port \in Int PROVE AddrOf(e).port \in 0 .. PortMod - 1
  <2>1. PortOf(e) \in Int
    BY <1>2 DEF PortOf
  <2>2. AddrOf(e).port = PortOf(e) % PortMod
    BY DEF AddrOf
  <2>3. QED
    BY <2>1, <2>2
<1>3. QED
  BY <1>1, <1>2

\* The rest of a list of endpoints is one too.
Parsed == [colon : BOOLEAN, name : STRING, slash : BOOLEAN, numeric : BOOLEAN,
           port : Int, proto : STRING]

Shaped(a) == a.port \in 0 .. PortMod - 1 /\ a.handler \in BOOLEAN

TypeInv ==
  /\ TypeOK
  /\ file \in Files
  /\ todo \in Seq(Parsed)

LEMMA AcceptorAdded ==
  ASSUME Bound(m_acceptors), TypeOK, NEW a, Shaped(a)
  PROVE  \A i \in DOMAIN Append(m_acceptors, a) : Shaped(Append(m_acceptors, a)[i])
<1> DEFINE more == Append(m_acceptors, a)
           n == Len(m_acceptors)
<1>1. IsSeq(m_acceptors) /\ n \in Nat /\ DOMAIN m_acceptors = 1 .. n
  BY DEF Bound, IsSeq
<1>2. /\ IsSeq(more) /\ Len(more) = n + 1
      /\ \A i \in 1 .. n : more[i] = m_acceptors[i]
      /\ more[n + 1] = a
  BY <1>1, Appended
<1>3. \A i \in 1 .. n : Shaped(m_acceptors[i])
  BY <1>1 DEF TypeOK, Shaped
<1> HIDE DEF more, n
<1>4. DOMAIN more = 1 .. n + 1
  BY <1>2 DEF IsSeq
<1>5. \A i \in 1 .. n + 1 : i \in 1 .. n \/ i = n + 1
  BY <1>1
<1>6. QED
  BY <1>2, <1>3, <1>4, <1>5 DEF more

LEMMA TypeInvStep == TypeInv /\ StartInv /\ ReadyInv /\ [Next]_vars => TypeInv'
<1> SUFFICES ASSUME TypeInv, StartInv, ReadyInv, [Next]_vars PROVE TypeInv'
  OBVIOUS
<1> DEFINE S == ThreadState
<1>1. /\ settings \in Limits /\ m_stop_flag \in BOOLEAN
      /\ \A i \in DOMAIN m_acceptors : Shaped(m_acceptors[i])
      /\ m_threads \in Seq(S) /\ Len(m_threads) \in Nat
      /\ joining \in 0 .. Len(m_threads) + 1
      /\ starts \in 0 .. MaxStarts
      /\ process \in {"new", "endpoints", "ready", "joining", "returned", "terminated", "aborted"}
      /\ file \in Files /\ todo \in Seq(Parsed)
      /\ Bound(m_acceptors) /\ TypeOK
  BY DEF TypeInv, TypeOK, ReadyInv, Limits, Shaped
<1>2. CASE ReadConfig
  <2>1. settings' \in Limits
    BY <1>1, <1>2, SettingsAreNumbers DEF ReadConfig
  <2>2. todo' \in Seq(Parsed)
    <3>1. file.endpoints \in EndpointLists
      BY <1>1 DEF Files
    <3>2. file.endpoints \in Seq(Parsed)
      BY <3>1 DEF Parsed
    <3>3. QED
      BY <1>2, <3>2 DEF ReadConfig
  <2>3. /\ process' = "endpoints"
        /\ UNCHANGED <<file, m_acceptors, m_stop_flag, m_threads, joining, starts>>
    BY <1>2 DEF ReadConfig, runVars
  <2>4. QED
    BY <1>1, <2>1, <2>2, <2>3 DEF TypeInv, TypeOK, Limits, Shaped
<1>3. CASE NextEndpoint
  <2>1. /\ todo # <<>> /\ todo' = Tail(todo)
        /\ UNCHANGED <<file, settings, m_stop_flag, m_threads, joining, starts>>
        /\ process' \in {"endpoints", "terminated", "aborted"}
    BY <1>3 DEF NextEndpoint, Skip, Take, runVars
  <2>2. Head(todo) \in Parsed /\ todo' \in Seq(Parsed)
    <3> HIDE DEF S
    <3>1. todo \in Seq(Parsed) /\ todo # <<>>
      BY <1>1, <2>1
    <3>2. Head(todo) \in Parsed /\ Tail(todo) \in Seq(Parsed)
      BY ONLY <3>1
    <3>3. QED
      BY <2>1, <3>2
  <2>3. m_acceptors' = m_acceptors \/ m_acceptors' = Append(m_acceptors, AddrOf(Head(todo)))
    BY <1>3 DEF NextEndpoint, Skip, Take
  <2>4. Shaped(AddrOf(Head(todo)))
    <3>1. Head(todo).port \in Int
      BY <2>2 DEF Parsed
    <3>2. AddrOf(Head(todo)).port \in 0 .. PortMod - 1
      BY <3>1, PortsAreShort
    <3>3. AddrOf(Head(todo)).handler = FALSE
      BY DEF AddrOf
    <3>4. QED
      BY <3>2, <3>3 DEF Shaped
  <2>5. \A i \in DOMAIN m_acceptors' : Shaped(m_acceptors'[i])
    BY <1>1, <2>3, <2>4, AcceptorAdded
  <2>6. QED
    BY <1>1, <2>1, <2>2, <2>5 DEF TypeInv, TypeOK, Limits, Shaped
<1>4. CASE FinishInit
  <2>1. /\ UNCHANGED <<file, settings, todo, m_stop_flag, m_threads, joining, starts>>
        /\ process' \in {"ready", "aborted"}
        /\ \/ m_acceptors' = m_acceptors
           \/ m_acceptors' = WithHandlers(Append(m_acceptors, FixedEndpoint))
    BY <1>4 DEF FinishInit, runVars
  <2> DEFINE more == Append(m_acceptors, FixedEndpoint)
  <2>2. \A i \in DOMAIN more : Shaped(more[i]) /\ IsAddress(more[i])
    <3>1. Shaped(FixedEndpoint) /\ IsAddress(FixedEndpoint)
      BY PortsAreShort DEF Shaped, FixedEndpoint, IsAddress
    <3>2. \A i \in DOMAIN more : Shaped(more[i])
      BY <1>1, <3>1, AcceptorAdded
    <3>3. \A i \in DOMAIN more : IsAddress(more[i])
      <4> DEFINE n == Len(m_acceptors)
      <4>1. IsSeq(m_acceptors) /\ n \in Nat /\ \A i \in 1 .. n : IsAddress(m_acceptors[i])
        BY <1>1 DEF Bound, IsSeq
      <4>2. /\ IsSeq(more) /\ Len(more) = n + 1
            /\ \A i \in 1 .. n : more[i] = m_acceptors[i]
            /\ more[n + 1] = FixedEndpoint
        BY <4>1, Appended
      <4> HIDE DEF more, n
      <4>3. DOMAIN more = 1 .. n + 1 /\ \A i \in 1 .. n + 1 : i \in 1 .. n \/ i = n + 1
        BY <4>1, <4>2 DEF IsSeq
      <4>4. QED
        BY <3>1, <4>1, <4>2, <4>3
    <3>4. QED
      BY <3>2, <3>3
  <2> HIDE DEF more
  <2>3. \A i \in DOMAIN WithHandlers(more) : Shaped(WithHandlers(more)[i])
    <3> SUFFICES ASSUME NEW i \in DOMAIN WithHandlers(more) PROVE Shaped(WithHandlers(more)[i])
      OBVIOUS
    <3> DEFINE a == more[i]
    <3>1. i \in DOMAIN more /\ WithHandlers(more)[i] = [a EXCEPT !.handler = TRUE]
      BY DEF WithHandlers
    <3>2. Shaped(a)
      BY <2>2, <3>1
    <3>3. IsAddress(a)
      BY <2>2, <3>1
    <3> HIDE DEF a
    <3>4. WithHandlers(more)[i]
            = [family |-> a.family, addr |-> a.addr, port |-> a.port, handler |-> TRUE]
      BY <3>1, <3>3 DEF IsAddress
    <3>5. QED
      BY <3>2, <3>4 DEF Shaped
  <2>4. \A i \in DOMAIN m_acceptors' : Shaped(m_acceptors'[i])
    BY <1>1, <2>1, <2>3 DEF more
  <2>5. QED
    BY <1>1, <2>1, <2>4 DEF TypeInv, TypeOK, Limits, Shaped
<1>5. CASE Start
  <2> DEFINE new == [i \in 1 .. Threads |-> "running"]
  <2>1. /\ m_threads' = m_threads \o new /\ starts' = starts + 1 /\ joining' = 1
        /\ process' = "joining" /\ m_stop_flag' = FALSE /\ starts < MaxStarts
        /\ settings' = [settings EXCEPT !.m_proc_num = Threads]
        /\ UNCHANGED <<file, todo, m_acceptors>>
    BY <1>5 DEF Start, Started
  <2>2. m_threads' \in Seq(S) /\ Len(m_threads') \in Nat
    <3>1. new \in Seq(S)
      BY DEF ThreadState
    <3> HIDE DEF S, new
    <3>2. m_threads \o new \in Seq(S) /\ Len(m_threads \o new) \in Nat
      BY <1>1, <3>1
    <3>3. QED
      BY <2>1, <3>2
  <2>3. settings' \in Limits
    <3>1. Threads \in Int
      OBVIOUS
    <3>2. QED
      BY <1>1, <2>1, <3>1 DEF Limits
  <2>4. joining' \in 0 .. Len(m_threads') + 1 /\ starts' \in 0 .. MaxStarts
    BY <1>1, <2>1, <2>2
  <2>5. QED
    BY <1>1, <2>1, <2>2, <2>3, <2>4 DEF TypeInv, TypeOK, Limits, Shaped
<1>6. CASE Join
  <2>1. /\ joining <= Len(m_threads) /\ process = "joining"
        /\ m_threads' = [m_threads EXCEPT ![joining] = "joined"]
        /\ joining' = joining + 1
        /\ UNCHANGED <<file, settings, todo, m_acceptors, m_stop_flag, starts, process>>
    BY <1>6 DEF Join, Joined, initVars
  <2>2. joining \in Nat \ {0}
    BY <2>1 DEF StartInv
  <2>3. joining \in DOMAIN m_threads
    BY <1>1, <2>1, <2>2
  <2>4. m_threads' \in Seq(S) /\ Len(m_threads') = Len(m_threads)
    BY <1>1, <2>1, <2>3, OneThread DEF ThreadState
  <2>5. joining' \in 0 .. Len(m_threads') + 1
    BY <1>1, <2>1, <2>2, <2>4
  <2>6. QED
    BY <1>1, <2>1, <2>4, <2>5 DEF TypeInv, TypeOK, Limits, Shaped
<1>7. ASSUME NEW i \in DOMAIN m_threads, Worker(i) PROVE TypeInv'
  <2>1. PICK state \in {"running", "blocked", "finished"} :
          /\ m_threads' = [m_threads EXCEPT ![i] = state]
          /\ UNCHANGED <<file, settings, todo, m_acceptors, m_stop_flag, joining, starts, process>>
    BY <1>7 DEF Worker, WorkerBlocks, WorkerResumes, WorkerEnds, Becomes, initVars
  <2>2. m_threads' \in Seq(S) /\ Len(m_threads') = Len(m_threads)
    <3>1. state \in ThreadState
      BY DEF ThreadState
    <3>2. QED
      BY <1>1, <2>1, <3>1, OneThread
  <2>3. QED
    BY <1>1, <2>1, <2>2 DEF TypeInv, TypeOK, Limits, Shaped
<1>8. CASE JoinThrows \/ StartReturns
  BY <1>1, <1>8 DEF JoinThrows, StartReturns, initVars, runVars, TypeInv, TypeOK, Limits, Shaped
<1>9. CASE Stop
  BY <1>1, <1>9 DEF Stop, initVars, TypeInv, TypeOK, Limits, Shaped
<1>10. CASE UNCHANGED vars
  BY <1>1, <1>10 DEF vars, initVars, runVars, TypeInv, TypeOK, Limits, Shaped
<1>11. QED
  BY <1>2, <1>3, <1>4, <1>5, <1>6, <1>7, <1>8, <1>9, <1>10 DEF Next

\* The members of server have their types: limits are numbers whatever the file
\* holds, ports have 16 bits, and join never looks behind the last thread
\* (config.cpp:39-101, server.cpp:48-63, thread_poll.cpp:14-18).
THEOREM TypeCorrect == Spec => []TypeOK
<1>1. Init => TypeInv /\ StartInv /\ ReadyInv
  <2> SUFFICES ASSUME Init PROVE TypeInv /\ StartInv /\ ReadyInv
    OBVIOUS
  <2>1. TypeInv
    BY DEF Init, TypeInv, TypeOK, Unset
  <2>2. QED
    BY <2>1, StartInvInit DEF Init, ReadyInv, Bound, IsSeq, ReadyMeansServing
<1>2. TypeInv => TypeOK
  BY DEF TypeInv
<1>3. QED
  BY <1>1, <1>2, StartInvStep, ReadyInvStep, TypeInvStep, PTL DEF Spec
-----------------------------------------------------------------------------
(* The owners of descriptors, from the acceptor to ~server.                *)

HIDE DEF StartupAssumption, ConfigAssumption
USE OwnershipAssumption DEF OwnershipAssumption

\* The kernel gives out a number that is free, and the lowest one.
LEMMA LowestIsFree ==
  ASSUME NEW S, S \subseteq Fds, S # {}
  PROVE  Min(S) \in S /\ \A n \in S : Min(S) <= n
<1> DEFINE R == OpToRel(<, Nat)
<1>1. IsWellFoundedOn(R, Nat)
  BY NatLessThanWellFounded
<1>2. S \subseteq Nat
  BY DEF Fds
<1> HIDE DEF R
<1>3. PICK x \in S : \A y \in S : ~(<<y, x>> \in R)
  BY <1>1, <1>2, WFMin
<1>4. \A y \in S : x <= y
  <2> SUFFICES ASSUME NEW y \in S, y < x PROVE FALSE
    BY <1>2
  <2>1. <<y, x>> \in R
    BY <1>2 DEF R, OpToRel
  <2>2. QED
    BY <1>3, <2>1
<1>5. QED
  BY <1>4 DEF Min

LEMMA NewFdIsFree ==
  ASSUME NEW fd \in NewFd PROVE fd \in Fds /\ fd \notin open
<1>1. ~(Fds \subseteq open) /\ fd = Min(Fds \ open)
  BY DEF NewFd
<1>2. Fds \ open \subseteq Fds /\ Fds \ open # {}
  BY <1>1
<1>3. QED
  BY <1>1, <1>2, LowestIsFree

\* Sockets that are not yet connections have numbers above zero; a worker in
\* its loop, which includes those that have left it, has no vector.
VectorInv ==
  \A w \in Workers :
    /\ \A i \in DOMAIN sockets[w] : at[w] <= i => sockets[w][i] > 0
    /\ at[w] = 0 => sockets[w] = <<>>
    /\ w \in exited => at[w] = 0

\* Zero is the standard input or the acceptor.
ZeroIsKept == 0 \in inherited \cup {acceptor}

FdInv == OneOwner /\ NeverZero /\ VectorInv /\ ZeroIsKept

LEMMA FdInvInit == FdInit => FdInv
<1> SUFFICES ASSUME FdInit PROVE FdInv
  OBVIOUS
<1> USE DEF FdInit
<1>1. 1 \in Fds \ inherited /\ Fds \ inherited \subseteq Fds
  BY DEF Fds
<1>2. acceptor \in Fds \ inherited /\ \A n \in Fds \ inherited : acceptor <= n
  BY <1>1, LowestIsFree
<1>3. ZeroIsKept
  <2>1. CASE inherited = {0}
    BY <2>1 DEF ZeroIsKept
  <2>2. CASE inherited = {}
    <3>1. 0 \in Fds \ inherited
      BY <2>2 DEF Fds
    <3>2. acceptor <= 0 /\ acceptor \in 0 .. MaxFd
      BY <1>2, <3>1 DEF Fds
    <3>3. acceptor = 0
      BY <3>2
    <3>4. QED
      BY <3>3 DEF ZeroIsKept
  <2>3. QED
    BY <2>1, <2>2
<1>4. \A w \in Workers : Owned(w) = {} /\ Held(w) = {}
  BY DEF Owned, Held, Range
<1>5. FdTypes
  <2>1. inherited \subseteq Fds
    BY DEF Fds
  <2>2. sockets \in [Workers -> Seq(Fds \cup {NoFd})]
    BY DEF Fds
  <2>3. \A w \in Workers : at[w] \in -1 .. Len(sockets[w]) + 1
    OBVIOUS
  <2>4. open \subseteq Fds /\ acceptor \in Fds
    BY <1>2, <2>1
  <2>5. QED
    BY <2>1, <2>2, <2>3, <2>4 DEF FdTypes
<1>6. OneOwner
  BY <1>2, <1>4, <1>5 DEF OneOwner, Owners
<1>7. QED
  BY <1>3, <1>6 DEF FdInv, NeverZero, VectorInv

\* What worker w takes was nobody's, and what it gives up is closed.
LEMMA OwnersFollow ==
  ASSUME FdTypes, Owners, NEW w \in Workers, NEW new, NEW old,
         UNCHANGED <<inherited, acceptor>>,
         new \cap open = {}, old \subseteq Owned(w),
         open' = (open \cup new) \ old,
         Owned(w)' = (Owned(w) \cup new) \ old,
         \A v \in Workers \ {w} : Owned(v)' = Owned(v),
         \A v \in Workers : (Held(v) \cap connections[v] = {})',
         \A v \in Workers : \A i, j \in DOMAIN sockets'[v] :
           i # j /\ sockets'[v][i] # NoFd => sockets'[v][i] # sockets'[v][j]
  PROVE  Owners'
<1>1. \A v \in Workers : Owned(v) \subseteq open
  BY DEF Owners
<1>2. open' = inherited \cup {acceptor} \cup UNION {Owned(v)' : v \in Workers}
  <2>1. \A fd : fd \in open <=> fd \in inherited \cup {acceptor} \/ \E v \in Workers : fd \in Owned(v)
    BY DEF Owners
  <2>2. \A fd \in old : fd \notin inherited \cup {acceptor} /\ \A v \in Workers \ {w} : fd \notin Owned(v)
    BY DEF Owners
  <2>3. \A fd : fd \in open' <=>
          fd \in inherited \cup {acceptor} \/ \E v \in Workers : fd \in Owned(v)'
    BY <2>1, <2>2
  <2>4. QED
    BY <2>3
<1>3. \A v \in Workers : Owned(v)' \cap (inherited \cup {acceptor}) = {}
  BY DEF Owners
<1>4. \A u \in Workers : \A v \in Workers \ {u} : Owned(v)' \cap Owned(u)' = {}
  BY <1>1 DEF Owners
<1>5. QED
  BY <1>2, <1>3, <1>4 DEF Owners
LEMMA RangeAppend ==
  ASSUME NEW S, NEW s \in Seq(S), NEW e \in S
  PROVE  Range(Append(s, e)) = Range(s) \cup {e}
<1>1. DOMAIN Append(s, e) = DOMAIN s \cup {Len(s) + 1}
  OBVIOUS
<1>2. Append(s, e)[Len(s) + 1] = e /\ \A i \in DOMAIN s : Append(s, e)[i] = s[i]
  OBVIOUS
<1>3. QED
  BY <1>1, <1>2 DEF Range

LEMMA NoVectorNoneHeld == \A w \in Workers : sockets[w] = <<>> => Held(w) = {} /\ Range(sockets[w]) = {}
  BY DEF Held, Range

LEMMA AcceptStep ==
  ASSUME FdInv, NEW w \in Workers, Accept(w) PROVE FdInv'
<1>0. FdTypes /\ VectorInv /\ ZeroIsKept /\ (fate = "runs" => Owners)
  BY DEF FdInv, OneOwner
<1>1. PICK fd \in NewFd :
        LET grows == Len(sockets[w]) = room[w]
            left  == IF grows THEN {LeftBehind(old) : old \in Range(sockets[w])} ELSE {}
        IN
          /\ sockets' = [sockets EXCEPT ![w] = Append(@, fd)]
          /\ room' = IF grows THEN [room EXCEPT ![w] = IF @ = 0 THEN 1 ELSE 2 * @] ELSE room
          /\ open' = (open \cup {fd}) \ ClosedWith(left)
  BY DEF Accept
<1>2. /\ fate = "runs" /\ at[w] = -1
      /\ UNCHANGED <<inherited, acceptor, connections, at, exited, fate>>
  BY DEF Accept
<1>3. fd \in Fds /\ fd \notin open
  BY NewFdIsFree
<1>s. sockets \in [Workers -> Seq(Fds \cup {NoFd})] /\ sockets[w] \in Seq(Fds \cup {NoFd})
  BY <1>0 DEF FdTypes
<1>4. fd > 0
  BY <1>0, <1>2, <1>3 DEF ZeroIsKept, Owners, Fds
<1>5. open' = open \cup {fd}
  BY <1>1 DEF ClosedWith, LeftBehind
<1>6. FdTypes'
  <2>1. sockets' \in [Workers -> Seq(Fds \cup {NoFd})]
    <3>1. Append(sockets[w], fd) \in Seq(Fds \cup {NoFd})
      BY <1>3, <1>s
    <3>2. QED
      BY <1>1, <1>s, <3>1
  <2>2. \A v \in Workers : at'[v] \in -1 .. Len(sockets'[v]) + 1
    BY <1>0, <1>1, <1>2, <1>3 DEF FdTypes
  <2>3. room' \in [Workers -> Nat]
    <3>1. room \in [Workers -> Nat] /\ room[w] \in Nat
      BY <1>0 DEF FdTypes
    <3>2. (IF room[w] = 0 THEN 1 ELSE 2 * room[w]) \in Nat
      BY <3>1
    <3>3. QED
      BY <1>1, <3>1, <3>2
  <2>4. QED
    BY <1>0, <1>2, <1>3, <1>5, <2>1, <2>2, <2>3 DEF FdTypes
<1>7. /\ sockets'[w] = Append(sockets[w], fd)
      /\ \A v \in Workers \ {w} : sockets'[v] = sockets[v]
  BY <1>0, <1>1 DEF FdTypes
<1>8. /\ Held(w)' = Held(w) \cup {fd} /\ Owned(w)' = Owned(w) \cup {fd}
      /\ \A v \in Workers \ {w} : Held(v)' = Held(v) /\ Owned(v)' = Owned(v)
  <2>1. Range(sockets'[w]) = Range(sockets[w]) \cup {fd}
    BY <1>3, <1>7, <1>s, RangeAppend
  <2>2. fd # NoFd
    BY <1>3 DEF Fds, NoFd
  <2>3. QED
    BY <1>2, <1>7, <2>1, <2>2 DEF Held, Owned
<1>9. \A v \in Workers : Owned(v) \subseteq open
  BY <1>0, <1>2 DEF Owners
<1>10. Owners'
  <2>1. \A v \in Workers : (Held(v) \cap connections[v] = {})'
    BY <1>0, <1>2, <1>3, <1>8, <1>9 DEF Owners, Owned
  <2>2. \A v \in Workers : \A i, j \in DOMAIN sockets'[v] :
          i # j /\ sockets'[v][i] # NoFd => sockets'[v][i] # sockets'[v][j]
    <3>1. \A i \in DOMAIN sockets[w] : sockets[w][i] # fd
      BY <1>3, <1>4, <1>9 DEF Owned, Held, Range, NoFd
    <3>2. /\ DOMAIN sockets'[w] = DOMAIN sockets[w] \cup {Len(sockets[w]) + 1}
          /\ sockets'[w][Len(sockets[w]) + 1] = fd
          /\ \A i \in DOMAIN sockets[w] : sockets'[w][i] = sockets[w][i]
      BY <1>3, <1>7, <1>s
    <3>3. QED
      BY <1>0, <1>2, <1>7, <3>1, <3>2 DEF Owners
  <2>3. Owned(w)' = (Owned(w) \cup {fd}) \ {} /\ open' = (open \cup {fd}) \ {}
    BY <1>5, <1>8
  <2>4. {fd} \cap open = {}
    BY <1>3
  <2>5. QED
    BY <1>2, <1>8, <2>1, <2>2, <2>3, <2>4, <1>0, OwnersFollow
<1>11. VectorInv'
  <2>1. \A i \in DOMAIN sockets'[w] : sockets'[w][i] > 0
    <3>1. \A i \in DOMAIN sockets[w] : sockets[w][i] > 0
      BY <1>0, <1>2 DEF VectorInv, FdTypes
    <3>2. QED
      BY <1>3, <1>4, <1>7, <1>s, <3>1
  <2>2. QED
    BY <1>0, <1>2, <1>7, <2>1 DEF VectorInv
<1>12. QED
  BY <1>0, <1>2, <1>6, <1>10, <1>11 DEF ZeroIsKept, FdInv, OneOwner, NeverZero

LEMMA AdoptStep ==
  ASSUME FdInv, NEW w \in Workers, Adopt(w) PROVE FdInv'
<1>0. FdTypes /\ VectorInv /\ ZeroIsKept /\ (fate = "runs" => Owners)
  BY DEF FdInv, OneOwner
<1> DEFINE k == at[w]
           fd == sockets[w][k]
<1>1. /\ fate = "runs" /\ k \in DOMAIN sockets[w]
      /\ sockets' = [sockets EXCEPT ![w][k] = LeftBehind(@)]
      /\ at' = [at EXCEPT ![w] = @ + 1]
      /\ UNCHANGED <<open, inherited, acceptor, room, exited>>
  BY DEF Adopt
<1>2. fd > 0 /\ fd \in Fds /\ fd # NoFd
  BY <1>0, <1>1 DEF VectorInv, FdTypes, NoFd
<1>3. connections' = [connections EXCEPT ![w] = @ \cup {fd}] /\ UNCHANGED fate
  BY <1>2 DEF Adopt, Fds
<1>4. /\ DOMAIN sockets'[w] = DOMAIN sockets[w] /\ Len(sockets'[w]) = Len(sockets[w])
      /\ sockets'[w][k] = NoFd
      /\ \A i \in DOMAIN sockets[w] \ {k} : sockets'[w][i] = sockets[w][i]
      /\ \A v \in Workers \ {w} : sockets'[v] = sockets[v]
  BY <1>0, <1>1 DEF FdTypes, LeftBehind
<1>5. /\ connections'[w] = connections[w] \cup {fd}
      /\ \A v \in Workers \ {w} : connections'[v] = connections[v]
  BY <1>0, <1>3 DEF FdTypes
<1>6. at'[w] = k + 1 /\ \A v \in Workers \ {w} : at'[v] = at[v]
  BY <1>0, <1>1 DEF FdTypes
<1>7. FdTypes'
  <2>1. sockets' \in [Workers -> Seq(Fds \cup {NoFd})]
    BY <1>0, <1>1 DEF FdTypes, LeftBehind
  <2>2. connections' \in [Workers -> SUBSET Fds]
    BY <1>0, <1>2, <1>3 DEF FdTypes
  <2>3. at' \in [Workers -> Int] /\ \A v \in Workers : at'[v] \in -1 .. Len(sockets'[v]) + 1
    BY <1>0, <1>1, <1>4, <1>6 DEF FdTypes
  <2>4. QED
    BY <1>0, <1>1, <1>3, <2>1, <2>2, <2>3 DEF FdTypes
<1>8. Held(w)' = Held(w) \ {fd} /\ fd \in Held(w)
  <2>1. \A i \in DOMAIN sockets[w] \ {k} : sockets[w][i] # fd
    BY <1>0, <1>1, <1>2 DEF Owners
  <2>2. QED
    BY <1>1, <1>2, <1>4, <2>1 DEF Held, Range
<1>9. /\ Owned(w)' = Owned(w)
      /\ \A v \in Workers \ {w} : Held(v)' = Held(v) /\ Owned(v)' = Owned(v)
  BY <1>4, <1>5, <1>8 DEF Owned, Held
<1>10. Owners'
  <2>1. \A v \in Workers : (Held(v) \cap connections[v] = {})'
    BY <1>0, <1>1, <1>5, <1>8, <1>9 DEF Owners
  <2>2. \A v \in Workers : \A i, j \in DOMAIN sockets'[v] :
          i # j /\ sockets'[v][i] # NoFd => sockets'[v][i] # sockets'[v][j]
    BY <1>0, <1>1, <1>4 DEF Owners
  <2>3. Owned(w)' = (Owned(w) \cup {}) \ {} /\ open' = (open \cup {}) \ {}
    BY <1>1, <1>9
  <2>4. {} \cap open = {} /\ {} \subseteq Owned(w)
    OBVIOUS
  <2>5. UNCHANGED <<inherited, acceptor>>
    BY <1>1
  <2>6. QED
    BY <1>0, <1>1, <1>9, <2>1, <2>2, <2>3, <2>4, <2>5, OwnersFollow
<1>11. VectorInv'
  <2>1. \A i \in DOMAIN sockets'[w] : at'[w] <= i => sockets'[w][i] > 0
    <3>1. \A i \in DOMAIN sockets[w] : i \in Int
      <4>1. sockets[w] \in Seq(Fds \cup {NoFd})
        BY <1>0 DEF FdTypes
      <4>2. QED
        BY <4>1
    <3>2. QED
      BY <1>0, <1>1, <1>4, <1>6, <3>1 DEF VectorInv, FdTypes
  <2>2. at'[w] # 0 /\ w \notin exited
    BY <1>0, <1>1, <1>6 DEF VectorInv, FdTypes
  <2>3. QED
    BY <1>0, <1>1, <1>4, <1>6, <2>1, <2>2 DEF VectorInv
<1>12. QED
  BY <1>0, <1>1, <1>3, <1>7, <1>10, <1>11 DEF ZeroIsKept, FdInv, OneOwner, NeverZero
\* Actions that move no descriptor: a worker goes on in handle_read or leaves.
LEMMA QuietFdStep ==
  ASSUME FdInv, NEW w \in Workers, BeginAccept(w) \/ AcceptDone(w) \/ Exit(w)
  PROVE  FdInv'
<1>0. FdTypes /\ VectorInv /\ ZeroIsKept /\ (fate = "runs" => Owners)
  BY DEF FdInv, OneOwner
<1>1. fate = "runs" /\ UNCHANGED <<open, inherited, acceptor, connections, fate>>
  BY DEF BeginAccept, AcceptDone, Exit
<1>2. UNCHANGED sockets
  <2>1. CASE BeginAccept(w)
    <3>1. sockets[w] = <<>> /\ sockets' = [sockets EXCEPT ![w] = <<>>]
      BY <1>0, <2>1 DEF BeginAccept, VectorInv
    <3>2. QED
      BY <1>0, <3>1 DEF FdTypes
  <2>2. CASE AcceptDone(w) \/ Exit(w)
    BY <2>2 DEF AcceptDone, Exit
  <2>3. QED
    BY <2>1, <2>2
<1>3. Owners'
  BY <1>0, <1>1, <1>2 DEF Owners, Owned, Held
<1>4. /\ at' \in [Workers -> Int] /\ \A v \in Workers : at'[v] \in -1 .. Len(sockets'[v]) + 1
      /\ room' \in [Workers -> Nat] /\ exited' \subseteq Workers
  <2>1. \A v \in Workers : Len(sockets[v]) \in Nat
    <3>1. \A v \in Workers : sockets[v] \in Seq(Fds \cup {NoFd})
      BY <1>0 DEF FdTypes
    <3>2. QED
      BY <3>1
  <2>2. CASE BeginAccept(w)
    BY <1>0, <1>2, <2>1, <2>2 DEF BeginAccept, FdTypes
  <2>3. CASE AcceptDone(w)
    BY <1>0, <1>2, <2>1, <2>3 DEF AcceptDone, FdTypes
  <2>4. CASE Exit(w)
    BY <1>0, <1>2, <2>1, <2>4 DEF Exit, FdTypes
  <2>5. QED
    BY <2>2, <2>3, <2>4
<1>5. FdTypes'
  BY <1>0, <1>1, <1>2, <1>4 DEF FdTypes
<1>6. VectorInv'
  <2>1. CASE BeginAccept(w)
    <3>1. sockets[w] = <<>> /\ w \notin exited /\ at' = [at EXCEPT ![w] = -1] /\ UNCHANGED exited
      BY <1>0, <2>1 DEF BeginAccept, VectorInv
    <3>2. at'[w] = -1 /\ \A v \in Workers \ {w} : at'[v] = at[v]
      BY <1>0, <3>1 DEF FdTypes
    <3>3. \A v \in Workers \ {w} :
            /\ \A i \in DOMAIN sockets[v] : at'[v] <= i => sockets[v][i] > 0
            /\ at'[v] = 0 => sockets[v] = <<>>
            /\ v \in exited' => at'[v] = 0
      BY <1>0, <3>1, <3>2 DEF VectorInv
    <3>4. DOMAIN sockets[w] = {} /\ w \notin exited'
      BY <3>1
    <3>5. QED
      BY <1>2, <3>1, <3>2, <3>3, <3>4 DEF VectorInv
  <2>2. CASE AcceptDone(w)
    <3>1. at[w] = -1 /\ at' = [at EXCEPT ![w] = 1] /\ UNCHANGED exited
      BY <2>2 DEF AcceptDone
    <3>2. w \notin exited /\ \A i \in DOMAIN sockets[w] : at[w] <= i
      <4>1. sockets[w] \in Seq(Fds \cup {NoFd})
        BY <1>0 DEF FdTypes
      <4>2. QED
        BY <1>0, <3>1, <4>1 DEF VectorInv
    <3>3. at'[w] = 1 /\ \A v \in Workers \ {w} : at'[v] = at[v]
      BY <1>0, <3>1 DEF FdTypes
    <3>4. QED
      BY <1>0, <1>2, <3>1, <3>2, <3>3 DEF VectorInv
  <2>3. CASE Exit(w)
    BY <1>0, <1>2, <2>3 DEF Exit, VectorInv
  <2>4. QED
    BY <2>1, <2>2, <2>3
<1>7. QED
  BY <1>0, <1>1, <1>3, <1>5, <1>6 DEF FdInv, OneOwner, NeverZero, ZeroIsKept

LEMMA AdoptedStep ==
  ASSUME FdInv, NEW w \in Workers, Adopted(w) PROVE FdInv'
<1>0. FdTypes /\ VectorInv /\ ZeroIsKept /\ (fate = "runs" => Owners)
  BY DEF FdInv, OneOwner
<1>1. /\ fate = "runs" /\ open' = open \ Held(w)
      /\ sockets' = [sockets EXCEPT ![w] = <<>>]
      /\ at' = [at EXCEPT ![w] = 0]
      /\ UNCHANGED <<inherited, acceptor, room, connections, exited, fate>>
  BY DEF Adopted, ClosedWith, Held
<1>2. /\ sockets'[w] = <<>> /\ at'[w] = 0
      /\ \A v \in Workers \ {w} : sockets'[v] = sockets[v] /\ at'[v] = at[v]
  BY <1>0, <1>1 DEF FdTypes
<1>3. Held(w)' = {} /\ \A v \in Workers \ {w} : Held(v)' = Held(v)
  BY <1>2 DEF Held, Range
<1>4. FdTypes'
  <2>1. sockets' \in [Workers -> Seq(Fds \cup {NoFd})]
    BY <1>0, <1>1 DEF FdTypes
  <2>2. \A v \in Workers : at'[v] \in -1 .. Len(sockets'[v]) + 1
    <3>1. at'[w] \in -1 .. Len(sockets'[w]) + 1
      BY <1>2
    <3>2. QED
      BY <1>0, <1>2, <3>1 DEF FdTypes
  <2>3. open' \subseteq Fds
    BY <1>0, <1>1 DEF FdTypes
  <2>4. at' \in [Workers -> Int]
    BY <1>0, <1>1 DEF FdTypes
  <2>5. QED
    BY <1>0, <1>1, <2>1, <2>2, <2>3, <2>4 DEF FdTypes
<1>5. Owners'
  <2>1. \A v \in Workers : (Held(v) \cap connections[v] = {})'
    BY <1>0, <1>1, <1>3 DEF Owners
  <2>2. \A v \in Workers : \A i, j \in DOMAIN sockets'[v] :
          i # j /\ sockets'[v][i] # NoFd => sockets'[v][i] # sockets'[v][j]
    BY <1>0, <1>1, <1>2 DEF Owners
  <2>3. Owned(w)' = (Owned(w) \cup {}) \ Held(w) /\ open' = (open \cup {}) \ Held(w)
    BY <1>0, <1>1, <1>3 DEF Owners, Owned
  <2>4. {} \cap open = {} /\ Held(w) \subseteq Owned(w)
    BY DEF Owned
  <2>5. UNCHANGED <<inherited, acceptor>> /\ \A v \in Workers \ {w} : Owned(v)' = Owned(v)
    BY <1>1, <1>3 DEF Owned
  <2>6. QED
    BY <1>0, <1>1, <2>1, <2>2, <2>3, <2>4, <2>5, OwnersFollow
<1>6. VectorInv'
  BY <1>0, <1>1, <1>2 DEF VectorInv
<1>7. QED
  BY <1>0, <1>1, <1>4, <1>5, <1>6 DEF FdInv, OneOwner, NeverZero, ZeroIsKept

LEMMA CloseStep ==
  ASSUME FdInv, NEW w \in Workers, Close(w) PROVE FdInv'
<1>0. FdTypes /\ VectorInv /\ ZeroIsKept /\ (fate = "runs" => Owners)
  BY DEF FdInv, OneOwner
<1>1. PICK fd \in connections[w] :
        /\ connections' = [connections EXCEPT ![w] = @ \ {fd}]
        /\ open' = open \ ClosedWith({fd})
  BY DEF Close
<1>2. fate = "runs" /\ UNCHANGED <<inherited, acceptor, sockets, room, at, exited, fate>>
  BY DEF Close
<1>3. open' = open \ {fd}
  <2>1. fd \in Fds
    BY <1>0 DEF FdTypes
  <2>2. fd # NoFd
    BY <2>1 DEF Fds, NoFd
  <2>3. QED
    BY <1>1, <2>2 DEF ClosedWith
<1>4. /\ connections'[w] = connections[w] \ {fd}
      /\ \A v \in Workers \ {w} : connections'[v] = connections[v]
  BY <1>0, <1>1 DEF FdTypes
<1>5. FdTypes'
  <2>1. connections' \in [Workers -> SUBSET Fds]
    BY <1>0, <1>1 DEF FdTypes
  <2>2. open' \subseteq Fds
    BY <1>0, <1>3 DEF FdTypes
  <2>3. QED
    BY <1>0, <1>2, <2>1, <2>2 DEF FdTypes
<1>6. Owners'
  <2>1. \A v \in Workers : Held(v)' = Held(v)
    BY <1>2 DEF Held
  <2>2. \A v \in Workers : (Held(v) \cap connections[v] = {})'
    BY <1>0, <1>2, <1>4, <2>1 DEF Owners
  <2>3. \A v \in Workers : \A i, j \in DOMAIN sockets'[v] :
          i # j /\ sockets'[v][i] # NoFd => sockets'[v][i] # sockets'[v][j]
    BY <1>0, <1>2 DEF Owners
  <2>4. Owned(w)' = (Owned(w) \cup {}) \ {fd} /\ open' = (open \cup {}) \ {fd}
    BY <1>0, <1>2, <1>3, <1>4, <2>1 DEF Owners, Owned
  <2>5. {} \cap open = {} /\ {fd} \subseteq Owned(w)
    BY DEF Owned
  <2>6. UNCHANGED <<inherited, acceptor>> /\ \A v \in Workers \ {w} : Owned(v)' = Owned(v)
    BY <1>2, <1>4, <2>1 DEF Owned
  <2>7. QED
    BY <1>0, <1>2, <2>2, <2>3, <2>4, <2>5, <2>6, OwnersFollow
<1>7. QED
  BY <1>0, <1>2, <1>5, <1>6 DEF FdInv, OneOwner, NeverZero, ZeroIsKept, VectorInv

LEMMA DestroyStep == ASSUME FdInv, DestroyServer PROVE FdInv'
<1>0. FdTypes /\ VectorInv /\ ZeroIsKept /\ (fate = "runs" => Owners)
  BY DEF FdInv, OneOwner
<1>1. /\ fate = "runs" /\ exited = Workers
      /\ UNCHANGED <<inherited, acceptor, sockets, room, connections, at, exited>>
      /\ \/ /\ \A w \in Workers : connections[w] = {}
            /\ open' = open \ ClosedWith({acceptor}) /\ fate' = "ended"
         \/ fate' = "foreign erase" /\ UNCHANGED open
  BY DEF DestroyServer, WorkersJoined
<1>2. \A w \in Workers : Held(w) = {}
  BY <1>0, <1>1, NoVectorNoneHeld DEF VectorInv
<1>3. fate' = "ended" => open' = inherited
  <2> SUFFICES ASSUME fate' = "ended" PROVE open' = inherited
    OBVIOUS
  <2>1. open = inherited \cup {acceptor} /\ acceptor \notin inherited
    BY <1>0, <1>1, <1>2 DEF Owners, Owned
  <2>2. acceptor # NoFd
    <3>1. acceptor \in Fds
      BY <1>0 DEF FdTypes
    <3>2. QED
      BY <3>1 DEF Fds, NoFd
  <2>3. QED
    BY <1>1, <2>1, <2>2 DEF ClosedWith
<1>4. FdTypes'
  BY <1>0, <1>1 DEF FdTypes
<1>5. QED
  BY <1>0, <1>1, <1>3, <1>4 DEF FdInv, OneOwner, NeverZero, VectorInv, ZeroIsKept

THEOREM FdInvAlways == FdSpec => []FdInv
<1>1. FdInv /\ [FdNext]_fdVars => FdInv'
  <2> SUFFICES ASSUME FdInv, [FdNext]_fdVars PROVE FdInv'
    OBVIOUS
  <2>1. CASE UNCHANGED fdVars
    <3>1. UNCHANGED <<open, inherited, acceptor, sockets, room, connections, at, exited, fate>>
      BY <2>1 DEF fdVars
    <3>2. FdTypes => FdTypes'
      BY <3>1 DEF FdTypes
    <3>3. Owners => Owners'
      BY <3>1 DEF Owners, Owned, Held
    <3>4. VectorInv => VectorInv'
      BY <3>1 DEF VectorInv
    <3>5. QED
      BY <3>1, <3>2, <3>3, <3>4 DEF FdInv, OneOwner, NeverZero, ZeroIsKept
  <2>2. CASE DestroyServer
    BY <2>2, DestroyStep
  <2>3. ASSUME NEW w \in Workers,
               BeginAccept(w) \/ Accept(w) \/ AcceptDone(w) \/ Adopt(w) \/ Adopted(w)
                 \/ Close(w) \/ Exit(w)
        PROVE  FdInv'
    BY <2>3, QuietFdStep, AcceptStep, AdoptStep, AdoptedStep, CloseStep
  <2>4. QED
    BY <2>1, <2>2, <2>3 DEF FdNext
<1>2. QED
  BY FdInvInit, <1>1, PTL DEF FdSpec

\* However many workers accept, move and close sockets at once, every open
\* descriptor has one owner and what an object holds is open.
THEOREM DescriptorsHaveOneOwner == FdSpec => []OneOwner
<1>1. FdInv => OneOwner
  BY DEF FdInv
<1>2. QED
  BY FdInvAlways, <1>1, PTL

\* No connection is made of descriptor 0, though the process may have been
\* started without a standard input.
THEOREM ConnectionsAreAboveZero == FdSpec => []NeverZero
<1>1. FdInv => NeverZero
  BY DEF FdInv
<1>2. QED
  BY FdInvAlways, <1>1, PTL
=============================================================================
