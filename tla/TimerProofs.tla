---------------------------- MODULE TimerProofs ----------------------------
(***************************************************************************)
(* Theorems about TimerQueue, for any timers and time stamps: m_running    *)
(* tells what is queued, the descriptor is never armed too early, and only *)
(* the constructor without a caller leads to a misuse of the set. About    *)
(* Timeouts, for any connections: as the server uses the class, the queue  *)
(* follows the connections. And about Scheduler, for any threads and       *)
(* events: no wake-up is lost, but the worker is.                          *)
(***************************************************************************)
EXTENDS Timeouts, Scheduler, WellFoundedInduction, FiniteSetTheorems, TLAPS

USE TimerQueueAssumption DEF TimerQueueAssumption

\* The order of addresses has a first element in every set.
LEMMA FirstIsFirst ==
  ASSUME NEW S, S \subseteq Timers, S # {}
  PROVE  First(S) \in S /\ \A u \in S : First(S) <= u
<1> DEFINE R == OpToRel(<, Nat)
<1>1. IsWellFoundedOn(R, Nat)
  BY NatLessThanWellFounded
<1>2. S \subseteq Nat
  OBVIOUS
<1> HIDE DEF R
<1>3. PICK x \in S : \A y \in S : ~(<<y, x>> \in R)
  BY <1>1, <1>2, WFMin
<1>4. \A y \in S : x <= y
  <2> SUFFICES ASSUME NEW y \in S, y < x PROVE FALSE
    BY <1>2
  <2>1. <<y, x>> \in R
    BY <1>2 DEF R, OpToRel
  <2>2. QED
    BY <1>3, <2>1
<1>5. QED
  BY <1>4 DEF First

\* The descriptor waits at least as long as asked for, because a second is
\* taken for a thousand units.
LEMMA WaitsLongEnough ==
  ASSUME NEW when \in Nat, now \in Nat
  PROVE  HowMuchTimeFromNow(when) \in Nat /\ HowMuchTimeFromNow(when) >= when - now
<1> DEFINE us == IF when - now < MinDelay THEN MinDelay ELSE when - now
           q == us \div Kilo
           r == us % Kilo
<1>1. us \in Nat /\ us >= when - now
  OBVIOUS
<1>2. Kilo \in Nat /\ Kilo >= 1
  OBVIOUS
<1>3. q \in Nat /\ r \in Nat /\ us = Kilo * q + r
  <2> HIDE DEF us
  <2>1. QED
    BY <1>1, <1>2
<1> HIDE DEF q, r, us
<1>4. Kilo * Kilo \in Nat /\ Kilo * Kilo >= 1
  BY <1>2
<1>5. Kilo * Kilo * Kilo \in Nat /\ Kilo * Kilo * Kilo >= Kilo
  <2> DEFINE k == Kilo * Kilo
  <2>1. k \in Nat /\ k >= 1
    BY <1>4
  <2> HIDE DEF k
  <2>2. k * Kilo \in Nat /\ k * Kilo >= Kilo
    BY <1>2, <2>1
  <2>3. QED
    BY <2>2 DEF k
<1>6. q * (Kilo * Kilo * Kilo) \in Nat /\ q * (Kilo * Kilo * Kilo) >= Kilo * q
  <2> DEFINE k == Kilo * Kilo * Kilo
  <2>1. k \in Nat /\ k >= Kilo
    BY <1>5
  <2> HIDE DEF k
  <2>2. q * k \in Nat /\ q * k >= Kilo * q
    BY <1>2, <1>3, <2>1
  <2>3. QED
    BY <2>2 DEF k
<1>7. r * Kilo \in Nat /\ r * Kilo >= r
  BY <1>2, <1>3
<1>8. Kilo * q \in Nat
  BY <1>2, <1>3
<1>9. q * (Kilo * Kilo * Kilo) + r * Kilo \in Nat /\ q * (Kilo * Kilo * Kilo) + r * Kilo >= us
  <2> DEFINE a == q * (Kilo * Kilo * Kilo)
             b == r * Kilo
             c == Kilo * q
  <2>1. a \in Nat /\ b \in Nat /\ c \in Nat /\ a >= c /\ b >= r /\ us = c + r
    BY <1>3, <1>6, <1>7, <1>8
  <2> HIDE DEF a, b, c
  <2>2. a + b \in Nat /\ a + b >= us
    BY <1>3, <2>1
  <2>3. QED
    BY <2>2 DEF a, b
<1>10. HowMuchTimeFromNow(when) = q * (Kilo * Kilo * Kilo) + r * Kilo
  BY DEF HowMuchTimeFromNow, us, q, r
<1> DEFINE d == q * (Kilo * Kilo * Kilo) + r * Kilo
<1>11. d \in Nat /\ d >= us
  BY <1>9
<1> HIDE DEF d
<1>12. d \in Nat /\ d >= when - now
  BY <1>1, <1>11
<1>13. QED
  BY <1>10, <1>12 DEF d

LEMMA FdResetArms ==
  ASSUME NEW when \in Nat, now \in Nat, now >= 1, FdReset(when)
  PROVE  deadline' \in Nat /\ deadline' # Never /\ deadline' >= when
<1> DEFINE d == HowMuchTimeFromNow(when)
<1>1. d \in Nat /\ d >= when - now
  BY WaitsLongEnough
<1>2. deadline' = now + d
  BY DEF FdReset
<1> HIDE DEF d
<1>3. QED
  BY <1>1, <1>2 DEF Never

-----------------------------------------------------------------------------

IInv == TypeOK /\ now >= 1 /\ RunningIsQueued /\ MisuseTakesAConstructor

\* What a step does to the descriptor.
ArmedInTime == deadline' \notin {deadline, Never} => deadline' >= m_expiration'[First(m_timers')]

\* The descriptor is armed for the first timer of the new set, or left alone.
LEMMA Arming ==
  ASSUME IInv, m_timers' \subseteq Timers, m_expiration' \in [Timers -> Nat],
         \/ m_timers' # {} /\ FdReset(m_expiration'[First(m_timers')])
         \/ deadline' = deadline
  PROVE  deadline' \in Nat /\ ArmedInTime
<1>1. now \in Nat /\ now >= 1 /\ deadline \in Nat
  BY DEF IInv, TypeOK
<1>2. CASE m_timers' # {} /\ FdReset(m_expiration'[First(m_timers')])
  <2>1. m_expiration'[First(m_timers')] \in Nat
    BY <1>2, FirstIsFirst
  <2>2. QED
    BY <1>1, <1>2, <2>1, FdResetArms DEF ArmedInTime
<1>3. CASE deadline' = deadline
  BY <1>1, <1>3 DEF ArmedInTime
<1>4. QED
  BY <1>2, <1>3

\* A step that keeps or repairs each timer, or counts it among the constructed.
LEMMA QueuedStep ==
  ASSUME IInv, constructed \subseteq constructed',
         \A u \in Timers :
           \/ u \in constructed'
           \/ m_running'[u] <=> u \in m_timers'
           \/ (m_running'[u] <=> m_running[u]) /\ (u \in m_timers' <=> u \in m_timers)
  PROVE  RunningIsQueued'
<1> SUFFICES ASSUME NEW u \in Timers \ constructed'
             PROVE  m_running'[u] <=> u \in m_timers'
  BY DEF RunningIsQueued
<1>1. m_running[u] <=> u \in m_timers
  BY DEF IInv, RunningIsQueued
<1>2. QED
  BY <1>1

Sound == IInv' /\ ArmedInTime

LEMMA StepIsSound ==
  ASSUME IInv, [Next]_vars
  PROVE  Sound
<1>t. /\ now \in Nat /\ now >= 1 /\ m_timers \subseteq Timers
      /\ m_expiration \in [Timers -> Nat] /\ m_running \in [Timers -> BOOLEAN]
      /\ deadline \in Nat /\ constructed \subseteq Timers
  BY DEF IInv, TypeOK
<1>s. Stamps \subseteq Nat
  OBVIOUS
<1>1. ASSUME NEW t \in Timers, Construct(t) PROVE Sound
  <2>1. /\ m_timers' = m_timers \cup {t} /\ m_timers' \subseteq Timers /\ m_timers' # {}
        /\ m_expiration' \in [Timers -> Nat] /\ m_running' \in [Timers -> BOOLEAN]
        /\ \A u \in Timers \ {t} : m_running'[u] = m_running[u]
    BY <1>1, <1>t, <1>s DEF Construct
  <2>2. FdReset(m_expiration'[First(m_timers')]) \/ deadline' = deadline
    BY <1>1 DEF Construct
  <2>3. deadline' \in Nat /\ ArmedInTime
    BY <2>1, <2>2, Arming
  <2>4. RunningIsQueued'
    <3>1. /\ \A u \in Timers \ {t} :
            (m_running'[u] <=> m_running[u]) /\ (u \in m_timers' <=> u \in m_timers)
          /\ constructed' = constructed \cup {t}
      BY <1>1, <1>t, <2>1 DEF Construct
    <3>2. QED
      BY <3>1, QueuedStep
  <2>5. QED
    BY <1>1, <1>t, <2>1, <2>3, <2>4 DEF Construct, IInv, TypeOK, MisuseTakesAConstructor, Sound
<1>2. ASSUME NEW t \in Timers, Start(t) PROVE Sound
  <2>1. m_timers' \subseteq Timers /\ m_expiration' = m_expiration
    BY <1>2, <1>t DEF Start, AddTimer, Inserted
  <2>2. \/ m_timers' # {} /\ FdReset(m_expiration'[First(m_timers')])
        \/ deadline' = deadline
    BY <1>2, <2>1 DEF Start, AddTimer, Inserted
  <2>3. deadline' \in Nat /\ ArmedInTime
    BY <1>t, <2>1, <2>2, Arming
  <2>4. RunningIsQueued'
    <3>1. \A u \in Timers \ {t} :
            (m_running'[u] <=> m_running[u]) /\ (u \in m_timers' <=> u \in m_timers)
      BY <1>2, <1>t DEF Start, AddTimer, Inserted
    <3>2. m_running'[t] /\ t \in m_timers' /\ constructed' = constructed
      BY <1>2, <1>t DEF Start, AddTimer, Inserted
    <3>3. QED
      BY <3>1, <3>2, QueuedStep
  <2>5. MisuseTakesAConstructor'
    BY <1>2, <1>t DEF Start, AddTimer, IInv, RunningIsQueued, MisuseTakesAConstructor
  <2>6. TypeOK'
    BY <1>2, <1>t, <2>1, <2>3 DEF Start, AddTimer, IInv, TypeOK
  <2>7. QED
    BY <1>2, <1>t, <2>3, <2>4, <2>5, <2>6 DEF Start, IInv, Sound
<1>3. ASSUME NEW t \in Timers, Cancel(t) PROVE Sound
  <2>1. m_timers' \subseteq Timers /\ m_expiration' = m_expiration
    BY <1>3, <1>t DEF Cancel
  <2>2. \/ m_timers' # {} /\ FdReset(m_expiration'[First(m_timers')])
        \/ deadline' = deadline
    BY <1>3, <2>1 DEF Cancel
  <2>3. deadline' \in Nat /\ ArmedInTime
    BY <1>t, <2>1, <2>2, Arming
  <2>4. RunningIsQueued'
    <3>1. \A u \in Timers \ {t} :
            (m_running'[u] <=> m_running[u]) /\ (u \in m_timers' <=> u \in m_timers)
      BY <1>3, <1>t DEF Cancel, NotRunning
    <3>2. ~m_running'[t] /\ t \notin m_timers' /\ constructed' = constructed
      BY <1>3, <1>t DEF Cancel, NotRunning
    <3>3. QED
      BY <3>1, <3>2, QueuedStep
  <2>5. MisuseTakesAConstructor'
    BY <1>3, <1>t DEF Cancel, IInv, RunningIsQueued, MisuseTakesAConstructor
  <2>6. TypeOK'
    BY <1>3, <1>t, <2>1, <2>3 DEF Cancel, NotRunning, IInv, TypeOK
  <2>7. QED
    BY <1>3, <1>t, <2>3, <2>4, <2>5, <2>6 DEF Cancel, IInv, Sound
<1>4. ASSUME NEW t \in Timers, SetTimeStamp(t) PROVE Sound
  BY <1>4, <1>t, <1>s DEF SetTimeStamp, IInv, TypeOK, RunningIsQueued,
                          MisuseTakesAConstructor, ArmedInTime, Sound
<1>5. CASE HandleRead
  BY <1>5, <1>t DEF HandleRead, ReadTimer, Never, IInv, TypeOK, RunningIsQueued,
                    MisuseTakesAConstructor, ArmedInTime, Sound
<1>6. CASE Tick
  <2>1. now' \in Nat /\ now' >= 1
    BY <1>6, <1>t DEF Tick
  <2>2. QED
    BY <1>6, <1>t, <2>1 DEF Tick, IInv, TypeOK, RunningIsQueued, MisuseTakesAConstructor,
                            ArmedInTime, Sound
<1>7. CASE UNCHANGED vars
  BY <1>7, <1>t DEF vars, IInv, TypeOK, RunningIsQueued, MisuseTakesAConstructor,
                    ArmedInTime, Sound
<1>8. QED
  BY <1>1, <1>2, <1>3, <1>4, <1>5, <1>6, <1>7 DEF Next

LEMMA InitIsSound == Init => IInv
<1> SUFFICES ASSUME Init PROVE IInv
  OBVIOUS
<1>1. \A t \in Timers : ~m_running[t] /\ t \notin m_timers
  BY DEF Init
<1>2. RunningIsQueued
  BY <1>1 DEF RunningIsQueued
<1>3. TypeOK
  BY DEF Init, TypeOK, Never
<1>4. QED
  BY <1>2, <1>3 DEF Init, IInv, MisuseTakesAConstructor

LEMMA Invariant == Spec => []IInv
<1>1. IInv /\ [Next]_vars => IInv'
  BY StepIsSound DEF Sound
<1>2. QED
  BY <1>1, InitIsSound, PTL DEF Spec

\* The variables keep their types: no deadline is negative, and the set holds
\* timers only.
THEOREM TypeCorrect == Spec => []TypeOK
BY Invariant, PTL DEF IInv

\* m_running tells which timers are queued, but for those of the other
\* constructor (timer.cpp:18-23, 45-50).
THEOREM RunningTellsQueued == Spec => []RunningIsQueued
BY Invariant, PTL DEF IInv

\* The set is misused only if some timer came with the other constructor
\* (timer.cpp:11-16, timer_queue.cpp:28-29, 39, 45).
THEOREM OnlyConstructedMisuse == Spec => []MisuseTakesAConstructor
BY Invariant, PTL DEF IInv

\* The descriptor is never armed for a moment before the first timer expires,
\* whatever number of units a second is taken for (timer_fd.cpp:40-52).
THEOREM WakesNoneEarly == Spec => NeverWokenEarly
<1>1. IInv /\ [Next]_vars =>
        [deadline' \notin {deadline, Never} => deadline' >= m_expiration'[First(m_timers')]]_vars
  BY StepIsSound DEF ArmedInTime, Sound
<1>2. QED
  BY <1>1, Invariant, PTL DEF Spec, NeverWokenEarly

-----------------------------------------------------------------------------
(* Timeouts: Open is Start, Close is Cancel, and nothing else touches the  *)
(* set.                                                                    *)

\* No timer comes with the other constructor, so the misuse of the set is out
\* of reach.
ConnInv == IInv /\ constructed = {} /\ QueueIsOpenConnections

LEMMA ConnInvariant == ConnSpec => []ConnInv
<1>1. ConnInit => ConnInv
  BY InitIsSound DEF ConnInit, Init, ConnInv, QueueIsOpenConnections
<1>2. ConnInv /\ [ConnNext]_allVars => ConnInv'
  <2> SUFFICES ASSUME ConnInv, [ConnNext]_allVars PROVE ConnInv'
    OBVIOUS
  <2>t. /\ IInv /\ constructed = {} /\ m_timers = open /\ process = "runs"
        /\ m_timers \subseteq Timers
    BY DEF ConnInv, IInv, TypeOK, QueueIsOpenConnections
  <2>r. \A t \in Timers : m_running[t] <=> t \in m_timers
    BY <2>t DEF IInv, RunningIsQueued
  <2>s. [Next]_vars => IInv'
    BY <2>t, StepIsSound DEF Sound
  <2>1. ASSUME NEW c \in Timers, Open(c) PROVE ConnInv'
    <3>0. Start(c) /\ open' = open \cup {c}
      BY <2>1 DEF Open
    <3>1. IInv'
      BY <2>s, <3>0 DEF Next
    <3>2. m_timers' = m_timers \cup {c} /\ process' = "runs" /\ constructed' = {}
      BY <2>t, <2>r, <3>0 DEF Start, AddTimer, Inserted
    <3>3. QED
      BY <2>t, <3>0, <3>1, <3>2 DEF ConnInv, QueueIsOpenConnections
  <2>2. ASSUME NEW c \in Timers, Receive(c) PROVE ConnInv'
    <3>1. UNCHANGED vars /\ UNCHANGED open
      BY <2>2 DEF Receive
    <3>2. QED
      BY <2>t, <2>s, <3>1 DEF vars, ConnInv, QueueIsOpenConnections
  <2>3. ASSUME NEW c \in Timers, Close(c) PROVE ConnInv'
    <3>0. Cancel(c) /\ open' = open \ {c}
      BY <2>3 DEF Close
    <3>1. IInv'
      BY <2>s, <3>0 DEF Next
    <3>2. m_timers' = m_timers \ {c} /\ process' = "runs" /\ constructed' = {}
      BY <2>t, <2>r, <3>0 DEF Cancel
    <3>3. QED
      BY <2>t, <3>0, <3>1, <3>2 DEF ConnInv, QueueIsOpenConnections
  <2>4. CASE Report
    <3>1. UNCHANGED vars /\ UNCHANGED open
      BY <2>4 DEF Report
    <3>2. QED
      BY <2>t, <2>s, <3>1 DEF vars, ConnInv, QueueIsOpenConnections
  <2>5. CASE HandleReport
    <3>1. HandleRead /\ UNCHANGED open
      BY <2>5 DEF HandleReport
    <3>2. IInv'
      BY <2>s, <3>1 DEF Next
    <3>3. QED
      BY <2>t, <3>1, <3>2 DEF HandleRead, ConnInv, QueueIsOpenConnections
  <2>6. CASE PassTime
    <3>1. Tick /\ UNCHANGED open
      BY <2>6 DEF PassTime, connVars
    <3>2. IInv'
      BY <2>s, <3>1 DEF Next
    <3>3. QED
      BY <2>t, <3>1, <3>2 DEF Tick, ConnInv, QueueIsOpenConnections
  <2>7. CASE UNCHANGED allVars
    <3>1. UNCHANGED vars /\ UNCHANGED open
      BY <2>7 DEF allVars, connVars
    <3>2. QED
      BY <2>t, <2>s, <3>1 DEF vars, ConnInv, QueueIsOpenConnections
  <2>8. QED
    BY <2>1, <2>2, <2>3, <2>4, <2>5, <2>6, <2>7 DEF ConnNext
<1>3. QED
  BY <1>1, <1>2, PTL DEF ConnSpec

\* The set of timers is the set of open connections and is never misused
\* (timer.cpp:18-23, 45-50).
THEOREM QueueFollowsConnections == ConnSpec => []QueueIsOpenConnections
BY ConnInvariant, PTL DEF ConnInv

-----------------------------------------------------------------------------
(* The queue of a scheduler and its wake-ups.                               *)

\* A poll returns the events in some order.
LEMMA PollIsASequence ==
  ASSUME SchedulerAssumption, NEW s \in SetToSeqs(Readable), ready \subseteq Sources
  PROVE  s \in Seq(Sources \cup {Awakener})
<1>1. IsFiniteSet(Readable) /\ Readable \subseteq Sources \cup {Awakener}
  <2>1. IsFiniteSet(Sources \cup {Awakener})
    BY FS_AddElement DEF SchedulerAssumption
  <2>2. Readable \subseteq Sources \cup {Awakener}
    BY DEF Readable
  <2>3. QED
    BY <2>1, <2>2, FS_Subset
<1>2. Cardinality(Readable) \in Nat
  BY <1>1, FS_CardinalityType
<1>3. s \in [1 .. Cardinality(Readable) -> Readable]
  BY DEF SetToSeqs
<1>4. QED
  BY <1>1, <1>2, <1>3

\* However the threads interleave, and whatever a race costs, no task is left
\* in the queue without a wake-up: one that a poster is about to send, that
\* waits in the socket, or that the worker is taking (scheduler.cpp:32-35).
THEOREM WakeUpForEachTask == LoopSpec => []NoWakeUpIsLost
<1> USE SchedulerAssumption DEF SchedulerAssumption
<1>1. LoopInit => NoWakeUpIsLost
  <2> SUFFICES ASSUME LoopInit PROVE NoWakeUpIsLost
    OBVIOUS
  <2>1. posts \in [Threads -> 0 .. MaxPosts]
    BY DEF LoopInit
  <2>2. active_events \in Seq(Sources \cup {Awakener})
    <3>1. <<>> \in Seq(Sources \cup {Awakener})
      OBVIOUS
    <3>2. QED
      BY <3>1 DEF LoopInit
  <2>3. datagrams \in 0 .. QueueLen /\ m_task_queue \in Nat /\ waking \subseteq Threads \ pushing
    BY DEF LoopInit
  <2>4. QED
    BY <2>1, <2>2, <2>3 DEF LoopInit, NoWakeUpIsLost, LoopTypes
<1>2. NoWakeUpIsLost /\ [LoopNext]_loopVars => NoWakeUpIsLost'
  <2> SUFFICES ASSUME NoWakeUpIsLost, [LoopNext]_loopVars PROVE NoWakeUpIsLost'
    OBVIOUS
  <2> USE DEF NoWakeUpIsLost
  <2>t. LoopTypes
    OBVIOUS
  <2>1. CASE UNCHANGED loopVars
    BY <2>1 DEF loopVars, postVars, LoopTypes
  <2>2. ASSUME NEW s \in Sources, BecomesReadable(s) PROVE NoWakeUpIsLost'
    BY <2>2 DEF BecomesReadable, postVars, LoopTypes
  <2>3. ASSUME NEW t \in Threads, Post(t) PROVE NoWakeUpIsLost'
    <3>1. posts' \in [Threads -> 0 .. MaxPosts]
      BY <2>t, <2>3 DEF Post, LoopTypes
    <3>2. QED
      BY <2>3, <3>1 DEF Post, Posting, LoopTypes
  <2>4. ASSUME NEW t \in Threads, EndPush(t) PROVE NoWakeUpIsLost'
    <3>1. m_task_queue' \in Nat
      BY <2>t, <2>4 DEF EndPush, PushBack, LoopTypes
    <3>2. QED
      BY <2>4, <3>1 DEF EndPush, LoopTypes
  <2>5. ASSUME NEW t \in Threads, WakeUp(t) PROVE NoWakeUpIsLost'
    BY <2>5 DEF WakeUp, HasRoom, LoopTypes
  <2>6. CASE Poll
    <3>1. active_events' \in Seq(Sources \cup {Awakener})
      BY <2>t, <2>6, PollIsASequence DEF Poll, LoopTypes
    <3>2. QED
      BY <2>6, <3>1 DEF Poll, postVars, LoopTypes
  <2>7. CASE Serve \/ ServeAwakener
    <3>1. active_events # <<>> /\ active_events' = Tail(active_events)
      BY <2>7 DEF Serve, ServeAwakener
    <3>2. active_events' \in Seq(Sources \cup {Awakener})
      BY <2>t, <3>1 DEF LoopTypes
    <3>3. QED
      BY <2>7, <3>2 DEF Serve, ServeAwakener, postVars, LoopTypes
  <2>8. CASE Read
    BY <2>8 DEF Read, postVars, LoopTypes
  <2>9. CASE DispatchDone
    BY <2>9 DEF DispatchDone, AllServed, postVars, LoopTypes
  <2>10. QED
    BY <2>1, <2>2, <2>3, <2>4, <2>5, <2>6, <2>7, <2>8, <2>9 DEF LoopNext
<1>3. QED
  BY <1>1, <1>2, PTL DEF LoopSpec
-----------------------------------------------------------------------------
(* The worker that is lost.                                                *)

\* A worker that posts does it from the handler of another event than the
\* awakener's, which it has not left.
PosterServes ==
  Posting(Worker) =>
    /\ worker = "serving"
    /\ active_events # <<>> /\ Head(active_events) # Awakener

LEMMA PosterServesAlways == LoopSpec => []PosterServes
<1> USE DEF PosterServes, Posting
<1>1. LoopInit => PosterServes
  BY DEF LoopInit
<1>2. PosterServes /\ [LoopNext]_loopVars => PosterServes'
  <2> SUFFICES ASSUME PosterServes, [LoopNext]_loopVars PROVE PosterServes'
    OBVIOUS
  <2>1. CASE UNCHANGED loopVars
    BY <2>1 DEF loopVars, postVars
  <2>2. ASSUME NEW s \in Sources, BecomesReadable(s) PROVE PosterServes'
    BY <2>2 DEF BecomesReadable, postVars
  <2>3. ASSUME NEW t \in Threads, Post(t) \/ EndPush(t) \/ WakeUp(t) PROVE PosterServes'
    BY <2>3 DEF Post, EndPush, WakeUp
  <2>4. CASE Poll
    BY <2>4 DEF Poll, postVars
  <2>5. CASE Serve
    BY <2>5 DEF Serve, postVars
  <2>6. CASE ServeAwakener
    BY <2>6 DEF ServeAwakener, postVars
  <2>7. CASE Read
    BY <2>7 DEF Read, postVars
  <2>8. CASE DispatchDone
    BY <2>8 DEF DispatchDone, AllServed, postVars
  <2>9. QED
    BY <2>1, <2>2, <2>3, <2>4, <2>5, <2>6, <2>7, <2>8 DEF LoopNext
<1>3. QED
  BY <1>1, <1>2, PTL DEF LoopSpec

\* The worker is in the awakener's loop, or waits for itself to read what it
\* has written.
Lost == worker = "reading" \/ SelfBlocked

\* Nothing is served.
NothingServed == active_events' = active_events /\ ready \subseteq ready'

\* A worker that is lost stays so, whatever is posted and becomes readable, and
\* serves none of its other events any more (awakener.cpp:36, 41-46): what
\* WakeUpReturns claims is not only untrue of some run, the handler of the
\* awakener never returns.
THEOREM LostStaysLost == LoopSpec => [][Lost => Lost' /\ NothingServed]_loopVars
<1>1. ASSUME PosterServes, LoopTypes, [LoopNext]_loopVars, Lost
      PROVE  Lost' /\ NothingServed
  <2> USE SchedulerAssumption DEF SchedulerAssumption, Lost, NothingServed, SelfBlocked
  <2>1. SelfBlocked => worker = "serving" /\ active_events # <<>> /\ Head(active_events) # Awakener
    BY <1>1 DEF PosterServes, Posting
  <2>2. CASE UNCHANGED loopVars
    BY <1>1, <2>2 DEF loopVars, postVars
  <2>3. ASSUME NEW s \in Sources, BecomesReadable(s) PROVE Lost' /\ NothingServed
    BY <1>1, <2>3 DEF BecomesReadable, postVars
  <2>4. ASSUME NEW t \in Threads, Post(t) \/ EndPush(t) PROVE Lost' /\ NothingServed
    BY <1>1, <2>4 DEF Post, EndPush
  <2>5. ASSUME NEW t \in Threads, WakeUp(t) PROVE Lost' /\ NothingServed
    <3>1. ~SelfBlocked /\ UNCHANGED <<worker, active_events, ready>>
      BY <1>1, <2>5 DEF WakeUp, HasRoom, LoopTypes
    <3>2. QED
      BY <1>1, <3>1
  <2>6. CASE Poll
    BY <1>1, <2>1, <2>6 DEF Poll
  <2>7. CASE Serve
    BY <1>1, <2>1, <2>7 DEF Serve, Posting
  <2>8. CASE ServeAwakener
    BY <1>1, <2>1, <2>8 DEF ServeAwakener
  <2>9. CASE Read
    BY <1>1, <2>1, <2>9 DEF Read, postVars
  <2>10. CASE DispatchDone
    BY <1>1, <2>1, <2>10 DEF DispatchDone, AllServed
  <2>11. QED
    BY <1>1, <2>2, <2>3, <2>4, <2>5, <2>6, <2>7, <2>8, <2>9, <2>10 DEF LoopNext
<1>2. NoWakeUpIsLost => LoopTypes
  BY DEF NoWakeUpIsLost
<1>3. QED
  BY <1>1, <1>2, WakeUpForEachTask, PosterServesAlways, PTL DEF LoopSpec
=============================================================================
