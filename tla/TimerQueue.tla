----------------------------- MODULE TimerQueue -----------------------------
(***************************************************************************)
(* The timers of one worker: class timer, class timer_queue and the timer  *)
(* descriptor (timer_fd). A timer is its address, because the set m_timers *)
(* is ordered by address. All calls come from the worker the scheduler     *)
(* belongs to, so a call is one action.                                    *)
(*                                                                         *)
(* timer_queue hands handle_timeout to its descriptor as the call-back of  *)
(* a report, but timer_fd::handle_read reads the report and calls nobody:  *)
(* no timer ever runs. handle_timeout, reset, insert, timer::run, repeat,  *)
(* restart and with them m_interval are reached by no call; get_expired    *)
(* alone is kept, as the function it is. A second constructor of timer and *)
(* set_time_stamp have no caller in the repository, but are there for one. *)
(***************************************************************************)
EXTENDS Integers

CONSTANTS
  Timers,      \* addresses of the timers
  Stamps,      \* values passed to set_time_stamp, in nanoseconds
  Kilo,        \* 1000
  MinDelay,    \* 100, the least duration
  MaxNow       \* bound on the clock

ASSUME TimerQueueAssumption ==
  /\ Timers \subseteq Nat /\ Stamps \subseteq Nat
  /\ Kilo \in Nat \ {0} /\ MinDelay \in Nat \ {0} /\ MaxNow \in Nat

VARIABLES
  now,          \* steady_clock
  m_timers,     \* timer_queue::m_timers
  m_expiration, \* per timer: timer::m_expiration, 0 by default
  m_running,    \* per timer: timer::m_running
  deadline,     \* when the descriptor becomes readable, or Never
  constructed,  \* history: timers that came with the other constructor
  process       \* "runs", or the misuse of the set that ended it

vars == <<now, m_timers, m_expiration, m_running, deadline, constructed, process>>

Never == 0      \* it_value zero: the descriptor is not armed

TypeOK ==
  /\ now \in Nat
  /\ m_timers \subseteq Timers
  /\ m_expiration \in [Timers -> Nat]
  /\ m_running \in [Timers -> BOOLEAN]
  /\ deadline \in Nat
  /\ constructed \subseteq Timers
  /\ process \in {"runs", "inserted twice", "erased twice"}

\* timer() initialises m_running only: m_expiration is the epoch by default.
Init ==
  /\ now = 1
  /\ m_timers = {}
  /\ m_expiration = [t \in Timers |-> 0]
  /\ m_running = [t \in Timers |-> FALSE]
  /\ deadline = Never
  /\ constructed = {}
  /\ process = "runs"

\* *m_timers.cbegin()
First(S) == CHOOSE t \in S : \A u \in S : t <= u

\* A fault: the seconds are dropped.
HowMuchTimeFromNow_NoSeconds(when) ==
  LET us == IF when - now < MinDelay THEN MinDelay ELSE when - now
  IN  (us % Kilo) * Kilo

\* The count of a steady_clock duration is in nanoseconds. The code calls it
\* microseconds, and makes a second of 1000 of them.
HowMuchTimeFromNow(when) ==
  LET us == IF when - now < MinDelay THEN MinDelay ELSE when - now
  IN  (us \div Kilo) * (Kilo * Kilo * Kilo) + (us % Kilo) * Kilo

\* timer_fd::reset: timerfd_settime also forgets a report nobody has read.
FdReset(when) == deadline' = now + HowMuchTimeFromNow(when)

Ready == deadline # Never /\ deadline <= now

EarliestChanged(t) ==
  m_timers = {} \/ m_expiration[t] < m_expiration[First(m_timers)]

\* add_timer arms the descriptor for the first address, which need not be
\* the timer that changed the earliest expiration.
Inserted(t) ==
  /\ m_timers' = m_timers \cup {t}
  /\ IF EarliestChanged(t)
     THEN FdReset(m_expiration[First(m_timers \cup {t})])
     ELSE UNCHANGED deadline

AddTimer(t) ==
  \/ t \notin m_timers /\ Inserted(t) /\ UNCHANGED process
  \/ t \in m_timers /\ process' = "inserted twice" /\ UNCHANGED <<m_timers, deadline>>

\* timer::timer(cb, when, interval) for a new timer at address t: m_running is
\* not initialised.
Construct(t) ==
  /\ process = "runs"
  /\ t \notin m_timers /\ ~m_running[t]
  /\ \E when \in Stamps, running \in BOOLEAN :
       /\ m_expiration' = [m_expiration EXCEPT ![t] = when]
       /\ m_running' = [m_running EXCEPT ![t] = running]
       /\ m_timers' = m_timers \cup {t}
       /\ IF m_timers = {} \/ when < m_expiration[First(m_timers)]
          THEN FdReset(m_expiration'[First(m_timers')])
          ELSE UNCHANGED deadline
  /\ constructed' = constructed \cup {t}
  /\ UNCHANGED <<now, process>>

Start(t) ==
  /\ process = "runs"
  /\ ~m_running[t]
  /\ AddTimer(t)
  /\ m_running' = [m_running EXCEPT ![t] = TRUE]
  /\ UNCHANGED <<now, m_expiration, constructed>>

\* A fault: cancel leaves m_running set.
NotRunning_Forgotten(t) == m_running

NotRunning(t) == [m_running EXCEPT ![t] = FALSE]

\* timer::cancel with timer_queue::cancel. m_id designates the element of t
\* while there is one.
Cancel(t) ==
  /\ process = "runs"
  /\ m_running[t]
  /\ \/ /\ t \in m_timers
        /\ m_timers' = m_timers \ {t}
        /\ IF t = First(m_timers) /\ m_timers' # {}
           THEN FdReset(m_expiration[First(m_timers')])
           ELSE UNCHANGED deadline
        /\ UNCHANGED process
     \/ t \notin m_timers /\ process' = "erased twice" /\ UNCHANGED <<m_timers, deadline>>
  /\ m_running' = NotRunning(t)
  /\ UNCHANGED <<now, m_expiration, constructed>>

SetTimeStamp(t) ==
  /\ process = "runs"
  /\ \E when \in Stamps : m_expiration' = [m_expiration EXCEPT ![t] = when]
  /\ UNCHANGED <<now, m_timers, m_running, deadline, constructed, process>>

\* A fault: the report is left in the descriptor.
ReadTimer_NotRead == UNCHANGED deadline

\* A read that finds nothing returns EAGAIN, as the descriptor does not block.
ReadTimer == deadline' = IF Ready THEN Never ELSE deadline

\* timer_fd::handle_read. m_cb is not called.
HandleRead ==
  /\ process = "runs"
  /\ ReadTimer
  /\ UNCHANGED <<now, m_timers, m_expiration, m_running, constructed, process>>

Tick ==
  /\ now < MaxNow
  /\ now' = now + 1
  /\ UNCHANGED <<m_timers, m_expiration, m_running, deadline, constructed, process>>

Next ==
  \/ \E t \in Timers : Construct(t) \/ Start(t) \/ Cancel(t) \/ SetTimeStamp(t)
  \/ HandleRead
  \/ Tick

Spec == Init /\ [][Next]_vars

-----------------------------------------------------------------------------
(* Properties.                                                             *)

\* The set is misused, an element inserted twice (timer_queue.cpp:28-29) or one
\* erased that is gone (timer_queue.cpp:39, 45), only after some timer was
\* queued by its constructor, which leaves m_running unset (timer.cpp:11-16).
MisuseTakesAConstructor == process # "runs" => constructed # {}

\* m_running of any other timer tells whether it is queued.
RunningIsQueued == \A t \in Timers \ constructed : m_running[t] <=> t \in m_timers

\* The descriptor is never armed for a moment before the first timer expires:
\* mistaken units only ever make it later (timer_fd.cpp:40-52).
NeverWokenEarly ==
  [][deadline' \notin {deadline, Never} => deadline' >= m_expiration'[First(m_timers')]]_vars

\* timer_fd.cpp:43 calls the duration microseconds, and timer_fd.cpp:46 means
\* 100 of them by the least one: the descriptor waits for the first timer no
\* longer than that timer's expiration, or the least duration.
FiresOnTime ==
  [][deadline' \notin {deadline, Never} =>
       \/ deadline' <= m_expiration'[First(m_timers')]
       \/ deadline' <= now + MinDelay * Kilo]_vars

\* get_expired for this moment: its loop is left after one turn.
GetExpired ==
  IF m_timers # {} /\ m_expiration[First(m_timers)] <= now THEN {First(m_timers)} ELSE {}

\* timer_queue.cpp:58 "move out all expired timers": a call of get_expired at
\* any moment leaves no timer in the set that has expired.
AllExpiredMovedOut == \A t \in m_timers \ GetExpired : m_expiration[t] > now
=============================================================================
