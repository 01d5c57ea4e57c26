------------------------------ MODULE Timeouts ------------------------------
(***************************************************************************)
(* The timers as the server uses them: one worker, its connections, each   *)
(* with a timer, and the descriptor's event in the worker's epoll. As no   *)
(* timer ever runs, connection::set_timeout and m_timeout_handler change   *)
(* nothing; and nobody calls set_time_stamp, so every timer expires at the *)
(* epoch.                                                                  *)
(*                                                                         *)
(* An address of Timers is used again after its connection is gone.        *)
(***************************************************************************)
EXTENDS TimerQueue

CONSTANT Timeout     \* m_connection_timeout, as configured

ASSUME TimeoutsAssumption == Timeout \in Nat \ {0}

VARIABLES
  open,       \* the connections of this worker
  active,     \* per connection: when it last received something
  reported    \* the descriptor's event is among active_events

connVars == <<open, active, reported>>
allVars == <<vars, connVars>>

ConnInit ==
  /\ Init
  /\ open = {}
  /\ active = [t \in Timers |-> 0]
  /\ reported = FALSE

\* A bound: the clock goes on until the last deadline is reached.
InTime == now + HowMuchTimeFromNow(0) <= MaxNow

\* connection::start.
Open(c) ==
  /\ InTime /\ c \notin open
  /\ Start(c)
  /\ open' = open \cup {c}
  /\ active' = [active EXCEPT ![c] = now]
  /\ UNCHANGED reported

\* handle_read of data leaves the timer as it is.
Receive(c) ==
  /\ c \in open
  /\ active' = [active EXCEPT ![c] = now]
  /\ UNCHANGED <<vars, open, reported>>

\* A fault: neither handle_read nor the destructor cancels the timer.
Close_NotCancelled(c) ==
  /\ InTime /\ c \in open
  /\ open' = open \ {c}
  /\ UNCHANGED <<vars, active, reported>>

\* handle_read at the end of the stream cancels the timer and destroys the
\* connection.
Close(c) ==
  /\ InTime /\ c \in open
  /\ Cancel(c)
  /\ open' = open \ {c}
  /\ UNCHANGED <<active, reported>>

\* epoll reports the descriptor; connections in the same report come first or
\* later.
Report ==
  /\ Ready /\ ~reported
  /\ reported' = TRUE
  /\ UNCHANGED <<vars, open, active>>

\* The event's call-back.
HandleReport ==
  /\ reported
  /\ HandleRead
  /\ reported' = FALSE
  /\ UNCHANGED <<open, active>>

PassTime == Tick /\ UNCHANGED connVars

ConnNext ==
  \/ \E c \in Timers : Open(c) \/ Receive(c) \/ Close(c)
  \/ Report
  \/ HandleReport
  \/ PassTime

\* The worker polls and serves its events; time goes on.
Fairness == WF_allVars(Report) /\ WF_allVars(HandleReport) /\ WF_allVars(PassTime)

ConnSpec == ConnInit /\ [][ConnNext]_allVars /\ Fairness

-----------------------------------------------------------------------------
(* Properties.                                                             *)

\* The queue refers to the connections that exist, and to no others: an
\* address that comes back finds no timer of its predecessor, and neither the
\* insert nor the erase of the set goes wrong (timer.cpp:18-23, 45-50).
QueueIsOpenConnections == m_timers = open /\ process = "runs"

\* A descriptor that has become readable is read: epoll, which is level
\* triggered, does not report it over and over (timer_fd.cpp:54-56).
ReportIsDrained == Ready ~> ~Ready

\* config.yaml:14 "connection_timeout : 10000  #tcp连接超时时间，最大idle时间":
\* a connection that has been idle for that long does not stay idle and open.
Idle(c) == c \in open /\ now - active[c] >= Timeout
IdleTimesOut == \A c \in Timers : Idle(c) ~> ~Idle(c)

\* timer_fd.cpp:58-59 takes a read of anything but 8 bytes for a failure: a
\* reported descriptor is still readable when its handler runs.
ReportIsCurrent == [][HandleReport => Ready]_allVars
=============================================================================
