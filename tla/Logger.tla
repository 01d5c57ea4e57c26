------------------------------- MODULE Logger -------------------------------
(***************************************************************************)
(* The logger all threads share. A statement SNOW_LOG_X << ... builds its  *)
(* text in a log_obj of its own; at the end of the statement the           *)
(* destructor hands it to logger::write, which drops everything below      *)
(* FATAL, and default_log_writer prints the rest under its mutex.          *)
(*                                                                         *)
(* A line is the thread and the number of its statement. The stream prints *)
(* a line in two parts, since a stream may flush in the middle of one.     *)
(*                                                                         *)
(* The move constructor of log_obj leaves an empty function behind, which  *)
(* the destructor would call; the compilers that build the project elide   *)
(* the move, so it does not run.                                           *)
(***************************************************************************)
EXTENDS Naturals, Sequences

CONSTANTS
  Threads,        \* threads that log
  Level,          \* the configured level, config::m_log_level
  MaxLines,       \* bound: statements per thread
  NoThread        \* the mutex is free

ASSUME LoggerAssumption == NoThread \notin Threads /\ Level \in Nat /\ MaxLines \in Nat

TRACE == 0
FATAL == 5

VARIABLES
  pc,         \* per thread: "running", "built", "locking", "printing", "half", "unlocking"
  count,      \* per thread: the statements it has executed
  m_mutex,    \* default_log_writer::m_mutex
  output,     \* what was printed on std::cout
  dropped     \* history: levels of dropped lines

vars == <<pc, count, m_mutex, output, dropped>>

Part == [line : Threads \X Nat, part : {1, 2}]

TypeOK ==
  /\ pc \in [Threads -> {"running", "built", "locking", "printing", "half", "unlocking"}]
  /\ count \in [Threads -> Nat]
  /\ m_mutex \in Threads \cup {NoThread}
  /\ output \in Seq(Part)
  /\ dropped \subseteq TRACE .. FATAL - 1

Init ==
  /\ pc = [t \in Threads |-> "running"]
  /\ count = [t \in Threads |-> 0]
  /\ m_mutex = NoThread
  /\ output = <<>>
  /\ dropped = {}

Goto(t, from, to) == pc[t] = from /\ pc' = [pc EXCEPT ![t] = to]

Dropped == TRACE .. FATAL - 1

\* The operators << fill the buffer of the statement's own log_obj.
Build(t) ==
  /\ count[t] < MaxLines
  /\ Goto(t, "running", "built")
  /\ count' = [count EXCEPT ![t] = @ + 1]
  /\ UNCHANGED <<m_mutex, output, dropped>>

\* ~log_obj calls logger::write with the level of its macro. The configured
\* level is not looked at.
Write(t) ==
  /\ \/ \E level \in Dropped : Goto(t, "built", "running") /\ dropped' = dropped \cup {level}
     \/ Goto(t, "built", "locking") /\ UNCHANGED dropped
  /\ UNCHANGED <<count, m_mutex, output>>

\* A fault: the writer has no mutex.
Free_NoMutex == TRUE

Free == m_mutex = NoThread

Lock(t) ==
  /\ Free
  /\ Goto(t, "locking", "printing")
  /\ m_mutex' = t
  /\ UNCHANGED <<count, output, dropped>>

Printed(t, part) == Append(output, [line |-> <<t, count[t]>>, part |-> part])

Emit(t) ==
  /\ \/ Goto(t, "printing", "half") /\ output' = Printed(t, 1)
     \/ Goto(t, "half", "unlocking") /\ output' = Printed(t, 2)
  /\ UNCHANGED <<count, m_mutex, dropped>>

\* A fault: the mutex stays locked.
Released_Kept == m_mutex

Released == NoThread

Unlock(t) ==
  /\ Goto(t, "unlocking", "running")
  /\ m_mutex' = Released
  /\ UNCHANGED <<count, output, dropped>>

Next == \E t \in Threads : Build(t) \/ Write(t) \/ Lock(t) \/ Emit(t) \/ Unlock(t)

\* A thread's statement goes on, and the mutex is not always given to others.
Fairness ==
  \A t \in Threads : WF_vars(Emit(t)) /\ WF_vars(Unlock(t)) /\ SF_vars(Lock(t))

Spec == Init /\ [][Next]_vars /\ Fairness

-----------------------------------------------------------------------------
(* Properties.                                                             *)

\* Whatever the threads do, a line that is begun is the last one or is
\* continued at once, by its thread (logger.cpp:73-76).
LinesWhole ==
  \A i \in DOMAIN output :
    /\ output[i].part = 1 /\ i < Len(output) =>
         output[i + 1] = [line |-> output[i].line, part |-> 2]
    /\ output[i].part = 2 =>
         i > 1 /\ output[i - 1] = [line |-> output[i].line, part |-> 1]

\* The lines of a thread come in the order of its statements, none twice.
LinesInOrder ==
  \A i, j \in DOMAIN output :
    i < j /\ output[i].part = output[j].part /\ output[i].line[1] = output[j].line[1] =>
      output[i].line[2] < output[j].line[2]

\* Every line that passes the level is printed, and its thread goes on: the
\* mutex is always released (logger.cpp:74).
FatalIsPrinted ==
  \A t \in Threads :
    pc[t] = "locking" ~>
      /\ pc[t] = "running"
      /\ \E i \in DOMAIN output : output[i] = [line |-> <<t, count[t]>>, part |-> 2]

\* config.yaml:9 "level: 3", and logger.h:20 "WARNING = 3": what is dropped is
\* below the configured level.
LevelRespected == \A level \in dropped : level < Level
=============================================================================
