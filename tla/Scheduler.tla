----------------------------- MODULE Scheduler ------------------------------
(***************************************************************************)
(* scheduler::post and the awakener: tasks are put into the queue of a     *)
(* scheduler, and its worker is woken through a pair of blocking datagram  *)
(* sockets. The worker's other events are sources that become readable.    *)
(* scheduler::instance is the only way to a scheduler, so the worker's own *)
(* handlers are the first to post; others need its reference.              *)
(*                                                                         *)
(* A call of write or read that a signal interrupts is repeated and        *)
(* changes nothing. Nothing takes a task out of the queue and runs it, so  *)
(* of the queue only its size is kept. The event class, the poller and the *)
(* kernel's sockets are external. The names that other modules have too    *)
(* start with Loop, so that a module can extend this one beside Timeouts.  *)
(***************************************************************************)
EXTENDS Naturals, SequencesExt

CONSTANTS
  Worker,      \* the thread of the scheduler
  Others,      \* further threads that post to it
  Sources,     \* its acceptors, connections and timer descriptor
  Awakener,    \* its awakener's event
  QueueLen,    \* datagrams the socket pair holds (net.unix.max_dgram_qlen)
  MaxPosts     \* bound: calls of post per thread

ASSUME SchedulerAssumption ==
  /\ Worker \notin Others /\ Awakener \notin Sources /\ IsFiniteSet(Sources)
  /\ QueueLen \in Nat \ {0} /\ MaxPosts \in Nat

Threads == Others \cup {Worker}

VARIABLES
  worker,        \* "polling", "serving" active_events, or "reading" in the awakener
  active_events, \* those that are left
  ready,         \* sources that are readable
  posts,         \* per thread: how often it called post
  pushing,       \* threads inside m_task_queue.push_back
  waking,        \* threads inside awakener::wake_up
  m_task_queue,  \* how many tasks it holds
  raced,         \* history: two threads were inside push_back at a time
  datagrams      \* bytes "#" that nobody has read

postVars == <<posts, pushing, waking, m_task_queue, raced>>
loopVars == <<worker, active_events, ready, postVars, datagrams>>

LoopTypes ==
  /\ worker \in {"polling", "serving", "reading"}
  /\ active_events \in Seq(Sources \cup {Awakener})
  /\ ready \subseteq Sources
  /\ posts \in [Threads -> 0 .. MaxPosts]
  /\ pushing \subseteq Threads /\ waking \subseteq Threads \ pushing
  /\ m_task_queue \in Nat
  /\ raced \in BOOLEAN
  /\ datagrams \in 0 .. QueueLen

LoopInit ==
  /\ worker = "polling"
  /\ active_events = <<>>
  /\ ready = {}
  /\ posts = [t \in Threads |-> 0]
  /\ pushing = {}
  /\ waking = {}
  /\ m_task_queue = 0
  /\ raced = FALSE
  /\ datagrams = 0

BecomesReadable(s) ==
  /\ s \notin ready
  /\ ready' = ready \cup {s}
  /\ UNCHANGED <<worker, active_events, postVars, datagrams>>

-----------------------------------------------------------------------------
(* scheduler::post.                                                        *)

Posting(t) == t \in pushing \cup waking

\* The worker posts from a handler.
Post(t) ==
  /\ ~Posting(t) /\ posts[t] < MaxPosts
  /\ t = Worker => worker = "serving" /\ active_events # <<>> /\ Head(active_events) # Awakener
  /\ posts' = [posts EXCEPT ![t] = @ + 1]
  /\ pushing' = pushing \cup {t}
  /\ raced' = (raced \/ pushing # {})
  /\ UNCHANGED <<worker, active_events, ready, waking, m_task_queue, datagrams>>

\* Nothing protects the deque: after a race any of its tasks may be lost.
PushBack ==
  \/ m_task_queue' = m_task_queue + 1
  \/ raced /\ m_task_queue' \in 0 .. m_task_queue + 1

\* A fault: post does not wake the worker.
EndPush_NotWoken(t) ==
  /\ t \in pushing
  /\ pushing' = pushing \ {t}
  /\ PushBack
  /\ UNCHANGED <<worker, active_events, ready, posts, waking, raced, datagrams>>

EndPush(t) ==
  /\ t \in pushing
  /\ pushing' = pushing \ {t}
  /\ waking' = waking \cup {t}
  /\ PushBack
  /\ UNCHANGED <<worker, active_events, ready, posts, raced, datagrams>>

HasRoom == datagrams < QueueLen

\* awakener::wake_up. The write blocks while there is no room.
WakeUp(t) ==
  /\ t \in waking
  /\ HasRoom
  /\ waking' = waking \ {t}
  /\ datagrams' = datagrams + 1
  /\ UNCHANGED <<worker, active_events, ready, posts, pushing, m_task_queue, raced>>

-----------------------------------------------------------------------------
(* scheduler::run and awakener::handle_read.                               *)

\* A fault: the awakener's event is not enabled for reading.
Readable_NotEnabled == ready

Readable == ready \cup IF datagrams > 0 THEN {Awakener} ELSE {}

Poll ==
  /\ worker = "polling"
  /\ Readable # {}
  /\ active_events' \in SetToSeqs(Readable)
  /\ worker' = "serving"
  /\ UNCHANGED <<ready, postVars, datagrams>>

\* The handler of a source reads it, and its calls of post have returned.
Serve ==
  /\ worker = "serving" /\ ~Posting(Worker)
  /\ active_events # <<>> /\ Head(active_events) # Awakener
  /\ ready' = ready \ {Head(active_events)}
  /\ active_events' = Tail(active_events)
  /\ UNCHANGED <<worker, postVars, datagrams>>

ServeAwakener ==
  /\ worker = "serving"
  /\ active_events # <<>> /\ Head(active_events) = Awakener
  /\ worker' = "reading"
  /\ active_events' = Tail(active_events)
  /\ UNCHANGED <<ready, postVars, datagrams>>

\* The loop is left when nothing was read: but n_read is unsigned, a datagram
\* has its byte, and without one the read blocks.
Read ==
  /\ worker = "reading"
  /\ datagrams > 0
  /\ datagrams' = datagrams - 1
  /\ UNCHANGED <<worker, active_events, ready, postVars>>

\* A fault: an event handler ends the loop over active_events.
AllServed_First == worker = "serving" /\ ~Posting(Worker)

AllServed == worker = "serving" /\ active_events = <<>>

DispatchDone ==
  /\ AllServed
  /\ worker' = "polling"
  /\ active_events' = <<>>
  /\ UNCHANGED <<ready, postVars, datagrams>>

LoopNext ==
  \/ \E s \in Sources : BecomesReadable(s)
  \/ \E t \in Threads : Post(t) \/ EndPush(t) \/ WakeUp(t)
  \/ Poll \/ Serve \/ ServeAwakener \/ Read \/ DispatchDone

\* The threads run, the kernel reports and lets one waiting writer after the
\* other write. A handler returns: no write to a client that does not read
\* blocks it, and no accept repeats for want of descriptors.
LoopFairness ==
  /\ WF_loopVars(Poll) /\ WF_loopVars(Serve) /\ WF_loopVars(ServeAwakener) /\ WF_loopVars(Read)
  /\ WF_loopVars(DispatchDone)
  /\ \A t \in Threads : WF_loopVars(EndPush(t)) /\ SF_loopVars(WakeUp(t))

LoopSpec == LoopInit /\ [][LoopNext]_loopVars /\ LoopFairness

-----------------------------------------------------------------------------
(* Properties.                                                             *)

\* No wake-up is lost: while a task is queued, a poster is about to wake the
\* worker, or a wake-up is waiting, or the worker is taking one
\* (scheduler.cpp:33-34, awakener.cpp:36, 44).
NoWakeUpIsLost ==
  /\ LoopTypes
  /\ m_task_queue > 0 => waking # {} \/ datagrams > 0 \/ worker = "reading"

\* The worker waits for itself: its handler writes into a full socket that
\* only the worker reads.
SelfBlocked == Worker \in waking /\ datagrams = QueueLen

\* awakener.cpp:43-45 reads what there is, "while (n_read > 0 || errno ==
\* EINTR)": the handler comes to an end.
WakeUpReturns == worker = "reading" ~> worker # "reading"

\* A thread comes back from post, though the socket may be full, unless the
\* worker has blocked itself (awakener.cpp:36, scheduler.cpp:32-35).
PostReturns == \A t \in Threads : t \in waking ~> t \notin waking \/ SelfBlocked

\* Until the worker is lost in one of these ways, what becomes readable is
\* served (scheduler.cpp:47-50).
EventsServed == \A s \in Sources : s \in ready ~> s \notin ready \/ worker = "reading" \/ SelfBlocked
=============================================================================
