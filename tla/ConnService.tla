---------------------------- MODULE ConnService ----------------------------
(***************************************************************************)
(* What the workers of a snow server promise together: every listening     *)
(* socket is served by one worker at a time, a waiting client is taken     *)
(* once, by the worker that serves its socket, and stays with that worker  *)
(* until it leaves for good.                                               *)
(***************************************************************************)
CONSTANTS Threads, Acceptors, Conns, NoThread

VARIABLES
  waiting,    \* per acceptor: the clients waiting to be taken
  holder,     \* per acceptor: the worker that serves it
  keeper,     \* per client: the worker that took it
  left        \* the clients that are gone

vars == <<waiting, holder, keeper, left>>

Init ==
  /\ waiting = [a \in Acceptors |-> {}]
  /\ holder = [a \in Acceptors |-> NoThread]
  /\ keeper = [c \in Conns |-> NoThread]
  /\ left = {}

Arrive(c, a) ==
  /\ keeper[c] = NoThread
  /\ \A b \in Acceptors : c \notin waiting[b]
  /\ waiting' = [waiting EXCEPT ![a] = @ \cup {c}]
  /\ UNCHANGED <<holder, keeper, left>>

Acquire(a, t) ==
  /\ holder[a] = NoThread
  /\ holder' = [holder EXCEPT ![a] = t]
  /\ UNCHANGED <<waiting, keeper, left>>

Release(a, t) ==
  /\ holder[a] = t
  /\ holder' = [holder EXCEPT ![a] = NoThread]
  /\ UNCHANGED <<waiting, keeper, left>>

Take(c, a, t) ==
  /\ holder[a] = t
  /\ c \in waiting[a]
  /\ waiting' = [waiting EXCEPT ![a] = @ \ {c}]
  /\ keeper' = [keeper EXCEPT ![c] = t]
  /\ UNCHANGED <<holder, left>>

Leave(c) ==
  /\ keeper[c] # NoThread
  /\ c \notin left
  /\ left' = left \cup {c}
  /\ UNCHANGED <<waiting, holder, keeper>>

Next ==
  \/ \E a \in Acceptors, t \in Threads : Acquire(a, t) \/ Release(a, t)
  \/ \E c \in Conns, a \in Acceptors : Arrive(c, a)
  \/ \E c \in Conns, a \in Acceptors, t \in Threads : Take(c, a, t)
  \/ \E c \in Conns : Leave(c)

Spec == Init /\ [][Next]_vars
=============================================================================
