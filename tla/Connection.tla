----------------------------- MODULE Connection -----------------------------
(***************************************************************************)
(* One open connection and its client, in numbers of bytes: requests come  *)
(* in, the session answers each packet with as many bytes, and what a      *)
(* write leaves is kept. The bytes themselves are the subject of RecvPath  *)
(* and SendPath, and the worker's other duties that of Server; here the    *)
(* question is what client and worker wait for.                            *)
(*                                                                         *)
(* The client sends a request only when the last one is answered. It may   *)
(* finish its side of the stream, or reset the connection, at any time.    *)
(* The user's pkg_check is one that knows packets of one length, not the   *)
(* one of samples/echo.cpp, which takes all there is for a packet.         *)
(*                                                                         *)
(* The kernel is external. The sockets of connections block: ::write comes *)
(* back when it took everything, which may be never if the client does not *)
(* read, and earlier when a signal or a reset stops it. After a reset the  *)
(* next call fails with ECONNRESET; from then on a read finds the end of   *)
(* the stream, and a write raises SIGPIPE, which the server leaves at its  *)
(* default, the end of the process. A reset by a client that had finished  *)
(* its side leaves EPIPE instead: the next write already raises SIGPIPE.   *)
(***************************************************************************)
EXTENDS Naturals

CONSTANTS
  PkgLen,      \* length of the packets that the user's pkg_check knows
  Packets,     \* how many packets a request may have
  MaxAsked     \* bound on the bytes of all requests

ASSUME ConnectionAssumption ==
  PkgLen \in Nat \ {0} /\ Packets \subseteq Nat \ {0} /\ MaxAsked \in Nat

VARIABLES
  asked,       \* bytes the client has sent
  fin,         \* the client has finished its side
  link,        \* "up", "reset" by the client, or "broken": ECONNRESET is fetched
  taken,       \* bytes ::readv has returned
  received,    \* readable bytes of m_recv_buffer
  pending,     \* readable bytes of m_send_buffer
  got,         \* bytes ::write took
  failed,      \* history: a write returned -1
  pc           \* of the worker: "polling", "dispatching", "writing" in a blocking
               \* ::write, "gone" with the connection, or "killed" with the server

clientVars == <<asked, fin>>
vars == <<clientVars, link, taken, received, pending, got, failed, pc>>

TypeOK ==
  /\ asked \in 0 .. MaxAsked /\ fin \in BOOLEAN
  /\ link \in {"up", "reset", "broken"}
  /\ taken \in 0 .. asked /\ received \in 0 .. taken
  /\ pending \in 0 .. MaxAsked + 1 /\ got \in 0 .. taken
  /\ failed \in BOOLEAN
  /\ pc \in {"polling", "dispatching", "writing", "gone", "killed"}

Init ==
  /\ asked = 0 /\ fin = FALSE
  /\ link = "up"
  /\ taken = 0 /\ received = 0 /\ pending = 0 /\ got = 0
  /\ failed = FALSE
  /\ pc = "polling"

-----------------------------------------------------------------------------
(* The client.                                                             *)

Request ==
  /\ link = "up" /\ ~fin /\ got = asked
  /\ \E n \in Packets : asked + n * PkgLen <= MaxAsked /\ asked' = asked + n * PkgLen
  /\ UNCHANGED <<fin, link, taken, received, pending, got, failed, pc>>

Finish ==
  /\ link = "up" /\ ~fin
  /\ fin' = TRUE
  /\ UNCHANGED <<asked, link, taken, received, pending, got, failed, pc>>

Reset ==
  /\ link = "up" /\ pc # "gone"
  /\ link' = IF fin THEN "broken" ELSE "reset"
  /\ UNCHANGED <<clientVars, taken, received, pending, got, failed, pc>>

-----------------------------------------------------------------------------
(* connection::handle_read.                                                *)

Read ==
  /\ pc = "polling"
  /\ \E n \in 1 .. asked - taken :
       taken' = taken + n /\ received' = received + n
  /\ pc' = "dispatching"
  /\ UNCHANGED <<clientVars, link, pending, got, failed>>

\* ret is unsigned, so an error is not taken for the end: the loop is entered.
ReadFails ==
  /\ pc = "polling" /\ asked = taken /\ link = "reset"
  /\ link' = "broken"
  /\ pc' = "dispatching"
  /\ UNCHANGED <<clientVars, taken, received, pending, got, failed>>

\* A fault: a reported connection whose client has finished is closed.
AtEnd_Unread == fin \/ link = "broken"

\* A fault: the end of the stream closes a connection only after an error.
AtEnd_AfterError == asked = taken /\ link = "broken"

\* ::readv returns 0: nothing is left, and the stream has ended.
AtEnd == asked = taken /\ (fin \/ link = "broken")

\* read returns 0: the connection is destroyed, with what is pending.
ReadEnd ==
  /\ pc = "polling" /\ AtEnd
  /\ pc' = "gone"
  /\ UNCHANGED <<clientVars, link, taken, received, pending, got, failed>>

Complete == received >= PkgLen

\* A session that sends back what it is given, as echo_session::process does.
Answer(len) == len

\* A response goes out behind what is pending.
ToWrite == pending + Answer(PkgLen)

\* A fault: the rest of a write is not kept.
Left_Dropped(n) == 0

Left(n) == ToWrite - n

\* The dispatcher returns, and handle_read goes on behind the packet.
Dispatched ==
  /\ received' = received - PkgLen
  /\ pc' = "dispatching"

\* A fault: any error is taken for EINTR, and the write is tried again.
WriteFails_Retried ==
  /\ link # "up"
  /\ link' = "broken"
  /\ pc' = "killed"
  /\ UNCHANGED <<clientVars, taken, received, pending, got, failed>>

\* tcp_socket::write on a connection that was reset. -1 counts as a success and
\* moves the read index back by one; after the error was fetched, or if there
\* was none but EPIPE, the signal ends the server.
WriteFails ==
  \/ /\ link = "reset"
     /\ link' = "broken" /\ failed' = TRUE
     /\ pending' = ToWrite + 1
     /\ Dispatched
     /\ UNCHANGED <<clientVars, taken, got>>
  \/ /\ link = "broken"
     /\ pc' = "killed"
     /\ UNCHANGED <<clientVars, link, taken, received, pending, got, failed>>

\* One turn of the dispatch loop: session::process, send_to_client and
\* connection::send, as far as ::write.
Dispatch ==
  /\ pc = "dispatching" /\ Complete
  /\ \/ /\ link = "up"
        /\ pc' = "writing"
        /\ UNCHANGED <<clientVars, link, taken, received, pending, got, failed>>
     \/ WriteFails

\* ::write returns with what it took: before a reset, all or, on a signal, a
\* part, and at a reset the part it has.
WriteTakes ==
  /\ pc = "writing"
  /\ \E n \in 1 .. ToWrite : got' = got + n /\ pending' = Left(n)
  /\ Dispatched
  /\ UNCHANGED <<clientVars, link, taken, failed>>

\* A write that has taken nothing yet fails when the connection is reset.
WriteBreaks == pc = "writing" /\ WriteFails

DispatchDone ==
  /\ pc = "dispatching" /\ ~Complete
  /\ pc' = "polling"
  /\ UNCHANGED <<clientVars, link, taken, received, pending, got, failed>>

Next ==
  \/ Request \/ Finish \/ Reset
  \/ Read \/ ReadFails \/ ReadEnd
  \/ Dispatch \/ WriteTakes \/ WriteBreaks \/ DispatchDone

\* The worker polls and serves the event of this connection (Server), and the
\* kernel ends a write into a connection that was reset. While it is up, the
\* client owes nothing, not even to read what the worker writes.
Fairness ==
  /\ WF_vars(Read \/ ReadFails \/ ReadEnd)
  /\ WF_vars(Dispatch \/ DispatchDone)
  /\ WF_vars(link # "up" /\ (WriteTakes \/ WriteBreaks))

Spec == Init /\ [][Next]_vars /\ Fairness

-----------------------------------------------------------------------------
(* Properties.                                                             *)

\* No write into this connection blocks for ever: the client reads, or leaves.
ClientReads == []<>(pc # "writing")

\* No event makes the connection write what is pending: handle_write is never
\* registered (connection.cpp:21-29, 62). A client that reads gets its whole
\* answer, or waits with the rest of it pending and nothing left to read.
WaitsOnlyForPending ==
  ClientReads =>
    (got < asked ~> got = asked \/ link # "up" \/ (pending > 0 /\ taken = asked))

\* A client that finishes its side loses no request, and of the answers only
\* what a write left pending (connection.cpp:49-53).
EndLosesOnlyPending ==
  pc = "gone" /\ link = "up" => asked = taken /\ received = 0 /\ got + pending = asked

\* Only a client that leaves with requests unanswered ends the whole server by
\* SIGPIPE (tcp_socket.cpp:56): it takes two packets, or one if the client had
\* finished its side before the reset.
KilledByUnanswered ==
  pc = "killed" => got + (IF fin THEN PkgLen ELSE 2 * PkgLen) <= asked

\* A connection that was reset is destroyed, or kills the server; it is not
\* forgotten, although an error does not close it (connection.cpp:49). One
\* whose client has finished is destroyed too, unless a write into it blocks
\* for ever.
GoesWithClient ==
  /\ link # "up" ~> pc \in {"gone", "killed"}
  /\ ClientReads => (fin ~> pc \in {"gone", "killed"})

\* samples/echo.cpp:15 "send_to_client(data, len);": a client that stays, and
\* reads, gets its answer.
AnswerArrives == ClientReads => (got < asked ~> got = asked \/ link # "up" \/ fin)
=============================================================================
