------------------------------ MODULE SendPath ------------------------------
(***************************************************************************)
(* The way out of a connection: packet handlers call connection::send,     *)
(* which calls tcp_socket::write and keeps what is left in m_send_buffer.  *)
(* All of it runs on the connection's worker, so a call is one action; the *)
(* kernel chooses what ::write returns.                                    *)
(***************************************************************************)
EXTENDS Buffer

CONSTANTS
  InitSize,       \* buffer::INIT_SIZE
  Sizes,          \* lengths of the responses
  MaxSent,        \* bound on the bytes the handlers send
  MaxErrors       \* bound on the writes that return -1

ASSUME SendPathAssumption ==
  /\ InitSize \in Nat \ {0}
  /\ Sizes \subseteq Nat
  /\ MaxSent \in Nat
  /\ MaxErrors \in Nat
  /\ 2 * (InitSize + MaxSent + MaxErrors) < SizeMax   \* far from the end of the address space

VARIABLES
  m_send_buffer,  \* connection::m_send_buffer
  sent,           \* how many bytes handlers have passed to send; byte i is i
  wire,           \* the bytes ::write took
  errors,         \* history: how often ::write returned -1
  slipped,        \* history: ensure_writeable_bytes left readable bytes behind
  process         \* "runs", or the assertion or overrun that ended it

vars == <<m_send_buffer, sent, wire, errors, slipped, process>>

TypeOK ==
  /\ m_send_buffer.m_size \in 0 .. SizeMax - 1
  /\ m_send_buffer.m_buffer \in [0 .. m_send_buffer.m_size - 1 -> 1 .. MaxSent \cup {Garbage}]
  /\ m_send_buffer.m_read_index \in 0 .. SizeMax - 1
  /\ m_send_buffer.m_write_index \in 0 .. SizeMax - 1
  /\ sent \in 0 .. MaxSent
  /\ wire \in Seq(1 .. MaxSent \cup {Garbage})
  /\ errors \in 0 .. MaxErrors /\ slipped \in BOOLEAN
  /\ process \in {"runs", "write of nothing", "no room", "overrun"}

Init ==
  /\ m_send_buffer = NewBuffer(InitSize)
  /\ sent = 0
  /\ wire = <<>>
  /\ errors = 0
  /\ slipped = FALSE
  /\ process = "runs"

\* The buffer a handler passes to send: the next n bytes of its stream.
Response(n) == BufferOf([i \in 1 .. n |-> sent + i])

\* What ::write may return for buffer b. The sockets of clients block: a part
\* is taken when a signal stops the write after it copied something.
Results(b) == 1 .. ReadableBytes(b) \cup (IF errors < MaxErrors THEN {-1} ELSE {})

Written(b, ret) == SubSeq(Readable(b), 1, ret)

\* tcp_socket::write stores the result in a size_t: -1 is above zero, and
\* increase_read_index adds it.
AfterWrite(b, ret) == IncreaseReadIndex(b, SizeT(ret))

\* A fault: what ::write did not take is not kept.
Kept_Dropped(rest) == m_send_buffer

\* What is left of a response goes to m_send_buffer. That is empty here, so
\* the bytes always fit.
Kept(rest) ==
  IF ReadableBytes(rest) > 0 THEN AppendTo(m_send_buffer, Readable(rest)) ELSE m_send_buffer

\* send() with nothing pending writes the response itself.
SendDirect(n) ==
  /\ process = "runs"
  /\ ReadableBytes(m_send_buffer) = 0
  /\ n > 0
  /\ \E ret \in Results(Response(n)) :
       /\ wire' = wire \o Written(Response(n), ret)
       /\ m_send_buffer' = Kept(AfterWrite(Response(n), ret))
       /\ errors' = IF ret = -1 THEN errors + 1 ELSE errors
  /\ sent' = sent + n
  /\ UNCHANGED <<slipped, process>>

\* tcp_socket::write asserts that there is something to write.
SendNothing ==
  /\ process = "runs"
  /\ ReadableBytes(m_send_buffer) = 0
  /\ process' = "write of nothing"
  /\ UNCHANGED <<m_send_buffer, sent, wire, errors, slipped>>

\* A fault: the response overtakes the bytes that are pending.
Queued_First(n) == AppendTo(Response(n), Readable(m_send_buffer))

Queued(n) == AppendTo(m_send_buffer, Readable(Response(n)))

\* send() with bytes pending appends the response and writes the whole.
SendQueued(n) ==
  /\ process = "runs"
  /\ ReadableBytes(m_send_buffer) > 0
  /\ RoomAsserted(m_send_buffer, n) /\ ~Overruns(m_send_buffer, n)
  /\ \E ret \in Results(Queued(n)) :
       /\ wire' = wire \o Written(Queued(n), ret)
       /\ m_send_buffer' = AfterWrite(Queued(n), ret)
       /\ errors' = IF ret = -1 THEN errors + 1 ELSE errors
  /\ slipped' = (slipped \/ Slips(m_send_buffer, n))
  /\ sent' = sent + n
  /\ UNCHANGED process

\* The append that does not go well: the assertion of ensure_writeable_bytes
\* fails, or the copy runs over the end of the array.
SendBreaks(n) ==
  /\ process = "runs"
  /\ ReadableBytes(m_send_buffer) > 0
  /\ \/ ~RoomAsserted(m_send_buffer, n) /\ process' = "no room"
     \/ /\ RoomAsserted(m_send_buffer, n)
        /\ Overruns(m_send_buffer, n)
        /\ process' = "overrun"
  /\ UNCHANGED <<m_send_buffer, sent, wire, errors, slipped>>

Send(n) ==
  /\ sent + n <= MaxSent
  /\ SendDirect(n) \/ SendQueued(n) \/ SendBreaks(n) \/ (n = 0 /\ SendNothing)

Next == \E n \in Sizes : Send(n)

Spec == Init /\ [][Next]_vars

-----------------------------------------------------------------------------
(* Properties.                                                             *)

Bytes(n) == [i \in 1 .. n |-> i]

\* While no write failed and no append slipped, every byte handed to send is
\* either on the wire or pending, once and in order (connection.cpp:35-45).
NothingLost ==
  errors = 0 /\ ~slipped => wire \o Readable(m_send_buffer) = Bytes(sent)

\* The process is ended by a failed assertion of ensure_writeable_bytes, or
\* writes over the end of the array, only after ::write has failed once.
MemorySafeUntilFailure == errors = 0 => process \notin {"no room", "overrun"}

\* After a slip too, and without failed writes, every byte of a response is
\* replaced, never dropped: the count of bytes stays right.
LengthKept == errors = 0 => Len(wire) + ReadableBytes(m_send_buffer) = sent

Stream == INSTANCE ByteStream WITH put <- sent, got <- wire, broken <- errors > 0 \/ slipped

\* The peer reads a prefix of what was sent until the first fault.
StreamSpec == Stream!Spec

\* samples/echo.cpp:15 sends the client what it received; without any failed
\* write the bytes on the wire are the bytes that were sent.
WireIntact == \A i \in DOMAIN wire : wire[i] = i

\* tcp_socket.cpp:54 asserts that write is called with something to write.
NeverWritesNothing == process # "write of nothing"

\* buffer.cpp:67 asserts that there is room when ensure_writeable_bytes ends.
RoomIsMade == process # "no room"
=============================================================================
