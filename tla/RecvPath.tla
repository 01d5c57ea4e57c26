------------------------------ MODULE RecvPath ------------------------------
(***************************************************************************)
(* The way into a connection: connection::handle_read calls                *)
(* tcp_socket::read, which fills m_recv_buffer with one ::readv, and hands  *)
(* the complete packets to the dispatcher. The peer's bytes queue in the   *)
(* kernel meanwhile.                                                       *)
(*                                                                         *)
(* The user's pkg_check is taken to know packets of one length: it returns *)
(* PkgLen when that many bytes are there, and 0 otherwise. With PkgLen 1   *)
(* all there is gets dispatched, which is what samples/echo.cpp does in a  *)
(* single call.                                                            *)
(***************************************************************************)
EXTENDS Buffer

CONSTANTS
  InitSize,       \* buffer::INIT_SIZE
  Reserve,        \* what tcp_socket::read asks ensure_writeable_bytes for
  Common,         \* size of its common_buffer
  RcvBuf,         \* size of the kernel's receive buffer
  PkgLen,         \* length of a packet
  MaxBytes        \* bound on the bytes the peer sends

ASSUME RecvPathAssumption ==
  /\ {InitSize, Reserve, Common, RcvBuf, PkgLen} \subseteq Nat \ {0}
  /\ MaxBytes \in Nat
  /\ 8 * (InitSize + Reserve + Common + RcvBuf + PkgLen) < SizeMax  \* far from the end of the address space

VARIABLES
  m_recv_buffer,  \* connection::m_recv_buffer
  arrived,        \* how many bytes have reached the kernel; byte i is i
  taken,          \* how many of them ::readv has returned
  dispatched,     \* the bytes passed to the dispatcher
  slipped         \* history: ensure_writeable_bytes left readable bytes behind

vars == <<m_recv_buffer, arrived, taken, dispatched, slipped>>

TypeOK ==
  /\ m_recv_buffer.m_size \in 0 .. SizeMax - 1
  /\ m_recv_buffer.m_buffer \in [0 .. m_recv_buffer.m_size - 1 -> 1 .. MaxBytes \cup {Garbage}]
  /\ m_recv_buffer.m_write_index \in 0 .. m_recv_buffer.m_size
  /\ m_recv_buffer.m_read_index \in 0 .. m_recv_buffer.m_write_index
  /\ arrived \in 0 .. MaxBytes
  /\ taken \in 0 .. arrived
  /\ dispatched \in Seq(1 .. MaxBytes \cup {Garbage})
  /\ slipped \in BOOLEAN

Init ==
  /\ m_recv_buffer = NewBuffer(InitSize)
  /\ arrived = 0
  /\ taken = 0
  /\ dispatched = <<>>
  /\ slipped = FALSE

PeerSends(n) ==
  /\ arrived - taken + n <= RcvBuf
  /\ arrived + n <= MaxBytes
  /\ arrived' = arrived + n
  /\ UNCHANGED <<m_recv_buffer, taken, dispatched, slipped>>

\* The buffer as tcp_socket::read passes it to ::readv.
Offered == EnsureWriteableBytes(m_recv_buffer, Reserve)

\* The next n bytes of the stream, from the k-th.
Chunk(k, n) == [i \in 1 .. n |-> taken + k - 1 + i]

Lesser(m, n) == IF m < n THEN m ELSE n

\* ::readv fills the buffer, and the rest goes to common_buffer.
Fits(b, n) == Lesser(n, WriteableBytes(b))
Filled(b, n) == IncreaseWriteIndex(CopyIn(b, Chunk(1, Fits(b, n))), Fits(b, n))

\* tcp_socket::read appends what is in common_buffer.
Received(b, n) ==
  IF n <= WriteableBytes(b) THEN Filled(b, n)
  ELSE AppendTo(Filled(b, n), Chunk(Fits(b, n) + 1, n - Fits(b, n)))

ReceiveSlips(b, n) ==
  n > WriteableBytes(b) /\ Slips(Filled(b, n), n - Fits(b, n))

\* A fault: one packet per call of handle_read.
Complete_One(len) == IF len >= PkgLen THEN PkgLen ELSE 0

\* The dispatch loop of handle_read turns until pkg_check returns 0.
Complete(len) == len - (len % PkgLen)

\* A fault: the read index is not moved behind the packets.
Dispatch_Kept(b) ==
  /\ dispatched' = dispatched \o SubSeq(Readable(b), 1, Complete(ReadableBytes(b)))
  /\ m_recv_buffer' = b

Dispatch(b) ==
  /\ dispatched' = dispatched \o SubSeq(Readable(b), 1, Complete(ReadableBytes(b)))
  /\ m_recv_buffer' = IncreaseReadIndex(b, Complete(ReadableBytes(b)))

\* handle_read, when ::readv returns n bytes.
HandleRead(n) ==
  /\ n \in 1 .. Lesser(arrived - taken, WriteableBytes(Offered) + Common)
  /\ Dispatch(Received(Offered, n))
  /\ taken' = taken + n
  /\ slipped' = (slipped \/ Slips(m_recv_buffer, Reserve) \/ ReceiveSlips(Offered, n))
  /\ UNCHANGED arrived

\* handle_read, when ::readv fails: the result is not below zero, so the
\* dispatch loop runs on what the buffer holds.
HandleReadFailed ==
  /\ Dispatch(Offered)
  /\ slipped' = (slipped \/ Slips(m_recv_buffer, Reserve))
  /\ UNCHANGED <<arrived, taken>>

Next ==
  \/ \E n \in 1 .. RcvBuf : PeerSends(n)
  \/ \E n \in 1 .. RcvBuf : HandleRead(n)
  \/ HandleReadFailed

Spec == Init /\ [][Next]_vars

-----------------------------------------------------------------------------
(* Properties.                                                             *)

Bytes(n) == [i \in 1 .. n |-> i]

\* While no ensure_writeable_bytes slipped, every byte that ::readv returned
\* was dispatched or waits in the buffer, once and in order, across the
\* boundary of the two areas that ::readv fills (tcp_socket.cpp:33-39).
NothingLost ==
  ~slipped => dispatched \o Readable(m_recv_buffer) = Bytes(taken)

\* The bytes keep their number even then: packet boundaries in the stream
\* stay where they were.
LengthKept == Len(dispatched) + ReadableBytes(m_recv_buffer) = taken

\* Between two calls of handle_read no complete packet waits in the buffer: a
\* packet that has been read is dispatched without another byte arriving.
NoPacketWaits == ReadableBytes(m_recv_buffer) < PkgLen

\* The array never outgrows what one call of handle_read may have to hold: what
\* tcp_socket::read asks for, or all the kernel had and a second append, next
\* to the beginning of a packet. Yet ensure_writeable_bytes adds to the write
\* index, which counts bytes that were consumed long ago (buffer.cpp:55-61).
SizeBounded ==
  \/ m_recv_buffer.m_size <= InitSize
  \/ m_recv_buffer.m_size <= 2 * Reserve + (PkgLen - 1) - 1
  \/ m_recv_buffer.m_size <= RcvBuf + Common + (PkgLen - 1) - 1

Stream == INSTANCE ByteStream WITH put <- arrived, got <- dispatched, broken <- slipped

\* The dispatcher sees the peer's stream until the first slip.
StreamSpec == Stream!Spec

\* samples/echo.cpp:13-16 gives the client back the data that process is
\* called with: these are the bytes the client sent.
DispatchIntact == \A i \in DOMAIN dispatched : dispatched[i] = i
=============================================================================
