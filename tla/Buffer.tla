------------------------------- MODULE Buffer -------------------------------
(***************************************************************************)
(* snow::buffer (net/buffer.h, net/buffer.cpp) as operators over a record  *)
(* with the members of the class. Indexes are size_t: their arithmetic     *)
(* wraps at SizeMax. An index that wrapped below zero designates, as a     *)
(* pointer, memory before the array. Memory that was never written, or     *)
(* lies outside the array, holds Garbage.                                  *)
(***************************************************************************)
EXTENDS Integers, Sequences

CONSTANTS
  SizeMax,    \* number of values of size_t
  Garbage     \* a byte nobody wrote

ASSUME BufferAssumption == SizeMax \in Nat \ {0, 1} /\ Garbage \notin Nat

SizeT(n) == n % SizeMax
Offset(index) == IF 2 * index < SizeMax THEN index ELSE index - SizeMax

\* buffer(init_size): the array is not initialised.
NewBuffer(size) ==
  [m_buffer |-> [i \in 0 .. size - 1 |-> Garbage], m_size |-> size,
   m_read_index |-> 0, m_write_index |-> 0]

\* buffer(data, len): a copy of the bytes, in an array of just their size.
BufferOf(data) ==
  [m_buffer |-> [i \in 0 .. Len(data) - 1 |-> data[i + 1]], m_size |-> Len(data),
   m_read_index |-> 0, m_write_index |-> Len(data)]

ReadableBytes(b) == SizeT(b.m_write_index - b.m_read_index)
WriteableBytes(b) == SizeT(b.m_size - b.m_write_index)

ByteAt(b, i) == IF i \in DOMAIN b.m_buffer THEN b.m_buffer[i] ELSE Garbage

\* The bytes from read_index() to write_index().
Readable(b) ==
  [i \in 1 .. ReadableBytes(b) |-> ByteAt(b, Offset(b.m_read_index) + i - 1)]

IncreaseReadIndex(b, size) == [b EXCEPT !.m_read_index = SizeT(@ + size)]
IncreaseWriteIndex(b, size) == [b EXCEPT !.m_write_index = SizeT(@ + size)]

HasRoom(b, size) == WriteableBytes(b) >= size
MustGrow(b, size) == ~HasRoom(b, size) /\ SizeT(b.m_size - ReadableBytes(b)) < size

\* The indexes go back to the start of the array, the bytes do not.
Slips(b, size) ==
  /\ ~HasRoom(b, size) /\ ~MustGrow(b, size)
  /\ b.m_read_index # 0 /\ ReadableBytes(b) > 0

\* A fault: the larger array starts empty.
Grown_NotCopied(b, size) == [i \in 0 .. b.m_write_index + size - 1 |-> Garbage]

\* The array of a larger buffer, with the readable bytes at its start.
Grown(b, size) ==
  [i \in 0 .. b.m_write_index + size - 1 |->
     IF i < ReadableBytes(b) THEN Readable(b)[i + 1] ELSE Garbage]

\* A fault: the larger array only has room for what is added.
EnsureWriteableBytes_SmallArray(b, size) ==
  IF HasRoom(b, size) THEN b
  ELSE [m_buffer      |-> IF MustGrow(b, size) THEN [i \in 0 .. size - 1 |-> Garbage] ELSE b.m_buffer,
        m_size        |-> IF MustGrow(b, size) THEN size ELSE b.m_size,
        m_read_index  |-> 0,
        m_write_index |-> ReadableBytes(b)]

\* A fault: the array grows, never back to the readable bytes alone.
EnsureWriteableBytes_AlwaysGrow(b, size) ==
  IF HasRoom(b, size) THEN b
  ELSE [m_buffer      |-> [i \in 0 .. b.m_size + size - 1 |->
                             IF i < ReadableBytes(b) THEN Readable(b)[i + 1] ELSE Garbage],
        m_size        |-> b.m_size + size,
        m_read_index  |-> 0,
        m_write_index |-> ReadableBytes(b)]

EnsureWriteableBytes(b, size) ==
  IF HasRoom(b, size) THEN b
  ELSE [m_buffer      |-> IF MustGrow(b, size) THEN Grown(b, size) ELSE b.m_buffer,
        m_size        |-> IF MustGrow(b, size) THEN b.m_write_index + size ELSE b.m_size,
        m_read_index  |-> 0,
        m_write_index |-> ReadableBytes(b)]

\* The assertion at the end of ensure_writeable_bytes.
RoomAsserted(b, size) == HasRoom(EnsureWriteableBytes(b, size), size)

\* std::copy of data to write_index(), as far as the array reaches.
CopyIn(b, data) ==
  LET first == b.m_write_index IN
  [b EXCEPT !.m_buffer = [i \in DOMAIN @ |->
     IF i \in first .. first + Len(data) - 1 THEN data[i - first + 1] ELSE @[i]]]

\* append() writes behind the end of the array.
Overruns(b, size) ==
  LET roomy == EnsureWriteableBytes(b, size) IN roomy.m_write_index + size > roomy.m_size

AppendTo(b, data) ==
  IncreaseWriteIndex(CopyIn(EnsureWriteableBytes(b, Len(data)), data), Len(data))
=============================================================================
