--------------------------- MODULE RecvPathProofs ---------------------------
(***************************************************************************)
(* Theorems about RecvPath, for any sizes of buffers, any length of        *)
(* packets and any splitting of the stream: what connection::handle_read   *)
(* does with the bytes, how large its buffer gets, and that no packet is   *)
(* left waiting.                                                           *)
(***************************************************************************)
EXTENDS RecvPath, BufferProofs

USE BufferAssumption, RecvPathAssumption DEF BufferAssumption, RecvPathAssumption

-----------------------------------------------------------------------------
(* The inductive invariant: the indexes of m_recv_buffer are in order      *)
(* within an array that does not outgrow its bound, the dispatched bytes   *)
(* and those in the buffer are as many as were taken, and until an         *)
(* ensure_writeable_bytes slips they are those that were taken.            *)

Limit == InitSize + 2 * Reserve + Common + RcvBuf + PkgLen

Sound(w, b, total) ==
  /\ Together(w, b, total, Limit)
  /\ \/ b.m_size <= InitSize
     \/ b.m_size <= 2 * Reserve + (PkgLen - 1) - 1
     \/ b.m_size <= RcvBuf + Common + (PkgLen - 1) - 1

RecvInv ==
  /\ arrived \in Nat /\ taken \in 0 .. arrived
  /\ slipped \in BOOLEAN
  /\ Sound(dispatched, m_recv_buffer, taken)
  /\ NoPacketWaits
  /\ ~slipped => InOrder(dispatched, m_recv_buffer)

\* The sizes as numbers.
LEMMA Sizes ==
  /\ InitSize \in Nat /\ Reserve \in Nat /\ Common \in Nat /\ RcvBuf \in Nat /\ PkgLen \in Nat
  /\ InitSize > 0 /\ Reserve > 0 /\ Common > 0 /\ RcvBuf > 0 /\ PkgLen > 0
  /\ Limit \in Nat /\ Small(Limit) /\ Small(Limit + Reserve)
<1>1. /\ InitSize \in Nat /\ Reserve \in Nat /\ Common \in Nat /\ RcvBuf \in Nat /\ PkgLen \in Nat
      /\ InitSize > 0 /\ Reserve > 0 /\ Common > 0 /\ RcvBuf > 0 /\ PkgLen > 0
  OBVIOUS
<1>2. 8 * (InitSize + Reserve + Common + RcvBuf + PkgLen) < SizeMax /\ SizeMax \in Nat
  OBVIOUS
<1>3. QED
  BY ONLY <1>1, <1>2 DEF Limit, Small

LEMMA ChunkSize ==
  ASSUME NEW n \in 0 .. RcvBuf
  PROVE  Small(Limit + n)
<1>1. 8 * (InitSize + Reserve + Common + RcvBuf + PkgLen) < SizeMax /\ SizeMax \in Nat
  OBVIOUS
<1>2. QED
  BY ONLY <1>1, n \in 0 .. RcvBuf, Sizes DEF Limit, Small

\* A buffer whose size is in its bound is within the limit.
LEMMA SoundWithin ==
  ASSUME NEW b, NEW total, NEW limit, Together(dispatched, b, total, limit), limit \in Nat,
         \/ b.m_size <= InitSize
         \/ b.m_size <= 2 * Reserve + (PkgLen - 1) - 1
         \/ b.m_size <= RcvBuf + Common + (PkgLen - 1) - 1
  PROVE  Sound(dispatched, b, total)
<1>1. Ordered(b, limit) /\ b.m_size \in Nat
  BY DEF Together, Ordered
<1>2. b.m_size <= Limit /\ Limit \in Nat
  BY <1>1, Sizes DEF Limit
<1>3. Ordered(b, Limit)
  BY <1>1, <1>2, OtherLimit
<1>4. QED
  BY <1>3 DEF Together, Sound

\* The counts of a sound buffer.
LEMMA SoundCounts ==
  ASSUME NEW b, NEW total, Sound(dispatched, b, total)
  PROVE  /\ ReadableBytes(b) \in Nat /\ WriteableBytes(b) \in Nat
         /\ ReadableBytes(b) = b.m_write_index - b.m_read_index
         /\ WriteableBytes(b) = b.m_size - b.m_write_index
         /\ SizeT(b.m_size - ReadableBytes(b)) = b.m_size - ReadableBytes(b)
         /\ b.m_size \in Nat /\ b.m_write_index \in Nat /\ b.m_read_index \in Nat
         /\ b.m_write_index <= b.m_size
<1>1. Ordered(b, Limit) /\ Small(Limit)
  BY Sizes DEF Sound, Together
<1>2. /\ b.m_size \in Nat /\ b.m_write_index \in Nat /\ b.m_read_index \in Nat
      /\ b.m_read_index <= b.m_write_index /\ b.m_write_index <= b.m_size
  BY <1>1, Indexes
<1>3. /\ ReadableBytes(b) = b.m_write_index - b.m_read_index
      /\ WriteableBytes(b) = b.m_size - b.m_write_index
      /\ SizeT(b.m_size - ReadableBytes(b)) = b.m_size - ReadableBytes(b)
  BY <1>1, Counts
<1>4. QED
  BY <1>2, <1>3

-----------------------------------------------------------------------------
(* The parts of handle_read.                                               *)

\* tcp_socket::read makes room for Reserve bytes.
LEMMA OfferedIsSound ==
  ASSUME RecvInv
  PROVE  /\ Sound(dispatched, Offered, taken)
         /\ ReadableBytes(Offered) = ReadableBytes(m_recv_buffer)
         /\ ~slipped /\ ~Slips(m_recv_buffer, Reserve) => InOrder(dispatched, Offered)
<1> DEFINE b == m_recv_buffer
           roomy == EnsureWriteableBytes(b, Reserve)
<1>1. Sound(dispatched, b, taken) /\ ReadableBytes(b) < PkgLen /\ (~slipped => InOrder(dispatched, b))
  BY DEF RecvInv, NoPacketWaits
<1>2. /\ ReadableBytes(b) \in Nat
      /\ WriteableBytes(b) = b.m_size - b.m_write_index
      /\ SizeT(b.m_size - ReadableBytes(b)) = b.m_size - ReadableBytes(b)
      /\ b.m_size \in Nat /\ b.m_write_index \in Nat /\ b.m_write_index <= b.m_size
  BY <1>1, SoundCounts
<1>3. /\ Together(dispatched, roomy, taken, Limit + Reserve)
      /\ InOrder(dispatched, b) /\ ~Slips(b, Reserve) => InOrder(dispatched, roomy)
  <2>1. Together(dispatched, b, taken, Limit)
    BY <1>1 DEF Sound
  <2>2. Limit \in Nat /\ Reserve \in Nat /\ Small(Limit + Reserve)
    BY Sizes
  <2> HIDE DEF b
  <2>3. QED
    BY <2>1, <2>2, EnsureExtends
<1>4. ReadableBytes(roomy) = ReadableBytes(b)
  <2>1. Ordered(b, Limit)
    BY <1>1 DEF Sound, Together
  <2>2. Limit \in Nat /\ Reserve \in Nat /\ Small(Limit + Reserve)
    BY Sizes
  <2> HIDE DEF b
  <2>3. QED
    BY ONLY <2>1, <2>2, EnsureMakesRoom
<1>5. \/ roomy.m_size = b.m_size
      \/ roomy.m_size = b.m_write_index + Reserve /\ MustGrow(b, Reserve)
  BY DEF EnsureWriteableBytes
<1>6. MustGrow(b, Reserve) => b.m_size - ReadableBytes(b) < Reserve
  BY <1>2 DEF MustGrow
<1> HIDE DEF b, roomy
<1>7. \/ roomy.m_size <= InitSize
      \/ roomy.m_size <= 2 * Reserve + (PkgLen - 1) - 1
      \/ roomy.m_size <= RcvBuf + Common + (PkgLen - 1) - 1
  <2>1. CASE roomy.m_size = b.m_size
    BY <1>1, <2>1 DEF Sound
  <2>2. CASE roomy.m_size = b.m_write_index + Reserve /\ MustGrow(b, Reserve)
    BY <1>1, <1>2, <1>6, <2>2, Sizes
  <2>3. QED
    BY <1>5, <2>1, <2>2
<1>8. Sound(dispatched, roomy, taken)
  <2>1. Limit + Reserve \in Nat
    BY Sizes
  <2>2. QED
    BY <1>3, <1>7, <2>1, SoundWithin
<1>9. QED
  BY <1>1, <1>3, <1>4, <1>8 DEF b, roomy, Offered

LEMMA ChunkIsSeq ==
  ASSUME NEW k \in Nat, NEW n \in Nat, taken \in Nat, k > 0
  PROVE  /\ IsSeq(Chunk(k, n)) /\ Len(Chunk(k, n)) = n
         /\ \A i \in 1 .. n : Chunk(k, n)[i] = (taken + k - 1) + i
<1> DEFINE c == [i \in 1 .. n |-> taken + k - 1 + i]
<1>1. IsSeq(c) /\ Len(c) = n /\ \A i \in 1 .. n : c[i] = (taken + k - 1) + i
  BY DEF IsSeq
<1>2. QED
  BY <1>1 DEF Chunk

\* What ::readv puts into the buffer itself is appended to it.
LEMMA FilledIsSound ==
  ASSUME NEW b, Sound(dispatched, b, taken), taken \in Nat, NEW n \in 1 .. RcvBuf
  PROVE  /\ Fits(b, n) \in 0 .. n /\ Fits(b, n) <= WriteableBytes(b)
         /\ n <= WriteableBytes(b) => Fits(b, n) = n
         /\ n > WriteableBytes(b) => Fits(b, n) = WriteableBytes(b)
         /\ Sound(dispatched, Filled(b, n), taken + Fits(b, n))
         /\ ReadableBytes(Filled(b, n)) = ReadableBytes(b) + Fits(b, n)
         /\ Filled(b, n).m_size = b.m_size
         /\ InOrder(dispatched, b) => InOrder(dispatched, Filled(b, n))
<1> DEFINE fits == Fits(b, n)
           data == Chunk(1, fits)
           room == WriteableBytes(b)
<1>1. ReadableBytes(b) \in Nat /\ room \in Nat
  BY SoundCounts
<1>2. /\ fits \in 0 .. n /\ fits <= room /\ fits \in Nat
      /\ n <= room => fits = n
      /\ n > room => fits = room
  BY <1>1 DEF Fits, Lesser
<1>3. /\ IsSeq(data) /\ Len(data) = fits
      /\ \A i \in 1 .. fits : data[i] = taken + i
  <2> HIDE DEF fits
  <2>1. /\ IsSeq(data) /\ Len(data) = fits
        /\ \A i \in 1 .. fits : data[i] = (taken + 1 - 1) + i
    BY <1>2, ChunkIsSeq
  <2>2. QED
    BY <2>1
<1>4. HasRoom(b, fits) /\ EnsureWriteableBytes(b, fits) = b
  BY <1>2 DEF HasRoom, EnsureWriteableBytes
<1>5. Filled(b, n) = AppendTo(b, data)
  BY <1>3, <1>4 DEF Filled, AppendTo
<1> HIDE DEF fits, data, room
<1>6. Small(Limit + Len(data)) /\ Limit \in Nat
  <2>1. fits \in 0 .. RcvBuf
    BY <1>2, Sizes
  <2>2. QED
    BY <1>3, <2>1, ChunkSize, Sizes
<1>7. /\ Together(dispatched, AppendTo(b, data), taken + Len(data), Limit + Len(data))
      /\ ReadableBytes(AppendTo(b, data)) = ReadableBytes(b) + Len(data)
      /\ (InOrder(dispatched, b) /\ ~Slips(b, Len(data)) /\ \A i \in 1 .. Len(data) : data[i] = taken + i)
           => InOrder(dispatched, AppendTo(b, data))
  <2>1. Together(dispatched, b, taken, Limit)
    BY DEF Sound
  <2>2. /\ Together(dispatched, b, taken, Limit) /\ IsSeq(data) /\ taken \in Nat
        /\ Small(Limit + Len(data)) /\ Limit \in Nat
    BY <1>3, <1>6, <2>1
  <2> DEFINE whole == AppendTo(b, data)
             len == Len(data)
  <2>3. Together(dispatched, whole, taken + len, Limit + len)
    BY <2>2, AppendExtends
  <2>4. ReadableBytes(whole) = ReadableBytes(b) + len
    <3>1. Ordered(b, Limit) /\ Len(data) \in Nat
      BY <2>2 DEF Together, IsSeq
    <3>2. QED
      BY <2>2, <3>1, AppendAdds
  <2>5. (InOrder(dispatched, b) /\ ~Slips(b, len) /\ \A i \in 1 .. len : data[i] = taken + i)
          => InOrder(dispatched, whole)
    BY <2>2, AppendExtends
  <2>6. QED
    BY <2>3, <2>4, <2>5
<1>8. ~Slips(b, Len(data))
  BY <1>3, <1>4 DEF Slips
<1>9. AppendTo(b, data).m_size = b.m_size
  <2>1. Ordered(b, Limit) /\ Len(data) \in Nat
    BY <1>2, <1>3 DEF Sound, Together
  <2>2. AppendTo(b, data).m_size = EnsureWriteableBytes(b, Len(data)).m_size
    BY <1>6, <2>1, AppendedSize
  <2>3. QED
    BY <1>3, <1>4, <2>2
<1>10. Sound(dispatched, Filled(b, n), taken + fits)
  <2>1. /\ Together(dispatched, Filled(b, n), taken + fits, Limit + Len(data))
        /\ Limit + Len(data) \in Nat
    <3>1. Len(data) = fits /\ fits \in Nat
      BY <1>2, <1>3
    <3>2. Together(dispatched, AppendTo(b, data), taken + Len(data), Limit + Len(data))
      BY <1>7
    <3>3. Limit + Len(data) \in Nat
      BY <1>6, <3>1
    <3>4. QED
      BY <1>5, <3>1, <3>2, <3>3
  <2>2. QED
    BY <1>5, <1>9, <2>1, SoundWithin DEF Sound
<1>11. InOrder(dispatched, b) => InOrder(dispatched, Filled(b, n))
  BY <1>3, <1>5, <1>7, <1>8
<1>12. QED
  BY <1>2, <1>3, <1>5, <1>7, <1>9, <1>10, <1>11 DEF fits, room

\* The rest is appended from common_buffer.
LEMMA ReceivedIsSound ==
  ASSUME NEW b, Sound(dispatched, b, taken), taken \in Nat, ReadableBytes(b) < PkgLen,
         NEW n \in 1 .. RcvBuf, n <= WriteableBytes(b) + Common
  PROVE  /\ Sound(dispatched, Received(b, n), taken + n)
         /\ InOrder(dispatched, b) /\ ~ReceiveSlips(b, n) => InOrder(dispatched, Received(b, n))
<1> DEFINE fits == Fits(b, n)
           full == Filled(b, n)
           room == WriteableBytes(b)
           data == Chunk(fits + 1, n - fits)
<1>1. /\ fits \in 0 .. n
      /\ n <= room => fits = n
      /\ n > room => fits = room
      /\ Sound(dispatched, full, taken + fits)
      /\ ReadableBytes(full) = ReadableBytes(b) + fits
      /\ full.m_size = b.m_size
      /\ InOrder(dispatched, b) => InOrder(dispatched, full)
  BY FilledIsSound
<1>2. ReadableBytes(b) \in Nat /\ room \in Nat /\ n \in Nat /\ n <= RcvBuf
  BY SoundCounts, Sizes
<1>3. Received(b, n) = IF n <= room THEN full ELSE AppendTo(full, data)
  BY DEF Received
<1>4. ReceiveSlips(b, n) <=> (n > room /\ Slips(full, n - fits))
  BY DEF ReceiveSlips
<1> HIDE DEF full
<1>5. CASE n <= room
  BY <1>1, <1>3, <1>5
<1>6. CASE n > room
  <2>1. n - fits \in Nat /\ n - fits <= Common /\ n - fits <= RcvBuf /\ fits + 1 \in Nat /\ fits + 1 > 0
    BY <1>1, <1>2, <1>6, Sizes
  <2>2. /\ IsSeq(data) /\ Len(data) = n - fits
        /\ \A i \in 1 .. n - fits : data[i] = (taken + fits) + i
    <3> HIDE DEF fits
    <3>1. /\ IsSeq(data) /\ Len(data) = n - fits
          /\ \A i \in 1 .. n - fits : data[i] = (taken + (fits + 1) - 1) + i
      BY <2>1, ChunkIsSeq
    <3>2. taken + (fits + 1) - 1 = taken + fits
      BY <1>1
    <3>3. QED
      BY <3>1, <3>2
  <2> HIDE DEF data, fits, room
  <2>3. Small(Limit + Len(data)) /\ Limit \in Nat /\ taken + fits \in Nat
    <3>1. n - fits \in 0 .. RcvBuf
      BY <2>1, Sizes
    <3>2. Small(Limit + (n - fits))
      BY <3>1, ChunkSize
    <3>3. fits \in Nat
      BY <1>1, <1>2
    <3>4. QED
      BY <2>2, <3>2, <3>3, Sizes
  <2>4. /\ Together(dispatched, AppendTo(full, data), (taken + fits) + Len(data), Limit + Len(data))
        /\ (InOrder(dispatched, full) /\ ~Slips(full, Len(data))
              /\ \A i \in 1 .. Len(data) : data[i] = (taken + fits) + i)
             => InOrder(dispatched, AppendTo(full, data))
    BY <1>1, <2>2, <2>3, AppendExtends DEF Sound
  <2>5. AppendTo(full, data).m_size = EnsureWriteableBytes(full, Len(data)).m_size
    BY <1>1, <2>1, <2>2, <2>3, AppendedSize DEF Sound, Together
  <2>6. /\ WriteableBytes(full) = full.m_size - full.m_write_index
        /\ SizeT(full.m_size - ReadableBytes(full)) = full.m_size - ReadableBytes(full)
        /\ full.m_size \in Nat /\ full.m_write_index \in Nat /\ full.m_write_index <= full.m_size
    BY <1>1, SoundCounts
  <2>7. \/ AppendTo(full, data).m_size = full.m_size
        \/ /\ AppendTo(full, data).m_size = full.m_write_index + (n - fits)
           /\ full.m_size - ReadableBytes(full) < n - fits
    BY <2>2, <2>5, <2>6 DEF EnsureWriteableBytes, MustGrow
  <2>8. \/ AppendTo(full, data).m_size <= InitSize
        \/ AppendTo(full, data).m_size <= 2 * Reserve + (PkgLen - 1) - 1
        \/ AppendTo(full, data).m_size <= RcvBuf + Common + (PkgLen - 1) - 1
    <3>1. CASE AppendTo(full, data).m_size = full.m_size
      BY <1>1, <3>1 DEF Sound
    <3>2. CASE /\ AppendTo(full, data).m_size = full.m_write_index + (n - fits)
               /\ full.m_size - ReadableBytes(full) < n - fits
      <4>1. /\ ReadableBytes(b) < PkgLen /\ ReadableBytes(full) = ReadableBytes(b) + fits
            /\ fits \in Nat /\ fits <= n
        BY <1>1, <1>2
      <4>2. AppendTo(full, data).m_size <= full.m_size + (n - fits)
        BY <2>1, <2>6, <3>2
      <4>3. full.m_size < (n - fits) + ReadableBytes(b) + fits
        BY <1>2, <2>1, <2>6, <3>2, <4>1
      <4>4. AppendTo(full, data).m_size \in Nat
        BY <2>1, <2>6, <3>2
      <4>5. QED
        BY <1>2, <2>1, <2>6, <4>1, <4>2, <4>3, <4>4, Sizes
    <3>3. QED
      BY <2>7, <3>1, <3>2
  <2>9. (taken + fits) + Len(data) = taken + n /\ Limit + Len(data) \in Nat
    <3>1. Len(data) = n - fits /\ fits \in Nat /\ n \in Nat
      BY <1>1, <1>2, <2>2
    <3>2. (taken + fits) + (n - fits) = taken + n
      BY <3>1
    <3>3. QED
      BY <2>1, <2>3, <3>1, <3>2
  <2>10. Sound(dispatched, AppendTo(full, data), taken + n)
    BY <2>4, <2>8, <2>9, SoundWithin
  <2>11. InOrder(dispatched, b) /\ ~ReceiveSlips(b, n) => InOrder(dispatched, AppendTo(full, data))
    BY <1>1, <1>4, <1>6, <2>2, <2>4 DEF fits, room
  <2>12. Received(b, n) = AppendTo(full, data)
    BY <1>2, <1>3, <1>6 DEF room, data, fits
  <2>13. QED
    BY <2>10, <2>11, <2>12
<1>7. QED
  BY <1>1, <1>2, <1>5, <1>6

\* The dispatch loop leaves less than a packet.
LEMMA DispatchIsSound ==
  ASSUME NEW b, NEW total, Sound(dispatched, b, total), Dispatch(b)
  PROVE  /\ Sound(dispatched', m_recv_buffer', total)
         /\ NoPacketWaits'
         /\ Len(dispatched') \in Len(dispatched) .. total
         /\ InOrder(dispatched, b) => InOrder(dispatched, m_recv_buffer)'
         /\ ReadableBytes(m_recv_buffer') = ReadableBytes(b) % PkgLen
         /\ Len(dispatched') = Len(dispatched) + Complete(ReadableBytes(b))
<1> DEFINE n == Complete(ReadableBytes(b))
           front == SubSeq(Readable(b), 1, n)
           rest == IncreaseReadIndex(b, n)
<1>1. /\ Together(dispatched, b, total, Limit) /\ Small(Limit)
      /\ ReadableBytes(b) \in Nat
  BY Sizes, SoundCounts DEF Sound
<1>2. /\ n \in 0 .. ReadableBytes(b) /\ ReadableBytes(b) - n < PkgLen
      /\ ReadableBytes(b) - n = ReadableBytes(b) % PkgLen
  <2> DEFINE r == ReadableBytes(b) % PkgLen
  <2>1. ReadableBytes(b) % PkgLen \in 0 .. PkgLen - 1 /\ ReadableBytes(b) % PkgLen <= ReadableBytes(b)
    BY <1>1, Sizes
  <2>2. n = ReadableBytes(b) - (ReadableBytes(b) % PkgLen)
    BY DEF Complete
  <2> HIDE DEF n
  <2>3. QED
    BY <1>1, <2>1, <2>2, Sizes
<1>3. dispatched' = dispatched \o front /\ m_recv_buffer' = rest
  BY DEF Dispatch
<1>4. /\ Together(dispatched \o front, rest, total, Limit)
      /\ Len(dispatched \o front) = Len(dispatched) + n
      /\ InOrder(dispatched, b) => InOrder(dispatched \o front, rest)
  BY <1>1, <1>2, TakeMoves
<1>5. ReadableBytes(rest) = ReadableBytes(b) - n /\ rest.m_size = b.m_size
  <2>1. Ordered(b, Limit)
    BY <1>1 DEF Together
  <2>2. ReadableBytes(rest) = ReadableBytes(b) - n
    BY <1>1, <1>2, <2>1, ReadIndexMoves
  <2>3. rest.m_size = b.m_size
    BY <2>1 DEF IncreaseReadIndex, Ordered
  <2>4. QED
    BY <2>2, <2>3
<1>6. Len(dispatched) + ReadableBytes(b) = total /\ Len(dispatched) \in Nat
  BY <1>1 DEF Together
<1>7. Len(dispatched') = Len(dispatched) + Complete(ReadableBytes(b))
  BY <1>3, <1>4
<1> HIDE DEF n, front, rest
<1>8. ReadableBytes(m_recv_buffer') = ReadableBytes(b) % PkgLen
  BY <1>2, <1>3, <1>5
<1>9. Sound(dispatched', m_recv_buffer', total)
  BY <1>3, <1>4, <1>5 DEF Sound
<1>10. NoPacketWaits'
  BY <1>2, <1>3, <1>5 DEF NoPacketWaits
<1>11. Len(dispatched') \in Len(dispatched) .. total
  BY <1>1, <1>2, <1>3, <1>4, <1>6
<1>12. QED
  BY <1>3, <1>4, <1>7, <1>8, <1>9, <1>10, <1>11

-----------------------------------------------------------------------------
(* The initial state and the steps.                                        *)

LEMMA RecvInvInit == Init => RecvInv
<1> SUFFICES ASSUME Init PROVE RecvInv
  OBVIOUS
<1> DEFINE b == m_recv_buffer
<1>1. b = NewBuffer(InitSize) /\ arrived = 0 /\ taken = 0 /\ dispatched = <<>> /\ slipped = FALSE
  BY DEF Init
<1>2. Ordered(b, Limit) /\ b.m_size <= InitSize /\ b.m_write_index = 0 /\ b.m_read_index = 0
  <2>1. InitSize \in Nat /\ Limit \in Nat /\ InitSize <= Limit
    BY Sizes DEF Limit
  <2>2. Ordered(NewBuffer(InitSize), InitSize) /\ NewBuffer(InitSize).m_size = InitSize
    BY Sizes DEF NewBuffer, Ordered
  <2>3. QED
    BY <1>1, <2>1, <2>2, WiderLimit DEF NewBuffer
<1> HIDE DEF b
<1>3. ReadableBytes(b) = 0
  BY <1>2, NoWrap DEF ReadableBytes
<1>4. Len(dispatched) = 0 /\ IsSeq(dispatched)
  BY <1>1 DEF IsSeq
<1>5. Sound(dispatched, b, taken)
  BY <1>1, <1>2, <1>3, <1>4 DEF Sound, Together
<1>6. InOrder(dispatched, b)
  BY <1>3, <1>4 DEF InOrder
<1>7. ReadableBytes(b) < PkgLen
  BY <1>3, Sizes
<1>8. arrived \in Nat /\ taken \in 0 .. arrived /\ slipped \in BOOLEAN
  <2>1. slipped \in BOOLEAN
    BY <1>1, Zenon
  <2>2. arrived \in Nat /\ taken \in 0 .. arrived
    BY <1>1
  <2>3. QED
    BY <2>1, <2>2
<1>9. NoPacketWaits
  BY <1>7 DEF NoPacketWaits, b
<1>10. QED
  BY <1>5, <1>6, <1>8, <1>9 DEF RecvInv, b

\* A call of handle_read that reads n bytes.
LEMMA ReadStep ==
  ASSUME RecvInv, NEW n \in 1 .. RcvBuf, HandleRead(n)
  PROVE  RecvInv' /\ Len(dispatched') \in Len(dispatched) .. arrived'
<1> DEFINE b == Offered
           full == Received(b, n)
<1>1. /\ arrived \in Nat /\ taken \in 0 .. arrived /\ slipped \in BOOLEAN
      /\ ~slipped => InOrder(dispatched, m_recv_buffer)
      /\ ReadableBytes(m_recv_buffer) < PkgLen
  BY DEF RecvInv, NoPacketWaits
<1>2. /\ Sound(dispatched, b, taken)
      /\ ReadableBytes(b) = ReadableBytes(m_recv_buffer)
      /\ ~slipped /\ ~Slips(m_recv_buffer, Reserve) => InOrder(dispatched, b)
  BY OfferedIsSound
<1>3. n \in Nat /\ n <= arrived - taken /\ n <= WriteableBytes(b) + Common
  BY <1>1, <1>2, Sizes, SoundCounts DEF HandleRead, Lesser
<1>4. /\ Dispatch(full) /\ taken' = taken + n /\ arrived' = arrived
      /\ slipped' = (slipped \/ Slips(m_recv_buffer, Reserve) \/ ReceiveSlips(b, n))
  BY DEF HandleRead
<1> HIDE DEF b
<1>5. /\ Sound(dispatched, full, taken + n)
      /\ InOrder(dispatched, b) /\ ~ReceiveSlips(b, n) => InOrder(dispatched, full)
  BY <1>1, <1>2, <1>3, ReceivedIsSound
<1> HIDE DEF full
<1>6. /\ Sound(dispatched', m_recv_buffer', taken + n)
      /\ NoPacketWaits'
      /\ Len(dispatched') \in Len(dispatched) .. taken + n
      /\ InOrder(dispatched, full) => InOrder(dispatched, m_recv_buffer)'
  BY <1>4, <1>5, DispatchIsSound
<1>7. taken' \in 0 .. arrived' /\ arrived' \in Nat /\ slipped' \in BOOLEAN
  BY <1>1, <1>3, <1>4
<1>8. ~slipped' => InOrder(dispatched, m_recv_buffer)'
  BY <1>2, <1>4, <1>5, <1>6
<1>9. Len(dispatched') \in Len(dispatched) .. arrived'
  <2>1. Len(dispatched) \in Nat
    BY DEF RecvInv, Sound, Together
  <2>2. QED
    BY <1>1, <1>3, <1>4, <1>6, <2>1
<1>10. QED
  BY <1>4, <1>6, <1>7, <1>8, <1>9 DEF RecvInv

\* A call of handle_read whose ::readv fails.
LEMMA FailedStep ==
  ASSUME RecvInv, HandleReadFailed
  PROVE  RecvInv' /\ Len(dispatched') \in Len(dispatched) .. arrived'
<1>1. /\ arrived \in Nat /\ taken \in 0 .. arrived /\ slipped \in BOOLEAN
      /\ Len(dispatched) \in Nat
  BY DEF RecvInv, Sound, Together
<1>2. /\ Sound(dispatched, Offered, taken)
      /\ ~slipped /\ ~Slips(m_recv_buffer, Reserve) => InOrder(dispatched, Offered)
  BY OfferedIsSound
<1>3. /\ Dispatch(Offered) /\ taken' = taken /\ arrived' = arrived
      /\ slipped' = (slipped \/ Slips(m_recv_buffer, Reserve))
  BY DEF HandleReadFailed
<1>4. /\ Sound(dispatched', m_recv_buffer', taken)
      /\ NoPacketWaits'
      /\ Len(dispatched') \in Len(dispatched) .. taken
      /\ InOrder(dispatched, Offered) => InOrder(dispatched, m_recv_buffer)'
  BY <1>2, <1>3, DispatchIsSound
<1>5. slipped' \in BOOLEAN
  BY <1>1, <1>3
<1>6. ~slipped' => InOrder(dispatched, m_recv_buffer)'
  BY <1>2, <1>3, <1>4
<1>7. Len(dispatched') \in Len(dispatched) .. arrived'
  BY <1>1, <1>3, <1>4
<1>8. QED
  BY <1>1, <1>3, <1>4, <1>5, <1>6, <1>7 DEF RecvInv

\* Bytes that only reach the kernel.
LEMMA ArrivalStep ==
  ASSUME RecvInv, NEW n \in Nat, arrived' = arrived + n,
         UNCHANGED <<m_recv_buffer, taken, dispatched, slipped>>
  PROVE  RecvInv' /\ Len(dispatched') \in Len(dispatched) .. arrived'
<1>1. /\ arrived \in Nat /\ taken \in 0 .. arrived
      /\ Sound(dispatched, m_recv_buffer, taken)
  BY DEF RecvInv
<1>2. RecvInv'
  <2>1. arrived' \in Nat /\ taken' \in 0 .. arrived'
    BY <1>1
  <2>2. QED
    BY <2>1 DEF RecvInv, NoPacketWaits, InOrder
<1>3. Len(dispatched) \in Nat /\ Len(dispatched) + ReadableBytes(m_recv_buffer) = taken
      /\ ReadableBytes(m_recv_buffer) \in Nat
  BY <1>1, SoundCounts DEF Sound, Together
<1>4. QED
  BY <1>1, <1>2, <1>3

LEMMA RecvInvStep ==
  ASSUME RecvInv, [Next]_vars
  PROVE  RecvInv' /\ Len(dispatched') \in Len(dispatched) .. arrived'
<1>1. ASSUME NEW n \in 1 .. RcvBuf, PeerSends(n)
      PROVE  RecvInv' /\ Len(dispatched') \in Len(dispatched) .. arrived'
  BY <1>1, ArrivalStep, Sizes DEF PeerSends
<1>2. ASSUME NEW n \in 1 .. RcvBuf, HandleRead(n)
      PROVE  RecvInv' /\ Len(dispatched') \in Len(dispatched) .. arrived'
  BY <1>2, ReadStep
<1>3. CASE HandleReadFailed
  BY <1>3, FailedStep
<1>4. CASE UNCHANGED vars
  <2>1. arrived \in Nat
    BY DEF RecvInv
  <2>2. arrived' = arrived + 0 /\ UNCHANGED <<m_recv_buffer, taken, dispatched, slipped>>
    BY <1>4, <2>1 DEF vars
  <2>3. QED
    BY <2>2, ArrivalStep
<1>5. QED
  BY <1>1, <1>2, <1>3, <1>4 DEF Next

LEMMA RecvInvariant == Spec => []RecvInv
<1>1. RecvInv /\ [Next]_vars => RecvInv'
  BY RecvInvStep
<1>2. QED
  BY <1>1, RecvInvInit, PTL DEF Spec

-----------------------------------------------------------------------------
(* Theorems.                                                               *)

\* The bytes dispatched and those in the buffer are as many as ::readv
\* returned, slips or not (connection.cpp:47-60, tcp_socket.cpp:19-51).
THEOREM CountIsKept == Spec => []LengthKept
<1>1. RecvInv => LengthKept
  BY DEF RecvInv, Sound, Together, LengthKept
<1>2. QED
  BY <1>1, RecvInvariant, PTL

\* Until a slip they are the bytes the peer sent, once and in order, over both
\* areas that ::readv fills (tcp_socket.cpp:19-51).
THEOREM BytesAreKept == Spec => []NothingLost
<1>1. ASSUME RecvInv, ~slipped
      PROVE  dispatched \o Readable(m_recv_buffer) = Bytes(taken)
  <2>1. /\ Together(dispatched, m_recv_buffer, taken, Limit)
        /\ InOrder(dispatched, m_recv_buffer)
        /\ taken \in Nat
    BY <1>1 DEF RecvInv, Sound
  <2>2. QED
    BY <2>1, Sizes, WholeStream DEF Bytes
<1>2. RecvInv => NothingLost
  BY <1>1 DEF NothingLost
<1>3. QED
  BY <1>2, RecvInvariant, PTL

\* A packet that has been read does not wait for the next event
\* (connection.cpp:55-59).
THEOREM PacketsAreDispatched == Spec => []NoPacketWaits
<1>1. RecvInv => NoPacketWaits
  BY DEF RecvInv
<1>2. QED
  BY <1>1, RecvInvariant, PTL

\* m_recv_buffer does not grow with the length of the stream (buffer.cpp:42-68).
THEOREM BufferStaysSmall == Spec => []SizeBounded
<1>1. RecvInv => SizeBounded
  BY DEF RecvInv, Sound, SizeBounded
<1>2. QED
  BY <1>1, RecvInvariant, PTL

\* The dispatcher sees a prefix of the peer's stream until an
\* ensure_writeable_bytes slips: handle_read implements a byte stream.
THEOREM ReceiveIsAStream == Spec => StreamSpec
<1>1. Init => Stream!Init
  BY DEF Init, Stream!Init
<1>2. ASSUME RecvInv, RecvInv', [Next]_vars
      PROVE  [Stream!Next]_(Stream!vars)
  <2>1. CASE slipped'
    BY <2>1 DEF Stream!Next, Stream!Break
  <2>2. CASE ~slipped'
    <3>1. Len(dispatched') \in Len(dispatched) .. arrived'
      BY <1>2, RecvInvStep
    <3>2. /\ arrived' \in Nat /\ Len(dispatched') \in Nat
          /\ dispatched' = [i \in 1 .. Len(dispatched') |-> dispatched'[i]]
          /\ \A i \in 1 .. Len(dispatched') : dispatched'[i] = i
      BY <1>2, <2>2 DEF RecvInv, Sound, Together, IsSeq, InOrder
    <3>3. dispatched' = [i \in 1 .. Len(dispatched') |-> i]
      BY <3>2
    <3>4. ~slipped /\ slipped' = slipped /\ arrived' >= arrived
      <4>1. arrived \in Nat /\ slipped \in BOOLEAN /\ slipped' \in BOOLEAN
        BY <1>2 DEF RecvInv
      <4>2. ASSUME NEW n \in 1 .. RcvBuf, PeerSends(n)
            PROVE  slipped' = slipped /\ arrived' = arrived + n /\ n \in Nat
        BY <4>2, Sizes DEF PeerSends
      <4>3. ASSUME NEW n \in 1 .. RcvBuf, HandleRead(n)
            PROVE  (slipped => slipped') /\ arrived' = arrived
        BY <4>3 DEF HandleRead
      <4>4. HandleReadFailed => (slipped => slipped') /\ arrived' = arrived
        BY DEF HandleReadFailed
      <4>5. UNCHANGED vars => slipped' = slipped /\ arrived' = arrived
        BY DEF vars
      <4>6. (slipped => slipped') /\ arrived' >= arrived
        BY <1>2, <4>1, <4>2, <4>3, <4>4, <4>5 DEF Next
      <4>7. QED
        BY <2>2, <4>1, <4>6
    <3>5. Stream!Flow
      BY <3>1, <3>2, <3>3, <3>4 DEF Stream!Flow
    <3>6. QED
      BY <3>4, <3>5 DEF Stream!Next
  <2>3. QED
    BY <2>1, <2>2
<1>3. QED
  BY <1>1, <1>2, RecvInvariant, PTL DEF Spec, StreamSpec, Stream!Spec

-----------------------------------------------------------------------------
(* Types. The bytes of the array, and so those that are dispatched, are    *)
(* bytes of the stream or garbage.                                         *)

Byte == 1 .. MaxBytes \cup {Garbage}

RecvTypes ==
  /\ arrived \in 0 .. MaxBytes
  /\ Holds(m_recv_buffer, Byte)
  /\ dispatched \in Seq(Byte)

LEMMA RecvTypesInit == Init => RecvTypes
  BY Sizes DEF Init, RecvTypes, NewBuffer, Holds, Byte

\* What the steps of handle_read need to know of a buffer.
LEMMA SoundBuffer ==
  ASSUME NEW b, NEW total, Sound(dispatched, b, total)
  PROVE  IsBuffer(b) /\ b.m_write_index \in Nat /\ ReadableBytes(b) \in Nat
<1>1. Ordered(b, Limit)
  BY DEF Sound, Together
<1>2. QED
  BY <1>1, SoundCounts DEF Ordered, IsBuffer

LEMMA OfferedHolds ==
  ASSUME RecvInv, RecvTypes
  PROVE  Holds(Offered, Byte)
<1>1. /\ m_recv_buffer.m_write_index \in Nat /\ ReadableBytes(m_recv_buffer) \in Nat
  BY SoundBuffer DEF RecvInv
<1>2. Reserve \in Nat /\ Garbage \in Byte /\ Holds(m_recv_buffer, Byte)
  BY Sizes DEF Byte, RecvTypes
<1>3. QED
  BY <1>1, <1>2, EnsureHolds DEF Offered

LEMMA ChunkOfBytes ==
  ASSUME NEW k \in Nat \ {0}, NEW n \in Nat, taken \in Nat, taken + k - 1 + n <= MaxBytes
  PROVE  Chunk(k, n) \in Seq(Byte)
<1>1. \A i \in 1 .. n : taken + k - 1 + i \in Byte
  BY DEF Byte
<1>2. QED
  BY <1>1 DEF Chunk

LEMMA FilledHolds ==
  ASSUME NEW b, Sound(dispatched, b, taken), Holds(b, Byte), taken \in Nat,
         NEW n \in 1 .. RcvBuf, taken + n <= MaxBytes
  PROVE  Holds(Filled(b, n), Byte)
<1> DEFINE fits == Fits(b, n)
           data == Chunk(1, fits)
<1>1. fits \in Nat /\ fits <= n
  BY FilledIsSound
<1>2. data \in Seq(Byte)
  <2>1. taken + 1 - 1 + fits <= MaxBytes
    BY <1>1
  <2> HIDE DEF fits
  <2>2. QED
    BY <1>1, <2>1, ChunkOfBytes
<1> HIDE DEF data
<1>3. Holds(CopyIn(b, data), Byte) /\ IsBuffer(CopyIn(b, data))
  BY <1>2, SoundBuffer, CopyHolds
<1>4. Holds(IncreaseWriteIndex(CopyIn(b, data), fits), Byte)
  BY <1>3, IndexesHold
<1>5. QED
  BY <1>4 DEF Filled, data

LEMMA ReceivedHolds ==
  ASSUME NEW b, Sound(dispatched, b, taken), Holds(b, Byte), taken \in Nat,
         NEW n \in 1 .. RcvBuf, taken + n <= MaxBytes
  PROVE  Holds(Received(b, n), Byte)
<1> DEFINE fits == Fits(b, n)
           full == Filled(b, n)
           data == Chunk(fits + 1, n - fits)
           roomy == EnsureWriteableBytes(full, Len(data))
<1>1. /\ fits \in 0 .. n /\ Sound(dispatched, full, taken + fits)
  BY FilledIsSound
<1>2. Holds(full, Byte)
  BY FilledHolds
<1>3. data \in Seq(Byte) /\ Len(data) \in Nat
  <2>1. /\ fits + 1 \in Nat \ {0} /\ n - fits \in Nat
        /\ taken + (fits + 1) - 1 + (n - fits) <= MaxBytes
    BY <1>1
  <2> HIDE DEF fits
  <2>2. data \in Seq(Byte)
    BY <2>1, ChunkOfBytes
  <2>3. QED
    BY <2>2
<1> HIDE DEF full, data
<1>4. Ordered(full, Limit)
  BY <1>1 DEF Sound, Together
<1>5. Holds(roomy, Byte)
  <2>1. full.m_write_index \in Nat /\ ReadableBytes(full) \in Nat /\ Garbage \in Byte
    BY <1>1, SoundBuffer DEF Byte
  <2>2. QED
    BY <1>2, <1>3, <2>1, EnsureHolds
<1>6. IsBuffer(roomy) /\ roomy.m_write_index \in Nat
  <2>1. IsBuffer(roomy)
    BY <1>4 DEF EnsureWriteableBytes, IsBuffer, Ordered
  <2>2. roomy.m_write_index \in {full.m_write_index, ReadableBytes(full)}
    BY DEF EnsureWriteableBytes
  <2>3. QED
    BY <1>1, <2>1, <2>2, SoundBuffer
<1> HIDE DEF roomy
<1>7. Holds(CopyIn(roomy, data), Byte) /\ IsBuffer(CopyIn(roomy, data))
  BY <1>3, <1>5, <1>6, CopyHolds
<1>8. Holds(AppendTo(full, data), Byte)
  BY <1>7, IndexesHold DEF AppendTo, roomy
<1>9. QED
  BY <1>2, <1>8 DEF Received, full, data

LEMMA DispatchHolds ==
  ASSUME NEW b, NEW total, Sound(dispatched, b, total), Holds(b, Byte), dispatched \in Seq(Byte),
         Dispatch(b)
  PROVE  Holds(m_recv_buffer', Byte) /\ dispatched' \in Seq(Byte)
<1> DEFINE n == Complete(ReadableBytes(b))
           front == SubSeq(Readable(b), 1, n)
<1>1. IsBuffer(b) /\ ReadableBytes(b) \in Nat /\ Garbage \in Byte
  BY SoundBuffer DEF Byte
<1>2. Readable(b) \in Seq(Byte) /\ Len(Readable(b)) = ReadableBytes(b)
  BY <1>1, ReadableInSeq
<1>3. n \in 0 .. ReadableBytes(b)
  <2>1. ReadableBytes(b) % PkgLen \in Nat /\ ReadableBytes(b) % PkgLen <= ReadableBytes(b)
    BY <1>1, Sizes
  <2>2. QED
    BY <1>1, <2>1 DEF Complete
<1> HIDE DEF n
<1>4. front \in Seq(Byte)
  BY <1>2, <1>3
<1>5. Holds(IncreaseReadIndex(b, n), Byte)
  BY <1>1, IndexesHold
<1> HIDE DEF front
<1>6. QED
  BY <1>4, <1>5 DEF Dispatch, n, front

LEMMA RecvTypesStep ==
  ASSUME RecvInv, RecvTypes, [Next]_vars
  PROVE  RecvTypes'
<1>1. /\ arrived \in 0 .. MaxBytes /\ taken \in Nat /\ taken <= arrived
      /\ Holds(m_recv_buffer, Byte) /\ dispatched \in Seq(Byte)
  BY DEF RecvInv, RecvTypes
<1>2. ASSUME NEW n \in 1 .. RcvBuf, PeerSends(n) PROVE RecvTypes'
  <2>1. arrived' \in 0 .. MaxBytes /\ UNCHANGED <<m_recv_buffer, dispatched>>
    BY <1>1, <1>2, Sizes DEF PeerSends
  <2>2. QED
    BY <1>1, <2>1 DEF RecvTypes
<1>3. ASSUME NEW n \in 1 .. RcvBuf, HandleRead(n) PROVE RecvTypes'
  <2>1. Sound(dispatched, Offered, taken) /\ Holds(Offered, Byte)
        /\ ReadableBytes(Offered) = ReadableBytes(m_recv_buffer)
    BY OfferedIsSound, OfferedHolds
  <2>2. n <= arrived - taken /\ n <= WriteableBytes(Offered) + Common
    BY <1>1, <1>3, <2>1, Sizes, SoundCounts DEF HandleRead, Lesser
  <2>3. taken + n <= MaxBytes
    BY <1>1, <2>2, Sizes
  <2>4. Holds(Received(Offered, n), Byte)
    BY <1>1, <2>1, <2>3, ReceivedHolds
  <2>5. Sound(dispatched, Received(Offered, n), taken + n)
    BY <1>1, <2>1, <2>2, ReceivedIsSound DEF RecvInv, NoPacketWaits
  <2>6. Dispatch(Received(Offered, n)) /\ arrived' = arrived
    BY <1>3 DEF HandleRead
  <2>7. QED
    BY <1>1, <2>4, <2>5, <2>6, DispatchHolds DEF RecvTypes
<1>4. CASE HandleReadFailed
  <2>1. Sound(dispatched, Offered, taken) /\ Holds(Offered, Byte)
    BY OfferedIsSound, OfferedHolds
  <2>2. Dispatch(Offered) /\ arrived' = arrived
    BY <1>4 DEF HandleReadFailed
  <2>3. QED
    BY <1>1, <2>1, <2>2, DispatchHolds DEF RecvTypes
<1>5. CASE UNCHANGED vars
  BY <1>5 DEF vars, RecvTypes
<1>6. QED
  BY <1>2, <1>3, <1>4, <1>5 DEF Next

\* The members of m_recv_buffer have their types, with the indexes in order:
\* read_index <= write_index <= size, however ::readv splits the stream
\* (buffer.h, tcp_socket.cpp:19-51).
THEOREM TypeCorrect == Spec => []TypeOK
<1>1. RecvTypes /\ RecvInv /\ [Next]_vars => RecvTypes'
  BY RecvTypesStep
<1>2. ASSUME RecvInv, RecvTypes PROVE TypeOK
  <2>1. Ordered(m_recv_buffer, Limit) /\ Small(Limit) /\ Limit \in Nat
    BY <1>2, Sizes DEF RecvInv, Sound, Together
  <2>2. /\ m_recv_buffer.m_size \in 0 .. SizeMax - 1
        /\ m_recv_buffer.m_write_index \in 0 .. m_recv_buffer.m_size
        /\ m_recv_buffer.m_read_index \in 0 .. m_recv_buffer.m_write_index
    BY <2>1 DEF Ordered, Small
  <2>3. QED
    BY <1>2, <2>2 DEF RecvInv, RecvTypes, Holds, Byte, TypeOK
<1>3. QED
  BY <1>1, <1>2, RecvTypesInit, RecvInvariant, PTL DEF Spec

-----------------------------------------------------------------------------
(* What Connection counts of all this.                                     *)

\* A call of handle_read that got n bytes dispatches the complete packets
\* among them and what was there, and keeps the rest.
CountedRead(n) ==
  /\ taken' = taken + n
  /\ ReadableBytes(m_recv_buffer') = (ReadableBytes(m_recv_buffer) + n) % PkgLen
  /\ Len(dispatched') = Len(dispatched) + Complete(ReadableBytes(m_recv_buffer) + n)

\* One whose ::readv failed moves none.
CountedFailure ==
  /\ taken' = taken
  /\ ReadableBytes(m_recv_buffer') = ReadableBytes(m_recv_buffer)
  /\ Len(dispatched') = Len(dispatched)

LEMMA ReadCounts ==
  ASSUME RecvInv, NEW n \in 1 .. RcvBuf, HandleRead(n)
  PROVE  CountedRead(n)
<1> DEFINE full == Received(Offered, n)
           r == ReadableBytes(m_recv_buffer)
<1>1. /\ arrived \in Nat /\ taken \in 0 .. arrived /\ r < PkgLen /\ r \in Nat
      /\ Len(dispatched) + r = taken /\ Len(dispatched) \in Nat
  BY SoundCounts DEF RecvInv, NoPacketWaits, Sound, Together
<1>2. Sound(dispatched, Offered, taken) /\ ReadableBytes(Offered) = r
  BY OfferedIsSound
<1>3. n \in Nat /\ n <= arrived - taken /\ n <= WriteableBytes(Offered) + Common
  BY <1>1, <1>2, Sizes, SoundCounts DEF HandleRead, Lesser
<1>4. Dispatch(full) /\ taken' = taken + n
  BY DEF HandleRead
<1>5. Sound(dispatched, full, taken + n)
  BY <1>1, <1>2, <1>3, ReceivedIsSound
<1> HIDE DEF full, r
<1>6. /\ ReadableBytes(m_recv_buffer') = ReadableBytes(full) % PkgLen
      /\ Len(dispatched') = Len(dispatched) + Complete(ReadableBytes(full))
  BY <1>4, <1>5, DispatchIsSound
<1>7. ReadableBytes(full) = r + n
  <2>1. Len(dispatched) + ReadableBytes(full) = taken + n /\ ReadableBytes(full) \in Nat
    BY <1>5, SoundCounts DEF Sound, Together
  <2>2. Len(dispatched) + r = taken /\ Len(dispatched) \in Nat /\ r \in Nat /\ n \in Nat
    BY <1>1, <1>3
  <2>3. QED
    BY ONLY <2>1, <2>2
<1>8. QED
  BY <1>4, <1>6, <1>7 DEF CountedRead, r

LEMMA FailureCounts ==
  ASSUME RecvInv, HandleReadFailed
  PROVE  CountedFailure
<1> DEFINE r == ReadableBytes(m_recv_buffer)
<1>1. r < PkgLen /\ r \in Nat /\ Len(dispatched) \in Nat
  BY SoundCounts DEF RecvInv, NoPacketWaits, Sound, Together
<1>2. Sound(dispatched, Offered, taken) /\ ReadableBytes(Offered) = r
  BY OfferedIsSound
<1>3. Dispatch(Offered) /\ taken' = taken
  BY DEF HandleReadFailed
<1> HIDE DEF r
<1>4. /\ ReadableBytes(m_recv_buffer') = r % PkgLen
      /\ Len(dispatched') = Len(dispatched) + Complete(r)
  BY <1>2, <1>3, DispatchIsSound
<1>5. r % PkgLen = r
  BY <1>1, Sizes
<1>6. QED
  BY <1>1, <1>3, <1>4, <1>5 DEF CountedFailure, Complete, r

\* Whatever the sizes of its buffers, a call of handle_read moves bytes in the
\* numbers that Connection says: it dispatches packets while PkgLen bytes are
\* there, and keeps less than one (connection.cpp:47-60).
THEOREM ReadsAreCounted ==
  Spec => [][/\ \A n \in 1 .. RcvBuf : HandleRead(n) => CountedRead(n)
             /\ HandleReadFailed => CountedFailure]_vars
<1>1. RecvInv => /\ \A n \in 1 .. RcvBuf : HandleRead(n) => CountedRead(n)
                 /\ HandleReadFailed => CountedFailure
  BY ReadCounts, FailureCounts
<1>2. QED
  BY <1>1, RecvInvariant, PTL
=============================================================================
