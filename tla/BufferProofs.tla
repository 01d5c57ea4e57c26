---------------------------- MODULE BufferProofs ----------------------------
(***************************************************************************)
(* What the operators of Buffer do to a buffer whose indexes are in order. *)
(***************************************************************************)
EXTENDS Buffer, TLAPS

USE BufferAssumption DEF BufferAssumption

\* Arithmetic on sizes that are small enough does not wrap.
LEMMA NoWrap ==
  ASSUME NEW n \in 0 .. SizeMax - 1
  PROVE  SizeT(n) = n
  BY DEF SizeT

\* The indexes of b are in order, within an array of at most limit bytes.
Ordered(b, limit) ==
  /\ b = [m_buffer |-> b.m_buffer, m_size |-> b.m_size,
          m_read_index |-> b.m_read_index, m_write_index |-> b.m_write_index]
  /\ b.m_size \in 0 .. limit
  /\ DOMAIN b.m_buffer = 0 .. b.m_size - 1
  /\ b.m_write_index \in 0 .. b.m_size
  /\ b.m_read_index \in 0 .. b.m_write_index

Small(limit) == limit \in Nat /\ 2 * limit < SizeMax

\* The indexes as numbers.
LEMMA Indexes ==
  ASSUME NEW limit, Small(limit), NEW b, Ordered(b, limit)
  PROVE  /\ b.m_size \in Nat /\ b.m_write_index \in Nat /\ b.m_read_index \in Nat
         /\ b.m_read_index <= b.m_write_index /\ b.m_write_index <= b.m_size
         /\ b.m_size <= limit
         /\ DOMAIN b.m_buffer = 0 .. b.m_size - 1
  BY DEF Ordered, Small

\* The counts of readable and writeable bytes are the plain differences.
LEMMA Counts ==
  ASSUME NEW limit, Small(limit), NEW b, Ordered(b, limit)
  PROVE  /\ ReadableBytes(b) = b.m_write_index - b.m_read_index
         /\ WriteableBytes(b) = b.m_size - b.m_write_index
         /\ SizeT(b.m_size - ReadableBytes(b)) = b.m_size - ReadableBytes(b)
<1>1. b.m_write_index - b.m_read_index \in 0 .. SizeMax - 1
  BY DEF Ordered, Small
<1>2. b.m_size - b.m_write_index \in 0 .. SizeMax - 1
  BY DEF Ordered, Small
<1>3. b.m_size - (b.m_write_index - b.m_read_index) \in 0 .. SizeMax - 1
  BY DEF Ordered, Small
<1>4. QED
  BY <1>1, <1>2, <1>3, NoWrap DEF ReadableBytes, WriteableBytes

\* No more bytes are readable than the array holds.
LEMMA CountBounded ==
  ASSUME NEW limit, Small(limit), NEW b, Ordered(b, limit)
  PROVE  ReadableBytes(b) \in 0 .. limit
<1>1. ReadableBytes(b) = b.m_write_index - b.m_read_index
  BY Counts
<1>2. /\ b.m_size \in Nat /\ b.m_write_index \in Nat /\ b.m_read_index \in Nat
      /\ b.m_read_index <= b.m_write_index
      /\ b.m_write_index <= b.m_size /\ b.m_size <= limit
  BY Indexes
<1>3. QED
  BY <1>1, <1>2 DEF Small

\* ensure_writeable_bytes makes room, keeps the number of readable bytes, and
\* adds no more than it was asked for: its assertion holds.
LEMMA EnsureMakesRoom ==
  ASSUME NEW limit, NEW size \in Nat, Small(limit + size), limit \in Nat,
         NEW b, Ordered(b, limit)
  PROVE  LET roomy == EnsureWriteableBytes(b, size) IN
         /\ Ordered(roomy, limit + size)
         /\ RoomAsserted(b, size)
         /\ ReadableBytes(roomy) = ReadableBytes(b)
         /\ roomy.m_write_index + size <= roomy.m_size
<1> DEFINE roomy == EnsureWriteableBytes(b, size)
<1>1. Small(limit)
  BY DEF Small
<1>2. /\ ReadableBytes(b) = b.m_write_index - b.m_read_index
      /\ WriteableBytes(b) = b.m_size - b.m_write_index
      /\ SizeT(b.m_size - ReadableBytes(b)) = b.m_size - ReadableBytes(b)
  BY <1>1, Counts
<1>3. /\ Ordered(roomy, limit + size)
      /\ roomy.m_size - roomy.m_write_index >= size
      /\ roomy.m_write_index - roomy.m_read_index = b.m_write_index - b.m_read_index
  <2>1. CASE HasRoom(b, size)
    BY <2>1, <1>2 DEF Ordered, HasRoom, EnsureWriteableBytes
  <2>2. CASE MustGrow(b, size)
    <3>1. EnsureWriteableBytes(b, size) =
            [m_buffer |-> Grown(b, size), m_size |-> b.m_write_index + size,
             m_read_index |-> 0, m_write_index |-> ReadableBytes(b)]
      BY <2>2 DEF MustGrow, EnsureWriteableBytes
    <3>2. DOMAIN Grown(b, size) = 0 .. b.m_write_index + size - 1
      BY DEF Grown
    <3>3. roomy.m_buffer = Grown(b, size) /\ roomy.m_size = b.m_write_index + size
      BY <3>1
    <3>4. DOMAIN roomy.m_buffer = 0 .. roomy.m_size - 1
      <4>1. b.m_write_index \in Nat
        BY <1>1, Indexes
      <4>2. b.m_write_index + size - 1 = (b.m_write_index + size) - 1
        BY <4>1
      <4>3. QED
        BY <3>2, <3>3, <4>2
    <3>5. /\ roomy.m_size = b.m_write_index + size
          /\ roomy.m_read_index = 0
          /\ roomy.m_write_index = b.m_write_index - b.m_read_index
          /\ DOMAIN roomy.m_buffer = 0 .. roomy.m_size - 1
          /\ roomy = [m_buffer |-> roomy.m_buffer, m_size |-> roomy.m_size,
                      m_read_index |-> roomy.m_read_index,
                      m_write_index |-> roomy.m_write_index]
      BY <3>1, <3>4, <1>2
    <3>6. /\ b.m_write_index \in Nat /\ b.m_read_index \in Nat
          /\ b.m_read_index <= b.m_write_index
          /\ b.m_write_index <= b.m_size /\ b.m_size <= limit
      BY <1>1, Indexes
    <3> HIDE DEF roomy
    <3>7. Ordered(roomy, limit + size)
      BY <3>5, <3>6 DEF Ordered
    <3>8. QED
      BY <3>5, <3>6, <3>7
  <2>3. CASE ~HasRoom(b, size) /\ ~MustGrow(b, size)
    <3>1. /\ roomy.m_size = b.m_size
          /\ roomy.m_read_index = 0
          /\ roomy.m_write_index = b.m_write_index - b.m_read_index
          /\ DOMAIN roomy.m_buffer = 0 .. roomy.m_size - 1
          /\ roomy = [m_buffer |-> roomy.m_buffer, m_size |-> roomy.m_size,
                      m_read_index |-> roomy.m_read_index,
                      m_write_index |-> roomy.m_write_index]
      BY <2>3, <1>2 DEF EnsureWriteableBytes, Ordered
    <3>2. b.m_size - (b.m_write_index - b.m_read_index) >= size
      BY <2>3, <1>2 DEF MustGrow, Ordered
    <3>3. QED
      BY <3>1, <3>2 DEF Ordered
  <2>4. QED
    BY <2>1, <2>2, <2>3 DEF MustGrow
<1>4. /\ ReadableBytes(roomy) = roomy.m_write_index - roomy.m_read_index
      /\ WriteableBytes(roomy) = roomy.m_size - roomy.m_write_index
  BY <1>3, Counts
<1>5. QED
  BY <1>2, <1>3, <1>4 DEF RoomAsserted, HasRoom, Ordered

\* The copy of append touches nothing but the array.
LEMMA CopyKeepsIndexes ==
  ASSUME NEW limit, NEW b, Ordered(b, limit), NEW data
  PROVE  /\ Ordered(CopyIn(b, data), limit)
         /\ CopyIn(b, data).m_size = b.m_size
         /\ CopyIn(b, data).m_read_index = b.m_read_index
         /\ CopyIn(b, data).m_write_index = b.m_write_index
<1> DEFINE array == [i \in DOMAIN b.m_buffer |->
                       IF i \in b.m_write_index .. b.m_write_index + Len(data) - 1
                         THEN data[i - b.m_write_index + 1] ELSE b.m_buffer[i]]
<1>1. CopyIn(b, data) = [b EXCEPT !.m_buffer = array]
  BY DEF CopyIn
<1>a. DOMAIN array = DOMAIN b.m_buffer
  OBVIOUS
<1> HIDE DEF array
<1>2. CopyIn(b, data) =
        [m_buffer |-> array, m_size |-> b.m_size, m_read_index |-> b.m_read_index,
         m_write_index |-> b.m_write_index]
  BY <1>1 DEF Ordered
<1>3. QED
  BY <1>a, <1>2 DEF Ordered

\* The write index moves on by what was written.
LEMMA WriteIndexMoves ==
  ASSUME NEW limit, Small(limit), NEW b, Ordered(b, limit), NEW n \in Nat,
         b.m_write_index + n <= b.m_size
  PROVE  /\ Ordered(IncreaseWriteIndex(b, n), limit)
         /\ ReadableBytes(IncreaseWriteIndex(b, n)) = ReadableBytes(b) + n
<1>1. SizeT(b.m_write_index + n) = b.m_write_index + n
  BY NoWrap DEF Ordered, Small
<1>2. IncreaseWriteIndex(b, n) =
        [m_buffer |-> b.m_buffer, m_size |-> b.m_size, m_read_index |-> b.m_read_index,
         m_write_index |-> b.m_write_index + n]
  BY <1>1 DEF Ordered, IncreaseWriteIndex
<1> DEFINE after == IncreaseWriteIndex(b, n)
<1>3. Ordered(after, limit)
  BY <1>2 DEF Ordered
<1>4. after.m_write_index = b.m_write_index + n /\ after.m_read_index = b.m_read_index
  BY <1>2
<1> HIDE DEF after
<1>5. /\ ReadableBytes(after) = after.m_write_index - after.m_read_index
      /\ ReadableBytes(b) = b.m_write_index - b.m_read_index
  BY <1>3, Counts
<1>6. ReadableBytes(after) = ReadableBytes(b) + n
  BY <1>4, <1>5, Indexes
<1>7. QED
  BY <1>3, <1>6 DEF after

\* The read index moves on by what was read.
LEMMA ReadIndexMoves ==
  ASSUME NEW limit, Small(limit), NEW b, Ordered(b, limit), NEW n \in 0 .. ReadableBytes(b)
  PROVE  /\ Ordered(IncreaseReadIndex(b, n), limit)
         /\ ReadableBytes(IncreaseReadIndex(b, n)) = ReadableBytes(b) - n
<1>1. ReadableBytes(b) = b.m_write_index - b.m_read_index
  BY Counts
<1>2. SizeT(b.m_read_index + n) = b.m_read_index + n
  BY <1>1, NoWrap DEF Ordered, Small
<1>3. IncreaseReadIndex(b, n) =
        [m_buffer |-> b.m_buffer, m_size |-> b.m_size, m_read_index |-> b.m_read_index + n,
         m_write_index |-> b.m_write_index]
  BY <1>2 DEF Ordered, IncreaseReadIndex
<1>4. Ordered(IncreaseReadIndex(b, n), limit)
  BY <1>1, <1>3 DEF Ordered
<1>5. QED
  BY <1>1, <1>3, <1>4, Counts DEF Ordered

\* append adds its bytes to the readable ones, inside the array.
LEMMA AppendAdds ==
  ASSUME NEW limit \in Nat, NEW data, Len(data) \in Nat, Small(limit + Len(data)),
         NEW b, Ordered(b, limit)
  PROVE  /\ Ordered(AppendTo(b, data), limit + Len(data))
         /\ ReadableBytes(AppendTo(b, data)) = ReadableBytes(b) + Len(data)
         /\ RoomAsserted(b, Len(data))
         /\ ~Overruns(b, Len(data))
<1> DEFINE roomy == EnsureWriteableBytes(b, Len(data))
<1> DEFINE copied == CopyIn(roomy, data)
<1>1. /\ Ordered(roomy, limit + Len(data))
      /\ RoomAsserted(b, Len(data))
      /\ ReadableBytes(roomy) = ReadableBytes(b)
      /\ roomy.m_write_index + Len(data) <= roomy.m_size
  BY EnsureMakesRoom
<1>2. ~Overruns(b, Len(data))
  BY <1>1 DEF Overruns, Ordered
<1>3. AppendTo(b, data) = IncreaseWriteIndex(copied, Len(data))
  BY DEF AppendTo
<1> HIDE DEF roomy
<1>4. /\ Ordered(copied, limit + Len(data))
      /\ copied.m_size = roomy.m_size
      /\ copied.m_read_index = roomy.m_read_index
      /\ copied.m_write_index = roomy.m_write_index
  BY <1>1, CopyKeepsIndexes
<1> HIDE DEF copied
<1>5. ReadableBytes(copied) = ReadableBytes(roomy)
  BY <1>4 DEF ReadableBytes
<1>6. /\ Ordered(IncreaseWriteIndex(copied, Len(data)), limit + Len(data))
      /\ ReadableBytes(IncreaseWriteIndex(copied, Len(data))) = ReadableBytes(copied) + Len(data)
  BY <1>1, <1>4, WriteIndexMoves
<1>7. QED
  BY <1>1, <1>2, <1>3, <1>5, <1>6

-----------------------------------------------------------------------------
(* Contents.                                                               *)

\* Of a buffer in order, the readable bytes are those between the indexes.
LEMMA ReadableAt ==
  ASSUME NEW limit, Small(limit), NEW b, Ordered(b, limit)
  PROVE  /\ DOMAIN Readable(b) = 1 .. b.m_write_index - b.m_read_index
         /\ \A i \in 1 .. b.m_write_index - b.m_read_index :
              Readable(b)[i] = b.m_buffer[b.m_read_index + i - 1]
<1>1. Offset(b.m_read_index) = b.m_read_index
  BY DEF Offset, Ordered, Small
<1>2. ReadableBytes(b) = b.m_write_index - b.m_read_index
  BY Counts
<1>3. \A i \in 1 .. b.m_write_index - b.m_read_index :
        b.m_read_index + i - 1 \in DOMAIN b.m_buffer
  BY DEF Ordered
<1>4. QED
  BY <1>1, <1>2, <1>3 DEF Readable, ByteAt

\* Reading takes the bytes from the front.
LEMMA ReadTakesFront ==
  ASSUME NEW limit, Small(limit), NEW b, Ordered(b, limit), NEW n \in 0 .. ReadableBytes(b),
         NEW i \in 1 .. ReadableBytes(b) - n
  PROVE  Readable(IncreaseReadIndex(b, n))[i] = Readable(b)[n + i]
<1> DEFINE after == IncreaseReadIndex(b, n)
<1>1. Ordered(after, limit) /\ ReadableBytes(after) = ReadableBytes(b) - n
  BY ReadIndexMoves
<1>2. ReadableBytes(b) = b.m_write_index - b.m_read_index
  BY Counts
<1>3. SizeT(b.m_read_index + n) = b.m_read_index + n
  <2>a. /\ b.m_size \in Nat /\ b.m_write_index \in Nat /\ b.m_read_index \in Nat
        /\ b.m_write_index <= b.m_size /\ b.m_size <= limit
    BY Indexes
  <2>1. /\ b.m_read_index \in Nat /\ b.m_write_index \in Nat
        /\ b.m_write_index <= limit
    BY <2>a DEF Small
  <2>2. b.m_read_index + n <= b.m_write_index
    BY <1>2, <2>1
  <2>3. b.m_read_index + n \in 0 .. SizeMax - 1
    BY <1>2, <2>1, <2>2 DEF Small
  <2>4. QED
    BY <2>3, NoWrap
<1>4. /\ after.m_read_index = b.m_read_index + n
      /\ after.m_buffer = b.m_buffer
      /\ after.m_write_index = b.m_write_index
  BY <1>3 DEF Ordered, IncreaseReadIndex
<1>5. Readable(b)[n + i] = b.m_buffer[b.m_read_index + (n + i) - 1]
  <2>1. n + i \in 1 .. b.m_write_index - b.m_read_index
    BY <1>2 DEF Ordered
  <2>2. QED
    BY <2>1, ReadableAt
<1> HIDE DEF after
<1>6. Readable(after)[i] = b.m_buffer[b.m_read_index + n + i - 1]
  <2>1. i \in 1 .. after.m_write_index - after.m_read_index
    BY <1>2, <1>4 DEF Ordered
  <2>2. Readable(after)[i] = after.m_buffer[after.m_read_index + i - 1]
    BY <1>1, <2>1, ReadableAt
  <2>3. QED
    BY <1>4, <2>2
<1>7. b.m_read_index + (n + i) - 1 = b.m_read_index + n + i - 1
  BY <1>2 DEF Ordered
<1>8. QED
  BY <1>5, <1>6, <1>7 DEF after

\* Unless it slips, ensure_writeable_bytes keeps the readable bytes.
LEMMA EnsureKeepsBytes ==
  ASSUME NEW limit \in Nat, NEW size \in Nat, Small(limit + size),
         NEW b, Ordered(b, limit), ~Slips(b, size), NEW i \in 1 .. ReadableBytes(b)
  PROVE  Readable(EnsureWriteableBytes(b, size))[i] = Readable(b)[i]
<1> DEFINE roomy == EnsureWriteableBytes(b, size)
<1>1. Ordered(roomy, limit + size) /\ ReadableBytes(roomy) = ReadableBytes(b)
  BY EnsureMakesRoom
<1>2. Small(limit)
  BY DEF Small
<1>3. ReadableBytes(b) = b.m_write_index - b.m_read_index
  BY <1>2, Counts
<1>4. CASE HasRoom(b, size)
  BY <1>4 DEF EnsureWriteableBytes
<1>5. CASE MustGrow(b, size)
  <2>1. roomy.m_buffer = Grown(b, size) /\ roomy.m_read_index = 0
    BY <1>5 DEF MustGrow, EnsureWriteableBytes
  <2>2. roomy.m_write_index - roomy.m_read_index = ReadableBytes(b)
    BY <1>5, <1>3 DEF MustGrow, EnsureWriteableBytes, Ordered
  <2> HIDE DEF roomy
  <2>3. Readable(roomy)[i] = roomy.m_buffer[i - 1]
    <3>1. Readable(roomy)[i] = roomy.m_buffer[roomy.m_read_index + i - 1]
      BY <1>1, <2>2, ReadableAt
    <3>2. 0 + i - 1 = i - 1
      BY <1>3 DEF Ordered
    <3>3. QED
      BY <3>1, <3>2, <2>1
  <2>4. i - 1 \in 0 .. b.m_write_index + size - 1 /\ i - 1 < ReadableBytes(b) /\ (i - 1) + 1 = i
    BY <1>3 DEF Ordered
  <2>5. Grown(b, size)[i - 1] = Readable(b)[i]
    BY <2>4 DEF Grown
  <2>6. QED
    BY <2>1, <2>3, <2>5 DEF roomy
<1>6. CASE ~HasRoom(b, size) /\ ~MustGrow(b, size)
  <2>1. b.m_read_index = 0
    BY <1>3, <1>6 DEF Slips, Ordered
  <2>2. /\ roomy.m_buffer = b.m_buffer /\ roomy.m_read_index = 0
        /\ roomy.m_write_index = ReadableBytes(b)
    BY <1>6 DEF EnsureWriteableBytes
  <2>3. Readable(b)[i] = b.m_buffer[b.m_read_index + i - 1]
    BY <1>2, <1>3, ReadableAt
  <2> HIDE DEF roomy
  <2>4. roomy.m_write_index - roomy.m_read_index = ReadableBytes(b)
    BY <1>3, <2>2 DEF Ordered
  <2>5. Readable(roomy)[i] = roomy.m_buffer[roomy.m_read_index + i - 1]
    BY <1>1, <2>4, ReadableAt
  <2>6. QED
    BY <2>1, <2>2, <2>3, <2>5 DEF roomy
<1>7. QED
  BY <1>4, <1>5, <1>6 DEF MustGrow

\* Unless it slips, append puts its bytes behind the readable ones.
LEMMA AppendContents ==
  ASSUME NEW limit \in Nat, NEW data, Len(data) \in Nat, Small(limit + Len(data)),
         NEW b, Ordered(b, limit), ~Slips(b, Len(data))
  PROVE  /\ \A i \in 1 .. ReadableBytes(b) : Readable(AppendTo(b, data))[i] = Readable(b)[i]
         /\ \A i \in 1 .. Len(data) :
              Readable(AppendTo(b, data))[ReadableBytes(b) + i] = data[i]
<1> DEFINE roomy == EnsureWriteableBytes(b, Len(data))
<1> DEFINE whole == AppendTo(b, data)
<1>1. /\ Ordered(roomy, limit + Len(data))
      /\ ReadableBytes(roomy) = ReadableBytes(b)
      /\ roomy.m_write_index + Len(data) <= roomy.m_size
  BY EnsureMakesRoom
<1>2. /\ Ordered(whole, limit + Len(data))
      /\ ReadableBytes(whole) = ReadableBytes(b) + Len(data)
  BY AppendAdds
<1>3. \A i \in 1 .. ReadableBytes(b) : Readable(roomy)[i] = Readable(b)[i]
  BY EnsureKeepsBytes
<1>4. whole = IncreaseWriteIndex(CopyIn(roomy, data), Len(data))
  BY DEF AppendTo
<1> HIDE DEF roomy, whole
<1>5. /\ Ordered(CopyIn(roomy, data), limit + Len(data))
      /\ CopyIn(roomy, data).m_read_index = roomy.m_read_index
  BY <1>1, CopyKeepsIndexes
<1>6. CopyIn(roomy, data).m_buffer =
        [i \in DOMAIN roomy.m_buffer |->
           IF i \in roomy.m_write_index .. roomy.m_write_index + Len(data) - 1
             THEN data[i - roomy.m_write_index + 1] ELSE roomy.m_buffer[i]]
  BY <1>1 DEF CopyIn, Ordered
<1> DEFINE copied == CopyIn(roomy, data)
<1> HIDE DEF copied
<1>7. whole.m_buffer = copied.m_buffer /\ whole.m_read_index = roomy.m_read_index
  BY <1>4, <1>5 DEF Ordered, IncreaseWriteIndex, copied
<1>8. /\ ReadableBytes(roomy) = roomy.m_write_index - roomy.m_read_index
      /\ ReadableBytes(whole) = whole.m_write_index - whole.m_read_index
  BY <1>1, <1>2, Counts
<1>9. \A i \in 1 .. ReadableBytes(whole) :
        Readable(whole)[i] = copied.m_buffer[roomy.m_read_index + i - 1]
  BY <1>2, <1>7, <1>8, ReadableAt
<1>10. ASSUME NEW i \in 1 .. ReadableBytes(b)
       PROVE  Readable(whole)[i] = Readable(b)[i]
  <2>1. /\ roomy.m_read_index + i - 1 \in DOMAIN roomy.m_buffer
        /\ roomy.m_read_index + i - 1 < roomy.m_write_index
        /\ i \in 1 .. ReadableBytes(whole)
    <3>1. /\ roomy.m_size \in Nat /\ roomy.m_write_index \in Nat /\ roomy.m_read_index \in Nat
          /\ roomy.m_write_index <= roomy.m_size
          /\ DOMAIN roomy.m_buffer = 0 .. roomy.m_size - 1
      BY <1>1, Indexes
    <3>2. /\ ReadableBytes(b) = roomy.m_write_index - roomy.m_read_index
          /\ ReadableBytes(whole) = ReadableBytes(b) + Len(data)
      BY <1>1, <1>2, <1>8
    <3>3. roomy.m_read_index + i - 1 < roomy.m_write_index
      BY <3>1, <3>2
    <3>4. QED
      BY <3>1, <3>2, <3>3
  <2>2. copied.m_buffer[roomy.m_read_index + i - 1] = roomy.m_buffer[roomy.m_read_index + i - 1]
    BY <1>1, <1>6, <2>1 DEF Ordered, copied
  <2>3. Readable(roomy)[i] = roomy.m_buffer[roomy.m_read_index + i - 1]
    BY <1>1, <1>8, ReadableAt
  <2>4. QED
    BY <1>3, <1>9, <2>1, <2>2, <2>3
<1>11. ASSUME NEW i \in 1 .. Len(data)
       PROVE  Readable(whole)[ReadableBytes(b) + i] = data[i]
  <2> DEFINE r == roomy.m_read_index
             w == roomy.m_write_index
  <2>a. /\ r \in Nat /\ w \in Nat /\ roomy.m_size \in Nat
        /\ DOMAIN roomy.m_buffer = 0 .. roomy.m_size - 1
    BY <1>1, Indexes
  <2>b. ReadableBytes(b) = w - r /\ w + Len(data) <= roomy.m_size
    BY <1>1, <1>8
  <2> HIDE DEF r, w
  <2>c. /\ r + (w - r + i) - 1 = w + i - 1
        /\ w + i - 1 \in 0 .. roomy.m_size - 1
        /\ w + i - 1 \in w .. w + Len(data) - 1
        /\ (w + i - 1) - w + 1 = i
    BY <2>a, <2>b
  <2>d. ReadableBytes(b) + i \in 1 .. ReadableBytes(whole)
    <3>1. r <= w
      BY <1>1, Indexes DEF r, w
    <3>2. ReadableBytes(b) \in Nat /\ ReadableBytes(whole) = ReadableBytes(b) + Len(data)
      BY <1>2, <2>a, <2>b, <3>1
    <3>3. QED
      BY <3>2
  <2>1. /\ ReadableBytes(b) + i \in 1 .. ReadableBytes(whole)
        /\ roomy.m_read_index + (ReadableBytes(b) + i) - 1 = roomy.m_write_index + i - 1
        /\ roomy.m_write_index + i - 1 \in DOMAIN roomy.m_buffer
        /\ roomy.m_write_index + i - 1 \in
             roomy.m_write_index .. roomy.m_write_index + Len(data) - 1
        /\ (roomy.m_write_index + i - 1) - roomy.m_write_index + 1 = i
    BY <2>a, <2>b, <2>c, <2>d DEF r, w
  <2>2. copied.m_buffer[roomy.m_write_index + i - 1] = data[i]
    BY <1>6, <2>1 DEF copied
  <2>3. QED
    BY <1>9, <2>1, <2>2
<1>12. QED
  BY <1>10, <1>11 DEF whole

\* A buffer made from data holds just that.
LEMMA BufferOfData ==
  ASSUME NEW data, Len(data) \in Nat, Small(Len(data))
  PROVE  /\ Ordered(BufferOf(data), Len(data))
         /\ ReadableBytes(BufferOf(data)) = Len(data)
         /\ \A i \in 1 .. Len(data) : Readable(BufferOf(data))[i] = data[i]
<1> DEFINE b == BufferOf(data)
<1>1. Ordered(b, Len(data)) /\ b.m_write_index = Len(data) /\ b.m_read_index = 0
  BY DEF BufferOf, Ordered
<1>2. \A i \in 1 .. Len(data) : b.m_buffer[0 + i - 1] = data[i]
  BY DEF BufferOf
<1> HIDE DEF b
<1>3. ReadableBytes(b) = Len(data)
  BY <1>1, Counts
<1>4. \A i \in 1 .. Len(data) : Readable(b)[i] = b.m_buffer[0 + i - 1]
  BY <1>1, ReadableAt
<1>5. QED
  BY <1>1, <1>2, <1>3, <1>4 DEF b

-----------------------------------------------------------------------------
(* Sequences of whatever elements.                                         *)

IsSeq(s) == Len(s) \in Nat /\ s = [i \in 1 .. Len(s) |-> s[i]]

LEMMA SeqIsSeq ==
  ASSUME NEW S, NEW s \in Seq(S)
  PROVE  IsSeq(s)
  BY DEF IsSeq

LEMMA Concat ==
  ASSUME NEW s, NEW t, IsSeq(s), IsSeq(t)
  PROVE  /\ IsSeq(s \o t)
         /\ Len(s \o t) = Len(s) + Len(t)
         /\ \A i \in 1 .. Len(s) : (s \o t)[i] = s[i]
         /\ \A i \in 1 .. Len(t) : (s \o t)[Len(s) + i] = t[i]
<1> DEFINE S == {s[i] : i \in 1 .. Len(s)} \cup {t[i] : i \in 1 .. Len(t)}
<1>1. s \in Seq(S) /\ t \in Seq(S)
  <2>1. s \in [1 .. Len(s) -> S] /\ Len(s) \in Nat
    BY DEF IsSeq
  <2>2. t \in [1 .. Len(t) -> S] /\ Len(t) \in Nat
    BY DEF IsSeq
  <2> HIDE DEF S
  <2>3. s \in Seq(S)
    BY <2>1
  <2>4. t \in Seq(S)
    BY <2>2
  <2>5. QED
    BY <2>3, <2>4
<1> HIDE DEF S
<1>2. s \o t \in Seq(S) /\ Len(s \o t) = Len(s) + Len(t)
  BY <1>1
<1>3. Len(s) \in Nat /\ Len(t) \in Nat
  BY DEF IsSeq
<1>4. \A i \in 1 .. Len(s) + Len(t) :
        (s \o t)[i] = IF i <= Len(s) THEN s[i] ELSE t[i - Len(s)]
  BY <1>1
<1>5. \A i \in 1 .. Len(s) : (s \o t)[i] = s[i]
  BY <1>3, <1>4
<1>6. \A i \in 1 .. Len(t) : (s \o t)[Len(s) + i] = t[i]
  BY <1>3, <1>4
<1>7. IsSeq(s \o t)
  BY <1>2, SeqIsSeq
<1>8. QED
  BY <1>2, <1>5, <1>6, <1>7

LEMMA Front ==
  ASSUME NEW s, IsSeq(s), NEW n \in 0 .. Len(s)
  PROVE  /\ IsSeq(SubSeq(s, 1, n))
         /\ Len(SubSeq(s, 1, n)) = n
         /\ \A i \in 1 .. n : SubSeq(s, 1, n)[i] = s[i]
<1> DEFINE S == {s[i] : i \in 1 .. Len(s)}
<1>1. s \in Seq(S)
  BY DEF IsSeq
<1> HIDE DEF S
<1>2. QED
  BY <1>1 DEF IsSeq

\* The readable bytes of a buffer in order form a sequence.
LEMMA ReadableIsSeq ==
  ASSUME NEW limit, Small(limit), NEW b, Ordered(b, limit)
  PROVE  IsSeq(Readable(b)) /\ Len(Readable(b)) = ReadableBytes(b)
<1>1. ReadableBytes(b) \in Nat
  <2>1. ReadableBytes(b) \in 0 .. limit
    BY CountBounded
  <2>2. QED
    BY <2>1 DEF Small
<1> DEFINE n == ReadableBytes(b)
           f(i) == ByteAt(b, Offset(b.m_read_index) + i - 1)
<1>2. Readable(b) = [i \in 1 .. n |-> f(i)]
  BY DEF Readable
<1> HIDE DEF n, f
<1>3. IsSeq([i \in 1 .. n |-> f(i)]) /\ Len([i \in 1 .. n |-> f(i)]) = n
  BY <1>1 DEF n, IsSeq
<1>4. QED
  BY <1>2, <1>3 DEF n

LEMMA WiderLimit ==
  ASSUME NEW b, NEW l1 \in Nat, NEW l2 \in Nat, l1 <= l2, Ordered(b, l1)
  PROVE  Ordered(b, l2)
  BY DEF Ordered

-----------------------------------------------------------------------------
(* Bytes that were taken, followed by the bytes of a buffer.               *)

\* w and the readable bytes of b are total bytes together.
Together(w, b, total, limit) ==
  /\ Ordered(b, limit)
  /\ IsSeq(w)
  /\ Len(w) \in Nat
  /\ Len(w) + ReadableBytes(b) = total

\* They are the bytes 1, 2, 3 and so on.
InOrder(w, b) ==
  /\ \A i \in 1 .. Len(w) : w[i] = i
  /\ \A i \in 1 .. ReadableBytes(b) : Readable(b)[i] = Len(w) + i

\* The limit may be any number the array does not exceed.
LEMMA OtherLimit ==
  ASSUME NEW b, NEW l1, NEW l2 \in Nat, Ordered(b, l1), b.m_size <= l2
  PROVE  Ordered(b, l2)
  BY DEF Ordered

\* Bytes are taken from the front of the buffer.
LEMMA TakeMoves ==
  ASSUME NEW w, NEW b, NEW total, NEW limit, Small(limit), Together(w, b, total, limit),
         NEW n \in 0 .. ReadableBytes(b)
  PROVE  /\ Together(w \o SubSeq(Readable(b), 1, n), IncreaseReadIndex(b, n), total, limit)
         /\ Len(w \o SubSeq(Readable(b), 1, n)) = Len(w) + n
         /\ InOrder(w, b) => InOrder(w \o SubSeq(Readable(b), 1, n), IncreaseReadIndex(b, n))
<1> DEFINE taken == SubSeq(Readable(b), 1, n)
           rest == IncreaseReadIndex(b, n)
           count == ReadableBytes(b)
<1>1. Ordered(b, limit) /\ IsSeq(w) /\ Len(w) \in Nat /\ Len(w) + count = total
  BY DEF Together
<1>2. count \in Nat /\ n \in Nat /\ n <= count
  <2>1. count \in 0 .. limit
    BY <1>1, CountBounded
  <2>2. QED
    BY <2>1 DEF Small
<1>3. /\ Ordered(rest, limit)
      /\ ReadableBytes(rest) = count - n
      /\ \A i \in 1 .. count - n : Readable(rest)[i] = Readable(b)[n + i]
      /\ IsSeq(taken)
      /\ Len(taken) = n
      /\ \A i \in 1 .. n : taken[i] = Readable(b)[i]
  <2>1. IsSeq(Readable(b)) /\ Len(Readable(b)) = count
    BY <1>1, ReadableIsSeq
  <2>2. QED
    BY <1>1, <2>1, Front, ReadIndexMoves, ReadTakesFront
<1> HIDE DEF taken, rest, count
<1> DEFINE w2 == w \o taken
<1>4. /\ IsSeq(w2)
      /\ Len(w2) = Len(w) + Len(taken)
      /\ \A i \in 1 .. Len(w) : w2[i] = w[i]
      /\ \A i \in 1 .. Len(taken) : w2[Len(w) + i] = taken[i]
  <2>1. IsSeq(w) /\ IsSeq(taken)
    BY <1>1, <1>3
  <2>2. QED
    BY <2>1, Concat
<1> HIDE DEF w2
<1>5. Len(w2) = Len(w) + n
  BY <1>3, <1>4
<1>6. Together(w2, rest, total, limit)
  <2>1. Len(w2) \in Nat /\ Len(w2) + ReadableBytes(rest) = total
    BY <1>1, <1>2, <1>3, <1>5
  <2>2. QED
    BY <1>3, <1>4, <2>1 DEF Together
<1>7. ASSUME InOrder(w, b) PROVE InOrder(w2, rest)
  <2>1. /\ \A i \in 1 .. Len(w) : w[i] = i
        /\ \A i \in 1 .. count : Readable(b)[i] = Len(w) + i
    BY <1>7 DEF InOrder, count
  <2>2. ASSUME NEW i \in 1 .. Len(w2) PROVE w2[i] = i
    <3>1. CASE i <= Len(w)
      BY <1>1, <1>4, <1>5, <2>1, <3>1
    <3>2. CASE i > Len(w)
      <4>1. i - Len(w) \in 1 .. n /\ Len(w) + (i - Len(w)) = i
        BY <1>1, <1>2, <1>5, <3>2
      <4>2. w2[Len(w) + (i - Len(w))] = taken[i - Len(w)]
        BY <1>3, <1>4, <4>1
      <4>3. taken[i - Len(w)] = Len(w) + (i - Len(w))
        BY <1>2, <1>3, <2>1, <4>1
      <4>4. QED
        BY <4>1, <4>2, <4>3
    <3>3. QED
      BY <1>1, <1>2, <1>5, <3>1, <3>2
  <2>3. ASSUME NEW i \in 1 .. ReadableBytes(rest) PROVE Readable(rest)[i] = Len(w2) + i
    <3>1. i \in 1 .. count - n /\ n + i \in 1 .. count
      BY <1>2, <1>3
    <3>2. Readable(rest)[i] = Len(w) + (n + i)
      BY <1>3, <2>1, <3>1
    <3>3. QED
      BY <1>1, <1>2, <1>5, <3>1, <3>2
  <2>4. QED
    BY <2>2, <2>3 DEF InOrder
<1>8. QED
  BY <1>5, <1>6, <1>7 DEF w2, taken, rest

\* Bytes that continue the numbers are appended.
LEMMA AppendExtends ==
  ASSUME NEW w, NEW b, NEW total \in Nat, NEW limit \in Nat, NEW data, IsSeq(data),
         Small(limit + Len(data)), Together(w, b, total, limit)
  PROVE  /\ Together(w, AppendTo(b, data), total + Len(data), limit + Len(data))
         /\ ReadableBytes(AppendTo(b, data)) = ReadableBytes(b) + Len(data)
         /\ RoomAsserted(b, Len(data))
         /\ ~Overruns(b, Len(data))
         /\ (InOrder(w, b) /\ ~Slips(b, Len(data)) /\ \A i \in 1 .. Len(data) : data[i] = total + i)
              => InOrder(w, AppendTo(b, data))
<1> DEFINE n == Len(data)
           whole == AppendTo(b, data)
           count == ReadableBytes(b)
<1>1. Ordered(b, limit) /\ IsSeq(w) /\ Len(w) \in Nat /\ Len(w) + count = total /\ n \in Nat
  BY DEF Together, IsSeq
<1>2. count \in Nat
  <2>1. Small(limit)
    BY <1>1 DEF Small
  <2>2. count \in 0 .. limit
    BY <1>1, <2>1, CountBounded
  <2>3. QED
    BY <2>2
<1>3. /\ Ordered(whole, limit + n)
      /\ ReadableBytes(whole) = count + n
      /\ RoomAsserted(b, n)
      /\ ~Overruns(b, n)
  BY <1>1, AppendAdds
<1>4. ASSUME ~Slips(b, n)
      PROVE  /\ \A i \in 1 .. count : Readable(whole)[i] = Readable(b)[i]
             /\ \A i \in 1 .. n : Readable(whole)[count + i] = data[i]
  BY <1>1, <1>4, AppendContents
<1> HIDE DEF n, whole, count
<1>5. Together(w, whole, total + n, limit + n)
  <2>1. Len(w) + ReadableBytes(whole) = total + n
    BY <1>1, <1>2, <1>3
  <2>2. QED
    BY <1>1, <1>3, <2>1 DEF Together
<1>6. ASSUME InOrder(w, b), ~Slips(b, n), \A i \in 1 .. n : data[i] = total + i
      PROVE  InOrder(w, whole)
  <2>1. /\ \A i \in 1 .. Len(w) : w[i] = i
        /\ \A i \in 1 .. count : Readable(b)[i] = Len(w) + i
    BY <1>6 DEF InOrder, count
  <2>2. /\ \A i \in 1 .. count : Readable(whole)[i] = Readable(b)[i]
        /\ \A i \in 1 .. n : Readable(whole)[count + i] = data[i]
    BY <1>4, <1>6
  <2>3. ASSUME NEW i \in 1 .. count + n PROVE Readable(whole)[i] = Len(w) + i
    <3>1. CASE i <= count
      BY <1>1, <1>2, <2>1, <2>2, <3>1
    <3>2. CASE i > count
      <4>1. i - count \in 1 .. n /\ count + (i - count) = i
        BY <1>1, <1>2, <3>2
      <4>2. Readable(whole)[count + (i - count)] = total + (i - count)
        BY <1>6, <2>2, <4>1
      <4>3. total + (i - count) = Len(w) + i
        BY <1>1, <1>2
      <4>4. QED
        BY <4>1, <4>2, <4>3
    <3>3. QED
      BY <1>1, <1>2, <3>1, <3>2
  <2>4. QED
    BY <1>3, <2>1, <2>3 DEF InOrder
<1>7. QED
  BY <1>3, <1>5, <1>6 DEF n, whole, count

\* Making room leaves the bytes together.
LEMMA EnsureExtends ==
  ASSUME NEW w, NEW b, NEW total, NEW limit \in Nat, NEW size \in Nat, Small(limit + size),
         Together(w, b, total, limit)
  PROVE  LET roomy == EnsureWriteableBytes(b, size) IN
         /\ Together(w, roomy, total, limit + size)
         /\ InOrder(w, b) /\ ~Slips(b, size) => InOrder(w, roomy)
<1> DEFINE roomy == EnsureWriteableBytes(b, size)
<1>1. Ordered(b, limit) /\ IsSeq(w) /\ Len(w) \in Nat /\ Len(w) + ReadableBytes(b) = total
  BY DEF Together
<1>2. Ordered(roomy, limit + size) /\ ReadableBytes(roomy) = ReadableBytes(b)
  BY <1>1, EnsureMakesRoom
<1>3. ~Slips(b, size) => \A i \in 1 .. ReadableBytes(b) : Readable(roomy)[i] = Readable(b)[i]
  BY <1>1, EnsureKeepsBytes
<1> HIDE DEF roomy
<1>4. Together(w, roomy, total, limit + size)
  BY <1>1, <1>2 DEF Together
<1>5. InOrder(w, b) /\ ~Slips(b, size) => InOrder(w, roomy)
  BY <1>2, <1>3 DEF InOrder
<1>6. QED
  BY <1>4, <1>5 DEF roomy

\* Together and in order they are just the numbers up to total.
LEMMA WholeStream ==
  ASSUME NEW w, NEW b, NEW total \in Nat, NEW limit, Small(limit), Together(w, b, total, limit),
         InOrder(w, b)
  PROVE  w \o Readable(b) = [i \in 1 .. total |-> i]
<1> DEFINE data == Readable(b)
           both == w \o data
<1>1. Ordered(b, limit) /\ IsSeq(w) /\ Len(w) \in Nat /\ Len(w) + ReadableBytes(b) = total
  BY DEF Together
<1>2. IsSeq(data) /\ Len(data) = ReadableBytes(b)
  BY <1>1, ReadableIsSeq
<1>3. /\ \A i \in 1 .. Len(w) : w[i] = i
      /\ \A i \in 1 .. Len(data) : data[i] = Len(w) + i
  BY <1>2 DEF InOrder
<1> HIDE DEF data
<1>4. /\ IsSeq(both)
      /\ Len(both) = Len(w) + Len(data)
      /\ \A i \in 1 .. Len(w) : both[i] = w[i]
      /\ \A i \in 1 .. Len(data) : both[Len(w) + i] = data[i]
  <2>1. IsSeq(w) /\ IsSeq(data)
    BY <1>1, <1>2
  <2>2. QED
    BY <2>1, Concat
<1> HIDE DEF both
<1>5. Len(data) \in Nat /\ Len(both) = total
  BY <1>1, <1>2, <1>4 DEF IsSeq
<1>6. ASSUME NEW i \in 1 .. total PROVE both[i] = i
  <2>1. CASE i <= Len(w)
    BY <1>1, <1>3, <1>4, <2>1
  <2>2. CASE i > Len(w)
    <3>1. i - Len(w) \in 1 .. Len(data) /\ Len(w) + (i - Len(w)) = i
      BY <1>1, <1>2, <1>5, <2>2
    <3>2. QED
      BY <1>3, <1>4, <3>1
  <2>3. QED
    BY <1>1, <2>1, <2>2
<1>7. both = [i \in 1 .. total |-> both[i]]
  BY <1>4, <1>5 DEF IsSeq
<1>8. both = [i \in 1 .. total |-> i]
  BY <1>6, <1>7
<1>9. QED
  BY <1>8 DEF both, data

\* append leaves the array as ensure_writeable_bytes made it.
LEMMA AppendedSize ==
  ASSUME NEW limit \in Nat, NEW data, Len(data) \in Nat, Small(limit + Len(data)),
         NEW b, Ordered(b, limit)
  PROVE  AppendTo(b, data).m_size = EnsureWriteableBytes(b, Len(data)).m_size
<1> DEFINE roomy == EnsureWriteableBytes(b, Len(data))
           copied == CopyIn(roomy, data)
<1>1. Ordered(roomy, limit + Len(data))
  BY EnsureMakesRoom
<1> HIDE DEF roomy
<1>2. Ordered(copied, limit + Len(data)) /\ copied.m_size = roomy.m_size
  BY <1>1, CopyKeepsIndexes
<1> HIDE DEF copied
<1>3. IncreaseWriteIndex(copied, Len(data)).m_size = copied.m_size
  BY <1>2 DEF IncreaseWriteIndex, Ordered
<1>4. QED
  BY <1>2, <1>3 DEF AppendTo, copied, roomy

-----------------------------------------------------------------------------
(* What a failed ::write does.                                             *)

\* Arithmetic of size_t one turn below and above.
LEMMA WrapBelow ==
  ASSUME NEW n \in 0 .. SizeMax - 1
  PROVE  SizeT(n - SizeMax) = n
<1>1. (n - SizeMax) % SizeMax = n
  OBVIOUS
<1>2. QED
  BY <1>1 DEF SizeT

LEMMA WrapAbove ==
  ASSUME NEW n \in 0 .. SizeMax - 1
  PROVE  SizeT(n + SizeMax) = n
<1>1. (n + SizeMax) % SizeMax = n
  OBVIOUS
<1>2. QED
  BY <1>1 DEF SizeT

-----------------------------------------------------------------------------
(* What kind of bytes the array holds, whatever the indexes are.           *)

\* An array whose bytes are of S.
Holds(b, S) == b.m_buffer \in [0 .. b.m_size - 1 -> S]

\* The readable bytes are a sequence of bytes of the array and of garbage.
LEMMA ReadableInSeq ==
  ASSUME NEW b, NEW S, Holds(b, S), Garbage \in S, ReadableBytes(b) \in Nat
  PROVE  Readable(b) \in Seq(S) /\ Len(Readable(b)) = ReadableBytes(b)
<1> DEFINE n == ReadableBytes(b)
           f(i) == ByteAt(b, Offset(b.m_read_index) + i - 1)
<1>1. \A i : f(i) \in S
  BY DEF ByteAt, Holds
<1>2. Readable(b) = [i \in 1 .. n |-> f(i)]
  BY DEF Readable
<1> HIDE DEF n, f
<1>3. [i \in 1 .. n |-> f(i)] \in Seq(S) /\ Len([i \in 1 .. n |-> f(i)]) = n
  BY <1>1 DEF n
<1>4. QED
  BY <1>2, <1>3 DEF n

LEMMA EnsureHolds ==
  ASSUME NEW S, Garbage \in S, NEW b, Holds(b, S), ReadableBytes(b) \in Nat,
         b.m_write_index \in Nat, NEW size \in Nat
  PROVE  Holds(EnsureWriteableBytes(b, size), S)
<1> DEFINE roomy == EnsureWriteableBytes(b, size)
           n == ReadableBytes(b)
           w == b.m_write_index
<1>1. CASE HasRoom(b, size)
  BY <1>1 DEF EnsureWriteableBytes
<1>2. CASE ~HasRoom(b, size) /\ ~MustGrow(b, size)
  <2>1. roomy.m_size = b.m_size /\ roomy.m_buffer = b.m_buffer
    BY <1>2 DEF EnsureWriteableBytes
  <2>2. QED
    BY <2>1 DEF Holds
<1>3. CASE MustGrow(b, size)
  <2>1. roomy.m_size = w + size /\ roomy.m_buffer = Grown(b, size)
    BY <1>3 DEF MustGrow, EnsureWriteableBytes
  <2>2. (w + size) - 1 = w + size - 1
    OBVIOUS
  <2>3. Readable(b) \in Seq(S) /\ Len(Readable(b)) = n
    BY ReadableInSeq
  <2>4. \A i \in 0 .. w + size - 1 : i < n => Readable(b)[i + 1] \in S
    BY <2>3
  <2> HIDE DEF roomy
  <2>5. Grown(b, size) \in [0 .. w + size - 1 -> S]
    BY <2>4 DEF Grown
  <2>6. Holds(roomy, S)
    BY <2>1, <2>2, <2>5 DEF Holds
  <2>7. QED
    BY <2>6 DEF roomy
<1>4. QED
  BY <1>1, <1>2, <1>3

\* A buffer has the members of the class.
IsBuffer(b) ==
  b = [m_buffer |-> b.m_buffer, m_size |-> b.m_size,
       m_read_index |-> b.m_read_index, m_write_index |-> b.m_write_index]

LEMMA CopyHolds ==
  ASSUME NEW S, NEW b, IsBuffer(b), Holds(b, S), b.m_write_index \in Nat, NEW data \in Seq(S)
  PROVE  /\ Holds(CopyIn(b, data), S) /\ IsBuffer(CopyIn(b, data))
         /\ CopyIn(b, data) =
              [m_buffer |-> CopyIn(b, data).m_buffer, m_size |-> b.m_size,
               m_read_index |-> b.m_read_index, m_write_index |-> b.m_write_index]
<1> DEFINE first == b.m_write_index
           array == [i \in DOMAIN b.m_buffer |->
                       IF i \in first .. first + Len(data) - 1 THEN data[i - first + 1]
                       ELSE b.m_buffer[i]]
           copied == CopyIn(b, data)
<1>1. copied = [b EXCEPT !.m_buffer = array]
  BY DEF CopyIn
<1>2. first \in Nat /\ Len(data) \in Nat
  OBVIOUS
<1>3. DOMAIN b.m_buffer = 0 .. b.m_size - 1 /\ \A i \in 0 .. b.m_size - 1 : b.m_buffer[i] \in S
  BY DEF Holds
<1>4. \A i \in 0 .. b.m_size - 1 : i \in first .. first + Len(data) - 1 => data[i - first + 1] \in S
  BY <1>2
<1>5. array \in [0 .. b.m_size - 1 -> S]
  BY <1>3, <1>4
<1> HIDE DEF array, copied
<1>6. copied = [m_buffer |-> array, m_size |-> b.m_size,
                m_read_index |-> b.m_read_index, m_write_index |-> b.m_write_index]
  BY <1>1 DEF IsBuffer
<1>7. Holds(copied, S) /\ IsBuffer(copied)
  BY <1>5, <1>6 DEF Holds, IsBuffer
<1>8. QED
  BY <1>6, <1>7 DEF copied

LEMMA IndexesHold ==
  ASSUME NEW S, NEW b, IsBuffer(b), Holds(b, S), NEW n
  PROVE  Holds(IncreaseWriteIndex(b, n), S) /\ Holds(IncreaseReadIndex(b, n), S)
<1>1. /\ IncreaseWriteIndex(b, n).m_buffer = b.m_buffer /\ IncreaseWriteIndex(b, n).m_size = b.m_size
      /\ IncreaseReadIndex(b, n).m_buffer = b.m_buffer /\ IncreaseReadIndex(b, n).m_size = b.m_size
  BY DEF IsBuffer, IncreaseWriteIndex, IncreaseReadIndex
<1>2. QED
  BY <1>1 DEF Holds

-----------------------------------------------------------------------------
(* Buffers after failed writes: the read index may lie before the start of *)
(* the array, by at most one byte per failure.                             *)

\* The write index of b is in an array of at most limit bytes, and the read
\* index at most back bytes before its start.
Wide(b, limit, back) ==
  /\ b = [m_buffer |-> b.m_buffer, m_size |-> b.m_size,
          m_read_index |-> b.m_read_index, m_write_index |-> b.m_write_index]
  /\ b.m_size \in 0 .. limit
  /\ b.m_write_index \in 0 .. b.m_size
  /\ b.m_read_index \in 0 .. SizeMax - 1
  /\ ReadableBytes(b) \in 0 .. b.m_write_index + back

Narrow(limit) == limit \in Nat /\ limit + 1 < SizeMax

\* The numbers of such a buffer.
LEMMA WideNumbers ==
  ASSUME NEW limit \in Nat, NEW back \in Nat, Narrow(limit + back), NEW b, Wide(b, limit, back)
  PROVE  /\ b.m_size \in Nat /\ b.m_write_index \in Nat /\ b.m_read_index \in Nat
         /\ ReadableBytes(b) \in Nat
         /\ b.m_write_index <= b.m_size /\ b.m_size <= limit
         /\ ReadableBytes(b) <= b.m_write_index + back
         /\ b.m_read_index < SizeMax
         /\ limit + back + 1 < SizeMax /\ SizeMax \in Nat
         /\ ReadableBytes(b) < SizeMax
<1>1. /\ b.m_size \in Nat /\ b.m_write_index \in Nat /\ b.m_read_index \in Nat
      /\ b.m_write_index <= b.m_size /\ b.m_size <= limit
      /\ b.m_read_index < SizeMax
      /\ limit + back + 1 < SizeMax /\ SizeMax \in Nat
  BY DEF Wide, Narrow
<1>2. ReadableBytes(b) \in Nat /\ ReadableBytes(b) <= b.m_write_index + back
  BY <1>1 DEF Wide
<1>3. QED
  BY <1>1, <1>2

\* The read index lies as far before the write index as there are bytes, when
\* it did not wrap and when it did.
LEMMA Distance ==
  ASSUME NEW r \in 0 .. SizeMax - 1, NEW w \in 0 .. SizeMax - 1
  PROVE  SizeT(w - r) = IF r <= w THEN w - r ELSE w - r + SizeMax
<1>1. CASE r <= w
  <2>1. w - r \in 0 .. SizeMax - 1
    BY <1>1
  <2>2. QED
    BY <1>1, <2>1, NoWrap
<1>2. CASE ~(r <= w)
  <2>1. w - r + SizeMax \in 0 .. SizeMax - 1 /\ (w - r + SizeMax) - SizeMax = w - r
    BY <1>2
  <2>2. SizeT((w - r + SizeMax) - SizeMax) = w - r + SizeMax
    BY <2>1, WrapBelow
  <2>3. QED
    BY <1>2, <2>1, <2>2
<1>3. QED
  BY <1>1, <1>2

\* Moving the read index on by n, whether it wraps or not, leaves n bytes less.
LEMMA MovedOn ==
  ASSUME NEW r \in 0 .. SizeMax - 1, NEW w \in 0 .. SizeMax - 1,
         NEW n \in 0 .. SizeMax - 1, n <= SizeT(w - r)
  PROVE  /\ SizeT(r + n) \in 0 .. SizeMax - 1
         /\ SizeT(w - SizeT(r + n)) = SizeT(w - r) - n
<1>1. SizeT(w - r) = IF r <= w THEN w - r ELSE w - r + SizeMax
  BY Distance
<1>2. CASE r + n < SizeMax
  <2>1. SizeT(r + n) = r + n /\ r + n \in 0 .. SizeMax - 1
    BY <1>2, NoWrap
  <2>2. SizeT(w - (r + n)) = IF r + n <= w THEN w - (r + n) ELSE w - (r + n) + SizeMax
    BY <2>1, Distance
  <2>3. QED
    BY <1>1, <2>1, <2>2
<1>3. CASE ~(r + n < SizeMax)
  <2>1. r + n - SizeMax \in 0 .. SizeMax - 1 /\ (r + n - SizeMax) + SizeMax = r + n
    BY <1>3
  <2>2. SizeT(r + n) = r + n - SizeMax
    BY <2>1, WrapAbove
  <2>3. SizeT(w - (r + n - SizeMax)) =
          IF r + n - SizeMax <= w THEN w - (r + n - SizeMax) ELSE w - (r + n - SizeMax) + SizeMax
    BY <2>1, Distance
  <2>4. QED
    BY <1>1, <1>3, <2>1, <2>2, <2>3
<1>4. QED
  BY <1>2, <1>3

\* Moving it back by one, as the result -1 does, leaves one more.
LEMMA MovedBack ==
  ASSUME NEW r \in 0 .. SizeMax - 1, NEW w \in 0 .. SizeMax - 1, SizeT(w - r) < SizeMax - 1
  PROVE  /\ SizeT(r + SizeT(-1)) \in 0 .. SizeMax - 1
         /\ SizeT(w - SizeT(r + SizeT(-1))) = SizeT(w - r) + 1
<1>1. SizeT(-1) = SizeMax - 1
  <2>1. SizeMax - 1 \in 0 .. SizeMax - 1 /\ (SizeMax - 1) - SizeMax = -1
    OBVIOUS
  <2>2. SizeT((SizeMax - 1) - SizeMax) = SizeMax - 1
    BY <2>1, WrapBelow
  <2>3. QED
    BY <2>1, <2>2
<1>2. SizeT(w - r) = IF r <= w THEN w - r ELSE w - r + SizeMax
  BY Distance
<1>3. CASE r = 0
  <2>1. SizeMax - 1 \in 0 .. SizeMax - 1 /\ r + (SizeMax - 1) = SizeMax - 1
    BY <1>3
  <2>2. SizeT(r + SizeT(-1)) = SizeMax - 1
    BY <1>1, <2>1, NoWrap
  <2>3. SizeT(w - (SizeMax - 1)) =
          IF SizeMax - 1 <= w THEN w - (SizeMax - 1) ELSE w - (SizeMax - 1) + SizeMax
    BY <2>1, Distance
  <2>4. QED
    BY <1>2, <1>3, <2>1, <2>2, <2>3
<1>4. CASE r > 0
  <2>1. r - 1 \in 0 .. SizeMax - 1 /\ r + (SizeMax - 1) = (r - 1) + SizeMax
    BY <1>4
  <2>2. SizeT(r + SizeT(-1)) = r - 1
    BY <1>1, <2>1, WrapAbove
  <2>3. SizeT(w - (r - 1)) = IF r - 1 <= w THEN w - (r - 1) ELSE w - (r - 1) + SizeMax
    BY <2>1, Distance
  <2>4. QED
    BY <1>2, <1>4, <2>1, <2>2, <2>3
<1>5. QED
  BY <1>3, <1>4

\* Where there is nothing to read, or the index did not wrap, the indexes are
\* in order; in order, they are wide.
LEMMA OrderedIsWide ==
  ASSUME NEW limit, Small(limit), NEW b, Ordered(b, limit), NEW back \in Nat
  PROVE  Wide(b, limit, back)
<1>1. /\ b.m_size \in Nat /\ b.m_write_index \in Nat /\ b.m_read_index \in Nat
      /\ b.m_read_index <= b.m_write_index /\ b.m_write_index <= b.m_size
      /\ b.m_size <= limit
  BY Indexes
<1>2. ReadableBytes(b) = b.m_write_index - b.m_read_index
  BY Counts
<1>3. b.m_read_index \in 0 .. SizeMax - 1 /\ ReadableBytes(b) \in 0 .. b.m_write_index + back
  BY <1>1, <1>2 DEF Small
<1>4. QED
  BY <1>3 DEF Wide, Ordered

LEMMA WiderWide ==
  ASSUME NEW l1 \in Nat, NEW l2 \in Nat, l1 <= l2, NEW b1 \in Nat, NEW b2 \in Nat, b1 <= b2,
         NEW b, Wide(b, l1, b1)
  PROVE  Wide(b, l2, b2)
<1>1. b.m_size \in 0 .. l2 /\ b.m_write_index \in Nat
  BY DEF Wide
<1>2. ReadableBytes(b) \in 0 .. b.m_write_index + b2
  BY <1>1 DEF Wide
<1>3. QED
  BY <1>1, <1>2 DEF Wide

\* Reading takes its bytes off the count, wherever the read index is.
LEMMA WideRead ==
  ASSUME NEW limit \in Nat, NEW back \in Nat, Narrow(limit + back), NEW b, Wide(b, limit, back),
         NEW n \in 0 .. ReadableBytes(b)
  PROVE  /\ Wide(IncreaseReadIndex(b, SizeT(n)), limit, back)
         /\ ReadableBytes(IncreaseReadIndex(b, SizeT(n))) = ReadableBytes(b) - n
         /\ IncreaseReadIndex(b, SizeT(n)).m_buffer = b.m_buffer
         /\ IncreaseReadIndex(b, SizeT(n)).m_size = b.m_size
<1> DEFINE r == b.m_read_index
           w == b.m_write_index
           after == IncreaseReadIndex(b, SizeT(n))
<1>1. /\ r \in 0 .. SizeMax - 1 /\ w \in 0 .. SizeMax - 1
      /\ n \in 0 .. SizeMax - 1 /\ n <= ReadableBytes(b)
      /\ ReadableBytes(b) \in Nat /\ ReadableBytes(b) <= w + back
  BY WideNumbers
<1>2. /\ SizeT(r + n) \in 0 .. SizeMax - 1
      /\ SizeT(w - SizeT(r + n)) = SizeT(w - r) - n
  BY <1>1, MovedOn DEF ReadableBytes
<1>3. SizeT(n) = n
  BY <1>1, NoWrap
<1>4. after = [m_buffer |-> b.m_buffer, m_size |-> b.m_size,
               m_read_index |-> SizeT(r + n), m_write_index |-> w]
  BY <1>3 DEF IncreaseReadIndex, Wide
<1>5. ReadableBytes(after) = ReadableBytes(b) - n
  BY <1>2, <1>4 DEF ReadableBytes
<1>6. ReadableBytes(after) \in 0 .. w + back
  BY <1>1, <1>5
<1>7. Wide(after, limit, back)
  BY <1>2, <1>4, <1>6 DEF Wide
<1>8. QED
  BY <1>4, <1>5, <1>7

\* A failure makes one byte more readable, and may take the read index one
\* byte further back.
LEMMA WideFailure ==
  ASSUME NEW limit \in Nat, NEW back \in Nat, Narrow(limit + back), NEW b, Wide(b, limit, back)
  PROVE  /\ Wide(IncreaseReadIndex(b, SizeT(-1)), limit, back + 1)
         /\ ReadableBytes(IncreaseReadIndex(b, SizeT(-1))) = ReadableBytes(b) + 1
         /\ IncreaseReadIndex(b, SizeT(-1)).m_buffer = b.m_buffer
         /\ IncreaseReadIndex(b, SizeT(-1)).m_size = b.m_size
<1> DEFINE r == b.m_read_index
           w == b.m_write_index
           after == IncreaseReadIndex(b, SizeT(-1))
<1>1. /\ r \in 0 .. SizeMax - 1 /\ w \in 0 .. SizeMax - 1
      /\ ReadableBytes(b) \in Nat /\ ReadableBytes(b) <= w + back
      /\ ReadableBytes(b) < SizeMax - 1
  BY WideNumbers
<1>2. /\ SizeT(r + SizeT(-1)) \in 0 .. SizeMax - 1
      /\ SizeT(w - SizeT(r + SizeT(-1))) = SizeT(w - r) + 1
  BY <1>1, MovedBack DEF ReadableBytes
<1>3. after = [m_buffer |-> b.m_buffer, m_size |-> b.m_size,
               m_read_index |-> SizeT(r + SizeT(-1)), m_write_index |-> w]
  BY DEF IncreaseReadIndex, Wide
<1>4. ReadableBytes(after) = ReadableBytes(b) + 1
  BY <1>2, <1>3 DEF ReadableBytes
<1>5. ReadableBytes(after) \in 0 .. w + (back + 1)
  BY <1>1, <1>4
<1>6. Wide(after, limit, back + 1)
  BY <1>2, <1>3, <1>5 DEF Wide
<1>7. QED
  BY <1>3, <1>4, <1>6

\* A buffer with nothing to read has its indexes in order.
LEMMA EmptyIsOrdered ==
  ASSUME NEW limit \in Nat, NEW back \in Nat, Narrow(limit + back), NEW b, Wide(b, limit, back),
         NEW S, Holds(b, S), ReadableBytes(b) = 0
  PROVE  Ordered(b, limit)
<1> DEFINE r == b.m_read_index
           w == b.m_write_index
<1>1. r \in 0 .. SizeMax - 1 /\ w \in 0 .. SizeMax - 1
  BY WideNumbers
<1>2. SizeT(w - r) = IF r <= w THEN w - r ELSE w - r + SizeMax
  BY <1>1, Distance
<1>3. r = w
  BY <1>1, <1>2 DEF ReadableBytes
<1>4. DOMAIN b.m_buffer = 0 .. b.m_size - 1
  BY DEF Holds
<1>5. QED
  BY <1>1, <1>3, <1>4 DEF Wide, Ordered

\* ensure_writeable_bytes makes room unless append then runs over the array,
\* brings an index from before the array into it, and keeps the count.
LEMMA WideEnsure ==
  ASSUME NEW limit \in Nat, NEW back \in Nat, NEW size \in Nat, Narrow(limit + size + back),
         NEW b, Wide(b, limit, back), ~Overruns(b, size),
         NEW S, Holds(b, S), Garbage \in S
  PROVE  LET roomy == EnsureWriteableBytes(b, size) IN
         /\ Wide(roomy, limit + size, back)
         /\ ReadableBytes(roomy) = ReadableBytes(b)
         /\ roomy.m_write_index + size <= roomy.m_size
         /\ Holds(roomy, S)
<1> DEFINE roomy == EnsureWriteableBytes(b, size)
           n == ReadableBytes(b)
           w == b.m_write_index
<1>1. Narrow(limit + back) /\ limit + size \in Nat
  BY DEF Narrow
<1>2. /\ b.m_size \in Nat /\ w \in Nat /\ w <= b.m_size /\ b.m_size <= limit
      /\ n \in Nat /\ n <= w + back /\ n < SizeMax
      /\ SizeMax \in Nat
  BY <1>1, WideNumbers
<1>3. roomy.m_write_index + size > roomy.m_size => FALSE
  BY DEF Overruns
<1>4. CASE HasRoom(b, size)
  <2>1. roomy = b
    BY <1>4 DEF EnsureWriteableBytes
  <2>2. b.m_write_index + size <= b.m_size
    BY <1>2, <1>3, <2>1
  <2>3. b.m_size \in 0 .. limit + size
    BY <1>2
  <2>4. QED
    BY <2>1, <2>2, <2>3 DEF Wide
<1>5. CASE ~HasRoom(b, size)
  <2>1. /\ roomy = [m_buffer |-> roomy.m_buffer, m_size |-> roomy.m_size,
                    m_read_index |-> roomy.m_read_index,
                    m_write_index |-> roomy.m_write_index]
        /\ roomy.m_read_index = 0 /\ roomy.m_write_index = n
        /\ MustGrow(b, size) => roomy.m_size = w + size /\ roomy.m_buffer = Grown(b, size)
        /\ ~MustGrow(b, size) => roomy.m_size = b.m_size /\ roomy.m_buffer = b.m_buffer
    BY <1>5 DEF EnsureWriteableBytes
  <2>2. Holds(roomy, S)
    BY <1>2, EnsureHolds
  <2> HIDE DEF roomy
  <2>3. /\ roomy.m_size \in Nat /\ roomy.m_size <= limit + size
        /\ n + size <= roomy.m_size
    BY <1>2, <1>3, <2>1
  <2>4. ReadableBytes(roomy) = n
    <3>1. n - 0 = n /\ n \in 0 .. SizeMax - 1
      BY <1>2
    <3>2. SizeT(n) = n
      BY <3>1, NoWrap
    <3>3. QED
      BY <2>1, <3>1, <3>2 DEF ReadableBytes
  <2>5. Wide(roomy, limit + size, back)
    BY <1>2, <2>1, <2>3, <2>4 DEF Wide
  <2>6. QED
    BY <2>1, <2>2, <2>3, <2>4, <2>5 DEF roomy
<1>6. QED
  BY <1>4, <1>5

\* append adds its bytes to the count, unless it runs over the array.
LEMMA WideAppend ==
  ASSUME NEW limit \in Nat, NEW back \in Nat, NEW S, NEW data \in Seq(S),
         Narrow(limit + Len(data) + back),
         NEW b, Wide(b, limit, back), ~Overruns(b, Len(data)), Holds(b, S), Garbage \in S
  PROVE  /\ Wide(AppendTo(b, data), limit + Len(data), back)
         /\ ReadableBytes(AppendTo(b, data)) = ReadableBytes(b) + Len(data)
         /\ Holds(AppendTo(b, data), S)
<1> DEFINE n == Len(data)
           roomy == EnsureWriteableBytes(b, n)
           copied == CopyIn(roomy, data)
           after == IncreaseWriteIndex(copied, n)
<1>1. n \in Nat /\ limit + n \in Nat
  OBVIOUS
<1>2. /\ Wide(roomy, limit + n, back)
      /\ ReadableBytes(roomy) = ReadableBytes(b)
      /\ roomy.m_write_index + n <= roomy.m_size
      /\ Holds(roomy, S)
  BY <1>1, WideEnsure
<1>3. AppendTo(b, data) = after
  BY DEF AppendTo
<1> HIDE DEF roomy
<1>4. /\ copied = [m_buffer |-> copied.m_buffer, m_size |-> roomy.m_size,
                   m_read_index |-> roomy.m_read_index, m_write_index |-> roomy.m_write_index]
      /\ copied.m_buffer \in [0 .. roomy.m_size - 1 -> S]
  <2>1. IsBuffer(roomy)
    BY <1>2 DEF Wide, IsBuffer
  <2>2. roomy.m_write_index \in Nat
    BY <1>1, <1>2, WideNumbers
  <2>3. QED
    BY <1>2, <2>1, <2>2, CopyHolds DEF Holds
<1> HIDE DEF copied
<1>5. /\ roomy.m_size \in Nat /\ roomy.m_write_index \in Nat /\ roomy.m_read_index \in Nat
      /\ roomy.m_read_index < SizeMax
      /\ roomy.m_size <= limit + n /\ SizeMax \in Nat /\ limit + n + back + 1 < SizeMax
      /\ ReadableBytes(roomy) \in Nat /\ ReadableBytes(roomy) <= roomy.m_write_index + back
  BY <1>1, <1>2, WideNumbers
<1>6. SizeT(roomy.m_write_index + n) = roomy.m_write_index + n
  BY <1>1, <1>2, <1>5, NoWrap
<1>7. after = [m_buffer |-> copied.m_buffer, m_size |-> roomy.m_size,
               m_read_index |-> roomy.m_read_index,
               m_write_index |-> roomy.m_write_index + n]
  BY <1>4, <1>6 DEF IncreaseWriteIndex
<1>8. ReadableBytes(after) = ReadableBytes(roomy) + n
  <2> DEFINE r == roomy.m_read_index
             w == roomy.m_write_index
  <2>1. r \in 0 .. SizeMax - 1 /\ w \in 0 .. SizeMax - 1 /\ w + n \in 0 .. SizeMax - 1
    <3>1. r \in Nat /\ w \in Nat /\ n \in Nat /\ roomy.m_size \in Nat /\ r < SizeMax
          /\ SizeMax \in Nat /\ roomy.m_size <= limit + n /\ w + n <= roomy.m_size
          /\ limit + n + back + 1 < SizeMax
      BY <1>1, <1>2, <1>5
    <3> HIDE DEF n, r, w
    <3>2. QED
      BY ONLY <3>1, limit \in Nat, back \in Nat
  <2>2. SizeT(w - r) = IF r <= w THEN w - r ELSE w - r + SizeMax
    BY <2>1, Distance
  <2>3. SizeT((w + n) - r) = IF r <= w + n THEN (w + n) - r ELSE (w + n) - r + SizeMax
    BY <2>1, Distance
  <2>4. SizeT(w - r) <= w + back /\ SizeT(w - r) \in Nat
    BY <1>5 DEF ReadableBytes
  <2>5. SizeT((w + n) - r) = SizeT(w - r) + n
    <3>1. CASE r <= w
      BY <1>1, <2>1, <2>2, <2>3, <3>1
    <3>2. CASE ~(r <= w)
      <4>1. w - r + SizeMax <= w + back
        BY <2>2, <2>4, <3>2
      <4>2. SizeMax <= r + back
        BY <1>5, <2>1, <4>1
      <4>3. ~(r <= w + n)
        BY <1>1, <1>2, <1>5, <2>1, <4>2
      <4>4. QED
        BY <1>1, <2>1, <2>2, <2>3, <3>2, <4>3
    <3>3. QED
      BY <3>1, <3>2
  <2>6. QED
    BY <1>7, <2>5 DEF ReadableBytes
<1>9. Wide(after, limit + n, back) /\ Holds(after, S)
  <2>1. /\ after.m_size = roomy.m_size /\ after.m_read_index = roomy.m_read_index
        /\ after.m_write_index = roomy.m_write_index + n /\ after.m_buffer = copied.m_buffer
        /\ after = [m_buffer |-> after.m_buffer, m_size |-> after.m_size,
                    m_read_index |-> after.m_read_index, m_write_index |-> after.m_write_index]
    BY <1>7
  <2> HIDE DEF after
  <2>2. Holds(after, S)
    BY <1>4, <2>1 DEF Holds
  <2>3. ReadableBytes(after) \in 0 .. after.m_write_index + back
    <3> DEFINE q == ReadableBytes(roomy)
               w == roomy.m_write_index
    <3>1. q \in Nat /\ w \in Nat /\ n \in Nat /\ q <= w + back
      BY <1>1, <1>5
    <3> HIDE DEF q, w, n
    <3>2. q + n \in 0 .. (w + n) + back
      BY <3>1
    <3>3. QED
      BY <1>8, <2>1, <3>2 DEF q, w
  <2>4. after.m_size \in 0 .. limit + n /\ after.m_write_index \in 0 .. after.m_size
        /\ after.m_read_index \in 0 .. SizeMax - 1
    <3>1. roomy.m_size \in 0 .. limit + n /\ roomy.m_read_index \in 0 .. SizeMax - 1
      BY <1>2 DEF Wide
    <3>2. roomy.m_write_index + n \in 0 .. roomy.m_size
      BY <1>1, <1>2, <1>5
    <3>3. QED
      BY <2>1, <3>1, <3>2
  <2>5. QED
    BY <2>1, <2>2, <2>3, <2>4 DEF Wide
<1>10. QED
  BY <1>2, <1>3, <1>8, <1>9
=============================================================================
