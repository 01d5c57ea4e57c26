--------------------------- MODULE SendPathProofs ---------------------------
(***************************************************************************)
(* Theorems about SendPath, for any sizes: what connection::send does with *)
(* the bytes until the first ::write that fails.                           *)
(***************************************************************************)
EXTENDS SendPath, BufferProofs

USE BufferAssumption, SendPathAssumption DEF BufferAssumption, SendPathAssumption

-----------------------------------------------------------------------------

\* The bytes of a write move from the buffer to those that were taken.
LEMMA WriteMoves ==
  ASSUME NEW w, NEW b, NEW total, NEW limit, Small(limit), Together(w, b, total, limit),
         NEW ret \in 1 .. ReadableBytes(b)
  PROVE  /\ Together(w \o Written(b, ret), AfterWrite(b, ret), total, limit)
         /\ Len(w \o Written(b, ret)) = Len(w) + ret
         /\ InOrder(w, b) => InOrder(w \o Written(b, ret), AfterWrite(b, ret))
<1>1. ret \in 0 .. SizeMax - 1 /\ ret \in 0 .. ReadableBytes(b)
  <2>1. ReadableBytes(b) \in 0 .. limit
    BY CountBounded DEF Together
  <2>2. QED
    BY <2>1 DEF Small
<1>2. AfterWrite(b, ret) = IncreaseReadIndex(b, ret)
  BY <1>1, NoWrap DEF AfterWrite
<1>3. QED
  BY <1>1, <1>2, TakeMoves DEF Written

-----------------------------------------------------------------------------
(* The inductive invariant: until a write fails, the indexes of            *)
(* m_send_buffer are in order, and the bytes on the wire and in the buffer *)
(* are as many as were sent; until an append slips as well, they are the   *)
(* bytes that were sent.                                                   *)

Sane ==
  /\ Together(wire, m_send_buffer, sent, InitSize + sent)
  /\ process \notin {"no room", "overrun"}
  /\ ~slipped => InOrder(wire, m_send_buffer)

SendInv ==
  /\ sent \in 0 .. MaxSent
  /\ errors \in Nat
  /\ errors = 0 => Sane

LEMMA SmallEnough ==
  ASSUME NEW limit \in 0 .. InitSize + MaxSent
  PROVE  Small(limit)
  BY DEF Small

LEMMA LimitsAreSmall ==
  ASSUME NEW count \in 0 .. MaxSent
  PROVE  Small(InitSize + count)
<1>1. InitSize + count \in 0 .. InitSize + MaxSent
  OBVIOUS
<1>2. QED
  BY <1>1, SmallEnough

LEMMA SendInvInit == Init => SendInv
<1> SUFFICES ASSUME Init PROVE SendInv
  OBVIOUS
<1>1. Ordered(m_send_buffer, InitSize + sent)
  BY DEF Init, NewBuffer, Ordered
<1>2. ReadableBytes(m_send_buffer) = 0
  <2>1. m_send_buffer.m_write_index = 0 /\ m_send_buffer.m_read_index = 0
    BY DEF Init, NewBuffer
  <2>2. SizeT(0) = 0
    BY NoWrap
  <2>3. QED
    BY <2>1, <2>2 DEF ReadableBytes
<1>3. Len(wire) = 0 /\ IsSeq(wire)
  BY DEF Init, IsSeq
<1>4. Sane
  <2>1. InOrder(wire, m_send_buffer)
    BY <1>2, <1>3 DEF InOrder
  <2>2. Len(wire) + ReadableBytes(m_send_buffer) = sent
    BY <1>2, <1>3 DEF Init
  <2>3. QED
    BY <1>1, <1>3, <2>1, <2>2 DEF Init, Sane, Together
<1>5. QED
  BY <1>4 DEF Init, SendInv

\* A response holds the next n bytes of its handler's stream.
LEMMA Responses ==
  ASSUME sent \in 0 .. MaxSent, NEW n \in Nat, sent + n <= MaxSent
  PROVE  /\ Small(n)
         /\ Ordered(Response(n), n)
         /\ ReadableBytes(Response(n)) = n
         /\ IsSeq(Readable(Response(n)))
         /\ Len(Readable(Response(n))) = n
         /\ \A i \in 1 .. n : Readable(Response(n))[i] = sent + i
<1> DEFINE data == [i \in 1 .. n |-> sent + i]
<1>1. Len(data) = n /\ \A i \in 1 .. n : data[i] = sent + i
  OBVIOUS
<1> HIDE DEF data
<1>2. Small(n)
  BY SmallEnough
<1>3. /\ Ordered(BufferOf(data), n)
      /\ ReadableBytes(BufferOf(data)) = n
      /\ \A i \in 1 .. n : Readable(BufferOf(data))[i] = data[i]
  BY <1>1, <1>2, BufferOfData
<1>4. Response(n) = BufferOf(data)
  BY DEF Response, data
<1>5. QED
  BY <1>1, <1>2, <1>3, <1>4, ReadableIsSeq

-----------------------------------------------------------------------------
(* The steps, taken while no write has failed, by sends of n bytes.        *)

\* A send with nothing pending.
LEMMA DirectStep ==
  ASSUME SendInv, errors = 0, NEW n \in Nat, sent + n <= MaxSent, SendDirect(n), errors' = 0
  PROVE  Sane' /\ Len(wire) < Len(wire')
<1>1. /\ sent \in Nat /\ sent \in 0 .. MaxSent
      /\ ReadableBytes(m_send_buffer) = 0
      /\ n > 0 /\ sent' = sent + n
      /\ InitSize + sent \in Nat
  BY DEF SendInv, SendDirect
<1>2. /\ Ordered(m_send_buffer, InitSize + sent)
      /\ IsSeq(wire) /\ Len(wire) \in Nat
      /\ Len(wire) = sent
  <2>1. Together(wire, m_send_buffer, sent, InitSize + sent)
    BY DEF SendInv, Sane
  <2>2. QED
    BY <1>1, <2>1 DEF Together
<1>3. ~slipped' => InOrder(wire, m_send_buffer)
  BY DEF SendInv, Sane, SendDirect
<1>4. process' \notin {"no room", "overrun"}
  BY DEF SendInv, Sane, SendDirect
<1>5. PICK ret \in Results(Response(n)) :
        /\ wire' = wire \o Written(Response(n), ret)
        /\ m_send_buffer' = Kept(AfterWrite(Response(n), ret))
        /\ errors' = IF ret = -1 THEN errors + 1 ELSE errors
  BY DEF SendDirect
<1>6. /\ Small(n)
      /\ Ordered(Response(n), n)
      /\ ReadableBytes(Response(n)) = n
      /\ \A i \in 1 .. n : Readable(Response(n))[i] = sent + i
  BY <1>1, Responses
<1>7. ret \in 1 .. n /\ ret \in Nat /\ ret <= n
  BY <1>5, <1>6 DEF Results
<1> DEFINE rest == AfterWrite(Response(n), ret)
<1>8. Together(wire, Response(n), sent + n, n)
  BY <1>2, <1>6 DEF Together
<1>9. /\ Together(wire', rest, sent + n, n)
      /\ Len(wire') = sent + ret
      /\ InOrder(wire, Response(n)) => InOrder(wire', rest)
  <2>1. ret \in 1 .. ReadableBytes(Response(n))
    BY <1>6, <1>7
  <2>2. QED
    BY <1>2, <1>5, <1>6, <1>8, <2>1, WriteMoves
<1>10. m_send_buffer' = Kept(rest)
  BY <1>5
<1> HIDE DEF rest
<1>11. Ordered(rest, n) /\ IsSeq(wire') /\ Len(wire') \in Nat /\ ReadableBytes(rest) = n - ret
  <2>1. ReadableBytes(rest) \in Nat
    <3>1. Ordered(rest, n)
      BY <1>9 DEF Together
    <3>2. ReadableBytes(rest) \in 0 .. n
      BY <1>6, <3>1, CountBounded
    <3>3. QED
      BY <3>2
  <2>2. QED
    BY <1>1, <1>7, <1>9, <2>1 DEF Together
<1>12. IsSeq(Readable(rest)) /\ Len(Readable(rest)) = n - ret
  BY <1>6, <1>11, ReadableIsSeq
<1>13. Together(wire', m_send_buffer, sent + ret, InitSize + sent)
  BY <1>1, <1>2, <1>9, <1>11 DEF Together
<1>14. ASSUME ~slipped'
       PROVE  InOrder(wire', rest) /\ InOrder(wire', m_send_buffer)
  <2>1. InOrder(wire, Response(n))
    <3>1. \A i \in 1 .. Len(wire) : wire[i] = i
      BY <1>3, <1>14 DEF InOrder
    <3>2. QED
      BY <1>2, <1>6, <3>1 DEF InOrder
  <2>2. InOrder(wire', rest)
    BY <1>9, <2>1
  <2>3. InOrder(wire', m_send_buffer)
    BY <1>1, <2>2 DEF InOrder
  <2>4. QED
    BY <2>2, <2>3
<1>15. CASE n - ret > 0
  <2> DEFINE data == Readable(rest)
  <2>1. m_send_buffer' = AppendTo(m_send_buffer, data)
    BY <1>10, <1>11, <1>15 DEF Kept
  <2>2. ~Slips(m_send_buffer, Len(data))
    <3>1. ~(ReadableBytes(m_send_buffer) > 0)
      BY <1>1
    <3>2. QED
      BY <3>1 DEF Slips
  <2>3. IsSeq(data) /\ Len(data) = n - ret /\ n - ret \in Nat
    BY <1>7, <1>12
  <2>4. ASSUME ~slipped' PROVE \A i \in 1 .. Len(data) : data[i] = (sent + ret) + i
    BY <1>9, <1>11, <1>14, <2>3, <2>4 DEF InOrder
  <2> HIDE DEF data
  <2>5. /\ Small((InitSize + sent) + Len(data))
        /\ sent + ret \in Nat
        /\ (sent + ret) + Len(data) = sent'
        /\ (InitSize + sent) + Len(data) \in Nat
        /\ (InitSize + sent) + Len(data) <= InitSize + sent'
        /\ InitSize + sent' \in Nat
    <3>1. (InitSize + sent) + Len(data) \in 0 .. InitSize + MaxSent
      BY <1>1, <1>7, <2>3
    <3>2. Small((InitSize + sent) + Len(data))
      BY <3>1, SmallEnough
    <3>3. QED
      BY <1>1, <1>7, <2>3, <3>1, <3>2
  <2>6. /\ Together(wire', m_send_buffer', (sent + ret) + Len(data), (InitSize + sent) + Len(data))
        /\ (InOrder(wire', m_send_buffer) /\ \A i \in 1 .. Len(data) : data[i] = (sent + ret) + i)
             => InOrder(wire', m_send_buffer')
    BY <1>1, <1>13, <2>1, <2>2, <2>3, <2>5, AppendExtends
  <2>7. Ordered(m_send_buffer', (InitSize + sent) + Len(data))
    BY <2>6 DEF Together
  <2>8. Ordered(m_send_buffer', InitSize + sent')
    BY <2>5, <2>7, WiderLimit
  <2>9. Together(wire', m_send_buffer', sent', InitSize + sent')
    BY <2>5, <2>6, <2>8 DEF Together
  <2>10. ~slipped' => InOrder(wire', m_send_buffer')
    BY <1>14, <2>4, <2>6
  <2>11. Sane'
    BY <1>4, <2>9, <2>10 DEF Sane
  <2>12. QED
    BY <1>1, <1>2, <1>7, <1>9, <2>11
<1>16. CASE n - ret <= 0
  <2>1. n = ret /\ m_send_buffer' = m_send_buffer
    <3>1. ~(ReadableBytes(rest) > 0)
      BY <1>7, <1>11, <1>16
    <3>2. QED
      BY <1>7, <1>10, <1>16, <3>1 DEF Kept
  <2>2. Ordered(m_send_buffer', InitSize + sent')
    <3>1. InitSize + sent <= InitSize + sent' /\ InitSize + sent' \in Nat
      BY <1>1
    <3>2. QED
      BY <1>1, <1>2, <2>1, <3>1, WiderLimit
  <2>3. Together(wire', m_send_buffer', sent', InitSize + sent')
    <3>1. Len(wire') + ReadableBytes(m_send_buffer') = sent'
      BY <1>1, <1>9, <2>1
    <3>2. QED
      BY <1>11, <2>2, <3>1 DEF Together
  <2>4. ~slipped' => InOrder(wire', m_send_buffer')
    BY <1>14, <2>1
  <2>5. Sane'
    BY <1>4, <2>3, <2>4 DEF Sane
  <2>6. QED
    BY <1>1, <1>2, <1>7, <1>9, <2>5
<1>17. QED
  BY <1>7, <1>15, <1>16

\* A send with bytes pending.
LEMMA QueuedStep ==
  ASSUME SendInv, errors = 0, NEW n \in Nat, sent + n <= MaxSent, SendQueued(n), errors' = 0
  PROVE  Sane' /\ Len(wire) < Len(wire')
<1> DEFINE data == Readable(Response(n))
           whole == Queued(n)
<1>1. /\ sent \in Nat /\ sent \in 0 .. MaxSent
      /\ sent' = sent + n
      /\ InitSize + sent \in Nat
      /\ slipped' = (slipped \/ Slips(m_send_buffer, n))
  BY DEF SendInv, SendQueued
<1>2. Together(wire, m_send_buffer, sent, InitSize + sent)
  BY DEF SendInv, Sane
<1>3. ~slipped => InOrder(wire, m_send_buffer)
  BY DEF SendInv, Sane
<1>4. process' \notin {"no room", "overrun"}
  BY DEF SendInv, Sane, SendQueued
<1>5. PICK ret \in Results(whole) :
        /\ wire' = wire \o Written(whole, ret)
        /\ m_send_buffer' = AfterWrite(whole, ret)
        /\ errors' = IF ret = -1 THEN errors + 1 ELSE errors
  BY DEF SendQueued
<1>6. IsSeq(data) /\ Len(data) = n /\ \A i \in 1 .. n : data[i] = sent + i
  BY <1>1, Responses
<1>7. whole = AppendTo(m_send_buffer, data)
  BY DEF Queued
<1> HIDE DEF data, whole
<1>8. Small((InitSize + sent) + Len(data))
  <2>1. (InitSize + sent) + Len(data) \in 0 .. InitSize + MaxSent
    BY <1>1, <1>6
  <2>2. QED
    BY <2>1, SmallEnough
<1>9. (InitSize + sent) + Len(data) = InitSize + sent' /\ sent + Len(data) = sent'
  BY <1>1, <1>6
<1>10. /\ Together(wire, whole, sent', InitSize + sent')
       /\ (InOrder(wire, m_send_buffer) /\ ~Slips(m_send_buffer, Len(data))
             /\ \A i \in 1 .. Len(data) : data[i] = sent + i) => InOrder(wire, whole)
  <2>1. /\ Together(wire, AppendTo(m_send_buffer, data), sent + Len(data),
                    (InitSize + sent) + Len(data))
        /\ (InOrder(wire, m_send_buffer) /\ ~Slips(m_send_buffer, Len(data))
              /\ \A i \in 1 .. Len(data) : data[i] = sent + i)
             => InOrder(wire, AppendTo(m_send_buffer, data))
    BY <1>1, <1>2, <1>6, <1>8, AppendExtends
  <2>2. QED
    BY <1>7, <1>9, <2>1
<1>11. ret \in 1 .. ReadableBytes(whole)
  <2>1. ret # -1
    BY <1>5 DEF SendInv
  <2>2. QED
    BY <1>5, <2>1 DEF Results
<1>12. /\ Together(wire', m_send_buffer', sent', InitSize + sent')
       /\ Len(wire') = Len(wire) + ret
       /\ InOrder(wire, whole) => InOrder(wire', m_send_buffer')
  <2>1. Small(InitSize + sent')
    BY <1>8, <1>9
  <2>2. QED
    BY <1>5, <1>10, <1>11, <2>1, WriteMoves
<1>13. ~slipped' => InOrder(wire', m_send_buffer')
  BY <1>1, <1>3, <1>6, <1>10, <1>12
<1>14. Sane'
  BY <1>4, <1>12, <1>13 DEF Sane
<1>15. Len(wire) \in Nat /\ ReadableBytes(whole) \in Nat
  <2>1. Ordered(whole, InitSize + sent') /\ Small(InitSize + sent')
    BY <1>8, <1>9, <1>10 DEF Together
  <2>2. ReadableBytes(whole) \in 0 .. InitSize + sent'
    BY <2>1, CountBounded
  <2>3. QED
    BY <1>10, <2>2 DEF Together
<1>16. Len(wire) < Len(wire')
  BY <1>11, <1>12, <1>15
<1>17. QED
  BY <1>14, <1>16

\* Until a write fails there is room for every response.
LEMMA NothingBreaks ==
  ASSUME SendInv, errors = 0, NEW n \in Nat, sent + n <= MaxSent
  PROVE  ~SendBreaks(n)
<1>1. /\ sent \in Nat /\ sent \in 0 .. MaxSent
      /\ InitSize + sent \in Nat
  BY DEF SendInv
<1>2. Ordered(m_send_buffer, InitSize + sent)
  BY DEF SendInv, Sane, Together
<1> DEFINE data == [i \in 1 .. n |-> i]
<1>3. Len(data) = n
  OBVIOUS
<1> HIDE DEF data
<1>4. Small((InitSize + sent) + Len(data))
  <2>1. (InitSize + sent) + Len(data) \in 0 .. InitSize + MaxSent
    BY <1>1, <1>3
  <2>2. QED
    BY <2>1, SmallEnough
<1>5. RoomAsserted(m_send_buffer, Len(data)) /\ ~Overruns(m_send_buffer, Len(data))
  BY <1>1, <1>2, <1>3, <1>4, AppendAdds
<1>6. QED
  BY <1>3, <1>5 DEF SendBreaks

\* The counters go up by one, and by the bytes of the response.
LEMMA SendCounts ==
  ASSUME NEW n, Send(n)
  PROVE  errors' \in {errors, errors + 1} /\ sent' \in {sent, sent + n}
<1>1. CASE SendDirect(n)
  BY <1>1 DEF SendDirect
<1>2. CASE SendQueued(n)
  BY <1>2 DEF SendQueued
<1>3. CASE SendBreaks(n) \/ SendNothing
  BY <1>3 DEF SendBreaks, SendNothing
<1>4. QED
  BY <1>1, <1>2, <1>3 DEF Send

\* A step that ends without failed writes keeps all that, and the bytes on
\* the wire.
LEMMA StepKeepsSane ==
  ASSUME SendInv, [Next]_vars, errors' = 0
  PROVE  errors = 0 /\ Sane' /\ Len(wire) <= Len(wire')
<1>1. CASE UNCHANGED vars
  <2>1. errors = 0 /\ Sane
    BY <1>1 DEF vars, SendInv
  <2>2. Sane' /\ wire' = wire
    BY <1>1, <2>1 DEF vars, Sane, Together, InOrder, Ordered
  <2>3. Len(wire) \in Nat
    BY <2>1 DEF Sane, Together
  <2>4. QED
    BY <2>1, <2>2, <2>3
<1>2. ASSUME NEW n \in Sizes, Send(n)
      PROVE  errors = 0 /\ Sane' /\ Len(wire) <= Len(wire')
  <2>1. n \in Nat /\ sent + n <= MaxSent
    BY <1>2 DEF Send
  <2>2. errors = 0
    <3>1. errors \in Nat /\ errors' \in {errors, errors + 1}
      BY <1>2, SendCounts DEF SendInv
    <3>2. QED
      BY <3>1
  <2>3. CASE SendDirect(n)
    <3>1. Sane' /\ Len(wire) < Len(wire')
      BY <2>1, <2>2, <2>3, <1>2, DirectStep
    <3>2. Len(wire) \in Nat /\ Len(wire') \in Nat
      BY <2>2, <3>1 DEF SendInv, Sane, Together
    <3>3. QED
      BY <2>2, <3>1, <3>2
  <2>4. CASE SendQueued(n)
    <3>1. Sane' /\ Len(wire) < Len(wire')
      BY <2>1, <2>2, <2>4, <1>2, QueuedStep
    <3>2. Len(wire) \in Nat /\ Len(wire') \in Nat
      BY <2>2, <3>1 DEF SendInv, Sane, Together
    <3>3. QED
      BY <2>2, <3>1, <3>2
  <2>5. CASE SendBreaks(n)
    BY <2>1, <2>2, <2>5, NothingBreaks
  <2>6. CASE SendNothing
    <3>1. Sane
      BY <2>2 DEF SendInv
    <3>2. /\ UNCHANGED <<m_send_buffer, sent, wire, slipped>>
          /\ process' = "write of nothing"
      BY <2>6 DEF SendNothing
    <3>3. Sane'
      BY <3>1, <3>2 DEF Sane
    <3>4. Len(wire) \in Nat /\ wire' = wire
      BY <3>1, <3>2 DEF Sane, Together
    <3>5. Len(wire) <= Len(wire')
      BY <3>4
    <3>6. QED
      BY <2>2, <3>3, <3>5
  <2>7. QED
    BY <1>2, <2>3, <2>4, <2>5, <2>6 DEF Send
<1>3. QED
  BY <1>1, <1>2 DEF Next

LEMMA SendInvStep == SendInv /\ [Next]_vars => SendInv'
<1> SUFFICES ASSUME SendInv, [Next]_vars PROVE SendInv'
  OBVIOUS
<1>1. sent' \in 0 .. MaxSent /\ errors' \in Nat
  <2>1. CASE UNCHANGED vars
    BY <2>1 DEF vars, SendInv
  <2>2. ASSUME NEW n \in Sizes, Send(n) PROVE sent' \in 0 .. MaxSent /\ errors' \in Nat
    <3>1. /\ errors \in Nat /\ errors' \in {errors, errors + 1}
          /\ sent \in 0 .. MaxSent /\ sent' \in {sent, sent + n}
          /\ sent + n <= MaxSent /\ n \in Nat
      BY <2>2, SendCounts DEF SendInv, Send
    <3>2. QED
      BY <3>1
  <2>3. QED
    BY <2>1, <2>2 DEF Next
<1>2. errors' = 0 => Sane'
  BY StepKeepsSane
<1>3. QED
  BY <1>1, <1>2 DEF SendInv

LEMMA SendInvariant == Spec => []SendInv
<1>1. QED
  BY SendInvInit, SendInvStep, PTL DEF Spec

-----------------------------------------------------------------------------
(* Theorems.                                                               *)

\* Neither the assertion of ensure_writeable_bytes nor the end of an array is
\* violated before a write fails (buffer.cpp:42-68).
THEOREM SafeUntilFailure == Spec => []MemorySafeUntilFailure
<1>1. SendInv => MemorySafeUntilFailure
  BY DEF SendInv, Sane, MemorySafeUntilFailure
<1>2. QED
  BY <1>1, SendInvariant, PTL

\* Without failed writes, the bytes on the wire and those pending are as many
\* as handlers sent, slips or not (connection.cpp:35-45).
THEOREM CountIsKept == Spec => []LengthKept
<1>1. SendInv => LengthKept
  BY DEF SendInv, Sane, Together, LengthKept
<1>2. QED
  BY <1>1, SendInvariant, PTL

\* Without failed writes and slips, they are the bytes that were sent, once
\* and in order (connection.cpp:35-45, tcp_socket.cpp:53-70).
THEOREM BytesAreKept == Spec => []NothingLost
<1>1. ASSUME SendInv, errors = 0, ~slipped
      PROVE  wire \o Readable(m_send_buffer) = Bytes(sent)
  <2>1. /\ Together(wire, m_send_buffer, sent, InitSize + sent)
        /\ InOrder(wire, m_send_buffer)
        /\ sent \in 0 .. MaxSent
    BY <1>1 DEF SendInv, Sane
  <2>2. Small(InitSize + sent) /\ sent \in Nat
    BY <2>1, LimitsAreSmall
  <2>3. QED
    BY <2>1, <2>2, WholeStream DEF Bytes
<1>2. SendInv => NothingLost
  BY <1>1 DEF NothingLost
<1>3. QED
  BY <1>2, SendInvariant, PTL

\* A slip is remembered.
LEMMA SlipsAreRemembered ==
  ASSUME [Next]_vars, slipped
  PROVE  slipped'
<1>1. CASE UNCHANGED vars
  BY <1>1 DEF vars
<1>2. ASSUME NEW n \in Sizes, Send(n) PROVE slipped'
  <2>1. CASE SendDirect(n)
    BY <2>1 DEF SendDirect
  <2>2. CASE SendQueued(n)
    BY <2>2 DEF SendQueued
  <2>3. CASE SendBreaks(n) \/ SendNothing
    BY <2>3 DEF SendBreaks, SendNothing
  <2>4. QED
    BY <1>2, <2>1, <2>2, <2>3 DEF Send
<1>3. QED
  BY <1>1, <1>2 DEF Next

\* The peer reads a prefix of what handlers sent until a write fails or an
\* append slips: send implements a byte stream (connection.cpp:35-45).
THEOREM SendIsAStream == Spec => StreamSpec
<1>1. Init => Stream!Init
  BY DEF Init, Stream!Init
<1>2. ASSUME SendInv, SendInv', [Next]_vars
      PROVE  [Stream!Next]_(Stream!vars)
  <2>1. CASE errors' > 0 \/ slipped'
    BY <2>1 DEF Stream!Next, Stream!Break
  <2>2. CASE ~(errors' > 0) /\ ~slipped'
    <3>1. errors' = 0
      BY <1>2, <2>2 DEF SendInv
    <3>2. errors = 0 /\ Sane' /\ Len(wire) <= Len(wire') /\ Sane
      BY <1>2, <3>1, StepKeepsSane DEF SendInv
    <3>3. ~slipped
      BY <1>2, <2>2, SlipsAreRemembered
    <3>4. /\ Len(wire) \in Nat /\ Len(wire') \in Nat
          /\ wire' = [i \in 1 .. Len(wire') |-> wire'[i]]
          /\ Len(wire') + ReadableBytes(m_send_buffer') = sent'
      BY <3>2 DEF Sane, Together, IsSeq
    <3>5. \A i \in 1 .. Len(wire') : wire'[i] = i
      BY <2>2, <3>2 DEF Sane, InOrder
    <3>6. wire' = [i \in 1 .. Len(wire') |-> i]
      BY <3>4, <3>5
    <3>7. sent \in Nat /\ sent' \in Nat /\ sent' >= sent
      <4>1. CASE UNCHANGED vars
        BY <1>2, <4>1 DEF vars, SendInv
      <4>2. ASSUME NEW n \in Sizes, Send(n) PROVE sent \in Nat /\ sent' \in Nat /\ sent' >= sent
        <5>1. sent \in 0 .. MaxSent /\ sent' \in {sent, sent + n} /\ n \in Nat
          BY <1>2, <4>2, SendCounts DEF SendInv
        <5>2. QED
          BY <5>1
      <4>3. QED
        BY <1>2, <4>1, <4>2 DEF Next
    <3>8. Len(wire') \in Len(wire) .. sent'
      <4>1. Ordered(m_send_buffer', InitSize + sent') /\ Small(InitSize + sent')
        <5>1. Ordered(m_send_buffer', InitSize + sent')
          BY <3>2 DEF Sane, Together
        <5>2. sent' \in 0 .. MaxSent
          BY <1>2 DEF SendInv
        <5>3. Small(InitSize + sent')
          BY <5>2, LimitsAreSmall
        <5>4. QED
          BY <5>1, <5>3
      <4>2. ReadableBytes(m_send_buffer') \in 0 .. InitSize + sent'
        BY <4>1, CountBounded
      <4>3. QED
        BY <3>2, <3>4, <3>7, <4>2
    <3>9. Stream!Flow
      BY <2>2, <3>1, <3>2, <3>3, <3>6, <3>7, <3>8 DEF Stream!Flow
    <3>10. QED
      BY <3>2, <3>3, <3>9 DEF Stream!Next
  <2>3. QED
    BY <2>1, <2>2
<1>3. QED
  BY <1>1, <1>2, SendInvariant, PTL DEF Spec, StreamSpec, Stream!Spec

-----------------------------------------------------------------------------
(* After failed writes too: each of them leaves one more byte to write     *)
(* than anyone sent, and may take the read index one byte further before   *)
(* the array. What is asserted about the buffer can fail by then, but as   *)
(* long as the process runs the count is kept.                             *)

Byte == 1 .. MaxSent \cup {Garbage}

FaultInv ==
  /\ sent \in 0 .. MaxSent
  /\ errors \in 0 .. MaxErrors
  /\ slipped \in BOOLEAN
  /\ process \in {"runs", "write of nothing", "no room", "overrun"}
  /\ Wide(m_send_buffer, InitSize + sent + errors, errors)
  /\ Holds(m_send_buffer, Byte)
  /\ wire \in Seq(Byte)
  /\ Len(wire) + ReadableBytes(m_send_buffer) = sent + errors

\* The bytes that writes failed to take.
Extra(ret) == IF ret = -1 THEN 1 ELSE 0

\* A write takes bytes from the buffer, or fails and makes it one byte longer.
LEMMA WriteKeepsCount ==
  ASSUME NEW limit \in Nat, NEW back \in Nat, Narrow(limit + back),
         NEW b, Wide(b, limit, back), Holds(b, Byte), NEW w \in Seq(Byte),
         NEW ret \in 1 .. ReadableBytes(b) \cup {-1}
  PROVE  /\ Wide(AfterWrite(b, ret), limit, back + Extra(ret))
         /\ Holds(AfterWrite(b, ret), Byte)
         /\ w \o Written(b, ret) \in Seq(Byte)
         /\ ReadableBytes(AfterWrite(b, ret)) \in Nat
         /\ Len(w \o Written(b, ret)) + ReadableBytes(AfterWrite(b, ret))
              = Len(w) + ReadableBytes(b) + Extra(ret)
         /\ IF ret = -1 THEN Len(w \o Written(b, ret)) = Len(w)
            ELSE Len(w \o Written(b, ret)) > Len(w)
<1> DEFINE part == Written(b, ret)
           after == AfterWrite(b, ret)
<1>1. ReadableBytes(b) \in Nat /\ Garbage \in Byte /\ Len(w) \in Nat
  BY WideNumbers DEF Byte
<1>2. Readable(b) \in Seq(Byte) /\ Len(Readable(b)) = ReadableBytes(b)
  BY <1>1, ReadableInSeq
<1>3. CASE ret = -1
  <2>1. /\ Wide(after, limit, back + 1)
        /\ ReadableBytes(after) = ReadableBytes(b) + 1
        /\ after.m_buffer = b.m_buffer /\ after.m_size = b.m_size
    BY <1>3, WideFailure DEF AfterWrite
  <2>2. part = <<>>
    BY <1>3 DEF Written
  <2> HIDE DEF after, part
  <2>3. w \o part \in Seq(Byte) /\ Len(w \o part) = Len(w)
    BY <2>2
  <2>4. Holds(after, Byte)
    BY <2>1 DEF Holds
  <2>5. QED
    <3>1. Extra(ret) = 1
      BY <1>3 DEF Extra
    <3>2. Len(w \o part) + ReadableBytes(after) = Len(w) + ReadableBytes(b) + 1
      BY <1>1, <2>1, <2>3
    <3>3. QED
      BY <1>1, <1>3, <2>1, <2>3, <2>4, <3>1, <3>2 DEF after, part
<1>4. CASE ret # -1
  <2>1. ret \in Nat /\ ret > 0 /\ ret \in 0 .. ReadableBytes(b) /\ ret <= ReadableBytes(b)
    BY <1>1, <1>4
  <2>2. /\ Wide(after, limit, back)
        /\ ReadableBytes(after) = ReadableBytes(b) - ret
        /\ after.m_buffer = b.m_buffer /\ after.m_size = b.m_size
    BY <2>1, WideRead DEF AfterWrite
  <2>3. part \in Seq(Byte) /\ Len(part) = ret
    BY <1>1, <1>2, <2>1 DEF Written
  <2> HIDE DEF after, part
  <2>4. w \o part \in Seq(Byte) /\ Len(w \o part) = Len(w) + ret
    BY <2>3
  <2>5. Holds(after, Byte)
    BY <2>2 DEF Holds
  <2>6. Extra(ret) = 0 /\ back + 0 = back
    BY <1>4 DEF Extra
  <2>7. QED
    BY <1>1, <1>4, <2>1, <2>2, <2>4, <2>5, <2>6 DEF after, part
<1>5. QED
  BY <1>3, <1>4

LEMMA FaultInvInit == Init => FaultInv
<1> SUFFICES ASSUME Init PROVE FaultInv
  OBVIOUS
<1>1. Sane /\ sent = 0 /\ errors = 0
  BY SendInvInit DEF Init, SendInv
<1>2. /\ Ordered(m_send_buffer, InitSize + sent)
      /\ Len(wire) + ReadableBytes(m_send_buffer) = sent
  BY <1>1 DEF Sane, Together
<1>3. Small(InitSize + sent) /\ InitSize + sent = InitSize + sent + errors
  BY <1>1, LimitsAreSmall
<1>4. Wide(m_send_buffer, InitSize + sent + errors, errors)
  BY <1>1, <1>2, <1>3, OrderedIsWide
<1>5. Holds(m_send_buffer, Byte)
  BY DEF Init, NewBuffer, Holds, Byte
<1>6. wire \in Seq(Byte)
  BY DEF Init
<1>7. Len(wire) + ReadableBytes(m_send_buffer) = sent + errors
  BY <1>1, <1>2
<1>8. QED
  <2>1. sent \in 0 .. MaxSent /\ errors \in 0 .. MaxErrors /\ slipped = FALSE /\ process = "runs"
    BY <1>1 DEF Init
  <2>2. QED
    BY <1>4, <1>5, <1>6, <1>7, <2>1 DEF FaultInv

\* The bounds grow with what is sent and what fails, and stay small.
LEMMA FaultBounds ==
  ASSUME NEW s \in 0 .. MaxSent, NEW e \in 0 .. MaxErrors
  PROVE  Small(InitSize + s + e) /\ InitSize + s + e \in Nat /\ e \in Nat
  BY DEF Small

LEMMA FaultNarrow ==
  ASSUME NEW s \in 0 .. MaxSent, NEW e \in 0 .. MaxErrors,
         NEW limit \in Nat, NEW back \in Nat, limit <= InitSize + s + e, back <= e
  PROVE  Narrow(limit + back)
<1>1. InitSize \in Nat /\ InitSize > 0 /\ s \in Nat /\ e \in Nat
      /\ 2 * (InitSize + s + e) < SizeMax /\ SizeMax \in Nat
  OBVIOUS
<1>2. limit + back + 1 <= InitSize + s + e + e + 1
  BY <1>1
<1>3. QED
  BY <1>1, <1>2 DEF Narrow

\* What a call of send does to the wire: its write takes something, or fails.
Moved ==
  \/ errors' = errors /\ Len(wire') > Len(wire)
  \/ errors' = errors + 1 /\ Len(wire') = Len(wire)

LEMMA DirectKeepsCount ==
  ASSUME FaultInv, NEW n \in Nat, sent + n <= MaxSent, SendDirect(n)
  PROVE  FaultInv' /\ Moved
<1> DEFINE limit == InitSize + sent + errors
           b == m_send_buffer
           r == Response(n)
<1>1. /\ sent \in 0 .. MaxSent /\ errors \in 0 .. MaxErrors
      /\ slipped' \in BOOLEAN /\ slipped' = slipped
      /\ process' = "runs"
      /\ Wide(b, limit, errors) /\ Holds(b, Byte)
      /\ wire \in Seq(Byte) /\ Len(wire) \in Nat
      /\ ReadableBytes(b) = 0 /\ Len(wire) = sent + errors
      /\ sent' = sent + n /\ sent' \in 0 .. MaxSent
      /\ Garbage \in Byte
  BY DEF FaultInv, SendDirect, Byte
<1>2. PICK ret \in Results(r) :
        /\ wire' = wire \o Written(r, ret)
        /\ m_send_buffer' = Kept(AfterWrite(r, ret))
        /\ errors' = IF ret = -1 THEN errors + 1 ELSE errors
  BY DEF SendDirect
<1> DEFINE rest == AfterWrite(r, ret)
           extra == Extra(ret)
<1>3. /\ Wide(r, n, 0) /\ ReadableBytes(r) = n /\ Holds(r, Byte)
  <2>1. Small(n) /\ Ordered(r, n) /\ ReadableBytes(r) = n
    BY <1>1, Responses
  <2>2. Holds(r, Byte)
    <3>1. /\ r.m_size = n
          /\ r.m_buffer = [i \in 0 .. n - 1 |-> [j \in 1 .. n |-> sent + j][i + 1]]
      BY DEF Response, BufferOf
    <3>2. \A i \in 0 .. n - 1 : i + 1 \in 1 .. n /\ sent + (i + 1) \in 1 .. MaxSent
      BY <1>1
    <3> HIDE DEF r
    <3>3. \A i \in 0 .. n - 1 : [j \in 1 .. n |-> sent + j][i + 1] \in Byte
      BY <3>2 DEF Byte
    <3>4. QED
      BY <3>1, <3>3 DEF Holds
  <2>3. QED
    BY <2>1, <2>2, OrderedIsWide
<1>4. /\ ret \in 1 .. ReadableBytes(r) \cup {-1}
      /\ extra \in {0, 1} /\ errors' = errors + extra /\ errors' \in 0 .. MaxErrors
      /\ extra = 1 <=> ret = -1
  BY <1>1, <1>2 DEF Results, Extra
<1>5. /\ Small(limit) /\ limit \in Nat /\ Narrow(limit + errors)
  <2>1. Small(limit) /\ limit \in Nat /\ errors \in Nat
    BY <1>1, FaultBounds
  <2>2. limit <= InitSize + sent + errors /\ errors <= errors
    BY <2>1
  <2>3. sent \in 0 .. MaxSent /\ errors \in 0 .. MaxErrors
    BY <1>1
  <2> HIDE DEF limit
  <2>4. Narrow(limit + errors)
    BY <2>1, <2>2, <2>3, FaultNarrow
  <2>5. QED
    BY <2>1, <2>4
<1>6. Narrow(n + 0)
  <2>1. n <= InitSize + sent' + errors' /\ 0 <= errors'
    BY <1>1, <1>4
  <2>2. sent' \in 0 .. MaxSent /\ errors' \in 0 .. MaxErrors
    BY <1>1, <1>4
  <2>3. QED
    BY <2>1, <2>2, FaultNarrow
<1>7. /\ Holds(rest, Byte) /\ wire' \in Seq(Byte)
      /\ Wide(rest, n, 0 + extra)
      /\ ReadableBytes(rest) \in Nat
      /\ Len(wire') + ReadableBytes(rest) = Len(wire) + n + extra
      /\ IF ret = -1 THEN Len(wire') = Len(wire) ELSE Len(wire') > Len(wire)
  <2>1. /\ Narrow(n + 0) /\ Wide(r, n, 0) /\ Holds(r, Byte) /\ wire \in Seq(Byte)
        /\ ret \in 1 .. ReadableBytes(r) \cup {-1} /\ n \in Nat /\ 0 \in Nat
    BY <1>1, <1>3, <1>4, <1>6
  <2> HIDE DEF r
  <2>2. /\ Holds(AfterWrite(r, ret), Byte) /\ wire \o Written(r, ret) \in Seq(Byte)
        /\ Wide(AfterWrite(r, ret), n, 0 + Extra(ret))
        /\ ReadableBytes(AfterWrite(r, ret)) \in Nat
        /\ Len(wire \o Written(r, ret)) + ReadableBytes(AfterWrite(r, ret))
             = Len(wire) + ReadableBytes(r) + Extra(ret)
        /\ IF ret = -1 THEN Len(wire \o Written(r, ret)) = Len(wire)
           ELSE Len(wire \o Written(r, ret)) > Len(wire)
    BY <2>1, WriteKeepsCount
  <2>3. QED
    BY <1>2, <1>3, <2>2
<1>8. Moved
  BY <1>1, <1>4, <1>7 DEF Moved
<1>9. b' = Kept(rest)
  BY <1>2
<1>10. Ordered(b, limit)
  BY <1>1, <1>5, EmptyIsOrdered
<1> HIDE DEF rest, extra
<1>11. CASE ReadableBytes(rest) > 0
  <2> DEFINE data == Readable(rest)
  <2>1. data \in Seq(Byte) /\ Len(data) = ReadableBytes(rest) /\ Len(data) \in Nat
    BY <1>1, <1>7, ReadableInSeq
  <2>2. b' = AppendTo(b, data)
    BY <1>9, <1>11 DEF Kept
  <2>3. Len(data) <= n + extra /\ Len(wire') \in Nat
    BY <1>1, <1>4, <1>7, <2>1
  <2> HIDE DEF data, limit
  <2>4. limit + Len(data) <= InitSize + sent' + errors' /\ limit + Len(data) \in Nat
    BY <1>1, <1>4, <1>5, <2>1, <2>3 DEF limit
  <2>5. Small(limit + Len(data)) /\ Narrow(limit + Len(data) + 0)
    <3>1. Small(InitSize + sent' + errors')
      BY <1>1, <1>4, FaultBounds
    <3>2. Small(limit + Len(data))
      BY <2>4, <3>1 DEF Small
    <3>3. 0 <= errors'
      BY <1>4
    <3>4. sent' \in 0 .. MaxSent /\ errors' \in 0 .. MaxErrors
      BY <1>1, <1>4
    <3>5. Narrow((limit + Len(data)) + 0)
      BY <2>4, <3>3, <3>4, FaultNarrow
    <3>6. QED
      BY <3>2, <3>5
  <2>6. ~Overruns(b, Len(data))
    BY <1>5, <1>10, <2>1, <2>5, AppendAdds
  <2>7. Wide(b, limit, 0)
    BY <1>5, <1>10, OrderedIsWide
  <2>8. /\ Wide(b', limit + Len(data), 0) /\ Holds(b', Byte)
        /\ ReadableBytes(b') = Len(data)
    <3>1. /\ limit \in Nat /\ 0 \in Nat /\ data \in Seq(Byte) /\ Narrow(limit + Len(data) + 0)
          /\ Wide(b, limit, 0) /\ ~Overruns(b, Len(data)) /\ Holds(b, Byte) /\ Garbage \in Byte
      BY <1>1, <1>5, <2>1, <2>5, <2>6, <2>7
    <3>2. /\ Wide(AppendTo(b, data), limit + Len(data), 0) /\ Holds(AppendTo(b, data), Byte)
          /\ ReadableBytes(AppendTo(b, data)) = ReadableBytes(b) + Len(data)
      BY ONLY <3>1, WideAppend
    <3>3. ReadableBytes(b) = 0
      BY <1>1
    <3>4. QED
      BY <2>1, <2>2, <3>2, <3>3
  <2>9. Wide(b', InitSize + sent' + errors', errors')
    <3>1. 0 <= errors' /\ errors' \in Nat /\ InitSize + sent' + errors' \in Nat
      BY <1>1, <1>4
    <3>2. QED
      BY <2>4, <2>8, <3>1, WiderWide
  <2>10. Len(wire') + ReadableBytes(b') = sent' + errors'
    BY <1>1, <1>4, <1>7, <2>1, <2>8
  <2>11. FaultInv'
    BY <1>1, <1>4, <1>7, <2>8, <2>9, <2>10 DEF FaultInv
  <2>12. QED
    BY <1>8, <2>11
<1>12. CASE ~(ReadableBytes(rest) > 0)
  <2>1. b' = b /\ ReadableBytes(rest) = 0
    BY <1>7, <1>9, <1>12 DEF Kept
  <2>2. Wide(b', InitSize + sent' + errors', errors')
    <3>1. /\ limit <= InitSize + sent' + errors' /\ InitSize + sent' + errors' \in Nat
          /\ errors <= errors' /\ errors \in Nat /\ errors' \in Nat
      BY <1>1, <1>4
    <3>2. QED
      BY <1>1, <1>5, <2>1, <3>1, WiderWide
  <2>3. Len(wire') + ReadableBytes(b') = sent' + errors'
    BY <1>1, <1>4, <1>7, <2>1
  <2>4. FaultInv'
    BY <1>1, <1>4, <1>7, <2>1, <2>2, <2>3 DEF FaultInv
  <2>5. QED
    BY <1>8, <2>4
<1>13. QED
  BY <1>11, <1>12

LEMMA QueuedKeepsCount ==
  ASSUME FaultInv, NEW n \in Nat, sent + n <= MaxSent, SendQueued(n)
  PROVE  FaultInv' /\ Moved
<1> DEFINE limit == InitSize + sent + errors
           b == m_send_buffer
           data == Readable(Response(n))
           whole == Queued(n)
<1>1. /\ sent \in 0 .. MaxSent /\ errors \in 0 .. MaxErrors
      /\ slipped' \in BOOLEAN
      /\ process' = "runs"
      /\ Wide(b, limit, errors) /\ Holds(b, Byte)
      /\ wire \in Seq(Byte) /\ Len(wire) \in Nat
      /\ Len(wire) + ReadableBytes(b) = sent + errors
      /\ sent' = sent + n /\ sent' \in 0 .. MaxSent
      /\ Garbage \in Byte
      /\ ~Overruns(b, n)
  BY DEF FaultInv, SendQueued, Byte
<1>2. PICK ret \in Results(whole) :
        /\ wire' = wire \o Written(whole, ret)
        /\ b' = AfterWrite(whole, ret)
        /\ errors' = IF ret = -1 THEN errors + 1 ELSE errors
  BY DEF SendQueued
<1> DEFINE extra == Extra(ret)
<1>3. /\ ret \in 1 .. ReadableBytes(whole) \cup {-1}
      /\ extra \in {0, 1} /\ errors' = errors + extra /\ errors' \in 0 .. MaxErrors
      /\ extra = 1 <=> ret = -1
  BY <1>1, <1>2 DEF Results, Extra
<1>4. data \in Seq(Byte) /\ Len(data) = n
  <2>1. /\ IsSeq(data) /\ Len(data) = n
        /\ \A i \in 1 .. n : data[i] = sent + i
    BY <1>1, Responses
  <2> HIDE DEF data
  <2>2. \A i \in 1 .. n : sent + i \in Byte
    BY <1>1 DEF Byte
  <2>3. QED
    BY <2>1, <2>2 DEF IsSeq
<1>5. whole = AppendTo(b, data)
  BY DEF Queued
<1> HIDE DEF data, whole
<1>6. /\ limit \in Nat /\ limit + n \in Nat
      /\ limit + n <= InitSize + sent' + errors' /\ errors <= errors'
      /\ errors \in Nat /\ errors' \in Nat /\ InitSize + sent' + errors' \in Nat
  BY <1>1, <1>3
<1>7. Narrow(limit + n + errors)
  BY <1>1, <1>3, <1>6, FaultNarrow
<1> HIDE DEF limit, extra
<1>8. /\ Wide(whole, limit + n, errors) /\ Holds(whole, Byte)
      /\ ReadableBytes(whole) = ReadableBytes(b) + n
  <2>1. Narrow(limit + Len(data) + errors) /\ ~Overruns(b, Len(data)) /\ limit + Len(data) = limit + n
    BY <1>1, <1>4, <1>7
  <2>2. /\ limit \in Nat /\ errors \in Nat /\ data \in Seq(Byte)
        /\ Wide(b, limit, errors) /\ Holds(b, Byte) /\ Garbage \in Byte
    BY <1>1, <1>4, <1>6
  <2>3. /\ Wide(AppendTo(b, data), limit + Len(data), errors) /\ Holds(AppendTo(b, data), Byte)
        /\ ReadableBytes(AppendTo(b, data)) = ReadableBytes(b) + Len(data)
    BY ONLY <2>1, <2>2, WideAppend
  <2>4. QED
    BY <1>4, <1>5, <2>3
<1>9. /\ Wide(b', limit + n, errors + extra) /\ Holds(b', Byte) /\ wire' \in Seq(Byte)
      /\ ReadableBytes(b') \in Nat
      /\ Len(wire') + ReadableBytes(b') = Len(wire) + ReadableBytes(whole) + extra
      /\ IF ret = -1 THEN Len(wire') = Len(wire) ELSE Len(wire') > Len(wire)
  BY <1>1, <1>2, <1>3, <1>6, <1>7, <1>8, WriteKeepsCount DEF extra
<1>10. Wide(b', InitSize + sent' + errors', errors')
  BY <1>3, <1>6, <1>9, WiderWide
<1>11. Len(wire') + ReadableBytes(b') = sent' + errors'
  <2>1. ReadableBytes(b) \in Nat
    <3>1. limit <= InitSize + sent + errors /\ errors <= errors
      BY <1>1 DEF limit
    <3>2. Narrow(limit + errors)
      BY <1>1, <1>6, <3>1, FaultNarrow
    <3>3. limit \in Nat /\ errors \in Nat /\ Wide(b, limit, errors)
      BY <1>1, <1>6
    <3>4. QED
      BY ONLY <3>2, <3>3, WideNumbers
  <2> DEFINE before == ReadableBytes(b)
             after == ReadableBytes(b')
             old == Len(wire)
             new == Len(wire')
  <2>2. /\ before \in Nat /\ old \in Nat /\ sent \in Nat /\ errors \in Nat /\ extra \in Nat
        /\ sent' = sent + n /\ errors' = errors + extra
        /\ old + before = sent + errors
    BY <1>1, <1>3, <1>6, <2>1
  <2>3. new + after = old + (before + n) + extra
    BY <1>8, <1>9
  <2> HIDE DEF before, after, old, new
  <2>4. new + after = sent' + errors'
    BY <2>2, <2>3
  <2>5. QED
    BY <2>4 DEF new, after
<1>12. FaultInv'
  BY <1>1, <1>3, <1>9, <1>10, <1>11 DEF FaultInv
<1>13. Moved
  BY <1>1, <1>3, <1>9 DEF Moved
<1>14. QED
  BY <1>12, <1>13

LEMMA FaultInvStep == FaultInv /\ [Next]_vars => FaultInv'
<1> SUFFICES ASSUME FaultInv, [Next]_vars PROVE FaultInv'
  OBVIOUS
<1>1. CASE UNCHANGED vars
  BY <1>1 DEF vars, FaultInv
<1>2. ASSUME NEW n \in Sizes, Send(n) PROVE FaultInv'
  <2>1. n \in Nat /\ sent + n <= MaxSent
    BY <1>2 DEF Send
  <2>2. CASE SendDirect(n)
    BY <2>1, <2>2, DirectKeepsCount
  <2>3. CASE SendQueued(n)
    BY <2>1, <2>3, QueuedKeepsCount
  <2>4. CASE SendBreaks(n) \/ SendNothing
    BY <2>4 DEF SendBreaks, SendNothing, FaultInv
  <2>5. QED
    BY <1>2, <2>2, <2>3, <2>4 DEF Send
<1>3. QED
  BY <1>1, <1>2 DEF Next

LEMMA FaultInvariant == Spec => []FaultInv
  BY FaultInvInit, FaultInvStep, PTL DEF Spec

\* The members of m_send_buffer and the wire have their types, the indexes those
\* of size_t, in every state, whatever ::write returned.
THEOREM TypeCorrect == Spec => []TypeOK
<1>1. ASSUME FaultInv PROVE TypeOK
  <2> DEFINE limit == InitSize + sent + errors
  <2>1. limit \in Nat /\ errors \in Nat /\ Narrow(limit + errors)
    <3>1. sent \in 0 .. MaxSent /\ errors \in 0 .. MaxErrors
      BY <1>1 DEF FaultInv
    <3>2. limit \in Nat /\ errors \in Nat
      BY <3>1, FaultBounds
    <3>3. limit <= InitSize + sent + errors /\ errors <= errors
      BY <3>1
    <3>4. QED
      BY <3>1, <3>2, <3>3, FaultNarrow
  <2>2. /\ m_send_buffer.m_size \in 0 .. SizeMax - 1
        /\ m_send_buffer.m_read_index \in 0 .. SizeMax - 1
        /\ m_send_buffer.m_write_index \in 0 .. SizeMax - 1
    <3>1. Wide(m_send_buffer, limit, errors)
      BY <1>1 DEF FaultInv
    <3> HIDE DEF limit
    <3>2. /\ m_send_buffer.m_size \in Nat /\ m_send_buffer.m_write_index \in Nat
          /\ m_send_buffer.m_read_index \in Nat
          /\ m_send_buffer.m_write_index <= m_send_buffer.m_size /\ m_send_buffer.m_size <= limit
          /\ m_send_buffer.m_read_index < SizeMax
          /\ limit + errors + 1 < SizeMax /\ SizeMax \in Nat
      BY <2>1, <3>1, WideNumbers
    <3>3. QED
      BY <2>1, <3>2
  <2>3. QED
    BY <1>1, <2>2 DEF FaultInv, Holds, Byte, TypeOK
<1>2. QED
  BY <1>1, FaultInvariant, PTL

\* Each failed write leaves one byte more to write than anyone sent, in every
\* state and for ever: -1 is added to an index as a size (tcp_socket.cpp:53-70).
PhantomsCounted == Len(wire) + ReadableBytes(m_send_buffer) = sent + errors

THEOREM FailuresAreCounted == Spec => []PhantomsCounted
<1>1. FaultInv => PhantomsCounted
  BY DEF FaultInv, PhantomsCounted
<1>2. QED
  BY <1>1, FaultInvariant, PTL

-----------------------------------------------------------------------------
(* What Connection counts of all this.                                     *)

\* A call of send that is to send n bytes writes some of these and the pending
\* ones and keeps the others; when its write fails it keeps them all, and one
\* byte more.
CountedSend(n) ==
  /\ sent' = sent + n
  /\ \/ /\ errors' = errors
        /\ \E k \in 1 .. ReadableBytes(m_send_buffer) + n :
             /\ Len(wire') = Len(wire) + k
             /\ ReadableBytes(m_send_buffer') = ReadableBytes(m_send_buffer) + n - k
     \/ /\ errors' = errors + 1
        /\ Len(wire') = Len(wire)
        /\ ReadableBytes(m_send_buffer') = ReadableBytes(m_send_buffer) + n + 1

LEMMA FaultCounts ==
  ASSUME NEW w \in Seq(Byte), NEW b, NEW s \in 0 .. MaxSent, NEW e \in 0 .. MaxErrors,
         Wide(b, InitSize + s + e, e)
  PROVE  Len(w) \in Nat /\ ReadableBytes(b) \in Nat
<1> DEFINE limit == InitSize + s + e
<1>1. limit \in Nat /\ e \in Nat /\ limit <= InitSize + s + e /\ e <= e
  BY FaultBounds
<1>2. Narrow(limit + e)
  BY <1>1, FaultNarrow
<1>3. QED
  BY <1>1, <1>2, WideNumbers

LEMMA SendCounted ==
  ASSUME FaultInv, NEW n \in Sizes \ {0}, Send(n), ~SendBreaks(n)
  PROVE  CountedSend(n)
<1>1. n \in Nat /\ n > 0 /\ sent + n <= MaxSent
  BY DEF Send
<1>2. SendDirect(n) \/ SendQueued(n)
  BY <1>1 DEF Send
<1>3. FaultInv' /\ Moved
  BY <1>1, <1>2, DirectKeepsCount, QueuedKeepsCount
<1>4. sent' = sent + n
  BY <1>2 DEF SendDirect, SendQueued
<1> DEFINE pending == ReadableBytes(m_send_buffer)
           after == ReadableBytes(m_send_buffer')
<1>5. /\ sent \in Nat /\ errors \in Nat /\ Len(wire) \in Nat /\ pending \in Nat
      /\ Len(wire) + pending = sent + errors
  <2>1. /\ wire \in Seq(Byte) /\ sent \in 0 .. MaxSent /\ errors \in 0 .. MaxErrors
        /\ Wide(m_send_buffer, InitSize + sent + errors, errors)
        /\ Len(wire) + pending = sent + errors
    BY DEF FaultInv
  <2>2. Len(wire) \in Nat /\ pending \in Nat
    BY <2>1, FaultCounts
  <2>3. QED
    BY <2>1, <2>2
<1>6. Len(wire') \in Nat /\ after \in Nat /\ Len(wire') + after = sent' + errors'
  BY <1>3, FaultCounts DEF FaultInv
<1> HIDE DEF pending, after
<1>7. CASE errors' = errors /\ Len(wire') > Len(wire)
  <2> DEFINE k == Len(wire') - Len(wire)
  <2>1. k \in 1 .. pending + n /\ Len(wire') = Len(wire) + k /\ after = pending + n - k
    BY <1>1, <1>4, <1>5, <1>6, <1>7
  <2>2. QED
    BY <1>4, <1>7, <2>1 DEF CountedSend, pending, after
<1>8. CASE errors' = errors + 1 /\ Len(wire') = Len(wire)
  <2>1. after = pending + n + 1
    BY <1>1, <1>4, <1>5, <1>6, <1>8
  <2>2. QED
    BY <1>4, <1>8, <2>1 DEF CountedSend, pending, after
<1>9. QED
  BY <1>3, <1>7, <1>8 DEF Moved

\* Whatever the sizes and the results of ::write, a call of send moves bytes in
\* the numbers that Connection says, or ends the process, which takes a failed
\* write before it (connection.cpp:35-45, tcp_socket.cpp:53-70).
THEOREM SendsAreCounted ==
  Spec => [][\A n \in Sizes \ {0} :
               Send(n) => CountedSend(n) \/ (errors > 0 /\ SendBreaks(n))]_vars
<1>1. ASSUME SendInv, FaultInv, NEW n \in Sizes \ {0}, Send(n)
      PROVE  CountedSend(n) \/ (errors > 0 /\ SendBreaks(n))
  <2>1. CASE SendBreaks(n)
    <3>1. n \in Nat /\ sent + n <= MaxSent
      BY <1>1 DEF Send
    <3>2. errors # 0
      BY <1>1, <2>1, <3>1, NothingBreaks
    <3>3. errors > 0
      BY <1>1, <3>2 DEF SendInv
    <3>4. QED
      BY <2>1, <3>3
  <2>2. CASE ~SendBreaks(n)
    BY <1>1, <2>2, SendCounted
  <2>3. QED
    BY <2>1, <2>2
<1>2. SendInv /\ FaultInv => \A n \in Sizes \ {0} :
        Send(n) => CountedSend(n) \/ (errors > 0 /\ SendBreaks(n))
  BY <1>1
<1>3. QED
  BY <1>2, SendInvariant, FaultInvariant, PTL
=============================================================================
