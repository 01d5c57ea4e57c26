-------------------------- MODULE ConnectionProofs --------------------------
(***************************************************************************)
(* Theorems about Connection, for any length of packets, any size of       *)
(* requests and any bound on them: where the bytes are that the client has *)
(* sent, and what a client that goes away can do to the server.            *)
(***************************************************************************)
EXTENDS Connection, TLAPS

USE ConnectionAssumption DEF ConnectionAssumption

Multiple(n) == \E k \in Nat : n = k * PkgLen

\* Requests and dispatched bytes are whole packets.
WholePackets == Multiple(asked) /\ Multiple(taken - received)

\* What was taken is received, pending or answered. A failed write adds a byte.
Conserved == got + pending + received = IF failed THEN taken + 1 ELSE taken

\* The worker polls only when no whole packet is left, and writes only for one.
NoneWaits ==
  /\ pc = "polling" => received < PkgLen
  /\ pc = "writing" => received >= PkgLen /\ ~failed

\* What is known once the client has gone: what the failed write left is never
\* sent, and after an error that a read fetched nothing is left to answer.
AfterReset ==
  /\ link = "reset" => ~fin
  /\ failed => link = "broken" /\ ~fin /\ pending > PkgLen
  /\ link = "broken" /\ ~failed /\ ~fin => asked = taken /\ received < PkgLen
  /\ pc = "gone" => link = "broken" \/ fin

IInv ==
  /\ TypeOK /\ WholePackets /\ Conserved /\ NoneWaits /\ AfterReset
  /\ EndLosesOnlyPending /\ KilledByUnanswered

LEMMA MultipleOfSum ==
  ASSUME NEW n \in Nat, NEW k \in Nat, Multiple(n)
  PROVE  Multiple(n + k * PkgLen) /\ k * PkgLen \in Nat
<1>1. PICK j \in Nat : n = j * PkgLen
  BY DEF Multiple
<1>2. (j + k) * PkgLen = j * PkgLen + k * PkgLen /\ k * PkgLen \in Nat
  BY SMT
<1>3. QED
  BY <1>1, <1>2 DEF Multiple

LEMMA NothingBetween ==
  ASSUME NEW a \in Nat, NEW b \in Nat, Multiple(a), Multiple(a - b), b < PkgLen
  PROVE  b = 0
<1>1. PICK j \in Nat : a = j * PkgLen
  BY DEF Multiple
<1>2. PICK k \in Nat : a - b = k * PkgLen
  BY DEF Multiple
<1>3. b = (j - k) * PkgLen
  BY <1>1, <1>2
<1>4. CASE j - k <= 0
  BY <1>3, <1>4
<1>5. CASE j - k >= 1
  <2>1. (j - k) * PkgLen >= PkgLen
    BY <1>5
  <2>2. QED
    BY <1>3, <2>1
<1>6. QED
  BY <1>4, <1>5

LEMMA Invariant == Spec => []IInv
<1>1. Init => IInv
  <2> SUFFICES ASSUME Init PROVE IInv
    OBVIOUS
  <2>1. Multiple(0)
    BY 0 * PkgLen = 0 DEF Multiple
  <2>2. asked = 0 /\ taken - received = 0
    BY DEF Init
  <2>3. WholePackets
    BY <2>1, <2>2 DEF WholePackets
  <2>4. TypeOK
    <3>1. asked \in 0 .. MaxAsked /\ taken \in 0 .. asked /\ received \in 0 .. taken
      BY DEF Init
    <3>2. pending \in 0 .. MaxAsked + 1 /\ got \in 0 .. taken
      BY DEF Init
    <3>3. fin \in BOOLEAN /\ failed \in BOOLEAN
      BY DEF Init
    <3>4. QED
      BY <3>1, <3>2, <3>3 DEF Init, TypeOK
  <2>5. QED
    BY <2>3, <2>4 DEF Init, IInv, Conserved, NoneWaits, AfterReset, EndLosesOnlyPending,
                      KilledByUnanswered
<1>2. IInv /\ [Next]_vars => IInv'
  <2> SUFFICES ASSUME IInv, [Next]_vars PROVE IInv'
    OBVIOUS
  <2>t. /\ asked \in Nat /\ taken \in Nat /\ received \in Nat /\ pending \in Nat /\ got \in Nat
        /\ MaxAsked \in Nat /\ PkgLen \in Nat /\ PkgLen > 0
        /\ asked <= MaxAsked /\ taken <= asked /\ received <= taken
    BY DEF IInv, TypeOK
  <2> USE DEF Conserved, NoneWaits, AfterReset, EndLosesOnlyPending, KilledByUnanswered
  <2>1. CASE Request
    <3>1. PICK n \in Packets : asked + n * PkgLen <= MaxAsked /\ asked' = asked + n * PkgLen
      BY <2>1 DEF Request
    <3>2. n * PkgLen \in Nat /\ Multiple(asked')
      BY <2>t, <3>1, MultipleOfSum DEF IInv, WholePackets
    <3>3. WholePackets'
      BY <2>1, <3>2 DEF Request, IInv, WholePackets
    <3>4. TypeOK'
      BY <2>1, <2>t, <3>1, <3>2 DEF Request, IInv, TypeOK
    <3>5. QED
      BY <2>1, <2>t, <3>3, <3>4 DEF Request, IInv
  <2>2. CASE Finish
    BY <2>2, <2>t DEF Finish, IInv, TypeOK, WholePackets
  <2>3. CASE Reset
    BY <2>3, <2>t DEF Reset, clientVars, IInv, TypeOK, WholePackets
  <2>4. CASE Read
    <3>1. PICK n \in 1 .. asked - taken : taken' = taken + n /\ received' = received + n
      BY <2>4 DEF Read
    <3>2. taken' - received' = taken - received
      BY <2>t, <3>1
    <3>3. WholePackets'
      BY <2>4, <3>2 DEF Read, clientVars, IInv, WholePackets
    <3>4. TypeOK'
      BY <2>4, <2>t, <3>1 DEF Read, clientVars, IInv, TypeOK
    <3>5. QED
      BY <2>4, <2>t, <3>1, <3>3, <3>4 DEF Read, clientVars, IInv
  <2>5. CASE ReadFails
    BY <2>5, <2>t DEF ReadFails, clientVars, IInv, TypeOK, WholePackets
  <2>6. CASE ReadEnd
    <3>1. received = 0
      BY <2>6, <2>t, NothingBetween DEF ReadEnd, AtEnd, IInv, WholePackets
    <3>2. QED
      BY <2>6, <2>t, <3>1 DEF ReadEnd, AtEnd, clientVars, IInv, TypeOK, WholePackets
  <2>7. ASSUME received >= PkgLen, Dispatched, UNCHANGED clientVars, UNCHANGED taken
        PROVE  received' = received - PkgLen /\ pc' = "dispatching" /\ WholePackets'
    <3>1. /\ received' = received - PkgLen /\ pc' = "dispatching"
          /\ UNCHANGED asked
      BY <2>7 DEF Dispatched, clientVars
    <3>2. taken' - received' = (taken - received) + 1 * PkgLen /\ taken - received \in Nat
      BY <2>7, <2>t, <3>1
    <3>3. Multiple(taken' - received')
      BY <3>2, MultipleOfSum DEF IInv, WholePackets
    <3>4. QED
      BY <3>1, <3>3 DEF IInv, WholePackets
  <2>8. ASSUME WriteFails, received >= PkgLen, pc \in {"dispatching", "writing"} PROVE IInv'
    <3>1. CASE link = "reset"
      <4>1. /\ link' = "broken" /\ failed' = TRUE /\ pending' = pending + PkgLen + 1
            /\ Dispatched /\ UNCHANGED <<clientVars, taken, got>>
        BY <2>8, <2>t, <3>1 DEF WriteFails, ToWrite, Answer
      <4>2. ~failed /\ ~fin
        BY <3>1 DEF IInv
      <4>3. received' = received - PkgLen /\ pc' = "dispatching" /\ WholePackets'
        BY <2>7, <2>8, <4>1
      <4>4. TypeOK' /\ Conserved'
        BY <2>8, <2>t, <4>1, <4>2, <4>3 DEF clientVars, IInv, TypeOK
      <4>5. QED
        BY <2>8, <2>t, <4>1, <4>2, <4>3, <4>4 DEF clientVars, IInv
    <3>2. CASE link = "broken"
      <4>1. pc' = "killed" /\ UNCHANGED <<clientVars, link, taken, received, pending, got, failed>>
        BY <2>8, <3>2 DEF WriteFails
      <4>2. fin \/ failed
        BY <2>8, <2>t, <3>2 DEF IInv
      <4>3. KilledByUnanswered'
        BY <2>8, <2>t, <4>1, <4>2 DEF clientVars, IInv
      <4>4. QED
        BY <4>1, <4>3 DEF clientVars, IInv, TypeOK, WholePackets
    <3>3. QED
      BY <2>8, <3>1, <3>2 DEF WriteFails
  <2>9. CASE Dispatch
    <3>1. received >= PkgLen /\ pc = "dispatching"
      BY <2>9 DEF Dispatch, Complete
    <3>2. CASE WriteFails
      BY <2>8, <3>1, <3>2
    <3>3. CASE /\ link = "up" /\ pc' = "writing"
               /\ UNCHANGED <<clientVars, link, taken, received, pending, got, failed>>
      BY <2>t, <3>1, <3>3 DEF clientVars, IInv, TypeOK, WholePackets
    <3>4. QED
      BY <2>9, <3>2, <3>3 DEF Dispatch
  <2>10. CASE WriteTakes
    <3>1. received >= PkgLen /\ ~failed /\ Dispatched /\ UNCHANGED <<clientVars, link, taken, failed>>
      BY <2>10 DEF WriteTakes, IInv
    <3>2. received' = received - PkgLen /\ pc' = "dispatching" /\ WholePackets'
      BY <2>7, <3>1
    <3>3. PICK n \in 1 .. pending + PkgLen : got' = got + n /\ pending' = pending + PkgLen - n
      BY <2>10, <2>t DEF WriteTakes, ToWrite, Answer, Left
    <3>4. TypeOK' /\ Conserved'
      BY <2>t, <3>1, <3>2, <3>3 DEF clientVars, IInv, TypeOK
    <3>5. QED
      BY <2>t, <3>1, <3>2, <3>3, <3>4 DEF clientVars, IInv
  <2>11. CASE WriteBreaks
    BY <2>8, <2>11 DEF WriteBreaks, IInv
  <2>12. CASE DispatchDone
    BY <2>12, <2>t DEF DispatchDone, Complete, clientVars, IInv, TypeOK, WholePackets
  <2>13. CASE UNCHANGED vars
    BY <2>13 DEF vars, clientVars, IInv, TypeOK, WholePackets
  <2>14. QED
    BY <2>1, <2>2, <2>3, <2>4, <2>5, <2>6, <2>9, <2>10, <2>11, <2>12, <2>13 DEF Next
<1>3. QED
  BY <1>1, <1>2, PTL DEF Spec

\* The variables keep their types, and no more bytes are answered than taken
\* (connection.cpp:35-60).
THEOREM TypeCorrect == Spec => []TypeOK
BY Invariant, PTL DEF IInv

\* A client that finishes its side loses no request, and of the answers only
\* what a write left pending (connection.cpp:49-53).
THEOREM EndKeepsTheRest == Spec => []EndLosesOnlyPending
BY Invariant, PTL DEF IInv

\* Only a client that leaves with requests unanswered ends the server: two
\* packets, or one if it had finished its side first (tcp_socket.cpp:56).
THEOREM OnlyUnansweredKill == Spec => []KilledByUnanswered
BY Invariant, PTL DEF IInv
=============================================================================
