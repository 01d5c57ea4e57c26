---------------------------- MODULE LoggerProofs ----------------------------
(***************************************************************************)
(* Theorems about Logger, for any number of threads and statements: the    *)
(* lines on the output are whole, and those of a thread are in order.      *)
(***************************************************************************)
EXTENDS Logger, TLAPS

USE LoggerAssumption DEF LoggerAssumption, Goto

\* The thread that prints is the one that holds the mutex.
MutexHeld ==
  \A t \in Threads : pc[t] \in {"printing", "half", "unlocking"} <=> m_mutex = t

\* The last part is a first one exactly while its thread is in the middle of
\* printing its line.
LastPart ==
  /\ \A t \in Threads : pc[t] = "half" =>
       Len(output) > 0 /\ output[Len(output)] = [line |-> <<t, count[t]>>, part |-> 1]
  /\ Len(output) > 0 /\ output[Len(output)].part = 1 => \E t \in Threads : pc[t] = "half"

\* What is on the output was counted, and the statement a thread is working on
\* is not there yet, or in its first part.
Numbered ==
  \A i \in DOMAIN output : \A t \in Threads :
    output[i].line[1] = t =>
      /\ output[i].line[2] <= count[t]
      /\ pc[t] \in {"built", "locking", "printing"} => output[i].line[2] < count[t]
      /\ pc[t] = "half" /\ output[i].part = 2 => output[i].line[2] < count[t]

IInv == TypeOK /\ MutexHeld /\ LastPart /\ LinesWhole /\ Numbered /\ LinesInOrder

\* What appending a part does to the output.
LEMMA Appended ==
  ASSUME NEW t \in Threads, NEW p \in {1, 2}, TypeOK, output' = Printed(t, p)
  PROVE  /\ output' \in Seq(Part) /\ Len(output') = Len(output) + 1
         /\ DOMAIN output' = 1 .. Len(output) + 1 /\ DOMAIN output = 1 .. Len(output)
         /\ \A i \in 1 .. Len(output) : output'[i] = output[i] /\ output[i] \in Part
         /\ output'[Len(output) + 1] = [line |-> <<t, count[t]>>, part |-> p]
         /\ Len(output) \in Nat
<1>1. [line |-> <<t, count[t]>>, part |-> p] \in Part
  BY DEF TypeOK, Part
<1>2. output \in Seq(Part)
  BY DEF TypeOK
<1>3. QED
  BY <1>1, <1>2 DEF Printed

\* Everything but printing leaves the output alone.
LEMMA QuietStep ==
  ASSUME IInv, UNCHANGED output, TypeOK', MutexHeld', LastPart', Numbered'
  PROVE  IInv'
BY DEF IInv, LinesWhole, LinesInOrder

LEMMA Invariant == Spec => []IInv
<1>1. Init => IInv
  BY DEF Init, IInv, TypeOK, MutexHeld, LastPart, LinesWhole, Numbered, LinesInOrder, Part
<1>2. IInv /\ [Next]_vars => IInv'
  <2> SUFFICES ASSUME IInv, [Next]_vars PROVE IInv'
    OBVIOUS
  <2>t. /\ TypeOK /\ DOMAIN output = 1 .. Len(output) /\ Len(output) \in Nat
        /\ count \in [Threads -> Nat] /\ \A i \in DOMAIN output : output[i] \in Part
    BY DEF IInv, TypeOK
  <2>l. ASSUME NEW n \in Nat
        PROVE  \A i \in 1 .. n + 1 : i = n + 1 \/ i = n \/ i < n
    OBVIOUS
  <2>n. \A i \in DOMAIN output : output[i].line[1] \in Threads /\ output[i].line[2] \in Nat
    BY <2>t DEF Part
  <2>1. ASSUME NEW t \in Threads, Build(t) PROVE IInv'
    <3>1. TypeOK'
      BY <2>1, <2>t DEF Build, TypeOK
    <3>2. MutexHeld' /\ LastPart'
      BY <2>1, <2>t DEF Build, IInv, TypeOK, MutexHeld, LastPart
    <3>3. Numbered'
      <4> SUFFICES ASSUME NEW i \in DOMAIN output, NEW u \in Threads, output[i].line[1] = u
                   PROVE  /\ output[i].line[2] <= count'[u]
                          /\ pc'[u] \in {"built", "locking", "printing"} => output[i].line[2] < count'[u]
                          /\ pc'[u] = "half" /\ output[i].part = 2 => output[i].line[2] < count'[u]
        BY <2>1 DEF Build, Numbered
      <4>1. /\ output[i].line[2] \in Nat /\ count[u] \in Nat /\ output[i].line[2] <= count[u]
            /\ pc[u] \in {"built", "locking", "printing"} => output[i].line[2] < count[u]
            /\ pc[u] = "half" /\ output[i].part = 2 => output[i].line[2] < count[u]
        BY <2>t, <2>n DEF IInv, Numbered
      <4>2. CASE u = t
        BY <2>1, <2>t, <4>1, <4>2 DEF Build, TypeOK
      <4>3. CASE u # t
        BY <2>1, <2>t, <4>1, <4>3 DEF Build, TypeOK
      <4>4. QED
        BY <4>2, <4>3
    <3>4. QED
      BY <2>1, <3>1, <3>2, <3>3, QuietStep DEF Build
  <2>2. ASSUME NEW t \in Threads, Write(t) PROVE IInv'
    <3>1. TypeOK'
      BY <2>2, <2>t DEF Write, TypeOK, Dropped, TRACE, FATAL
    <3>2. MutexHeld' /\ LastPart'
      BY <2>2, <2>t DEF Write, IInv, TypeOK, MutexHeld, LastPart
    <3>3. Numbered'
      BY <2>2, <2>t DEF Write, IInv, TypeOK, Numbered, Part
    <3>4. QED
      BY <2>2, <3>1, <3>2, <3>3, QuietStep DEF Write
  <2>3. ASSUME NEW t \in Threads, Lock(t) PROVE IInv'
    <3>1. TypeOK'
      BY <2>3, <2>t DEF Lock, TypeOK
    <3>2. MutexHeld' /\ LastPart'
      BY <2>3, <2>t DEF Lock, Free, IInv, TypeOK, MutexHeld, LastPart
    <3>3. Numbered'
      BY <2>3, <2>t DEF Lock, IInv, TypeOK, Numbered, Part
    <3>4. QED
      BY <2>3, <3>1, <3>2, <3>3, QuietStep DEF Lock
  <2>4. ASSUME NEW t \in Threads, Unlock(t) PROVE IInv'
    <3>1. TypeOK'
      BY <2>4, <2>t DEF Unlock, Released, TypeOK
    <3>2. MutexHeld' /\ LastPart'
      BY <2>4, <2>t DEF Unlock, Released, IInv, TypeOK, MutexHeld, LastPart
    <3>3. Numbered'
      BY <2>4, <2>t DEF Unlock, IInv, TypeOK, Numbered, Part
    <3>4. QED
      BY <2>4, <3>1, <3>2, <3>3, QuietStep DEF Unlock
  <2>5. ASSUME NEW t \in Threads, Goto(t, "printing", "half"), output' = Printed(t, 1),
               UNCHANGED <<count, m_mutex, dropped>>
        PROVE  IInv'
    <3>a. /\ Len(output') = Len(output) + 1 /\ DOMAIN output' = 1 .. Len(output) + 1
          /\ \A i \in 1 .. Len(output) : output'[i] = output[i]
          /\ output'[Len(output) + 1] = [line |-> <<t, count[t]>>, part |-> 1]
          /\ output' \in Seq(Part)
      BY <2>5, <2>t, Appended
    <3>1. TypeOK' /\ MutexHeld'
      BY <2>5, <2>t, <3>a DEF IInv, TypeOK, MutexHeld
    <3>2. LastPart'
      BY <2>5, <2>t, <3>a DEF IInv, TypeOK, MutexHeld, LastPart
    <3>3. \A u \in Threads : pc[u] # "half"
      BY <2>5, <2>t DEF IInv, TypeOK, MutexHeld
    <3>4. Len(output) > 0 => output[Len(output)].part = 2
      BY <3>3, <2>t DEF IInv, LastPart, Part
    <3>5. LinesWhole'
      <4> SUFFICES ASSUME NEW i \in 1 .. Len(output) + 1
                   PROVE  /\ output'[i].part = 1 /\ i < Len(output) + 1 =>
                               output'[i + 1] = [line |-> output'[i].line, part |-> 2]
                          /\ output'[i].part = 2 =>
                               i > 1 /\ output'[i - 1] = [line |-> output'[i].line, part |-> 1]
        BY <3>a DEF LinesWhole
      <4>0. ASSUME i <= Len(output)
            PROVE  /\ output'[i] = output[i]
                   /\ output[i].part = 1 /\ i < Len(output) =>
                        output'[i + 1] = [line |-> output[i].line, part |-> 2]
                   /\ output[i].part = 2 =>
                        i > 1 /\ output'[i - 1] = [line |-> output[i].line, part |-> 1]
        <5>1. /\ output[i].part = 1 /\ i < Len(output) =>
                   output[i + 1] = [line |-> output[i].line, part |-> 2]
              /\ output[i].part = 2 =>
                   i > 1 /\ output[i - 1] = [line |-> output[i].line, part |-> 1]
          BY <2>t, <4>0 DEF IInv, LinesWhole
        <5>2. /\ output'[i] = output[i]
              /\ i < Len(output) => output'[i + 1] = output[i + 1]
              /\ i > 1 => output'[i - 1] = output[i - 1]
          BY <2>t, <3>a, <4>0
        <5>3. QED
          BY <5>1, <5>2
      <4>1. CASE i = Len(output) + 1
        BY <3>a, <4>1
      <4>2. CASE i = Len(output)
        <5>1. output[i].part = 2 /\ i <= Len(output)
          BY <2>t, <3>4, <4>2
        <5>2. output'[i] = output[i] /\ i > 1 /\ output'[i - 1] = [line |-> output[i].line, part |-> 1]
          BY <4>0, <5>1
        <5>3. output'[i].part = 2 /\ output'[i].line = output[i].line
          BY <5>1, <5>2
        <5>4. QED
          BY <5>2, <5>3
      <4>3. CASE i < Len(output)
        BY <4>0, <4>3
      <4>4. i = Len(output) + 1 \/ i = Len(output) \/ i < Len(output)
        BY <2>t, <2>l
      <4>5. QED
        BY <4>1, <4>2, <4>3, <4>4
    <3>6. Numbered'
      <4> SUFFICES ASSUME NEW i \in 1 .. Len(output) + 1, NEW u \in Threads, output'[i].line[1] = u
                   PROVE  /\ output'[i].line[2] <= count[u]
                          /\ pc'[u] \in {"built", "locking", "printing"} => output'[i].line[2] < count[u]
                          /\ pc'[u] = "half" /\ output'[i].part = 2 => output'[i].line[2] < count[u]
        BY <2>5, <3>a DEF Numbered
      <4>1. CASE i = Len(output) + 1
        BY <2>5, <2>t, <3>a, <4>1 DEF TypeOK
      <4>2. CASE i \in DOMAIN output
        <5>1. output'[i] = output[i] /\ output[i].line[2] \in Nat /\ count[u] \in Nat
          BY <2>t, <2>n, <3>a, <4>2
        <5>2. /\ output[i].line[2] <= count[u]
              /\ pc[u] \in {"built", "locking", "printing"} => output[i].line[2] < count[u]
              /\ pc[u] = "half" /\ output[i].part = 2 => output[i].line[2] < count[u]
          BY <4>2, <5>1 DEF IInv, Numbered
        <5>3. CASE u = t
          BY <2>5, <5>1, <5>2, <5>3, <2>t DEF TypeOK
        <5>4. CASE u # t
          BY <2>5, <5>1, <5>2, <5>4, <2>t DEF TypeOK
        <5>5. QED
          BY <5>3, <5>4
      <4>3. QED
        BY <2>t, <4>1, <4>2
    <3>7. LinesInOrder'
      <4> SUFFICES ASSUME NEW i \in 1 .. Len(output) + 1, NEW j \in 1 .. Len(output) + 1, i < j,
                          output'[i].part = output'[j].part, output'[i].line[1] = output'[j].line[1]
                   PROVE  output'[i].line[2] < output'[j].line[2]
        BY <3>a DEF LinesInOrder
      <4>1. i \in DOMAIN output /\ output'[i] = output[i]
        BY <2>t, <3>a
      <4>2. CASE j = Len(output) + 1
        BY <2>5, <2>n, <3>a, <4>1, <4>2 DEF IInv, Numbered
      <4>3. CASE j \in DOMAIN output
        BY <2>t, <3>a, <4>1, <4>3 DEF IInv, LinesInOrder
      <4>4. QED
        BY <2>t, <4>2, <4>3
    <3>8. QED
      BY <3>1, <3>2, <3>5, <3>6, <3>7 DEF IInv
  <2>6. ASSUME NEW t \in Threads, Goto(t, "half", "unlocking"), output' = Printed(t, 2),
               UNCHANGED <<count, m_mutex, dropped>>
        PROVE  IInv'
    <3>a. /\ Len(output') = Len(output) + 1 /\ DOMAIN output' = 1 .. Len(output) + 1
          /\ \A i \in 1 .. Len(output) : output'[i] = output[i]
          /\ output'[Len(output) + 1] = [line |-> <<t, count[t]>>, part |-> 2]
          /\ output' \in Seq(Part)
      BY <2>6, <2>t, Appended
    <3>1. TypeOK' /\ MutexHeld'
      BY <2>6, <2>t, <3>a DEF IInv, TypeOK, MutexHeld
    <3>2. \A u \in Threads \ {t} : pc[u] # "half"
      BY <2>6, <2>t DEF IInv, TypeOK, MutexHeld
    <3>3. LastPart'
      BY <2>6, <2>t, <3>a, <3>2 DEF TypeOK, LastPart
    <3>4. Len(output) > 0 /\ output[Len(output)] = [line |-> <<t, count[t]>>, part |-> 1]
      BY <2>6 DEF IInv, LastPart
    <3>5. LinesWhole'
      <4> SUFFICES ASSUME NEW i \in 1 .. Len(output) + 1
                   PROVE  /\ output'[i].part = 1 /\ i < Len(output) + 1 =>
                               output'[i + 1] = [line |-> output'[i].line, part |-> 2]
                          /\ output'[i].part = 2 =>
                               i > 1 /\ output'[i - 1] = [line |-> output'[i].line, part |-> 1]
        BY <3>a DEF LinesWhole
      <4>0. ASSUME i <= Len(output)
            PROVE  /\ output'[i] = output[i]
                   /\ output[i].part = 1 /\ i < Len(output) =>
                        output'[i + 1] = [line |-> output[i].line, part |-> 2]
                   /\ output[i].part = 2 =>
                        i > 1 /\ output'[i - 1] = [line |-> output[i].line, part |-> 1]
        <5>1. /\ output[i].part = 1 /\ i < Len(output) =>
                   output[i + 1] = [line |-> output[i].line, part |-> 2]
              /\ output[i].part = 2 =>
                   i > 1 /\ output[i - 1] = [line |-> output[i].line, part |-> 1]
          BY <2>t, <4>0 DEF IInv, LinesWhole
        <5>2. /\ output'[i] = output[i]
              /\ i < Len(output) => output'[i + 1] = output[i + 1]
              /\ i > 1 => output'[i - 1] = output[i - 1]
          BY <2>t, <3>a, <4>0
        <5>3. QED
          BY <5>1, <5>2
      <4>1. CASE i = Len(output) + 1
        <5> DEFINE line == <<t, count[t]>>
        <5>1. output'[i] = [line |-> line, part |-> 2] /\ i > 1
          BY <2>t, <3>a, <3>4, <4>1
        <5>2. output'[i - 1] = [line |-> line, part |-> 1]
          BY <2>t, <3>a, <3>4, <4>1
        <5> HIDE DEF line
        <5>3. output'[i].line = line /\ output'[i].part = 2
          BY <5>1
        <5>4. QED
          BY <5>1, <5>2, <5>3
      <4>2. CASE i = Len(output)
        <5> DEFINE line == <<t, count[t]>>
        <5>1. output[i] = [line |-> line, part |-> 1] /\ output'[i + 1] = [line |-> line, part |-> 2]
          BY <2>t, <3>a, <3>4, <4>2
        <5> HIDE DEF line
        <5>2. output[i].line = line /\ output[i].part = 1
          BY <5>1
        <5>3. output'[i] = output[i]
          BY <2>t, <4>0, <4>2
        <5>4. QED
          BY <5>1, <5>2, <5>3
      <4>3. CASE i < Len(output)
        BY <4>0, <4>3
      <4>4. i = Len(output) + 1 \/ i = Len(output) \/ i < Len(output)
        BY <2>t, <2>l
      <4>5. QED
        BY <4>1, <4>2, <4>3, <4>4
    <3>6. Numbered'
      <4> SUFFICES ASSUME NEW i \in 1 .. Len(output) + 1, NEW u \in Threads, output'[i].line[1] = u
                   PROVE  /\ output'[i].line[2] <= count[u]
                          /\ pc'[u] \in {"built", "locking", "printing"} => output'[i].line[2] < count[u]
                          /\ pc'[u] = "half" /\ output'[i].part = 2 => output'[i].line[2] < count[u]
        BY <2>6, <3>a DEF Numbered
      <4>1. CASE i = Len(output) + 1
        BY <2>6, <2>t, <3>a, <4>1 DEF TypeOK
      <4>2. CASE i \in DOMAIN output
        <5>1. output'[i] = output[i] /\ output[i].line[2] \in Nat /\ count[u] \in Nat
          BY <2>t, <2>n, <3>a, <4>2
        <5>2. /\ output[i].line[2] <= count[u]
              /\ pc[u] \in {"built", "locking", "printing"} => output[i].line[2] < count[u]
              /\ pc[u] = "half" /\ output[i].part = 2 => output[i].line[2] < count[u]
          BY <4>2, <5>1 DEF IInv, Numbered
        <5>3. CASE u = t
          BY <2>6, <5>1, <5>2, <5>3, <2>t DEF TypeOK
        <5>4. CASE u # t
          BY <2>6, <5>1, <5>2, <5>4, <2>t DEF TypeOK
        <5>5. QED
          BY <5>3, <5>4
      <4>3. QED
        BY <2>t, <4>1, <4>2
    <3>7. LinesInOrder'
      <4> SUFFICES ASSUME NEW i \in 1 .. Len(output) + 1, NEW j \in 1 .. Len(output) + 1, i < j,
                          output'[i].part = output'[j].part, output'[i].line[1] = output'[j].line[1]
                   PROVE  output'[i].line[2] < output'[j].line[2]
        BY <3>a DEF LinesInOrder
      <4>1. i \in DOMAIN output /\ output'[i] = output[i]
        BY <2>t, <3>a
      <4>2. CASE j = Len(output) + 1
        BY <2>6, <2>n, <3>a, <4>1, <4>2 DEF IInv, Numbered
      <4>3. CASE j \in DOMAIN output
        BY <2>t, <3>a, <4>1, <4>3 DEF IInv, LinesInOrder
      <4>4. QED
        BY <2>t, <4>2, <4>3
    <3>8. QED
      BY <3>1, <3>3, <3>5, <3>6, <3>7 DEF IInv
  <2>7. ASSUME NEW t \in Threads, Emit(t) PROVE IInv'
    BY <2>5, <2>6, <2>7 DEF Emit
  <2>8. CASE UNCHANGED vars
    BY <2>8 DEF vars, IInv, TypeOK, MutexHeld, LastPart, LinesWhole, Numbered, LinesInOrder
  <2>9. QED
    BY <2>1, <2>2, <2>3, <2>4, <2>7, <2>8 DEF Next
<1>3. QED
  BY <1>1, <1>2, PTL DEF Spec

-----------------------------------------------------------------------------

\* The variables keep their types (logger.cpp).
THEOREM TypeCorrect == Spec => []TypeOK
BY Invariant, PTL DEF IInv

\* The mutex of default_log_writer keeps the lines whole, however many threads
\* print, and each thread's lines come in the order of its statements
\* (logger.cpp:73-76).
THEOREM LinesKept == Spec => [](LinesWhole /\ LinesInOrder)
<1>1. IInv => LinesWhole /\ LinesInOrder
  BY DEF IInv
<1>2. QED
  BY <1>1, Invariant, PTL
=============================================================================
