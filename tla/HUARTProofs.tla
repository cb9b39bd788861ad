---------------------------- MODULE HUARTProofs ----------------------------
(* Both halves of the serial port implement SerialPipe, for any ring and any *)
(* bytes; Flush() returns only when everything written is sent, and          *)
(* Available() never promises a byte that Read() does not find.              *)
EXTENDS MCSerial, TLAPS

N == SERIAL_BUFFER_SIZE

\* The bytes that left the ring, those in it, and the place of the k-th of them.
One(r)   == IF r = Empty THEN 0 ELSE 1
Left     == Len(line) + One(shift) + One(UDR)
Count    == Len(written) - Left
Place(k) == IF tail + k < N THEN tail + k ELSE tail + k - N

\* What is sent, what the transmitter holds and what the ring holds, one after
\* the other, is what was written; one place of the ring at least is free.
Holds ==
  /\ line = SubSeq(written, 1, Len(line))
  /\ shift # Empty => shift = written[Len(line) + 1]
  /\ UDR # Empty => UDR = written[Len(line) + One(shift) + 1]
  /\ \A k \in 0 .. Count - 1 : buffer[Place(k)] = written[Left + 1 + k]
  /\ Count \in 0 .. N - 1
  /\ head = Place(Count)

\* Write() keeps the room it has waited for, and the byte it has stored there.
Room ==
  /\ pc \in {"wait", "store", "advance"} => c \in Byte
  /\ pc \in {"store", "advance"} => Count < N - 1
  /\ pc = "advance" => buffer[head] = c

\* The interrupt is off only when it has nothing to do, or Write() is about to
\* enable it; and between two calls, or before Write() adds its byte, the two
\* signs that Flush() looks for mean that nothing is left.
Quiet ==
  /\ ~UDRIE /\ pc # "enable" => Count = 0
  /\ pc \in {"idle", "wait", "store", "advance", "flush"} /\ (TXC \/ ~transmitting) => line = written
  /\ pc = "clear" => transmitting

Inv == TypeOK /\ Holds /\ Room /\ Quiet

-----------------------------------------------------------------------------
(* The index arithmetic.                                                    *)

LEMMA Size == N \in Nat /\ N > 1 /\ Index = 0 .. N - 1
BY HUARTAssumption DEF N, Index

\* The modulo of the code only wraps.
LEMMA Wraps == \A i \in Index : After(i) = (IF i + 1 < N THEN i + 1 ELSE 0) /\ After(i) \in Index
<1> SUFFICES ASSUME NEW i \in Index
             PROVE  After(i) = (IF i + 1 < N THEN i + 1 ELSE 0) /\ After(i) \in Index
  OBVIOUS
<1>1. i \in Int /\ N \in Int /\ 0 <= i /\ i < N /\ N > 1
  BY Size
<1>2. After(i) = (i + 1) % N
  BY DEF After, N
<1>3. \A a, b \in Int : 0 <= a /\ a < b => a % b = a
  OBVIOUS
<1>4. \A b \in Int : b > 0 => b % b = 0
  OBVIOUS
<1> QED
  BY <1>1, <1>2, <1>3, <1>4, Size

\* The ring is empty when its indexes meet, and full when one more place would
\* make them meet.
LEMMA EmptyOrFull ==
  ASSUME TypeOK, Holds
  PROVE  /\ head = tail <=> Count = 0
         /\ After(head) = tail <=> Count = N - 1
<1>1. Count \in Int /\ tail \in Int /\ head \in Int /\ N \in Int /\ N > 1
      /\ 0 <= tail /\ tail < N /\ 0 <= Count /\ Count < N
  BY Size DEF TypeOK, Holds
<1>2. head = IF tail + Count < N THEN tail + Count ELSE tail + Count - N
  BY DEF Holds, Place
<1>3. After(head) = IF head + 1 < N THEN head + 1 ELSE 0
  BY Wraps DEF TypeOK
<1> HIDE DEF Count
<1> QED
  BY <1>1, <1>2, <1>3

\* A sequence that grows keeps what it began with, and so does its beginning.
LEMMA Growing ==
  ASSUME NEW S, NEW s \in Seq(S), NEW b \in S
  PROVE  /\ Append(s, b) \in Seq(S) /\ Len(Append(s, b)) = Len(s) + 1
         /\ Append(s, b)[Len(s) + 1] = b
         /\ \A i \in 1 .. Len(s) : Append(s, b)[i] = s[i]
         /\ \A n \in 0 .. Len(s) : SubSeq(Append(s, b), 1, n) = SubSeq(s, 1, n)
OBVIOUS

LEMMA Longer ==
  ASSUME NEW S, NEW s \in Seq(S), NEW n \in Nat, n < Len(s)
  PROVE  Append(SubSeq(s, 1, n), s[n + 1]) = SubSeq(s, 1, n + 1)
OBVIOUS

-----------------------------------------------------------------------------
(* Every step keeps the invariant and is a step of the pipe.                *)

Step == Inv' /\ [Pipe!Next]_<<written, line>>

\* The numbers behind the invariant.
LEMMA Numbers ==
  ASSUME Inv
  PROVE  /\ written \in Seq(Byte) /\ line \in Seq(Byte)
         /\ Len(written) \in Nat /\ Len(line) \in Nat
         /\ One(shift) \in 0 .. 1 /\ One(UDR) \in 0 .. 1
         /\ Left = Len(line) + One(shift) + One(UDR) /\ Left \in Nat
         /\ Len(written) = Left + Count
         /\ Count \in Int /\ 0 <= Count /\ Count < N
         /\ tail \in Int /\ 0 <= tail /\ tail < N
         /\ head = (IF tail + Count < N THEN tail + Count ELSE tail + Count - N)
         /\ N \in Int /\ N > 1
<1>1. One(shift) \in 0 .. 1 /\ One(UDR) \in 0 .. 1
  BY DEF One
<1>2. written \in Seq(Byte) /\ line \in Seq(Byte) /\ Len(written) \in Nat /\ Len(line) \in Nat
  BY DEF Inv, TypeOK
<1>3. Left = Len(line) + One(shift) + One(UDR) /\ Left \in Nat
  BY <1>1, <1>2 DEF Left
<1>4. Count \in 0 .. N - 1 /\ head = Place(Count) /\ tail \in 0 .. N - 1 /\ N \in Nat /\ N > 1
  BY Size DEF Inv, TypeOK, Holds
<1>5. Len(written) = Left + Count
  BY <1>2, <1>3 DEF Count
<1> HIDE DEF Count, Left
<1> QED
  BY <1>1, <1>2, <1>3, <1>4, <1>5 DEF Place

LEMMA InitInv == Init => Inv /\ Pipe!Init
<1> SUFFICES ASSUME Init PROVE Inv /\ Pipe!Init
  OBVIOUS
<1>1. /\ written = <<>> /\ line = <<>> /\ Len(written) = 0 /\ Len(line) = 0
      /\ One(shift) = 0 /\ One(UDR) = 0 /\ Left = 0 /\ Count = 0
  BY DEF Init, Count, Left, One
<1>2. TypeOK
  <2>1. buffer \in [Index -> Byte \cup {0}]
    BY DEF Init
  <2>2. <<>> \in Seq(Byte)
    OBVIOUS
  <2>3. written \in Seq(Byte) /\ line \in Seq(Byte)
    BY <2>2, Zenon DEF Init
  <2>4. head \in Index /\ tail \in Index
    BY Size DEF Init
  <2>5. /\ transmitting \in BOOLEAN /\ UDRIE \in BOOLEAN /\ TXC \in BOOLEAN
        /\ c \in Byte \cup {0} /\ UDR \in Byte \cup {Empty} /\ shift \in Byte \cup {Empty}
    BY DEF Init
  <2> QED
    BY <2>1, <2>3, <2>4, <2>5 DEF TypeOK, Init
<1>3. Holds
  <2>1. Place(0) = 0
    BY Size DEF Init, Place
  <2>2. line = SubSeq(written, 1, Len(line))
    BY <1>1
  <2> QED
    BY <1>1, <2>1, <2>2, Size DEF Init, Holds
<1>4. Room /\ Quiet
  BY <1>1 DEF Init, Room, Quiet
<1> QED
  BY <1>1, <1>2, <1>3, <1>4 DEF Inv, Pipe!Init

\* Nothing of the ring, of the registers or of the histories changes.
LEMMA StillHolds ==
  ASSUME Inv, UNCHANGED <<ring, UDR, shift, written, line>>
  PROVE  Holds' /\ (Count' = Count) /\ [Pipe!Next]_<<written, line>>
BY DEF Inv, Holds, Count, Left, One, Place, ring

-----------------------------------------------------------------------------
(* Write().                                                                 *)

LEMMA WriteCallStep == ASSUME Inv, NEW b \in Byte, WriteCall(b) PROVE Step
<1>1. Holds' /\ Count' = Count /\ [Pipe!Next]_<<written, line>>
  BY StillHolds DEF WriteCall, uart
<1>2. TypeOK' /\ Room' /\ Quiet'
  BY <1>1 DEF Inv, TypeOK, Room, Quiet, WriteCall, ring, uart
<1> QED
  BY <1>1, <1>2 DEF Step, Inv

LEMMA WriteWaitStep == Inv /\ WriteWait => Step
<1> SUFFICES ASSUME Inv, WriteWait PROVE Step
  OBVIOUS
<1>1. Holds' /\ Count' = Count /\ [Pipe!Next]_<<written, line>>
  BY StillHolds DEF WriteWait, uart
<1>2. Count < N - 1
  BY Numbers, EmptyOrFull DEF Inv, WriteWait
<1>3. TypeOK' /\ Quiet'
  BY <1>1 DEF Inv, TypeOK, Quiet, WriteWait, ring, uart
<1>4. Room'
  BY <1>1, <1>2 DEF Inv, Room, WriteWait, N
<1> QED
  BY <1>1, <1>3, <1>4 DEF Step, Inv

LEMMA WriteStoreStep == Inv /\ WriteStore => Step
<1> SUFFICES ASSUME Inv, WriteStore PROVE Step
  OBVIOUS
<1>1. c \in Byte /\ Count < N - 1
  BY DEF Inv, Room, WriteStore
<1>2. Left' = Left /\ Count' = Count /\ (\A k : Place(k)' = Place(k))
  BY DEF WriteStore, uart, Left, Count, Place, One, N
<1>3. \A k \in 0 .. Count - 1 : buffer'[Place(k)] = buffer[Place(k)]
  <2> SUFFICES ASSUME NEW k \in 0 .. Count - 1 PROVE buffer'[Place(k)] = buffer[Place(k)]
    OBVIOUS
  <2>1. Place(k) \in Index /\ Place(k) # head
    <3> HIDE DEF Count
    <3>1. /\ tail \in Int /\ 0 <= tail /\ tail < N /\ N \in Int
          /\ Count \in Int /\ 0 <= Count /\ Count < N
          /\ head = (IF tail + Count < N THEN tail + Count ELSE tail + Count - N)
      BY Numbers
    <3>2. Place(k) = IF tail + k < N THEN tail + k ELSE tail + k - N
      BY DEF Place
    <3>3. k \in Int /\ 0 <= k /\ k < Count
      BY <3>1
    <3>4. Place(k) \in 0 .. N - 1 /\ Place(k) # head
      BY <3>1, <3>2, <3>3
    <3> QED
      BY <3>4, Size
  <2> QED
    BY <2>1 DEF WriteStore, Inv, TypeOK
<1>4. Holds'
  <2>1. (\A k \in 0 .. Count - 1 : buffer[Place(k)] = written[Left + 1 + k])'
    BY <1>2, <1>3 DEF Inv, Holds, WriteStore
  <2>2. (Count \in 0 .. N - 1)' /\ (head = Place(Count))'
    BY <1>2 DEF Inv, Holds, WriteStore, N
  <2> QED
    BY <2>1, <2>2 DEF Inv, Holds, WriteStore, uart, One
<1>5. TypeOK' /\ buffer'[head] = c
  BY <1>1 DEF Inv, TypeOK, WriteStore, uart
<1>6. Room' /\ Quiet'
  BY <1>1, <1>2, <1>5 DEF Inv, Room, Quiet, WriteStore, uart, N
<1> QED
  BY <1>4, <1>5, <1>6 DEF Step, Inv, WriteStore

\* The byte stored is the last of the ring.
LEMMA WriteAdvanceStep == Inv /\ WriteAdvance => Step
<1> SUFFICES ASSUME Inv, WriteAdvance PROVE Step
  OBVIOUS
<1>1. c \in Byte /\ Count < N - 1 /\ buffer[head] = c
  BY DEF Inv, Room, WriteAdvance
<1>2. /\ written' \in Seq(Byte) /\ Len(written') = Len(written) + 1
      /\ written'[Len(written) + 1] = c
      /\ \A i \in 1 .. Len(written) : written'[i] = written[i]
      /\ \A n \in 0 .. Len(written) : SubSeq(written', 1, n) = SubSeq(written, 1, n)
  BY <1>1, Growing, Numbers DEF WriteAdvance
<1>3. Left' = Left /\ One(shift)' = One(shift)
  BY DEF WriteAdvance, uart, Left, One
<1>4. Count' = Count + 1
  BY <1>2, <1>3, Numbers DEF Count
<1>5. \A k : Place(k)' = Place(k)
  BY DEF WriteAdvance, Place, N
<1>6. Holds'
  <2>1. line' = SubSeq(written', 1, Len(line'))
    <3>1. Len(line) \in 0 .. Len(written)
      BY Numbers
    <3> QED
      BY <3>1, <1>2 DEF Inv, Holds, WriteAdvance
  <2>2. shift' # Empty => shift' = written'[Len(line') + 1]
    <3> SUFFICES ASSUME shift # Empty PROVE shift = written'[Len(line) + 1]
      BY DEF WriteAdvance, uart
    <3>1. One(shift) = 1
      BY DEF One
    <3>2. Len(line) + 1 \in 1 .. Len(written)
      BY <3>1, Numbers
    <3> QED
      BY <3>2, <1>2 DEF Inv, Holds
  <2>3. UDR' # Empty => UDR' = written'[Len(line') + One(shift)' + 1]
    <3> SUFFICES ASSUME UDR # Empty PROVE UDR = written'[Len(line) + One(shift) + 1]
      BY <1>3 DEF WriteAdvance, uart
    <3>1. One(UDR) = 1
      BY DEF One
    <3>2. Len(line) + One(shift) + 1 \in 1 .. Len(written)
      BY <3>1, Numbers
    <3> QED
      BY <3>2, <1>2 DEF Inv, Holds
  <2>4. (\A k \in 0 .. Count - 1 : buffer[Place(k)] = written[Left + 1 + k])'
    <3> HIDE DEF Count, Left
    <3> SUFFICES ASSUME NEW k \in 0 .. Count' - 1
                 PROVE  (buffer[Place(k)] = written[Left + 1 + k])'
      OBVIOUS
    <3>. k \in 0 .. Count
      BY <1>4, Numbers
    <3>. SUFFICES buffer[Place(k)] = written'[Left + 1 + k]
      BY <1>3, <1>5 DEF WriteAdvance
    <3>1. CASE k = Count
      <4>1. Place(k) = head /\ Left + 1 + k = Len(written) + 1
        BY <3>1, Numbers DEF Inv, Holds
      <4> QED
        BY <4>1, <1>1, <1>2
    <3>2. CASE k # Count
      <4>1. k \in 0 .. Count - 1 /\ Left + 1 + k \in 1 .. Len(written)
        BY <3>2, Numbers
      <4> QED
        BY <4>1, <1>2 DEF Inv, Holds
    <3> QED
      BY <3>1, <3>2
  <2>5. (Count \in 0 .. N - 1)'
    BY <1>1, <1>4, Numbers DEF N
  <2>6. (head = Place(Count))'
    <3>1. head \in Index /\ After(head) = (IF head + 1 < N THEN head + 1 ELSE 0)
      BY Wraps DEF Inv, TypeOK
    <3>2. After(head) = Place(Count + 1)
      <4> HIDE DEF Count
      <4> QED
        BY <1>1, <3>1, Numbers DEF Place
    <3> QED
      BY <1>4, <3>2 DEF WriteAdvance, Place, N
  <2> QED
    BY <2>1, <2>2, <2>3, <2>4, <2>5, <2>6 DEF Holds
<1>7. TypeOK' /\ Room' /\ Quiet'
  BY <1>2, Wraps DEF Inv, TypeOK, Room, Quiet, WriteAdvance, uart
<1>8. Pipe!Next
  <2>1. Pipe!OnTheWay < N + 1
    BY <1>1, Numbers DEF Pipe!OnTheWay
  <2> QED
    BY <2>1, <1>1 DEF Pipe!Next, Pipe!Accept, WriteAdvance, N
<1> QED
  BY <1>6, <1>7, <1>8 DEF Step, Inv

LEMMA WriteEndStep == Inv /\ (WriteEnable \/ WriteMark \/ WriteClear) => Step
<1> SUFFICES ASSUME Inv, WriteEnable \/ WriteMark \/ WriteClear PROVE Step
  OBVIOUS
<1>1. Holds' /\ Count' = Count /\ [Pipe!Next]_<<written, line>>
  BY StillHolds DEF WriteEnable, WriteMark, WriteClear, uart
<1>2. CASE WriteEnable
  BY <1>1, <1>2 DEF Step, Inv, TypeOK, Room, Quiet, WriteEnable, ring
<1>3. CASE WriteMark
  BY <1>1, <1>3 DEF Step, Inv, TypeOK, Room, Quiet, WriteMark, ring, uart
<1>4. CASE WriteClear
  BY <1>1, <1>4 DEF Step, Inv, TypeOK, Room, Quiet, WriteClear, ring
<1> QED
  BY <1>2, <1>3, <1>4

-----------------------------------------------------------------------------
(* Flush(), the interrupt and the transmitter.                              *)

LEMMA FlushStep == Inv /\ (FlushCall \/ FlushReturn) => Step
<1> SUFFICES ASSUME Inv, FlushCall \/ FlushReturn PROVE Step
  OBVIOUS
<1>1. Holds' /\ Count' = Count /\ [Pipe!Next]_<<written, line>>
  BY StillHolds DEF FlushCall, FlushReturn, uart
<1>2. CASE FlushCall
  BY <1>1, <1>2 DEF Step, Inv, TypeOK, Room, Quiet, FlushCall, ring, uart
<1>3. CASE FlushReturn
  BY <1>1, <1>3 DEF Step, Inv, TypeOK, Room, Quiet, FlushReturn, ring, uart
<1> QED
  BY <1>2, <1>3

LEMMA UDREISRStep == Inv /\ UDREISR => Step
<1> SUFFICES ASSUME Inv, UDREISR PROVE Step
  OBVIOUS
<1>1. CASE head = tail
  <2>1. Count = 0
    BY <1>1, EmptyOrFull DEF Inv
  <2>2. Holds' /\ Count' = Count /\ [Pipe!Next]_<<written, line>>
    BY <1>1, StillHolds DEF UDREISR, ring
  <2>3. TypeOK' /\ Room' /\ Quiet'
    BY <1>1, <2>1, <2>2 DEF Inv, TypeOK, Room, Quiet, UDREISR, task
  <2> QED
    BY <2>2, <2>3 DEF Step, Inv
<1>2. CASE head # tail
  <2>1. /\ UDR = Empty /\ UDRIE /\ UDR' = buffer[tail] /\ tail' = After(tail)
        /\ UNCHANGED <<buffer, head, transmitting, pc, c, UDRIE, TXC, shift, written, line>>
    BY <1>2 DEF UDREISR, UDREPending, task
  <2>2. Count > 0
    BY <1>2, EmptyOrFull, Numbers DEF Inv
  <2>3. UDR' = written[Left + 1]
    <3> HIDE DEF Count, Left
    <3>1. Place(0) = tail /\ 0 \in 0 .. Count - 1 /\ Left + 1 + 0 = Left + 1
      BY <2>2, Numbers DEF Place
    <3> QED
      BY <2>1, <3>1 DEF Inv, Holds
  <2>4. UDR' \in Byte /\ UDR' # Empty
    <3>1. Left + 1 \in 1 .. Len(written)
      BY <2>2, Numbers
    <3>2. written[Left + 1] \in Byte
      BY <3>1, Numbers
    <3> QED
      BY <2>3, <3>2, HUARTAssumption
  <2>5. One(UDR) = 0 /\ One(UDR)' = 1 /\ One(shift)' = One(shift)
    BY <2>1, <2>4 DEF One
  <2>6. Left' = Left + 1 /\ Left = Len(line) + One(shift)
    BY <2>1, <2>5, Numbers DEF Left
  <2>7. Count' = Count - 1
    BY <2>1, <2>6, Numbers DEF Count
  <2>8. After(tail) = (IF tail + 1 < N THEN tail + 1 ELSE 0) /\ After(tail) \in Index
    BY Wraps DEF Inv, TypeOK
  <2>9. \A k \in 0 .. Count - 1 : Place(k)' = Place(k + 1)
    <3> HIDE DEF Count
    <3>1. tail \in Int /\ 0 <= tail /\ tail < N /\ N \in Int /\ Count \in Int /\ Count < N
      BY Numbers
    <3>2. tail' = (IF tail + 1 < N THEN tail + 1 ELSE 0)
      BY <2>1, <2>8
    <3> SUFFICES ASSUME NEW k \in 0 .. Count - 1 PROVE Place(k)' = Place(k + 1)
      OBVIOUS
    <3>3. k \in Int /\ 0 <= k /\ k < N
      BY <3>1
    <3>4. Place(k)' = IF tail' + k < N THEN tail' + k ELSE tail' + k - N
      BY DEF Place, N
    <3>5. Place(k + 1) = IF tail + (k + 1) < N THEN tail + (k + 1) ELSE tail + (k + 1) - N
      BY DEF Place
    <3> QED
      BY <3>1, <3>2, <3>3, <3>4, <3>5
  <2>10. (\A k \in 0 .. Count - 1 : buffer[Place(k)] = written[Left + 1 + k])'
    <3> HIDE DEF Count, Left
    <3> SUFFICES ASSUME NEW k \in 0 .. Count' - 1
                 PROVE  (buffer[Place(k)] = written[Left + 1 + k])'
      OBVIOUS
    <3>1. k \in 0 .. Count - 1 /\ k + 1 \in 0 .. Count - 1
      BY <2>7, Numbers
    <3>2. buffer[Place(k + 1)] = written[Left + 1 + (k + 1)]
      BY <3>1 DEF Inv, Holds
    <3>3. Left + 1 + (k + 1) = Left' + 1 + k
      BY <2>6, <3>1, Numbers
    <3> QED
      BY <2>1, <2>9, <3>1, <3>2, <3>3
  <2>11. (Count \in 0 .. N - 1)' /\ (head = Place(Count))'
    <3> HIDE DEF Count
    <3>1. /\ tail \in Int /\ 0 <= tail /\ tail < N /\ N \in Int
          /\ Count \in Int /\ 0 < Count /\ Count < N
          /\ head = (IF tail + Count < N THEN tail + Count ELSE tail + Count - N)
      BY <2>2, Numbers
    <3>2. tail' = (IF tail + 1 < N THEN tail + 1 ELSE 0) /\ head' = head /\ N' = N
      BY <2>1, <2>8 DEF N
    <3>3. Place(Count)' = IF tail' + Count' < N THEN tail' + Count' ELSE tail' + Count' - N
      BY <3>2 DEF Place
    <3> QED
      BY <2>7, <3>1, <3>2, <3>3
  <2>12. Holds'
    <3>1. UDR' = written'[Len(line') + One(shift)' + 1]
      BY <2>1, <2>3, <2>5, <2>6
    <3>2. line' = SubSeq(written', 1, Len(line')) /\ (shift' # Empty => shift' = written'[Len(line') + 1])
      BY <2>1 DEF Inv, Holds
    <3> QED
      BY <2>10, <2>11, <3>1, <3>2 DEF Holds
  <2>13. TypeOK'
    BY <2>1, <2>4, <2>8 DEF Inv, TypeOK
  <2>14. Room' /\ Quiet'
    <3> HIDE DEF Count
    <3> QED
      BY <2>1, <2>7, Numbers DEF Inv, Room, Quiet, N
  <2> QED
    BY <2>1, <2>12, <2>13, <2>14 DEF Step, Inv
<1> QED
  BY <1>1, <1>2

LEMMA LoadStep == Inv /\ Load => Step
<1> SUFFICES ASSUME Inv, Load PROVE Step
  OBVIOUS
<1>1. One(shift) = 0 /\ One(UDR) = 1 /\ One(shift)' = 1 /\ One(UDR)' = 0
  BY DEF Load, One
<1>2. Left' = Left /\ Count' = Count /\ (\A k : Place(k)' = Place(k))
  BY <1>1, Numbers DEF Load, ring, Left, Count, Place, N
<1>3. shift' = written[Len(line) + 1]
  <2>1. UDR = written[Len(line) + 0 + 1] /\ Len(line) + 0 + 1 = Len(line) + 1
    BY <1>1, Numbers DEF Inv, Holds, Load
  <2> QED
    BY <2>1 DEF Load
<1>4. Holds'
  <2>1. (\A k \in 0 .. Count - 1 : buffer[Place(k)] = written[Left + 1 + k])'
    BY <1>2 DEF Inv, Holds, Load, ring
  <2>2. (Count \in 0 .. N - 1)' /\ (head = Place(Count))'
    BY <1>2 DEF Inv, Holds, Load, ring, N
  <2> QED
    BY <1>3, <2>1, <2>2 DEF Inv, Holds, Load
<1>5. TypeOK' /\ Room' /\ Quiet'
  BY <1>2 DEF Inv, TypeOK, Room, Quiet, Load, ring, task, N
<1> QED
  BY <1>4, <1>5 DEF Step, Inv, Load

\* A byte is sent; with the transmitter empty and the interrupt served, the
\* ring is empty too, unless Write() is about to enable the interrupt.
LEMMA SentStep == Inv /\ Sent => Step
<1> SUFFICES ASSUME Inv, Sent PROVE Step
  OBVIOUS
<1>1. One(shift) = 1 /\ One(shift)' = One(UDR) /\ One(UDR)' = 0
  BY DEF Sent, One
<1>2. /\ shift = written[Len(line) + 1] /\ line = SubSeq(written, 1, Len(line))
      /\ Len(line) < Len(written) /\ shift \in Byte
  <2>1. Len(line) < Len(written)
    BY <1>1, Numbers
  <2>2. shift \in Byte
    BY DEF Sent, Inv, TypeOK
  <2> QED
    BY <2>1, <2>2 DEF Sent, Inv, Holds
<1>3. line' \in Seq(Byte) /\ Len(line') = Len(line) + 1
  BY <1>2, Growing, Numbers DEF Sent
<1>4. line' = SubSeq(written, 1, Len(line) + 1)
  BY <1>2, Longer, Numbers DEF Sent
<1>5. Left' = Left
  BY <1>1, <1>3, Numbers DEF Left
<1>6. Count' = Count /\ (\A k : Place(k)' = Place(k))
  BY <1>5 DEF Sent, ring, Count, Place, N
<1>7. Holds'
  <2>1. (\A k \in 0 .. Count - 1 : buffer[Place(k)] = written[Left + 1 + k])'
    BY <1>5, <1>6 DEF Inv, Holds, Sent, ring
  <2>2. (Count \in 0 .. N - 1)' /\ (head = Place(Count))'
    BY <1>6 DEF Inv, Holds, Sent, ring, N
  <2>3. shift' # Empty => shift' = written'[Len(line') + 1]
    <3>1. UDR # Empty => UDR = written[Len(line) + 1 + 1]
      BY <1>1 DEF Inv, Holds
    <3> QED
      BY <1>3, <3>1 DEF Sent
  <2> QED
    BY <1>3, <1>4, <2>1, <2>2, <2>3 DEF Holds, Sent
<1>8. TypeOK' /\ Room'
  BY <1>3, <1>6 DEF Inv, TypeOK, Room, Sent, ring, task, N
<1>9. Quiet'
  <2>1. ~(line = written)
    BY <1>2, Numbers
  <2>2. ASSUME UDR = Empty, pc # "enable" PROVE line' = written
    <3>1. Count = 0 /\ One(UDR) = 0
      BY <2>2 DEF Inv, Quiet, Sent, UDREPending, One
    <3>2. Len(written) = Len(line) + 1
      BY <1>1, <3>1, Numbers
    <3> QED
      BY <1>4, <3>2, Numbers
  <2>3. CASE UDR = Empty
    BY <2>1, <2>2, <2>3, <1>6 DEF Inv, Quiet, Sent, task
  <2>4. CASE UDR # Empty
    BY <2>1, <2>4, <1>6 DEF Inv, Quiet, Sent, task
  <2> QED
    BY <2>3, <2>4
<1>10. Pipe!Next
  <2>1. Pipe!OnTheWay > 0
    BY <1>2, Numbers DEF Pipe!OnTheWay
  <2> QED
    BY <2>1, <1>4 DEF Pipe!Next, Pipe!Deliver, Sent
<1> QED
  BY <1>7, <1>8, <1>9, <1>10 DEF Step, Inv

LEMMA EveryStep == Inv /\ [Next]_vars => Step
<1> SUFFICES ASSUME Inv, [Next]_vars PROVE Step
  OBVIOUS
<1>1. CASE UNCHANGED vars
  <2>1. Holds' /\ Count' = Count /\ [Pipe!Next]_<<written, line>>
    BY <1>1, StillHolds DEF vars, uart
  <2>2. TypeOK' /\ Room' /\ Quiet'
    BY <1>1, <2>1 DEF Inv, TypeOK, Room, Quiet, vars, ring, task, uart
  <2> QED
    BY <2>1, <2>2 DEF Step, Inv
<1>2. CASE Next
  BY <1>2, WriteCallStep, WriteWaitStep, WriteStoreStep, WriteAdvanceStep, WriteEndStep,
     FlushStep, UDREISRStep, LoadStep, SentStep DEF Next, Write
<1> QED
  BY <1>1, <1>2

LEMMA Invariance == Spec => []Inv
<1>1. Init => Inv
  BY InitInv
<1>2. Inv /\ [Next]_vars => Inv'
  BY EveryStep DEF Step
<1> QED
  BY <1>1, <1>2, PTL DEF Spec

-----------------------------------------------------------------------------

\* The variables of the transmitter keep their types.
LEMMA TypeCorrect == Spec => []TypeOK
<1>1. Inv => TypeOK
  BY DEF Inv
<1> QED
  BY <1>1, Invariance, PTL

\* The line carries what was written, in order, each byte once.
THEOREM TransmitKeepsOrder == Spec => InOrder
<1>1. Init => Pipe!Init
  BY InitInv
<1>2. Inv /\ [Next]_vars => [Pipe!Next]_<<written, line>>
  BY EveryStep DEF Step
<1> QED
  BY <1>1, <1>2, Invariance, PTL DEF Spec, InOrder, Pipe!Spec

\* Flush() returns when all of it is sent: the step by which it does so finds
\* one of the two signs of Quiet.
THEOREM FlushIsHonest == Spec => FlushMeansSent
<1>1. Inv /\ [Next]_vars => [pc = "flush" /\ pc' = "idle" => line = written]_vars
  <2> SUFFICES ASSUME Inv, [Next]_vars, pc = "flush", pc' = "idle" PROVE line = written
    OBVIOUS
  <2>1. FlushReturn
    BY DEF Next, vars, task, WriteCall, Write, WriteWait, WriteStore, WriteAdvance, WriteEnable,
           WriteMark, WriteClear, FlushCall, UDREISR, Load, Sent
  <2> QED
    BY <2>1 DEF FlushReturn, Inv, Quiet
<1> QED
  BY <1>1, Invariance, PTL DEF Spec, FlushMeansSent

-----------------------------------------------------------------------------
(* The receiving half: the same ring, filled by the interrupt and emptied by *)
(* the task.                                                                *)

\* The instance of HUARTReceive has an index arithmetic of its own.
LEMMA RxSize == N \in Nat /\ N > 1 /\ R!Index = 0 .. N - 1
BY HUARTAssumption DEF N, R!Index

LEMMA RxWraps ==
  \A i \in R!Index : R!After(i) = (IF i + 1 < N THEN i + 1 ELSE 0) /\ R!After(i) \in R!Index
<1>1. R!Index = Index /\ \A i : R!After(i) = After(i)
  BY DEF Index, R!Index, After, R!After
<1> QED
  BY <1>1, Wraps

\* The bytes in the ring, and the place of the k-th of them.
RxCount    == Len(stored) - Len(fetched)
RxPlace(k) == IF rxTail + k < N THEN rxTail + k ELSE rxTail + k - N

\* The ring holds, from tail on, what was stored and not yet fetched, and one
\* place at least is free.
RxHolds ==
  /\ RxCount \in 0 .. N - 1
  /\ rxHead = RxPlace(RxCount)
  /\ \A k \in 0 .. RxCount - 1 : rxBuffer[RxPlace(k)] = stored[Len(fetched) + 1 + k]
  /\ fetched = SubSeq(stored, 1, Len(fetched))

\* The task is not mistaken about the first of them.
Asked ==
  /\ rxPC = "advance" => RxCount > 0 /\ rxC = stored[Len(fetched) + 1]
  /\ rxPC = "read" /\ told => RxCount > 0

RxInv == R!TypeOK /\ RxHolds /\ Asked

\* The ring is empty when its indexes meet, and full when one more place would
\* make them meet.
LEMMA RxEmptyOrFull ==
  ASSUME R!TypeOK, RxHolds
  PROVE  /\ rxHead = rxTail <=> RxCount = 0
         /\ R!After(rxHead) = rxTail <=> RxCount = N - 1
<1>1. RxCount \in Int /\ rxTail \in Int /\ rxHead \in Int /\ N \in Int /\ N > 1
      /\ 0 <= rxTail /\ rxTail < N /\ 0 <= RxCount /\ RxCount < N
  BY RxSize DEF R!TypeOK, RxHolds
<1>2. rxHead = IF rxTail + RxCount < N THEN rxTail + RxCount ELSE rxTail + RxCount - N
  BY DEF RxHolds, RxPlace
<1>3. R!After(rxHead) = IF rxHead + 1 < N THEN rxHead + 1 ELSE 0
  BY RxWraps DEF R!TypeOK
<1> HIDE DEF RxCount
<1> QED
  BY <1>1, <1>2, <1>3

-----------------------------------------------------------------------------
(* Every step keeps the invariant and is a step of the pipe.                *)

RxStep == RxInv' /\ [R!Pipe!Next]_<<stored, fetched>>

LEMMA RxInitInv == R!Init => RxInv /\ R!Pipe!Init
<1> SUFFICES ASSUME R!Init PROVE RxInv /\ R!Pipe!Init
  OBVIOUS
<1>1. stored = <<>> /\ fetched = <<>> /\ Len(stored) = 0 /\ Len(fetched) = 0 /\ RxCount = 0
  BY DEF R!Init, RxCount
<1>2. R!TypeOK
  <2>1. rxBuffer \in [R!Index -> Byte \cup {0}]
    BY DEF R!Init
  <2>2. <<>> \in Seq(Byte) /\ <<>> \in Seq([byte : Byte, UPE : BOOLEAN])
    OBVIOUS
  <2>3. rxUDR \in Seq([byte : Byte, UPE : BOOLEAN]) /\ stored \in Seq(Byte) /\ fetched \in Seq(Byte)
    BY <2>2, Zenon DEF R!Init
  <2>4. rxHead \in R!Index /\ rxTail \in R!Index
    BY RxSize DEF R!Init
  <2>5. arrivals \in 0 .. LIMIT /\ Len(rxUDR) <= 2
    BY HUARTAssumption DEF R!Init
  <2>6. rxPC \in {"idle", "read", "advance"} /\ rxC \in Byte \cup {0} /\ told \in BOOLEAN
    BY DEF R!Init
  <2> QED
    BY <2>1, <2>3, <2>4, <2>5, <2>6 DEF R!TypeOK
<1>3. RxHolds
  <2>1. RxPlace(0) = 0
    BY RxSize DEF R!Init, RxPlace
  <2>2. fetched = SubSeq(stored, 1, Len(fetched))
    BY <1>1
  <2> QED
    BY <1>1, <2>1, <2>2, RxSize DEF R!Init, RxHolds
<1>4. Asked
  BY DEF R!Init, Asked
<1> QED
  BY <1>1, <1>2, <1>3, <1>4 DEF RxInv, R!Pipe!Init

\* Nothing of the ring or of the histories changes.
LEMMA RxStillHolds ==
  ASSUME RxInv, UNCHANGED <<R!ring, stored, fetched>>
  PROVE  RxHolds' /\ (RxCount' = RxCount) /\ [R!Pipe!Next]_<<stored, fetched>>
BY DEF RxInv, RxHolds, RxCount, RxPlace, R!ring

\* A byte is stored behind the others.
LEMMA StoreStep ==
  ASSUME RxInv, NEW b \in Byte, R!After(rxHead) # rxTail,
         rxBuffer' = [rxBuffer EXCEPT ![rxHead] = b], rxHead' = R!After(rxHead),
         stored' = Append(stored, b), UNCHANGED <<rxTail, fetched>>
  PROVE  /\ RxHolds' /\ RxCount' = RxCount + 1
         /\ \A i \in 1 .. Len(stored) : stored'[i] = stored[i]
         /\ R!Pipe!Next
<1>1. /\ RxCount \in Int /\ rxTail \in Int /\ rxHead \in Int /\ N \in Int /\ N > 1
      /\ 0 <= rxTail /\ rxTail < N /\ 0 <= RxCount /\ RxCount < N - 1
      /\ rxHead = (IF rxTail + RxCount < N THEN rxTail + RxCount ELSE rxTail + RxCount - N)
      /\ R!After(rxHead) = (IF rxHead + 1 < N THEN rxHead + 1 ELSE 0)
  <2>1. R!TypeOK /\ RxHolds
    BY DEF RxInv
  <2>2. rxHead \in R!Index /\ rxTail \in R!Index /\ N \in Int /\ N > 1
    BY <2>1, RxSize DEF R!TypeOK
  <2>3. RxCount \in Int /\ 0 <= RxCount /\ RxCount < N
    BY <2>1, <2>2 DEF R!TypeOK, RxHolds, RxCount
  <2>4. RxCount # N - 1
    BY <2>1, RxEmptyOrFull
  <2>5. rxHead = (IF rxTail + RxCount < N THEN rxTail + RxCount ELSE rxTail + RxCount - N)
    BY <2>1 DEF RxHolds, RxPlace
  <2>6. rxTail \in Int /\ rxHead \in Int /\ 0 <= rxTail /\ rxTail < N
    BY <2>2, RxSize
  <2>7. RxCount < N - 1
    <3> HIDE DEF RxCount
    <3> QED
      BY <2>2, <2>3, <2>4
  <2> QED
    BY <2>2, <2>3, <2>5, <2>6, <2>7, RxWraps
<1>2. /\ stored \in Seq(Byte) /\ fetched \in Seq(Byte)
      /\ Len(stored) = Len(fetched) + RxCount
      /\ Len(stored) \in Nat /\ Len(fetched) \in Nat /\ Len(stored') = Len(stored) + 1
      /\ stored'[Len(stored) + 1] = b
      /\ \A i \in 1 .. Len(stored) : stored'[i] = stored[i]
  BY Growing DEF RxInv, R!TypeOK, RxHolds, RxCount
<1>3. RxCount' = RxCount + 1
  BY <1>2 DEF RxCount
<1>4. \A k \in 0 .. N - 1 : RxPlace(k)' = RxPlace(k)
  BY DEF RxPlace
<1>5. rxHead' = RxPlace(RxCount + 1)
  <2> HIDE DEF RxCount
  <2> QED
    BY <1>1 DEF RxPlace
<1>6. \A k \in 0 .. RxCount : rxBuffer'[RxPlace(k)] = stored'[Len(fetched) + 1 + k]
  <2> SUFFICES ASSUME NEW k \in 0 .. RxCount
               PROVE  rxBuffer'[RxPlace(k)] = stored'[Len(fetched) + 1 + k]
    OBVIOUS
  <2> HIDE DEF RxCount
  <2>1. RxPlace(k) \in R!Index /\ (RxPlace(k) = rxHead <=> k = RxCount)
    BY <1>1, RxSize DEF RxPlace
  <2>2. rxBuffer'[RxPlace(k)] = (IF k = RxCount THEN b ELSE rxBuffer[RxPlace(k)])
    BY <2>1 DEF RxInv, R!TypeOK
  <2>3. CASE k = RxCount
    BY <2>2, <2>3, <1>2
  <2>4. CASE k # RxCount
    <3>1. k \in 0 .. RxCount - 1 /\ Len(fetched) + 1 + k \in 1 .. Len(stored)
      BY <2>4, <1>1, <1>2
    <3> QED
      BY <3>1, <2>2, <2>4, <1>2 DEF RxInv, RxHolds
  <2> QED
    BY <2>3, <2>4
<1>7. fetched' = SubSeq(stored', 1, Len(fetched'))
  <2>1. Len(fetched) \in 0 .. Len(stored) /\ fetched = SubSeq(stored, 1, Len(fetched))
    BY <1>1, <1>2 DEF RxInv, RxHolds
  <2> QED
    BY <2>1, <1>2, Growing
<1>8. RxHolds'
  <2>1. RxCount' \in 0 .. N - 1
    BY <1>1, <1>3
  <2>2. rxHead' = RxPlace(RxCount)'
    BY <1>3, <1>5 DEF RxPlace, N
  <2>3. (\A k \in 0 .. RxCount - 1 : rxBuffer[RxPlace(k)] = stored[Len(fetched) + 1 + k])'
    <3> HIDE DEF RxCount
    <3> SUFFICES ASSUME NEW k \in 0 .. RxCount'  - 1
                 PROVE  (rxBuffer[RxPlace(k)] = stored[Len(fetched) + 1 + k])'
      OBVIOUS
    <3>1. k \in 0 .. RxCount /\ k \in 0 .. N - 1
      BY <1>1, <1>3
    <3> QED
      BY <3>1, <1>4, <1>6
  <2> QED
    BY <2>1, <2>2, <2>3, <1>7 DEF RxHolds, N
<1>9. R!Pipe!Next
  <2>1. R!Pipe!OnTheWay < N - 1
    BY <1>1 DEF R!Pipe!OnTheWay, RxCount
  <2> QED
    BY <2>1 DEF R!Pipe!Next, R!Pipe!Accept, N
<1> QED
  BY <1>2, <1>3, <1>8, <1>9

\* The first byte is fetched.
LEMMA FetchStep ==
  ASSUME RxInv, RxCount > 0, rxTail' = R!After(rxTail),
         fetched' = Append(fetched, stored[Len(fetched) + 1]), UNCHANGED <<rxBuffer, rxHead, stored>>
  PROVE  RxHolds' /\ R!Pipe!Next /\ fetched' \in Seq(Byte)
<1>1. /\ RxCount \in Int /\ rxTail \in Int /\ N \in Int /\ N > 1
      /\ 0 <= rxTail /\ rxTail < N /\ 0 < RxCount /\ RxCount < N
      /\ rxHead = (IF rxTail + RxCount < N THEN rxTail + RxCount ELSE rxTail + RxCount - N)
      /\ rxTail' = (IF rxTail + 1 < N THEN rxTail + 1 ELSE 0)
  BY RxSize, RxWraps DEF RxInv, R!TypeOK, RxHolds, RxPlace
<1>2. /\ stored \in Seq(Byte) /\ fetched \in Seq(Byte)
      /\ Len(stored) = Len(fetched) + RxCount
      /\ Len(stored) \in Nat /\ Len(fetched) \in Nat
      /\ stored[Len(fetched) + 1] \in Byte
  BY <1>1 DEF RxInv, R!TypeOK, RxHolds, RxCount
<1>3. fetched' \in Seq(Byte) /\ Len(fetched') = Len(fetched) + 1
  BY <1>2, Growing
<1>4. RxCount' = RxCount - 1
  BY <1>2, <1>3 DEF RxCount
<1>5. fetched' = SubSeq(stored, 1, Len(fetched) + 1)
  <2>1. fetched = SubSeq(stored, 1, Len(fetched)) /\ Len(fetched) < Len(stored)
    BY <1>1, <1>2 DEF RxInv, RxHolds
  <2> QED
    BY <2>1, <1>2, Longer
<1>6. \A k \in 0 .. RxCount - 1 : RxPlace(k)' = RxPlace(k + 1)
  <2> HIDE DEF RxCount
  <2> QED
    BY <1>1 DEF RxPlace, N
<1>7. RxHolds'
  <2>1. RxCount' \in 0 .. N - 1
    BY <1>1, <1>4
  <2>2. rxHead' = RxPlace(RxCount)'
    <3> HIDE DEF RxCount
    <3> QED
      BY <1>1, <1>4 DEF RxPlace, N
  <2>3. (\A k \in 0 .. RxCount - 1 : rxBuffer[RxPlace(k)] = stored[Len(fetched) + 1 + k])'
    <3> HIDE DEF RxCount
    <3> SUFFICES ASSUME NEW k \in 0 .. RxCount' - 1
                 PROVE  (rxBuffer[RxPlace(k)] = stored[Len(fetched) + 1 + k])'
      OBVIOUS
    <3>1. k \in 0 .. RxCount - 1 /\ k + 1 \in 0 .. RxCount - 1 /\ RxPlace(k)' = RxPlace(k + 1)
      BY <1>1, <1>4, <1>6
    <3>2. rxBuffer[RxPlace(k + 1)] = stored[Len(fetched) + 1 + (k + 1)]
      BY <3>1 DEF RxInv, RxHolds
    <3>3. Len(fetched) + 1 + (k + 1) = Len(fetched') + 1 + k
      BY <1>2, <1>3
    <3> QED
      BY <3>1, <3>2, <3>3
  <2> QED
    BY <2>1, <2>2, <2>3, <1>3, <1>5 DEF RxHolds, N
<1>8. R!Pipe!Next
  <2>1. R!Pipe!OnTheWay > 0
    BY <1>1, <1>2 DEF R!Pipe!OnTheWay
  <2> QED
    BY <2>1, <1>5 DEF R!Pipe!Next, R!Pipe!Deliver
<1> QED
  BY <1>3, <1>7, <1>8

LEMMA ArriveStep == RxInv /\ R!Arrive => RxStep
<1> SUFFICES ASSUME RxInv, R!Arrive PROVE RxStep
  OBVIOUS
<1>1. rxUDR' \in Seq([byte : Byte, UPE : BOOLEAN]) /\ Len(rxUDR') <= 2 /\ arrivals' \in 0 .. LIMIT
  <2>1. arrivals' \in 0 .. LIMIT /\ Len(rxUDR) \in Nat
    BY HUARTAssumption DEF RxInv, R!TypeOK, R!Arrive
  <2>2. CASE UNCHANGED rxUDR
    BY <2>1, <2>2 DEF RxInv, R!TypeOK
  <2>3. ASSUME NEW b \in Byte, NEW parity \in BOOLEAN,
               Len(rxUDR) < 2, rxUDR' = Append(rxUDR, [byte |-> b, UPE |-> parity])
        PROVE  rxUDR' \in Seq([byte : Byte, UPE : BOOLEAN]) /\ Len(rxUDR') <= 2
    <3>1. [byte |-> b, UPE |-> parity] \in [byte : Byte, UPE : BOOLEAN]
      OBVIOUS
    <3>2. rxUDR' \in Seq([byte : Byte, UPE : BOOLEAN]) /\ Len(rxUDR') = Len(rxUDR) + 1
      BY <2>3, <3>1, Growing DEF RxInv, R!TypeOK
    <3> QED
      BY <2>1, <2>3, <3>2
  <2> QED
    BY <2>1, <2>2, <2>3 DEF R!Arrive
<1>2. R!TypeOK'
  BY <1>1 DEF RxInv, R!TypeOK, R!Arrive, R!ring
<1>3. RxHolds' /\ RxCount' = RxCount /\ [R!Pipe!Next]_<<stored, fetched>>
  BY RxStillHolds DEF R!Arrive
<1>4. Asked'
  BY <1>3 DEF RxInv, Asked, R!Arrive
<1> QED
  BY <1>2, <1>3, <1>4 DEF RxStep, RxInv

LEMMA RXISRStep == RxInv /\ R!RXISR => RxStep
<1> SUFFICES ASSUME RxInv, R!RXISR PROVE RxStep
  OBVIOUS
<1>1. rxUDR' \in Seq([byte : Byte, UPE : BOOLEAN]) /\ Len(rxUDR') <= 2 /\ Head(rxUDR).byte \in Byte
  <2>1. \A S : rxUDR \in Seq(S) /\ rxUDR # <<>> =>
                 Head(rxUDR) \in S /\ Tail(rxUDR) \in Seq(S) /\ Len(Tail(rxUDR)) = Len(rxUDR) - 1
    OBVIOUS
  <2>2. rxUDR \in Seq([byte : Byte, UPE : BOOLEAN]) /\ rxUDR # <<>> /\ rxUDR' = Tail(rxUDR) /\ Len(rxUDR) <= 2
    BY DEF RxInv, R!TypeOK, R!RXISR
  <2>3. /\ Head(rxUDR) \in [byte : Byte, UPE : BOOLEAN]
        /\ rxUDR' \in Seq([byte : Byte, UPE : BOOLEAN]) /\ Len(rxUDR') = Len(rxUDR) - 1
    BY <2>1, <2>2, Zenon
  <2>4. Len(rxUDR') <= 2
    BY <2>2, <2>3
  <2> QED
    BY <2>3, <2>4
<1>2. CASE UNCHANGED <<rxBuffer, rxHead, stored>>
  <2>1. RxHolds' /\ RxCount' = RxCount /\ [R!Pipe!Next]_<<stored, fetched>>
    BY <1>2, RxStillHolds DEF R!RXISR, R!ring
  <2>2. R!TypeOK' /\ Asked'
    BY <1>1, <1>2, <2>1 DEF RxInv, R!TypeOK, Asked, R!RXISR
  <2> QED
    BY <2>1, <2>2 DEF RxStep, RxInv
<1>3. CASE /\ R!After(rxHead) # rxTail
           /\ rxBuffer' = [rxBuffer EXCEPT ![rxHead] = Head(rxUDR).byte]
           /\ rxHead' = R!After(rxHead)
           /\ stored' = Append(stored, Head(rxUDR).byte)
  <2>1. /\ RxHolds' /\ RxCount' = RxCount + 1 /\ R!Pipe!Next
        /\ \A i \in 1 .. Len(stored) : stored'[i] = stored[i]
    BY <1>1, <1>3, StoreStep DEF R!RXISR
  <2>2. R!TypeOK'
    BY <1>1, <1>3, RxWraps, Growing DEF RxInv, R!TypeOK, R!RXISR
  <2>3. Asked'
    <3>1. RxCount \in Nat /\ (RxCount > 0 => Len(fetched) + 1 \in 1 .. Len(stored))
      BY DEF RxInv, RxHolds, R!TypeOK, RxCount
    <3> QED
      BY <2>1, <3>1 DEF RxInv, Asked, R!RXISR
  <2> QED
    BY <2>1, <2>2, <2>3 DEF RxStep, RxInv
<1> QED
  BY <1>2, <1>3 DEF R!RXISR

LEMMA AvailableStep == RxInv /\ R!AvailableCall => RxStep
<1> SUFFICES ASSUME RxInv, R!AvailableCall PROVE RxStep
  OBVIOUS
<1>1. RxHolds' /\ RxCount' = RxCount /\ [R!Pipe!Next]_<<stored, fetched>>
  BY RxStillHolds DEF R!AvailableCall
<1>2. RxCount > 0
  <2>1. rxHead # rxTail
    <3>1. N % N = 0
      BY RxSize
    <3>2. rxTail \in Int /\ N \in Int
      BY RxSize DEF RxInv, R!TypeOK
    <3> SUFFICES ASSUME rxHead = rxTail PROVE FALSE
      OBVIOUS
    <3>3. N + rxHead - rxTail = N
      BY <3>2
    <3> QED
      BY <3>1, <3>3 DEF R!AvailableCall, R!Available, N
  <2> QED
    BY <2>1, RxEmptyOrFull DEF RxInv, RxHolds
<1>3. R!TypeOK' /\ Asked'
  BY <1>1, <1>2 DEF RxInv, R!TypeOK, Asked, R!AvailableCall, R!ring
<1> QED
  BY <1>1, <1>3 DEF RxStep, RxInv

LEMMA ReadCallStep == RxInv /\ R!ReadCall => RxStep
<1> SUFFICES ASSUME RxInv, R!ReadCall PROVE RxStep
  OBVIOUS
<1>1. RxHolds' /\ RxCount' = RxCount /\ [R!Pipe!Next]_<<stored, fetched>>
  BY RxStillHolds DEF R!ReadCall
<1>2. R!TypeOK' /\ Asked'
  BY DEF RxInv, R!TypeOK, Asked, R!ReadCall, R!ring
<1> QED
  BY <1>1, <1>2 DEF RxStep, RxInv

LEMMA ReadStep == RxInv /\ R!Read => RxStep
<1> SUFFICES ASSUME RxInv, R!Read PROVE RxStep
  OBVIOUS
<1>1. CASE R!ReadEmpty
  <2>1. RxHolds' /\ RxCount' = RxCount /\ [R!Pipe!Next]_<<stored, fetched>>
    BY <1>1, RxStillHolds DEF R!ReadEmpty
  <2>2. R!TypeOK' /\ Asked'
    BY <1>1 DEF RxInv, R!TypeOK, Asked, R!ReadEmpty, R!ring
  <2> QED
    BY <2>1, <2>2 DEF RxStep, RxInv
<1>2. CASE R!ReadFetch
  <2>1. RxHolds' /\ RxCount' = RxCount /\ [R!Pipe!Next]_<<stored, fetched>>
    BY <1>2, RxStillHolds DEF R!ReadFetch
  <2>2. RxCount > 0
    BY <1>2, RxEmptyOrFull DEF R!ReadFetch, RxInv, RxHolds
  <2>3. rxC' = stored[Len(fetched) + 1]
    <3>1. RxPlace(0) = rxTail /\ Len(fetched) + 1 + 0 = Len(fetched) + 1
      BY RxSize DEF RxPlace, RxInv, R!TypeOK
    <3>2. rxBuffer[RxPlace(0)] = stored[Len(fetched) + 1 + 0]
      BY <2>2 DEF RxInv, RxHolds
    <3> QED
      BY <1>2, <3>1, <3>2 DEF R!ReadFetch
  <2>4. R!TypeOK' /\ Asked'
    BY <1>2, <2>1, <2>2, <2>3 DEF RxInv, R!TypeOK, Asked, R!ReadFetch, R!ring
  <2> QED
    BY <2>1, <2>4 DEF RxStep, RxInv
<1>3. CASE R!ReadAdvance
  <2>1. RxCount > 0 /\ rxC = stored[Len(fetched) + 1]
    BY <1>3 DEF R!ReadAdvance, RxInv, Asked
  <2>2. RxHolds' /\ R!Pipe!Next /\ fetched' \in Seq(Byte)
    BY <1>3, <2>1, FetchStep DEF R!ReadAdvance
  <2>3. R!TypeOK' /\ Asked'
    BY <1>3, <2>2, RxWraps DEF RxInv, R!TypeOK, Asked, R!ReadAdvance
  <2> QED
    BY <2>2, <2>3 DEF RxStep, RxInv
<1> QED
  BY <1>1, <1>2, <1>3 DEF R!Read

LEMMA RxEveryStep == RxInv /\ [R!Next]_R!vars => RxStep
<1> SUFFICES ASSUME RxInv, [R!Next]_R!vars PROVE RxStep
  OBVIOUS
<1>1. CASE UNCHANGED R!vars
  <2>1. RxHolds' /\ RxCount' = RxCount /\ [R!Pipe!Next]_<<stored, fetched>>
    BY <1>1, RxStillHolds DEF R!vars
  <2>2. R!TypeOK' /\ Asked'
    BY <1>1, <2>1 DEF RxInv, R!TypeOK, Asked, R!vars, R!ring
  <2> QED
    BY <2>1, <2>2 DEF RxStep, RxInv
<1> QED
  BY <1>1, ArriveStep, RXISRStep, AvailableStep, ReadCallStep, ReadStep DEF R!Next

LEMMA RxInvariance == R!Spec => []RxInv
<1>1. R!Init => RxInv
  BY RxInitInv
<1>2. RxInv /\ [R!Next]_R!vars => RxInv'
  BY RxEveryStep DEF RxStep
<1> QED
  BY <1>1, <1>2, PTL DEF R!Spec

-----------------------------------------------------------------------------

\* The variables of the receiver keep their types.
LEMMA RxTypeCorrect == R!Spec => []R!TypeOK
<1>1. RxInv => R!TypeOK
  BY DEF RxInv
<1> QED
  BY <1>1, RxInvariance, PTL

\* A task that Available() told of a byte finds it when it calls Read().
LEMMA AvailableIsTrue == R!Spec => []R!ToldTheTruth
<1>1. RxInv => R!ToldTheTruth
  BY RxEmptyOrFull DEF RxInv, Asked, RxHolds, R!ToldTheTruth
<1> QED
  BY <1>1, RxInvariance, PTL

\* Read() returns what the interrupt stored, in order, each byte once.
LEMMA ReceiveKeepsOrder == R!Spec => R!ReceiveInOrder
<1>1. R!Init => R!Pipe!Init
  BY RxInitInv
<1>2. RxInv /\ [R!Next]_R!vars => [R!Pipe!Next]_<<stored, fetched>>
  BY RxEveryStep DEF RxStep
<1> QED
  BY <1>1, <1>2, RxInvariance, PTL DEF R!Spec, R!ReceiveInOrder, R!Pipe!Spec

-----------------------------------------------------------------------------
(* Both halves, in the behaviours of MCSerial.                              *)

\* A step of MCSerial is a step of one half, or a stutter of both.
LEMMA Halves == MCSpec => Spec /\ R!Spec
<1>1. MCInit => Init /\ R!Init
  BY DEF MCInit
<1>2. [MCNext]_<<part, vars, rvars, avars>> => [Next]_vars /\ [R!Next]_R!vars
  BY DEF MCNext, Transmit, Receive, Keys, rvars, R!vars, R!ring
<1> QED
  BY <1>1, <1>2, PTL DEF MCSpec, Spec, R!Spec

\* The variables of both halves keep their types, the indexes of the rings among them.
THEOREM TypesCorrect == MCSpec => []BothTypesOK
<1>1. TypeOK /\ R!TypeOK => BothTypesOK
  BY DEF BothTypesOK
<1> QED
  BY <1>1, Halves, TypeCorrect, RxTypeCorrect, PTL

\* A task that Available() told of a byte finds it when it calls Read().
THEOREM AskedAndFound == MCSpec => []ToldTheTruth
<1>1. R!ToldTheTruth => ToldTheTruth
  BY DEF ToldTheTruth
<1> QED
  BY <1>1, Halves, AvailableIsTrue, PTL

\* Read() returns what the interrupt stored, in order, each byte once.
THEOREM BytesInOrder == MCSpec => ReceiveInOrder
BY Halves, ReceiveKeepsOrder, PTL DEF ReceiveInOrder
=============================================================================
