------------------------- MODULE TWControllerProofs -------------------------
(* The two-wire interrupt is quiet between two transactions, and what the    *)
(* calls return is what happened on the bus, for any buffer, addresses and   *)
(* bytes, and any number of transactions and disturbances.                   *)
EXTENDS TWController, TLAPS

\* No interrupt is pending nor will be, and bInRepStart tells of the bus.
Quiet ==
  /\ ~(TWINT /\ TWIE)
  /\ ~bInRepStart => bus = "free" /\ command = "none"
  /\ bInRepStart => ~TWIE

\* What unState is until the interrupt has ended the transaction.
Busy == IF unSlarw.read THEN "MRX" ELSE "MTX"

\* The hardware reports once its command is over; a lost arbitration frees the
\* bus; and the interrupt makes the controller ready only when all is quiet.
Inv ==
  /\ bInRepStart \in BOOLEAN /\ TWINT \in BOOLEAN /\ TWIE \in BOOLEAN
  /\ pc \in {"idle", "filling", "start", "command", "wait"}
  /\ TWINT => command = "none"
  /\ TWINT /\ TWSTATUS = "ARB_LOST" => bus = "free"
  /\ pc \in {"idle", "filling"} => unState = "READY"
  /\ pc = "start" => unState = Busy
  /\ pc = "command" => unState = Busy /\ ~bInRepStart /\ ~TWIE
  /\ pc = "wait" => unState \in {"READY", Busy}
  /\ pc \notin {"command", "wait"} \/ unState = "READY" => Quiet
  /\ pc = "wait" /\ unState # "READY" => ~bInRepStart

LEMMA InitInv == Init => Inv
BY DEF Init, Inv, Quiet, Busy, NoSla

\* The calls, up to the one that starts the transaction.
LEMMA PrepareInv ==
  ASSUME Inv,
         \/ \E a \in Address : BeginTransmission(a)
         \/ \E b \in Byte : Write(b)
         \/ \E stop \in BOOLEAN : EndTransmission(stop)
         \/ \E a \in Address, n \in 1 .. TW_BUFFER_LENGTH, stop \in BOOLEAN : ReadFrom(a, n, stop)
         \/ ReadByte
  PROVE  Inv'
<1> USE DEF Inv, Quiet, Busy
<1>1. ASSUME NEW a \in Address, BeginTransmission(a) PROVE Inv'
  BY <1>1 DEF BeginTransmission, isr, twi
<1>2. ASSUME NEW b \in Byte, Write(b) PROVE Inv'
  BY <1>2 DEF Write, isr, twi
<1>3. ASSUME NEW stop \in BOOLEAN, EndTransmission(stop) PROVE Inv'
  BY <1>3 DEF EndTransmission, Prepare
<1>4. ASSUME NEW a \in Address, NEW n \in 1 .. TW_BUFFER_LENGTH, NEW stop \in BOOLEAN,
             ReadFrom(a, n, stop)
      PROVE  Inv'
  BY <1>4 DEF ReadFrom, Prepare
<1>5. CASE ReadByte
  BY <1>5 DEF ReadByte, isr, twi
<1> QED
  BY <1>1, <1>2, <1>3, <1>4, <1>5

\* The task starts the transaction, and returns when the controller is ready.
LEMMA TaskInv == Inv /\ (Start \/ LoadAddress \/ SendLoaded \/ EndReturn \/ ReadReturn) => Inv'
<1> SUFFICES ASSUME Inv, Start \/ LoadAddress \/ SendLoaded \/ EndReturn \/ ReadReturn PROVE Inv'
  OBVIOUS
<1> USE DEF Inv, Quiet, Busy
<1>1. CASE Start
  BY <1>1 DEF Start, TWCR, Begins
<1>4. CASE LoadAddress
  BY <1>4 DEF LoadAddress, Begins
<1>5. CASE SendLoaded
  BY <1>5 DEF SendLoaded, TWCR, Begins
<1>2. CASE EndReturn
  BY <1>2 DEF EndReturn, isr, twi
<1>3. CASE ReadReturn
  BY <1>3 DEF ReadReturn, isr, twi
<1> QED
  BY <1>1, <1>2, <1>3, <1>4, <1>5

\* The interrupt only falls into a transaction under way, and ends it with a
\* STOP, or with a START whose own interrupt is masked.
LEMMA ISRInv == Inv /\ ISR => Inv'
<1> SUFFICES ASSUME Inv, ISR PROVE Inv'
  OBVIOUS
<1>1. /\ TWINT /\ TWIE /\ pc = "wait" /\ unState = Busy /\ unState # "READY" /\ ~bInRepStart
      /\ UNCHANGED <<pc, TWSTATUS>>
  BY DEF ISR, Started, TransmitNext, Refused, ArbitrationLost, ReceiveNext, ReceiveLast,
         ReceiveRefused, Status, Inv, Quiet, Busy, task
<1>2. ASSUME unState' = unState, unSlarw' = unSlarw, bInRepStart' = bInRepStart,
             ~TWINT', TWINT' \in BOOLEAN, TWIE' \in BOOLEAN
      PROVE  Inv'
  BY <1>1, <1>2 DEF Inv, Busy
<1>3. ASSUME unState' = "READY", unSlarw' = unSlarw, ~TWINT', TWINT' \in BOOLEAN,
             \/ bInRepStart' = bInRepStart /\ bus' = "free" /\ command' = "none" /\ TWIE' = TRUE
             \/ bInRepStart' = TRUE /\ TWIE' = FALSE
      PROVE  Inv'
  <2>1. Quiet' /\ bInRepStart' \in BOOLEAN /\ TWIE' \in BOOLEAN
    <3>1. CASE bInRepStart' = bInRepStart /\ bus' = "free" /\ command' = "none" /\ TWIE' = TRUE
      BY <1>1, <1>3, <3>1 DEF Quiet, Inv
    <3>2. CASE bInRepStart' = TRUE /\ TWIE' = FALSE
      BY <1>3, <3>2 DEF Quiet
    <3> QED
      BY <1>3, <3>1, <3>2
  <2>2. pc' = "wait"
    BY <1>1
  <2> QED
    BY <1>3, <2>1, <2>2 DEF Inv
<1>4. CASE Started
  BY <1>2, <1>4 DEF Started, TWCR, isr
<1>5. CASE TransmitNext
  BY <1>2, <1>3, <1>5 DEF TransmitNext, LeaveBus, Stop, TWCR
<1>6. CASE Refused
  BY <1>3, <1>6 DEF Refused, Stop, TWCR
<1>7. CASE ArbitrationLost
  <2>1. bus = "free"
    BY <1>7 DEF ArbitrationLost, Status, Inv
  <2> QED
    BY <1>3, <1>7, <2>1 DEF ArbitrationLost, TWCR
<1>8. CASE ReceiveNext
  BY <1>2, <1>8 DEF ReceiveNext, TWCR
<1>9. CASE ReceiveLast
  BY <1>3, <1>9 DEF ReceiveLast, LeaveBus, Stop, TWCR
<1>10. CASE ReceiveRefused
  BY <1>3, <1>10 DEF ReceiveRefused, Stop, TWCR
<1> QED
  BY <1>4, <1>5, <1>6, <1>7, <1>8, <1>9, <1>10 DEF ISR

\* The hardware has a command only in a transaction, or for the START between
\* two of them.
LEMMA HardwareInv == Inv /\ (Hardware \/ Disturbed) => Inv'
<1> SUFFICES ASSUME Inv, Hardware \/ Disturbed PROVE Inv'
  OBVIOUS
<1>1. ASSUME NEW status, Report(status), command # "none",
             status = "ARB_LOST" => bus' = "free"
      PROVE  Inv'
  BY <1>1 DEF Report, isr, task, Inv, Quiet, Busy
<1>2. CASE SendStart
  BY <1>1, <1>2 DEF SendStart
<1>3. CASE SendAddress
  BY <1>1, <1>3 DEF SendAddress
<1>4. CASE SendByte
  BY <1>1, <1>4 DEF SendByte
<1>5. CASE ReceiveByte
  BY <1>1, <1>5 DEF ReceiveByte
<1>6. CASE Disturbed
  BY <1>1, <1>6 DEF Disturbed
<1> QED
  BY <1>2, <1>3, <1>4, <1>5, <1>6 DEF Hardware

LEMMA NextInv == Inv /\ [Next]_vars => Inv'
<1> SUFFICES ASSUME Inv, [Next]_vars PROVE Inv'
  OBVIOUS
<1>1. CASE UNCHANGED vars
  BY <1>1 DEF vars, isr, task, twi, Inv, Quiet, Busy
<1> QED
  BY <1>1, PrepareInv, TaskInv, ISRInv, HardwareInv DEF Next

\* No interrupt falls into the preparation of a transaction, and bInRepStart
\* tells the task what the interrupt has left of the bus.
THEOREM QuietBetween == Spec => []BetweenTransactions
<1>1. Inv => BetweenTransactions
  BY DEF Inv, Quiet, BetweenTransactions
<1> QED
  BY <1>1, InitInv, NextInv, PTL DEF Spec

-----------------------------------------------------------------------------
(* What a call returns.  The slave has taken, or given, what done tells; the *)
(* interrupt and the hardware keep it in step with index.                    *)

\* done once the slave has answered to its address and k bytes have passed.
Passed(k) == <<unSlarw.address>> \o SubSeq(masterBuffer, 1, k)

\* Nothing has passed yet.
Begun == index = 0 /\ done = <<>>

Typed ==
  /\ TypeOK
  /\ unSlarw \in [address : Address \cup {Nothing}, read : BOOLEAN]
  /\ txAddress \in Address \cup {Nothing}

\* The transaction prepared is the one that was asked for; what is in the buffer
\* of a transmission is what is to be sent, unless its address was not written.
Prepared ==
  pc \in {"start", "command", "wait"} =>
    /\ ~unSlarw.read => unSlarw.address = txAddress /\ length = Len(tx)
    /\ ~unSlarw.read /\ (~blind \/ pc # "wait") => masterBuffer = tx
    /\ unSlarw.read  => asked \in 1 .. TW_BUFFER_LENGTH /\ length = asked - 1 /\ Len(masterBuffer) = index
    /\ index <= Len(masterBuffer)
    /\ pc # "wait" => Begun /\ unError = "NO_ERROR"

\* A repeated START is followed by no other command of the interrupt.
Repeated ==
  bInRepStart \/ pc = "command" => command = "start" \/ (command = "none" /\ bus \in {"held", "free"})

\* The hardware executes a command.
Executing ==
  /\ command = "start" => Begun
  /\ command = "byte" =>
       \/ bus \in {"held", "free"} /\ Begun /\ TWDR = unSlarw
       \/ /\ bus = "write" /\ ~unSlarw.read
          /\ index \in 1 .. length /\ TWDR = masterBuffer[index] /\ done = Passed(index - 1)
  /\ command \in {"ack", "nack"} =>
       /\ bus = "read" /\ unSlarw.read /\ done = Passed(index)
       /\ IF command = "ack" THEN index < length ELSE index = length

\* The hardware has reported.
Reported ==
  TWINT =>
    /\ TWSTATUS \in {"START", "REP_START"} => Begun /\ bus = "held"
    /\ TWSTATUS \in {"MT_SLA_ACK", "MT_DATA_ACK"} =>
         bus = "write" /\ ~unSlarw.read /\ index <= length /\ done = Passed(index)
    /\ TWSTATUS = "MT_SLA_NACK" => ~unSlarw.read /\ Begun
    /\ TWSTATUS = "MT_DATA_NACK" => ~unSlarw.read /\ index \in 1 .. length /\ done = Passed(index - 1)
    /\ TWSTATUS = "MR_SLA_NACK" => unSlarw.read /\ Begun
    /\ TWSTATUS = "MR_SLA_ACK" => bus = "read" /\ unSlarw.read /\ index = 0 /\ done = Passed(0)
    /\ TWSTATUS \in {"MR_DATA_ACK", "MR_DATA_NACK"} =>
         /\ bus = "read" /\ unSlarw.read /\ TWDR \in Byte /\ done = Append(Passed(index), TWDR)
         /\ IF TWSTATUS = "MR_DATA_ACK" THEN index < length ELSE index = length
    /\ TWSTATUS \in {"BUS_ERROR", "ARB_LOST"} =>
         IF unSlarw.read THEN Begun \/ (done = Passed(index) /\ index <= length) ELSE Len(done) <= length

\* The transaction is over, and unError tells how.
Told ==
  IF unSlarw.read
  THEN /\ Begun \/ done = Passed(index)
       /\ index <= asked
       /\ index < asked => done = <<>> \/ unError # "NO_ERROR"
  ELSE /\ unError = "NO_ERROR" => done = Passed(length)
       /\ unError # "NO_ERROR" => Len(done) <= length
       /\ unError = "MT_SLA_NACK" => done = <<>>
       /\ unError = "MT_DATA_NACK" => done # <<>>

\* The address was sent: everything is in step with the transaction.
Exact ==
  /\ pc = "command" => TWDR = unSlarw
  /\ pc = "wait" /\ unState # "READY" => unError = "NO_ERROR" /\ Executing /\ Reported
  /\ pc = "wait" /\ unState = "READY" => Told

\* Another one was: the interrupt still counts the bytes, whichever way they go.
Loose ==
  pc = "wait" /\ unState # "READY" =>
    /\ index <= length
    /\ command = "ack" => index < length
    /\ TWINT /\ TWSTATUS = "MR_DATA_ACK" => index < length
    /\ TWINT /\ TWSTATUS \in {"MR_DATA_ACK", "MR_DATA_NACK"} => TWDR \in Byte

Honest ==
  /\ Typed /\ Prepared /\ Repeated
  /\ ~blind => Exact
  /\ blind => Loose

\* A byte behind a sequence with an address before it.
LEMMA Prefixed ==
  ASSUME NEW T, NEW a, NEW s \in Seq(T)
  PROVE  /\ Len(<<a>> \o s) = Len(s) + 1
         /\ SubSeq(s, 1, Len(s)) = s
         /\ \A b \in T : /\ Append(<<a>> \o s, b) = <<a>> \o Append(s, b)
                         /\ Append(s, b) \in Seq(T) /\ Len(Append(s, b)) = Len(s) + 1
<1> DEFINE S == T \cup {a}
<1>1. <<a>> \in Seq(S) /\ s \in Seq(S) /\ T \subseteq S
  OBVIOUS
<1> HIDE DEF S
<1>2. Len(<<a>> \o s) = Len(s) + 1
  BY <1>1
<1>3. \A b \in S : Append(<<a>> \o s, b) = <<a>> \o Append(s, b)
  BY <1>1
<1> QED
  BY <1>1, <1>2, <1>3

\* What Passed is, and how it grows.
LEMMA Passing ==
  ASSUME Typed
  PROVE  /\ Passed(0) = <<unSlarw.address>>
         /\ Passed(Len(masterBuffer)) = <<unSlarw.address>> \o masterBuffer
         /\ \A k \in 1 .. Len(masterBuffer) : Append(Passed(k - 1), masterBuffer[k]) = Passed(k)
         /\ \A k \in 0 .. Len(masterBuffer) : Len(Passed(k)) = k + 1 /\ Passed(k) # <<>>
<1> DEFINE a == unSlarw.address
           mb == masterBuffer
<1>1. mb \in Seq(Byte) /\ Len(mb) \in Nat
  BY DEF Typed, TypeOK
<1>2. \A s \in Seq(Byte) : /\ Len(<<a>> \o s) = Len(s) + 1
                           /\ \A b \in Byte : Append(<<a>> \o s, b) = <<a>> \o Append(s, b)
  BY Prefixed
<1>3. SubSeq(mb, 1, 0) = <<>> /\ SubSeq(mb, 1, Len(mb)) = mb
  BY <1>1
<1>4. \A k \in 1 .. Len(mb) : /\ Append(SubSeq(mb, 1, k - 1), mb[k]) = SubSeq(mb, 1, k)
                              /\ mb[k] \in Byte /\ SubSeq(mb, 1, k - 1) \in Seq(Byte)
  BY <1>1
<1>5. \A k \in 0 .. Len(mb) : SubSeq(mb, 1, k) \in Seq(Byte) /\ Len(SubSeq(mb, 1, k)) = k
  BY <1>1
<1>6. <<a>> \o <<>> = <<a>>
  OBVIOUS
<1>7. Passed(0) = <<a>> /\ Passed(Len(mb)) = <<a>> \o mb
  BY <1>3, <1>6 DEF Passed
<1>8. ASSUME NEW k \in 1 .. Len(mb) PROVE Append(Passed(k - 1), mb[k]) = Passed(k)
  BY <1>2, <1>4 DEF Passed
<1>9. ASSUME NEW k \in 0 .. Len(mb) PROVE Len(Passed(k)) = k + 1 /\ Passed(k) # <<>>
  <2>1. Len(Passed(k)) = k + 1
    BY <1>2, <1>5 DEF Passed
  <2>2. Len(<<>>) = 0
    OBVIOUS
  <2> QED
    BY <2>1, <2>2
<1> QED
  BY <1>7, <1>8, <1>9

LEMMA Unpassed ==
  ASSUME UNCHANGED <<unSlarw, masterBuffer, index, done>>
  PROVE  Begun' = Begun /\ \A k : Passed(k)' = Passed(k)
BY DEF Begun, Passed

\* The hardware sends or receives only inside a transaction, and the interrupt
\* is only taken there.
LEMMA OnlyWithin ==
  ASSUME Inv, Honest, command \in {"byte", "ack", "nack"} \/ (TWINT /\ TWIE)
  PROVE  /\ pc = "wait" /\ unState = Busy /\ unState # "READY" /\ ~bInRepStart
         /\ ~blind => unError = "NO_ERROR" /\ Executing /\ Reported
BY DEF Inv, Quiet, Busy, Honest, Repeated, Exact

LEMMA HonestInit == Init => Honest
<1> SUFFICES ASSUME Init PROVE Honest
  OBVIOUS
<1>1. Typed
  <2>1. <<>> \in Seq(Byte) /\ Len(<<>>) = 0
    OBVIOUS
  <2>2. /\ masterBuffer \in Seq(Byte) /\ Len(masterBuffer) = 0
        /\ tx \in Seq(Byte) /\ Len(tx) = 0 /\ rx \in Seq(Byte) /\ Len(rx) = 0
    BY <2>1, Zenon DEF Init
  <2>3. TW_BUFFER_LENGTH \in Nat
    BY TWAssumption
  <2>4. unSlarw \in [address : Address \cup {Nothing}, read : BOOLEAN]
    BY DEF Init, NoSla
  <2>5. /\ unState = "READY" /\ bSendStop = TRUE /\ bInRepStart = FALSE /\ index = 0 /\ length = 0
        /\ pc = "idle" /\ command = "none" /\ TWIE = TRUE /\ TWINT = FALSE /\ bus = "free"
        /\ txAddress = Nothing /\ blind = FALSE
    BY DEF Init
  <2>6. /\ index \in 0 .. TW_BUFFER_LENGTH /\ length \in 0 .. TW_BUFFER_LENGTH
        /\ Len(masterBuffer) <= TW_BUFFER_LENGTH /\ Len(tx) <= TW_BUFFER_LENGTH /\ Len(rx) <= TW_BUFFER_LENGTH
        /\ index \in 0 .. TW_BUFFER_LENGTH + 1 /\ Len(masterBuffer) <= TW_BUFFER_LENGTH + 1
    BY <2>2, <2>3, <2>5
  <2> QED
    BY <2>2, <2>4, <2>5, <2>6 DEF Typed, TypeOK
<1> QED
  BY <1>1 DEF Init, Honest, Prepared, Repeated, Exact

-----------------------------------------------------------------------------
(* The calls.                                                               *)

LEMMA PrepareHonest ==
  ASSUME Inv, Honest,
         \/ \E a \in Address : BeginTransmission(a)
         \/ \E b \in Byte : Write(b)
         \/ \E stop \in BOOLEAN : EndTransmission(stop)
         \/ \E a \in Address, n \in 1 .. TW_BUFFER_LENGTH, stop \in BOOLEAN : ReadFrom(a, n, stop)
         \/ ReadByte
  PROVE  Honest'
<1> USE DEF Honest, Exact, Loose
<1>1. \A S, s : s \in Seq(S) => Len(s) \in Nat
  OBVIOUS
<1>2. <<>> \in Seq(Byte) /\ Len(<<>>) = 0 /\ TW_BUFFER_LENGTH \in Nat /\ TW_BUFFER_LENGTH > 0
  BY TWAssumption
<1>3. ASSUME NEW a \in Address, BeginTransmission(a) PROVE Honest'
  <2>1. Typed'
    BY <1>2, <1>3 DEF BeginTransmission, isr, twi, Typed, TypeOK
  <2> QED
    BY <1>3, <2>1 DEF BeginTransmission, isr, twi, Prepared, Repeated
<1>4. ASSUME NEW b \in Byte, Write(b) PROVE Honest'
  <2>1. tx' \in Seq(Byte) /\ Len(tx') <= TW_BUFFER_LENGTH
    <3>1. tx \in Seq(Byte) /\ Len(tx) < TW_BUFFER_LENGTH /\ tx' = Append(tx, b)
      BY <1>4 DEF Write, Typed, TypeOK
    <3> QED
      BY <1>2, <3>1
  <2>2. Typed'
    BY <1>4, <2>1 DEF Write, isr, twi, Typed, TypeOK
  <2> QED
    BY <1>4, <2>2 DEF Write, isr, twi, Prepared, Repeated
<1>5. ASSUME NEW stop \in BOOLEAN, EndTransmission(stop) PROVE Honest'
  <2>1. /\ pc' = "start" /\ unSlarw' = [address |-> txAddress, read |-> FALSE] /\ unState' = "MTX"
        /\ masterBuffer' = tx /\ length' = Len(tx) /\ index' = 0 /\ done' = <<>> /\ unError' = "NO_ERROR"
        /\ bSendStop' = stop /\ blind' = FALSE /\ pc = "filling"
        /\ UNCHANGED <<bInRepStart, txAddress, tx, rx, command, TWIE, TWINT, bus>>
    BY <1>5 DEF EndTransmission, Prepare
  <2>2. unSlarw' \in [address : Address \cup {Nothing}, read : BOOLEAN]
        /\ unSlarw'.address = txAddress /\ unSlarw'.read = FALSE
    BY <2>1 DEF Typed
  <2>3. Len(tx) \in Nat
    BY <1>1 DEF Typed, TypeOK
  <2>6. /\ Len(masterBuffer') <= TW_BUFFER_LENGTH /\ Len(masterBuffer') <= TW_BUFFER_LENGTH + 1
        /\ 0 \in 0 .. TW_BUFFER_LENGTH + 1 /\ 0 <= TW_BUFFER_LENGTH /\ length' \in 0 .. TW_BUFFER_LENGTH
    BY <1>2, <2>1, <2>3 DEF Typed, TypeOK
  <2>4. Typed'
    BY <1>2, <2>1, <2>2, <2>3, <2>6 DEF Typed, TypeOK
  <2>5. Prepared' /\ Repeated'
    BY <2>1, <2>2, <2>3 DEF Prepared, Repeated, Begun
  <2> QED
    BY <2>1, <2>4, <2>5
<1>6. ASSUME NEW a \in Address, NEW n \in 1 .. TW_BUFFER_LENGTH, NEW stop \in BOOLEAN,
             ReadFrom(a, n, stop)
      PROVE  Honest'
  <2>1. /\ pc' = "start" /\ unSlarw' = [address |-> a, read |-> TRUE] /\ unState' = "MRX"
        /\ masterBuffer' = <<>> /\ length' = n - 1 /\ asked' = n
        /\ index' = 0 /\ done' = <<>> /\ unError' = "NO_ERROR" /\ bSendStop' = stop
        /\ blind' = FALSE /\ pc = "idle"
        /\ UNCHANGED <<bInRepStart, txAddress, tx, rx, command, TWIE, TWINT, bus>>
    BY <1>6 DEF ReadFrom, Prepare
  <2>2. unSlarw' \in [address : Address \cup {Nothing}, read : BOOLEAN] /\ unSlarw'.read = TRUE
    BY <2>1
  <2>3. masterBuffer' \in Seq(Byte) /\ Len(masterBuffer') = 0
    BY <1>2, <2>1, Zenon
  <2>6. /\ Len(masterBuffer') <= TW_BUFFER_LENGTH /\ Len(masterBuffer') <= TW_BUFFER_LENGTH + 1
        /\ 0 \in 0 .. TW_BUFFER_LENGTH + 1 /\ 0 <= TW_BUFFER_LENGTH /\ length' \in 0 .. TW_BUFFER_LENGTH
    BY <1>2, <2>1, <2>3 DEF Typed, TypeOK
  <2>4. Typed'
    BY <1>2, <2>1, <2>2, <2>3, <2>6 DEF Typed, TypeOK
  <2>5. Prepared' /\ Repeated'
    BY <2>1, <2>2, <2>3 DEF Prepared, Repeated, Begun
  <2> QED
    BY <2>1, <2>4, <2>5
<1>7. CASE ReadByte
  <2>1. rx' \in Seq(Byte) /\ Len(rx') <= TW_BUFFER_LENGTH
    <3>1. rx \in Seq(Byte) /\ rx # <<>> /\ rx' = Tail(rx) /\ Len(rx) <= TW_BUFFER_LENGTH
      BY <1>7 DEF ReadByte, Typed, TypeOK
    <3> QED
      BY <1>2, <3>1
  <2>2. Typed'
    BY <1>7, <2>1 DEF ReadByte, isr, twi, Typed, TypeOK
  <2> QED
    BY <1>7, <2>2 DEF ReadByte, isr, twi, Prepared, Repeated
<1> QED
  BY <1>3, <1>4, <1>5, <1>6, <1>7

LEMMA TaskHonest ==
  Inv /\ Honest /\ (Start \/ LoadAddress \/ SendLoaded \/ EndReturn \/ ReadReturn) => Honest'
<1> SUFFICES ASSUME Inv, Honest, Start \/ LoadAddress \/ SendLoaded \/ EndReturn \/ ReadReturn PROVE Honest'
  OBVIOUS
<1> USE DEF Honest
<1>1. ASSUME pc \in {"start", "command"}, pc' \in {"command", "wait"}, TWINT' \in BOOLEAN, TWIE' \in BOOLEAN,
             bInRepStart' = FALSE, blind' \in BOOLEAN,
             command' \in {"none", "start", "byte", "ack", "nack"}, Begins
      PROVE  /\ Typed' /\ Prepared' /\ Begun' /\ unError' = "NO_ERROR" /\ unState' # "READY"
             /\ index' <= length'
  <2>1. UNCHANGED <<unState, bSendStop, unError, unSlarw, masterBuffer, index, length,
                    txAddress, tx, rx, asked, bus, done>>
    BY <1>1 DEF Begins
  <2>2. unState # "READY"
    BY <1>1 DEF Inv, Busy
  <2>3. Begun /\ unError = "NO_ERROR" /\ index = 0
    BY <1>1 DEF Prepared, Begun
  <2>4. Len(masterBuffer) <= TW_BUFFER_LENGTH /\ index <= TW_BUFFER_LENGTH /\ length \in Nat
    BY <1>1, <2>3, TWAssumption DEF Prepared, Typed, TypeOK
  <2>5. Typed'
    BY <1>1, <2>1, <2>4 DEF Typed, TypeOK
  <2>6. Prepared'
    BY <1>1, <2>1, <2>3 DEF Prepared, Begun
  <2> QED
    BY <2>1, <2>2, <2>3, <2>4, <2>5, <2>6 DEF Begun
<1>4. CASE Start
  <2>1. /\ pc = "start" /\ pc' = "wait" /\ bInRepStart' = FALSE /\ TWINT' = FALSE /\ TWIE' = TRUE
        /\ command' = "start" /\ UNCHANGED <<TWDR, blind>> /\ Begins
    BY <1>4 DEF Start, TWCR, Inv
  <2>2. Typed' /\ Prepared' /\ Begun' /\ unError' = "NO_ERROR" /\ unState' # "READY" /\ index' <= length'
    BY <1>1, <2>1 DEF Typed, TypeOK
  <2> QED
    BY <2>1, <2>2 DEF Repeated, Exact, Loose, Executing, Reported
<1>5. CASE LoadAddress
  <2>1. /\ pc = "start" /\ pc' = "command" /\ bInRepStart' = FALSE /\ Begins
        /\ UNCHANGED <<command, TWIE, TWINT, bus, unSlarw>> /\ blind' \in BOOLEAN
        /\ ~blind' => TWDR' = unSlarw
        /\ bInRepStart
    BY <1>5 DEF LoadAddress, Begins, Typed, TypeOK
  <2>2. Typed' /\ Prepared'
    BY <1>1, <2>1 DEF Typed, TypeOK
  <2>3. Repeated'
    BY <2>1 DEF Repeated
  <2> QED
    BY <2>1, <2>2, <2>3 DEF Exact, Loose
<1>6. CASE SendLoaded
  <2>1. /\ pc = "command" /\ pc' = "wait" /\ bInRepStart' = FALSE /\ TWINT' = FALSE /\ TWIE' = TRUE
        /\ blind' \in BOOLEAN /\ Begins /\ UNCHANGED <<bus, unSlarw>>
        /\ \/ command' = "start"
           \/ command' = "byte" /\ blind' = blind /\ (~blind => TWDR' = TWDR) /\ command = "none"
    BY <1>6 DEF SendLoaded, TWCR, Begins, Inv, Typed, TypeOK
  <2>2. Typed' /\ Prepared' /\ Begun' /\ unError' = "NO_ERROR" /\ unState' # "READY" /\ index' <= length'
    BY <1>1, <2>1
  <2>3. CASE command' = "start"
    BY <2>1, <2>2, <2>3 DEF Repeated, Exact, Loose, Executing, Reported
  <2>4. CASE command' = "byte" /\ blind' = blind /\ (~blind => TWDR' = TWDR) /\ command = "none"
    <3>1. bus' \in {"held", "free"}
      BY <2>1, <2>4 DEF Repeated
    <3>2. ~blind => TWDR' = unSlarw'
      BY <2>1, <2>4 DEF Exact
    <3> QED
      BY <2>1, <2>2, <2>4, <3>1, <3>2 DEF Repeated, Exact, Loose, Executing, Reported
  <2> QED
    BY <2>1, <2>3, <2>4
<1>2. CASE EndReturn
  <2>1. tx' \in Seq(Byte) /\ Len(tx') <= TW_BUFFER_LENGTH
    <3>1. <<>> \in Seq(Byte) /\ Len(<<>>) = 0 /\ TW_BUFFER_LENGTH \in Nat
      BY TWAssumption
    <3> QED
      BY <1>2, <3>1 DEF EndReturn
  <2>2. Typed'
    BY <1>2, <2>1 DEF EndReturn, isr, twi, Typed, TypeOK
  <2> QED
    BY <1>2, <2>2 DEF EndReturn, isr, twi, Prepared, Repeated, Exact, Loose
<1>3. CASE ReadReturn
  <2>1. rx' \in Seq(Byte) /\ Len(rx') <= TW_BUFFER_LENGTH
    <3>1. /\ masterBuffer \in Seq(Byte) /\ Len(masterBuffer) \in Nat
          /\ index \in Nat /\ index <= Len(masterBuffer) /\ asked \in Nat /\ TW_BUFFER_LENGTH \in Nat
      BY <1>3, TWAssumption DEF ReadReturn, Typed, TypeOK, Prepared
    <3>2. result' \in 0 .. Len(masterBuffer) /\ rx' = SubSeq(masterBuffer, 1, result')
      BY <1>3, <3>1 DEF ReadReturn
    <3>3. \A k \in 0 .. Len(masterBuffer) :
            SubSeq(masterBuffer, 1, k) \in Seq(Byte) /\ Len(SubSeq(masterBuffer, 1, k)) = k
      BY <3>1
    <3>4. rx' \in Seq(Byte) /\ Len(rx') = result'
      BY <3>2, <3>3
    <3>5. result' <= TW_BUFFER_LENGTH
      <4>1. asked <= TW_BUFFER_LENGTH
        BY <1>3 DEF ReadReturn, Prepared
      <4> QED
        BY <1>3, <3>1, <4>1 DEF ReadReturn
    <3> QED
      BY <3>4, <3>5
  <2>2. Typed'
    BY <1>3, <2>1 DEF ReadReturn, isr, twi, Typed, TypeOK
  <2> QED
    BY <1>3, <2>2 DEF ReadReturn, isr, twi, Prepared, Repeated, Exact, Loose
<1> QED
  BY <1>2, <1>3, <1>4, <1>5, <1>6

-----------------------------------------------------------------------------
(* The interrupt.                                                           *)

\* What every branch of it leaves alone, and what a branch has to show: that
\* the hardware has a command that fits, or that unError tells the truth.
LEMMA ISRLeaves == ISR => UNCHANGED <<txAddress, tx, rx, pc, asked, done, blind, unSlarw, length, bSendStop>>
BY DEF ISR, Started, TransmitNext, Refused, ArbitrationLost, ReceiveNext, ReceiveLast, ReceiveRefused,
       task, isr

LEMMA GoesOn ==
  ASSUME Inv, Honest, ISR, ~blind, Typed', Prepared', ~TWINT', UNCHANGED <<unState, bInRepStart, unError>>, Executing'
  PROVE  Honest'
<1>1. TWINT /\ TWIE /\ pc' = pc
  BY ISRLeaves DEF ISR, Started, TransmitNext, Refused, ArbitrationLost, ReceiveNext, ReceiveLast,
     ReceiveRefused, Status
<1> QED
  BY <1>1, OnlyWithin, ISRLeaves DEF Honest, Exact, Repeated, Reported

LEMMA Ends ==
  ASSUME Inv, Honest, ISR, ~blind, Typed', Prepared', unState' = "READY", Told',
         (UNCHANGED bInRepStart /\ command' = "none") \/ command' = "start"
  PROVE  Honest'
<1>1. TWINT /\ TWIE /\ pc' = pc
  BY ISRLeaves DEF ISR, Started, TransmitNext, Refused, ArbitrationLost, ReceiveNext, ReceiveLast,
     ReceiveRefused, Status
<1> QED
  BY <1>1, OnlyWithin, ISRLeaves DEF Honest, Exact, Repeated

\* The slave that answers was not asked for: only the count of the bytes is kept.
LEMMA ISRLoose == Inv /\ Honest /\ ISR /\ blind => Honest'
<1> SUFFICES ASSUME Inv, Honest, ISR, blind PROVE Honest'
  OBVIOUS
<1>1. /\ TWINT /\ TWIE /\ pc = "wait" /\ unState # "READY" /\ ~bInRepStart
      /\ Typed /\ Prepared /\ Loose
      /\ UNCHANGED <<txAddress, tx, rx, pc, asked, done, blind, unSlarw, length, bSendStop>>
  <2>1. TWINT /\ TWIE
    BY DEF ISR, Started, TransmitNext, Refused, ArbitrationLost, ReceiveNext, ReceiveLast,
           ReceiveRefused, Status
  <2> QED
    BY <2>1, OnlyWithin, ISRLeaves DEF Honest
<1>2. /\ masterBuffer \in Seq(Byte) /\ Len(masterBuffer) \in Nat /\ Len(masterBuffer) <= TW_BUFFER_LENGTH + 1
      /\ index \in Nat /\ length \in Nat /\ length <= TW_BUFFER_LENGTH /\ index <= Len(masterBuffer)
      /\ index <= length /\ TW_BUFFER_LENGTH \in Nat
      /\ unSlarw.read => Len(masterBuffer) = index
  BY <1>1, TWAssumption DEF Typed, TypeOK, Prepared, Loose
<1>3. unState \in {"READY", "MTX", "MRX"} /\ bInRepStart \in BOOLEAN /\ bus \in {"free", "held", "write", "read"}
  BY <1>1 DEF Typed, TypeOK
\* The buffer stays, or has a byte more.
<1>4. ASSUME masterBuffer' \in Seq(Byte), Len(masterBuffer') <= TW_BUFFER_LENGTH + 1,
             index' \in 0 .. TW_BUFFER_LENGTH + 1, index' <= Len(masterBuffer'),
             unSlarw.read => Len(masterBuffer') = index',
             TWIE' \in BOOLEAN, TWINT' = FALSE, bus' \in {"free", "held", "write", "read"},
             \/ /\ unState' = "READY" /\ command' \in {"none", "start"}
                /\ bInRepStart' => command' = "start"
                /\ bInRepStart' \in BOOLEAN
             \/ /\ unState' = unState /\ bInRepStart' = bInRepStart /\ index' <= length
                /\ command' \in {"byte", "nack"} \/ (command' = "ack" /\ index' < length)
      PROVE  Honest'
  <2>1. Typed'
    BY <1>1, <1>3, <1>4 DEF Typed, TypeOK
  <2>2. Prepared'
    BY <1>1, <1>4 DEF Prepared
  <2>3. Repeated'
    BY <1>1, <1>4 DEF Repeated
  <2>4. Loose'
    BY <1>1, <1>4 DEF Loose
  <2> QED
    BY <1>1, <2>1, <2>2, <2>3, <2>4 DEF Honest
<1>5. index \in 0 .. TW_BUFFER_LENGTH + 1 /\ index <= index
  BY <1>2
<1>6. CASE Started
  BY <1>1, <1>2, <1>3, <1>4, <1>5, <1>6 DEF Started, TWCR, isr
<1>7. CASE Refused \/ ArbitrationLost \/ ReceiveRefused
  BY <1>1, <1>2, <1>3, <1>4, <1>5, <1>7 DEF Refused, ArbitrationLost, ReceiveRefused, Stop, TWCR
<1>8. ASSUME LeaveBus
      PROVE  /\ unState' = "READY" /\ TWINT' = FALSE /\ TWIE' \in BOOLEAN
             /\ command' \in {"none", "start"} /\ bus' \in {"free", "held", "write", "read"}
             /\ bInRepStart' => command' = "start"
             /\ bInRepStart' \in BOOLEAN
  <2>1. CASE bSendStop
    BY <1>1, <1>3, <1>8, <2>1 DEF LeaveBus, Stop, TWCR
  <2>2. CASE ~bSendStop
    BY <1>3, <1>8, <2>2 DEF LeaveBus, TWCR
  <2> QED
    BY <2>1, <2>2
<1>9. ASSUME StoreByte, TWDR \in Byte
      PROVE  /\ masterBuffer' \in Seq(Byte) /\ Len(masterBuffer') = index' /\ index' = index + 1
             /\ index' \in 0 .. TW_BUFFER_LENGTH + 1 /\ index' <= TW_BUFFER_LENGTH + 1
  <2>1. SubSeq(masterBuffer, 1, index) \in Seq(Byte) /\ Len(SubSeq(masterBuffer, 1, index)) = index
    BY <1>2
  <2>2. masterBuffer' \in Seq(Byte) /\ Len(masterBuffer') = index + 1
    BY <1>9, <2>1, Prefixed DEF StoreByte
  <2> QED
    BY <1>2, <1>9, <2>2 DEF StoreByte
<1>10. CASE TransmitNext
  <2>1. CASE index < length
    <3>0. ~(index >= length)
      BY <1>2, <2>1
    <3>1. PICK byte \in Byte : NextByte(byte)
      BY <1>10, <3>0, Zenon DEF TransmitNext
    <3>2. /\ masterBuffer' \in Seq(Byte) /\ index' = index + 1 /\ index' <= Len(masterBuffer')
          /\ Len(masterBuffer') <= TW_BUFFER_LENGTH + 1
          /\ unSlarw.read => Len(masterBuffer') = index'
      <4>1. CASE index < Len(masterBuffer)
        BY <1>2, <3>1, <4>1 DEF NextByte
      <4>2. CASE ~(index < Len(masterBuffer))
        <5>1. masterBuffer' = Append(masterBuffer, byte) /\ Len(masterBuffer) = index /\ index' = index + 1
          BY <1>2, <3>1, <4>2 DEF NextByte
        <5>2. masterBuffer' \in Seq(Byte) /\ Len(masterBuffer') = index + 1
          BY <1>2, <5>1, Prefixed
        <5> QED
          BY <1>2, <2>1, <5>1, <5>2
      <4> QED
        BY <4>1, <4>2
    <3>3. index' <= length /\ index' \in 0 .. TW_BUFFER_LENGTH + 1
      BY <1>2, <2>1, <3>2
    <3>4. /\ command' = "byte" /\ TWIE' = TRUE /\ TWINT' = FALSE
          /\ unState' = unState /\ bInRepStart' = bInRepStart /\ bus' = bus
      BY <1>10, <3>0 DEF TransmitNext, TWCR
    <3>5. /\ masterBuffer' \in Seq(Byte) /\ Len(masterBuffer') <= TW_BUFFER_LENGTH + 1
          /\ index' \in 0 .. TW_BUFFER_LENGTH + 1 /\ index' <= Len(masterBuffer')
          /\ unSlarw.read => Len(masterBuffer') = index'
      BY <3>2, <3>3
    <3>6. /\ TWIE' \in BOOLEAN /\ TWINT' = FALSE /\ bus' \in {"free", "held", "write", "read"}
          /\ command' \in {"byte", "nack"} /\ index' <= length
      BY <1>3, <3>3, <3>4
    <3> QED
      BY <1>4, <3>4, <3>5, <3>6
  <2>2. CASE index >= length
    <3>0. ~(index < length)
      BY <1>2, <2>2
    <3>1. LeaveBus /\ index' = index /\ masterBuffer' = masterBuffer
      BY <1>10, <3>0 DEF TransmitNext
    <3>2. /\ unState' = "READY" /\ TWINT' = FALSE /\ TWIE' \in BOOLEAN
          /\ command' \in {"none", "start"} /\ bus' \in {"free", "held", "write", "read"}
          /\ bInRepStart' => command' = "start"
          /\ bInRepStart' \in BOOLEAN
      BY <1>8, <3>1
    <3>3. /\ masterBuffer' \in Seq(Byte) /\ Len(masterBuffer') <= TW_BUFFER_LENGTH + 1
          /\ index' \in 0 .. TW_BUFFER_LENGTH + 1 /\ index' <= Len(masterBuffer')
          /\ unSlarw.read => Len(masterBuffer') = index'
      BY <1>2, <1>5, <3>1
    <3> QED
      BY <1>4, <3>2, <3>3
  <2> QED
    BY <1>2, <2>1, <2>2
<1>11. CASE ReceiveNext
  <2>1. /\ TWIE' = TRUE /\ TWINT' = FALSE
        /\ unState' = unState /\ bInRepStart' = bInRepStart /\ bus' = bus
        /\ command' = "nack" \/ (command' = "ack" /\ index' < length)
    BY <1>11 DEF ReceiveNext, TWCR
  <2>2. CASE TWSTATUS = "MR_DATA_ACK"
    <3>1. StoreByte /\ index < length /\ TWDR \in Byte
      BY <1>1, <1>11, <2>2 DEF ReceiveNext, Loose
    <3>2. /\ masterBuffer' \in Seq(Byte) /\ Len(masterBuffer') = index' /\ index' = index + 1
          /\ index' \in 0 .. TW_BUFFER_LENGTH + 1 /\ index' <= TW_BUFFER_LENGTH + 1
      BY <1>9, <3>1
    <3>3. index' <= length /\ index' <= Len(masterBuffer') /\ Len(masterBuffer') <= TW_BUFFER_LENGTH + 1
      BY <1>2, <3>1, <3>2
    <3> QED
      BY <1>3, <1>4, <2>1, <3>2, <3>3
  <2>3. CASE TWSTATUS = "MR_SLA_ACK"
    <3>1. index' = index /\ masterBuffer' = masterBuffer
      BY <1>11, <2>3 DEF ReceiveNext
    <3> QED
      BY <1>2, <1>3, <1>4, <1>5, <2>1, <3>1
  <2> QED
    BY <1>11, <2>2, <2>3 DEF ReceiveNext, Status
<1>12. CASE ReceiveLast
  <2>1. StoreByte /\ LeaveBus /\ TWDR \in Byte
    BY <1>1, <1>12 DEF ReceiveLast, Status, Loose
  <2>2. /\ unState' = "READY" /\ TWINT' = FALSE /\ TWIE' \in BOOLEAN
        /\ command' \in {"none", "start"} /\ bus' \in {"free", "held", "write", "read"}
        /\ bInRepStart' => command' = "start"
        /\ bInRepStart' \in BOOLEAN
    BY <1>8, <2>1
  <2>3. /\ masterBuffer' \in Seq(Byte) /\ Len(masterBuffer') = index'
        /\ index' \in 0 .. TW_BUFFER_LENGTH + 1 /\ index' <= TW_BUFFER_LENGTH + 1
    BY <1>9, <2>1
  <2>4. index' <= Len(masterBuffer') /\ Len(masterBuffer') <= TW_BUFFER_LENGTH + 1
    BY <2>3
  <2> QED
    BY <1>4, <2>2, <2>3, <2>4
<1> QED
  BY <1>6, <1>7, <1>10, <1>11, <1>12 DEF ISR

LEMMA ISRHonest == Inv /\ Honest /\ ISR => Honest'
<1> SUFFICES ASSUME Inv, Honest, ISR, ~blind PROVE Honest'
  BY ISRLoose
<1>1. /\ TWINT /\ TWIE /\ pc = "wait" /\ unState # "READY" /\ ~bInRepStart
      /\ unError = "NO_ERROR" /\ Reported /\ Typed /\ Prepared
      /\ UNCHANGED <<txAddress, tx, rx, pc, asked, done, blind, unSlarw, length, bSendStop>>
  <2>1. TWINT /\ TWIE
    BY DEF ISR, Started, TransmitNext, Refused, ArbitrationLost, ReceiveNext, ReceiveLast,
           ReceiveRefused, Status
  <2> QED
    BY <2>1, OnlyWithin, ISRLeaves DEF Honest
<1>2. /\ masterBuffer \in Seq(Byte) /\ Len(masterBuffer) \in Nat /\ Len(masterBuffer) <= TW_BUFFER_LENGTH
      /\ index \in Nat /\ length \in Nat /\ length <= TW_BUFFER_LENGTH /\ index <= Len(masterBuffer)
      /\ TW_BUFFER_LENGTH \in Nat
      /\ ~unSlarw.read => length = Len(masterBuffer)
      /\ unSlarw.read  => asked = length + 1 /\ asked <= TW_BUFFER_LENGTH /\ Len(masterBuffer) = index
  BY <1>1, TWAssumption DEF Typed, TypeOK, Prepared
<1>3. ASSUME UNCHANGED <<masterBuffer, index>>,
             unState' \in {"READY", "MTX", "MRX"}, bInRepStart' \in BOOLEAN,
             command' \in {"none", "start", "byte", "ack", "nack"},
             TWIE' \in BOOLEAN, TWINT' \in BOOLEAN, bus' \in {"free", "held", "write", "read"}
      PROVE  Typed' /\ Prepared' /\ Begun' = Begun /\ (\A k : Passed(k)' = Passed(k))
  <2>1. Typed'
    BY <1>1, <1>3 DEF Typed, TypeOK
  <2>2. Prepared'
    BY <1>1, <1>3 DEF Prepared
  <2>3. Begun' = Begun /\ (\A k : Passed(k)' = Passed(k))
    BY <1>1, <1>3, Unpassed
  <2> QED
    BY <2>1, <2>2, <2>3
<1>4. unState \in {"READY", "MTX", "MRX"} /\ bInRepStart \in BOOLEAN /\ bus \in {"free", "held", "write", "read"}
  BY <1>1 DEF Typed, TypeOK
<1>5. CASE Started
  <2>1. /\ Begun /\ bus = "held" /\ TWDR' = unSlarw /\ command' = "byte" /\ TWIE' = TRUE /\ TWINT' = FALSE
        /\ UNCHANGED <<unState, bInRepStart, unError, masterBuffer, index, bus>>
    BY <1>1, <1>5 DEF Started, Status, TWCR, isr, Reported
  <2>2. Typed' /\ Prepared' /\ Begun'
    BY <1>3, <1>4, <2>1
  <2>3. Executing'
    BY <1>1, <2>1, <2>2 DEF Executing
  <2> QED
    BY <2>1, <2>2, <2>3, GoesOn
<1>6. CASE TransmitNext
  <2>1. bus = "write" /\ ~unSlarw.read /\ index <= length /\ done = Passed(index)
    BY <1>1, <1>6 DEF TransmitNext, Status, Reported
  <2>2. CASE index < length
    <3>1. /\ TWDR' = masterBuffer[index + 1] /\ index' = index + 1
          /\ command' = "byte" /\ TWIE' = TRUE /\ TWINT' = FALSE
          /\ UNCHANGED <<unState, bInRepStart, unError, masterBuffer, bus>>
      BY <1>2, <1>6, <2>1, <2>2 DEF TransmitNext, NextByte, TWCR
    <3>2. index' \in 1 .. length /\ index' <= Len(masterBuffer) /\ index' - 1 = index /\ length <= TW_BUFFER_LENGTH
      BY <1>2, <2>1, <2>2, <3>1
    <3>3. Typed'
      <4>1. index' \in 0 .. TW_BUFFER_LENGTH + 1 /\ index' <= TW_BUFFER_LENGTH
        BY <1>2, <3>2
      <4> QED
        BY <1>1, <3>1, <4>1 DEF Typed, TypeOK
    <3>4. Prepared'
      BY <1>1, <2>1, <3>1, <3>2 DEF Prepared
    <3>5. done' = Passed(index - 1)'
      BY <1>1, <2>1, <3>1, <3>2 DEF Passed
    <3>6. Executing'
      BY <1>1, <2>1, <3>1, <3>2, <3>5 DEF Executing
    <3> QED
      BY <3>1, <3>3, <3>4, <3>6, GoesOn
  <2>3. CASE index >= length
    <3>1. /\ unState' = "READY" /\ TWINT' = FALSE /\ UNCHANGED <<masterBuffer, index, unError>>
          /\ \/ UNCHANGED bInRepStart /\ command' = "none" /\ TWIE' = TRUE /\ bus' = "free"
             \/ bInRepStart' = TRUE /\ command' = "start" /\ TWIE' = FALSE /\ UNCHANGED bus
      BY <1>2, <1>6, <2>3 DEF TransmitNext, LeaveBus, Stop, TWCR
    <3>2. Typed' /\ Prepared' /\ (\A k : Passed(k)' = Passed(k))
      BY <1>3, <1>4, <3>1
    <3>3. index = length
      BY <1>2, <2>1, <2>3
    <3>4. Told'
      BY <1>1, <2>1, <3>1, <3>2, <3>3 DEF Told
    <3> QED
      BY <3>1, <3>2, <3>4, Ends
  <2> QED
    BY <1>2, <2>2, <2>3
<1>7. CASE Refused
  <2>1. /\ unState' = "READY" /\ unError' = TWSTATUS /\ TWINT' = FALSE /\ TWIE' = TRUE
        /\ command' = "none" /\ bus' = "free" /\ UNCHANGED <<masterBuffer, index, bInRepStart>>
        /\ TWSTATUS \in {"MT_SLA_NACK", "MT_DATA_NACK", "BUS_ERROR"}
    BY <1>7 DEF Refused, Status, Stop, TWCR
  <2>2. Typed' /\ Prepared' /\ Begun' = Begun /\ (\A k : Passed(k)' = Passed(k))
    BY <1>3, <1>4, <2>1
  <2>3. Told'
    <3>1. CASE unSlarw.read
      <4>1. Begun \/ (done = Passed(index) /\ index <= length)
        BY <1>1, <2>1, <3>1 DEF Reported
      <4>2. Begun => index = 0
        BY DEF Begun
      <4>3. (Begun \/ done = Passed(index)) /\ index <= asked
        BY <1>2, <3>1, <4>1, <4>2
      <4> QED
        BY <1>1, <2>1, <2>2, <3>1, <4>3 DEF Told
    <3>2. CASE ~unSlarw.read
      <4>1. Begun => done = <<>> /\ Len(done) = 0
        BY DEF Begun
      <4>2. ASSUME TWSTATUS = "MT_DATA_NACK" PROVE done # <<>> /\ Len(done) <= length
        <5>1. index \in 1 .. length /\ done = Passed(index - 1)
          BY <1>1, <4>2 DEF Reported
        <5>2. index - 1 \in 0 .. Len(masterBuffer) /\ index - 1 + 1 = index
          BY <1>2, <5>1
        <5> QED
          BY <1>1, <5>1, <5>2, Passing
      <4>3. Len(done) <= length /\ (TWSTATUS = "MT_SLA_NACK" => done = <<>>)
        BY <1>1, <1>2, <2>1, <3>2, <4>1, <4>2 DEF Reported
      <4> QED
        BY <1>1, <2>1, <3>2, <4>2, <4>3 DEF Told
    <3> QED
      BY <3>1, <3>2
  <2> QED
    BY <2>1, <2>2, <2>3, Ends
<1>8. CASE ArbitrationLost
  <2>1. /\ unState' = "READY" /\ unError' = "MT_ARB_LOST" /\ TWINT' = FALSE /\ TWIE' = TRUE
        /\ command' = "none" /\ UNCHANGED <<masterBuffer, index, bInRepStart, bus>>
        /\ TWSTATUS = "ARB_LOST"
    BY <1>8 DEF ArbitrationLost, Status, TWCR
  <2>2. Typed' /\ Prepared' /\ Begun' = Begun /\ (\A k : Passed(k)' = Passed(k))
    BY <1>3, <1>4, <2>1
  <2>3. Told'
    <3>1. CASE unSlarw.read
      <4>1. Begun \/ (done = Passed(index) /\ index <= length)
        BY <1>1, <2>1, <3>1 DEF Reported
      <4>2. Begun => index = 0
        BY DEF Begun
      <4>3. (Begun \/ done = Passed(index)) /\ index <= asked
        BY <1>2, <3>1, <4>1, <4>2
      <4> QED
        BY <1>1, <2>1, <2>2, <3>1, <4>3 DEF Told
    <3>2. CASE ~unSlarw.read
      <4>1. Len(done) <= length
        BY <1>1, <2>1, <3>2 DEF Reported
      <4> QED
        BY <1>1, <2>1, <3>2, <4>1 DEF Told
    <3> QED
      BY <3>1, <3>2
  <2> QED
    BY <2>1, <2>2, <2>3, Ends
\* A byte received is put behind the others.
<1>9. ASSUME unSlarw.read, masterBuffer' = Append(masterBuffer, TWDR), index' = index + 1,
             index <= length, TWDR \in Byte, done = Append(Passed(index), TWDR),
             unState' \in {"READY", "MTX", "MRX"}, bInRepStart' \in BOOLEAN,
             command' \in {"none", "start", "byte", "ack", "nack"},
             TWIE' \in BOOLEAN, TWINT' \in BOOLEAN, bus' \in {"free", "held", "write", "read"}
      PROVE  Typed' /\ Prepared' /\ done' = Passed(index)'
  <2>1. masterBuffer' \in Seq(Byte) /\ Len(masterBuffer') = index'
    BY <1>2, <1>9, Prefixed
  <2>2. /\ index' \in 0 .. TW_BUFFER_LENGTH /\ index' <= TW_BUFFER_LENGTH
        /\ index' \in 0 .. TW_BUFFER_LENGTH + 1 /\ index' <= TW_BUFFER_LENGTH + 1
    BY <1>2, <1>9
  <2>3. Typed'
    BY <1>1, <1>9, <2>1, <2>2 DEF Typed, TypeOK
  <2>4. Prepared'
    BY <1>1, <1>9, <2>1, <2>2 DEF Prepared
  <2>5. done' = Passed(index)'
    <3>1. Passed(index) = <<unSlarw.address>> \o masterBuffer
      BY <1>1, <1>2, <1>9, Passing
    <3>2. done = <<unSlarw.address>> \o masterBuffer'
      BY <1>2, <1>9, <3>1, Prefixed
    <3>3. SubSeq(masterBuffer', 1, index') = masterBuffer'
      BY <2>1, Prefixed
    <3> QED
      BY <1>1, <3>2, <3>3 DEF Passed
  <2> QED
    BY <2>3, <2>4, <2>5
<1>13. ASSUME StoreByte, unSlarw.read PROVE masterBuffer' = Append(masterBuffer, TWDR) /\ index' = index + 1
  BY <1>2, <1>13, Prefixed DEF StoreByte
<1>10. CASE ReceiveNext
  <2>1. /\ unSlarw.read /\ bus = "read" /\ TWINT' = FALSE /\ TWIE' = TRUE
        /\ command' = (IF index' < length THEN "ack" ELSE "nack")
        /\ UNCHANGED <<unState, bInRepStart, unError, bus>>
    BY <1>1, <1>10 DEF ReceiveNext, Status, Reported, TWCR
  <2>2. CASE TWSTATUS = "MR_DATA_ACK"
    <3>1. /\ masterBuffer' = Append(masterBuffer, TWDR) /\ index' = index + 1
          /\ index < length /\ TWDR \in Byte /\ done = Append(Passed(index), TWDR)
      BY <1>1, <1>10, <1>13, <2>1, <2>2 DEF ReceiveNext, Reported
    <3>2. index <= length /\ (index' < length \/ index' = length)
      BY <1>2, <3>1
    <3>3. /\ command' \in {"none", "start", "byte", "ack", "nack"} /\ TWIE' \in BOOLEAN /\ TWINT' \in BOOLEAN
          /\ unState' \in {"READY", "MTX", "MRX"} /\ bInRepStart' \in BOOLEAN
          /\ bus' \in {"free", "held", "write", "read"}
      BY <1>4, <2>1
    <3>4. Typed' /\ Prepared' /\ done' = Passed(index)'
      BY <1>9, <2>1, <3>1, <3>2, <3>3
    <3>5. Executing'
      BY <1>1, <1>2, <2>1, <3>1, <3>2, <3>4 DEF Executing
    <3> QED
      BY <2>1, <3>4, <3>5, GoesOn
  <2>3. CASE TWSTATUS = "MR_SLA_ACK"
    <3>1. UNCHANGED <<masterBuffer, index>> /\ index = 0 /\ done = Passed(0)
      BY <1>1, <1>10, <2>3 DEF ReceiveNext, Reported
    <3>2. Typed' /\ Prepared' /\ (\A k : Passed(k)' = Passed(k))
      BY <1>3, <1>4, <2>1, <3>1
    <3>3. Executing'
      BY <1>1, <1>2, <2>1, <3>1, <3>2 DEF Executing
    <3> QED
      BY <2>1, <3>2, <3>3, GoesOn
  <2> QED
    BY <1>10, <2>2, <2>3 DEF ReceiveNext, Status
<1>11. CASE ReceiveLast
  <2>1. /\ unSlarw.read /\ index = length /\ TWDR \in Byte /\ done = Append(Passed(index), TWDR)
        /\ StoreByte
        /\ unState' = "READY" /\ TWINT' = FALSE /\ UNCHANGED unError
        /\ \/ UNCHANGED bInRepStart /\ command' = "none" /\ TWIE' = TRUE /\ bus' = "free"
           \/ bInRepStart' = TRUE /\ command' = "start" /\ TWIE' = FALSE /\ UNCHANGED bus
    BY <1>1, <1>11 DEF ReceiveLast, Status, Reported, LeaveBus, Stop, TWCR
  <2>2. index <= length /\ masterBuffer' = Append(masterBuffer, TWDR) /\ index' = index + 1
    BY <1>2, <1>13, <2>1
  <2>3. Typed' /\ Prepared' /\ done' = Passed(index)'
    BY <1>4, <1>9, <2>1, <2>2
  <2>4. index' = asked
    BY <1>2, <2>1, <2>2
  <2>5. index' <= asked' /\ ~(index' < asked')
    BY <1>1, <1>2, <2>1, <2>4
  <2>6. Told'
    BY <1>1, <2>1, <2>3, <2>5 DEF Told
  <2> QED
    BY <2>1, <2>3, <2>6, Ends
<1>12. CASE ReceiveRefused
  <2>1. /\ unSlarw.read /\ Begun
        /\ unState' = "READY" /\ TWINT' = FALSE /\ TWIE' = TRUE /\ command' = "none" /\ bus' = "free"
        /\ UNCHANGED <<masterBuffer, index, bInRepStart, unError>>
    BY <1>1, <1>12 DEF ReceiveRefused, Status, Stop, TWCR, Reported
  <2>2. Typed' /\ Prepared' /\ Begun'
    BY <1>3, <1>4, <2>1
  <2>3. index' <= asked' /\ done' = <<>>
    BY <1>1, <1>2, <2>1 DEF Begun
  <2>4. Told'
    BY <1>1, <2>1, <2>2, <2>3 DEF Told
  <2> QED
    BY <2>1, <2>2, <2>4, Ends
<1> QED
  BY <1>5, <1>6, <1>7, <1>8, <1>10, <1>11, <1>12 DEF ISR

-----------------------------------------------------------------------------
(* The hardware.                                                            *)

\* The answers of a slave that was not asked for are counted by the interrupt.
LEMMA HardwareLoose == Inv /\ Honest /\ (Hardware \/ Disturbed) /\ blind => Honest'
<1> SUFFICES ASSUME Inv, Honest, Hardware \/ Disturbed, blind PROVE Honest'
  OBVIOUS
<1>1. /\ command # "none" /\ command' = "none" /\ TWINT' = TRUE
      /\ UNCHANGED <<isr, task, TWIE, blind>>
  BY DEF Hardware, Disturbed, SendStart, SendAddress, SendByte, ReceiveByte, Report
<1>2. /\ UNCHANGED <<unState, bSendStop, bInRepStart, unError, unSlarw, masterBuffer, index, length>>
      /\ UNCHANGED <<txAddress, tx, rx, pc, asked>>
  BY <1>1 DEF isr, task
<1>3. Typed'
  <2>1. bus' \in {"free", "held", "write", "read"}
    BY DEF Hardware, Disturbed, SendStart, SendAddress, SendByte, ReceiveByte, Report, isr, task,
           Honest, Typed, TypeOK
  <2> QED
    BY <1>1, <1>2, <2>1 DEF Honest, Typed, TypeOK
<1>4. CASE SendStart \/ Disturbed
  <2>1. bus' \in {"held", "free"} /\ done' = done /\ TWSTATUS' \notin {"MR_DATA_ACK", "MR_DATA_NACK"}
    BY <1>4 DEF SendStart, Disturbed, Report
  <2>2. Prepared' /\ Repeated'
    BY <1>1, <1>2, <2>1 DEF Honest, Prepared, Repeated, Begun
  <2> QED
    BY <1>1, <1>2, <1>3, <2>1, <2>2 DEF Honest, Loose
<1>5. CASE SendAddress \/ SendByte \/ ReceiveByte
  <2>1. pc = "wait" /\ unState # "READY" /\ ~bInRepStart
    BY <1>5, OnlyWithin DEF SendAddress, SendByte, ReceiveByte
  <2>2. Prepared' /\ Repeated'
    BY <1>1, <1>2, <2>1 DEF Honest, Prepared, Repeated
  <2>3. /\ TWSTATUS' = "MR_DATA_ACK" => command = "ack"
        /\ TWSTATUS' \in {"MR_DATA_ACK", "MR_DATA_NACK"} => TWDR' \in Byte
    BY <1>5 DEF SendAddress, SendByte, ReceiveByte, Report
  <2> QED
    BY <1>1, <1>2, <1>3, <2>1, <2>2, <2>3 DEF Honest, Loose
<1> QED
  BY <1>4, <1>5 DEF Hardware

LEMMA HardwareHonest == Inv /\ Honest /\ (Hardware \/ Disturbed) => Honest'
<1> SUFFICES ASSUME Inv, Honest, Hardware \/ Disturbed, ~blind PROVE Honest'
  BY HardwareLoose
<1>1. /\ command # "none" /\ command' = "none" /\ TWINT' = TRUE
      /\ UNCHANGED <<isr, task, TWIE, blind>>
  BY DEF Hardware, Disturbed, SendStart, SendAddress, SendByte, ReceiveByte, Report
<1>2. /\ UNCHANGED <<unState, bSendStop, bInRepStart, unError, unSlarw, masterBuffer, index, length>>
      /\ UNCHANGED <<txAddress, tx, rx, pc, asked>>
  BY <1>1 DEF isr, task
<1>3. /\ masterBuffer \in Seq(Byte) /\ Len(masterBuffer) \in Nat
      /\ index \in Nat /\ length \in Nat
      /\ pc = "wait" => index <= Len(masterBuffer)
  BY DEF Honest, Typed, TypeOK, Prepared
<1>4. Typed'
  <2>1. bus' \in {"free", "held", "write", "read"}
    BY DEF Hardware, Disturbed, SendStart, SendAddress, SendByte, ReceiveByte, Report, isr, task,
           Honest, Typed, TypeOK
  <2> QED
    BY <1>1, <1>2, <2>1 DEF Honest, Typed, TypeOK
<1>5. \A k : Passed(k)' = Passed(k)
  BY <1>2 DEF Passed
<1>13. SendStart \/ Disturbed => TWDR' = TWDR
  BY DEF SendStart, Disturbed
<1>6. CASE SendStart
  <2>1. command = "start" /\ TWSTATUS' \in {"START", "REP_START"} /\ bus' = "held" /\ done' = done
    BY <1>6 DEF SendStart, Report
  <2>2. Prepared' /\ Repeated' /\ Begun' = Begun
    BY <1>1, <1>2, <2>1 DEF Honest, Prepared, Repeated, Begun
  <2>3. pc = "wait" /\ unState # "READY" => Executing' /\ Reported'
    BY <1>1, <2>1, <2>2 DEF Honest, Exact, Executing, Reported
  <2>4. pc = "wait" /\ unState = "READY" => Told'
    BY <1>2, <1>5, <2>1, <2>2 DEF Honest, Exact, Told
  <2> QED
    BY <1>1, <1>2, <1>4, <1>13, <1>6, <2>2, <2>3, <2>4 DEF Honest, Exact
<1>7. CASE Disturbed
  <2>1. TWSTATUS' \in {"BUS_ERROR", "ARB_LOST"} /\ bus' = "free" /\ done' = done
    BY <1>7 DEF Disturbed, Report
  <2>2. Prepared' /\ Repeated' /\ Begun' = Begun
    BY <1>1, <1>2, <2>1 DEF Honest, Prepared, Repeated, Begun
  <2>3. ASSUME pc = "wait", unState # "READY" PROVE Executing' /\ Reported'
    <3>1. Executing
      BY <2>3 DEF Honest, Exact
    <3>2. command \in {"start", "byte", "ack", "nack"}
      BY <1>1 DEF Honest, Typed, TypeOK
    <3>3. CASE unSlarw.read
      <4>1. Begun \/ (done = Passed(index) /\ index <= length)
        BY <1>3, <2>3, <3>1, <3>2, <3>3 DEF Executing
      <4> QED
        BY <1>1, <1>2, <1>5, <2>1, <2>2, <3>3, <4>1 DEF Executing, Reported
    <3>4. CASE ~unSlarw.read
      <4>1. Begun => Len(done) = 0
        BY DEF Begun
      <4>2. ASSUME index \in 1 .. length, done = Passed(index - 1) PROVE Len(done) <= length
        <5>1. index - 1 \in 0 .. Len(masterBuffer) /\ index - 1 + 1 = index
          BY <1>3, <2>3, <4>2
        <5> QED
          BY <1>3, <4>2, <5>1, Passing DEF Honest
      <4>3. Len(done) <= length
        BY <1>3, <2>3, <3>1, <3>2, <3>4, <4>1, <4>2 DEF Executing
      <4> QED
        BY <1>1, <1>2, <2>1, <3>4, <4>3 DEF Executing, Reported
    <3> QED
      BY <3>3, <3>4
  <2>4. pc = "wait" /\ unState = "READY" => Told'
    BY <1>2, <1>5, <2>1, <2>2 DEF Honest, Exact, Told
  <2> QED
    BY <1>1, <1>2, <1>4, <1>13, <1>7, <2>2, <2>3, <2>4 DEF Honest, Exact
\* The rest is inside a transaction.
<1>8. ASSUME command \in {"byte", "ack", "nack"}, Reported' PROVE Honest'
  <2>1. pc = "wait" /\ unState # "READY" /\ ~bInRepStart /\ unError = "NO_ERROR"
    BY <1>8, OnlyWithin
  <2>2. Prepared' /\ Repeated'
    BY <1>2, <2>1 DEF Honest, Prepared, Repeated
  <2>3. Executing'
    BY <1>1 DEF Executing
  <2> QED
    BY <1>1, <1>2, <1>4, <1>8, <2>1, <2>2, <2>3 DEF Honest, Exact
<1>9. ASSUME command \in {"byte", "ack", "nack"} PROVE Executing /\ pc = "wait" /\ Typed
  BY <1>9, OnlyWithin DEF Honest
<1>10. CASE SendAddress
  <2>1. command = "byte" /\ bus = "held" /\ Begun /\ TWDR = unSlarw
    BY <1>9, <1>10 DEF SendAddress, Executing
  <2>2. CASE /\ TWSTATUS' = (IF TWDR.read THEN "MR_SLA_ACK" ELSE "MT_SLA_ACK")
             /\ bus' = (IF TWDR.read THEN "read" ELSE "write")
             /\ done' = <<TWDR.address>>
    <3>1. done' = Passed(0)' /\ index' = 0 /\ index' <= length'
      BY <1>2, <1>3, <1>5, <1>9, <2>1, <2>2, Passing DEF Begun
    <3> QED
      BY <1>2, <1>8, <2>1, <2>2, <3>1 DEF Reported
  <2>3. CASE /\ TWSTATUS' = (IF TWDR.read THEN "MR_SLA_NACK" ELSE "MT_SLA_NACK")
             /\ UNCHANGED <<bus, done>>
    BY <1>2, <1>8, <2>1, <2>3 DEF Reported, Begun
  <2> QED
    BY <1>10, <2>2, <2>3 DEF SendAddress, Report
<1>11. CASE SendByte
  <2>1. /\ command = "byte" /\ bus = "write" /\ ~unSlarw.read
        /\ index \in 1 .. length /\ TWDR = masterBuffer[index] /\ done = Passed(index - 1)
        /\ bus' = bus
    BY <1>9, <1>11 DEF SendByte, Executing
  <2>2. CASE TWSTATUS' = "MT_DATA_ACK" /\ done' = Append(done, TWDR)
    <3>1. index \in 1 .. Len(masterBuffer) /\ index <= length
      BY <1>3, <1>9, <2>1
    <3>2. done' = Passed(index)
      BY <1>9, <2>1, <2>2, <3>1, Passing
    <3> QED
      BY <1>2, <1>5, <1>8, <2>1, <2>2, <3>1, <3>2 DEF Reported
  <2>3. CASE TWSTATUS' = "MT_DATA_NACK" /\ UNCHANGED done
    BY <1>2, <1>5, <1>8, <2>1, <2>3 DEF Reported
  <2> QED
    BY <1>11, <2>2, <2>3 DEF SendByte, Report
<1>12. CASE ReceiveByte
  <2>1. /\ command \in {"ack", "nack"} /\ bus = "read" /\ unSlarw.read /\ done = Passed(index)
        /\ IF command = "ack" THEN index < length ELSE index = length
    BY <1>9, <1>12 DEF ReceiveByte, Executing
  <2>2. /\ TWDR' \in Byte /\ done' = Append(done, TWDR') /\ bus' = bus
        /\ TWSTATUS' = (IF command = "ack" THEN "MR_DATA_ACK" ELSE "MR_DATA_NACK")
    BY <1>12 DEF ReceiveByte, Report
  <2> QED
    BY <1>2, <1>5, <1>8, <2>1, <2>2 DEF Reported
<1> QED
  BY <1>6, <1>7, <1>10, <1>11, <1>12 DEF Hardware

LEMMA HonestNext == Inv /\ Honest /\ [Next]_vars => Honest'
<1> SUFFICES ASSUME Inv, Honest, [Next]_vars PROVE Honest'
  OBVIOUS
<1>1. CASE UNCHANGED vars
  <2>1. Begun' = Begun /\ \A k : Passed(k)' = Passed(k)
    BY <1>1 DEF vars, isr, twi, Begun, Passed
  <2> QED
    BY <1>1, <2>1 DEF vars, isr, task, twi, Honest, Exact, Loose, Typed, TypeOK, Prepared, Repeated, Executing, Reported, Told
<1> QED
  BY <1>1, PrepareHonest, TaskHonest, ISRHonest, HardwareHonest DEF Next

LEMMA AlwaysHonest == Spec => [](Inv /\ Honest)
<1>1. Init => Inv /\ Honest
  BY InitInv, HonestInit
<1>2. Inv /\ Honest /\ [Next]_vars => Inv' /\ Honest'
  BY NextInv, HonestNext
<1> QED
  BY <1>1, <1>2, PTL DEF Spec

-----------------------------------------------------------------------------

\* The variables keep their types: the indexes stay in the buffers, although
\* only the hardware's reports advance them, if the address was written.
THEOREM TypeCorrect == Spec => []TypeOK
<1>1. Honest => TypeOK
  BY DEF Honest, Typed
<1> QED
  BY <1>1, AlwaysHonest, PTL

\* EndTransmission() tells the truth, if the address it was given was sent.
THEOREM TransmissionIsHonest == Spec => TransmitHonest
<1>1. Inv /\ Honest /\ [Next]_vars =>
        [Returned /\ ~unSlarw.read =>
           \/ /\ result' = 0 <=> done = <<txAddress>> \o tx
              /\ result' = 2 => done = <<>>
              /\ result' = 3 => done # <<>> /\ Len(done) <= Len(tx)
           \/ blind]_vars
  <2> SUFFICES ASSUME Inv, Honest, [Next]_vars, Returned, ~unSlarw.read, ~blind
               PROVE  /\ result' = 0 <=> done = <<txAddress>> \o tx
                      /\ result' = 2 => done = <<>>
                      /\ result' = 3 => done # <<>> /\ Len(done) <= Len(tx)
    OBVIOUS
  <2>1. EndReturn
    BY DEF Returned, Next, vars, task, BeginTransmission, Write, EndTransmission, ReadFrom, Start,
           LoadAddress, SendLoaded, ReadReturn, ReadByte, ISR, Hardware, SendStart, SendAddress, SendByte, ReceiveByte, Disturbed, Report
  <2>2. Told
    BY <2>1 DEF EndReturn, Honest, Exact, Inv, Busy
  <2>3. /\ Typed /\ unSlarw.address = txAddress /\ masterBuffer = tx /\ length = Len(tx)
    BY <2>1 DEF EndReturn, Honest, Prepared
  <2>4. Passed(length) = <<txAddress>> \o tx /\ Len(<<txAddress>> \o tx) = length + 1 /\ length \in Nat
    BY <2>3, Passing, Prefixed DEF Typed, TypeOK
  <2>5. (unError = "NO_ERROR" <=> done = <<txAddress>> \o tx) /\ (unError # "NO_ERROR" => Len(done) <= Len(tx))
    BY <2>2, <2>3, <2>4 DEF Told
  <2>6. /\ result' = 0 <=> unError = "NO_ERROR"
        /\ result' = 2 <=> unError = "MT_SLA_NACK"
        /\ result' = 3 <=> unError = "MT_DATA_NACK"
    BY <2>1 DEF EndReturn
  <2> QED
    BY <2>2, <2>5, <2>6 DEF Told
<1> QED
  BY <1>1, AlwaysHonest, PTL DEF Spec, TransmitHonest

\* Read() returns what the slave sent, if it is the slave that was asked.
THEOREM ReadingIsFaithful == Spec => ReadFaithful
<1>1. Inv /\ Honest /\ [Next]_vars =>
        [Returned /\ unSlarw.read =>
           \/ /\ IF done = <<>> THEN rx' = <<>> ELSE done = <<unSlarw.address>> \o rx'
              /\ Len(rx') < asked => done = <<>> \/ unError # "NO_ERROR"
           \/ blind]_vars
  <2> SUFFICES ASSUME Inv, Honest, [Next]_vars, Returned, unSlarw.read, ~blind
               PROVE  /\ IF done = <<>> THEN rx' = <<>> ELSE done = <<unSlarw.address>> \o rx'
                      /\ Len(rx') < asked => done = <<>> \/ unError # "NO_ERROR"
    OBVIOUS
  <2>1. ReadReturn
    BY DEF Returned, Next, vars, task, BeginTransmission, Write, EndTransmission, ReadFrom, Start,
           LoadAddress, SendLoaded, EndReturn, ReadByte, ISR, Hardware, SendStart, SendAddress, SendByte, ReceiveByte, Disturbed, Report
  <2>2. Told
    BY <2>1 DEF ReadReturn, Honest, Exact, Inv, Busy
  <2>3. /\ Typed /\ masterBuffer \in Seq(Byte) /\ Len(masterBuffer) = index /\ index \in Nat /\ asked \in Nat
    BY <2>1, TWAssumption DEF ReadReturn, Honest, Prepared, Typed, TypeOK
  <2>4. index <= asked /\ (Begun \/ done = Passed(index)) /\ (index < asked => done = <<>> \/ unError # "NO_ERROR")
    BY <2>2 DEF Told
  <2>5. rx' = masterBuffer
    <3>1. result' = index /\ rx' = SubSeq(masterBuffer, 1, result')
      BY <2>1, <2>3, <2>4 DEF ReadReturn
    <3> QED
      BY <2>3, <3>1, Prefixed
  <2>6. CASE Begun
    <3>1. done = <<>> /\ Len(masterBuffer) = 0
      BY <2>3, <2>6 DEF Begun
    <3>2. masterBuffer = <<>>
      BY <2>3, <3>1
    <3> QED
      BY <2>5, <3>1, <3>2
  <2>7. CASE done = Passed(index)
    <3>1. done = <<unSlarw.address>> \o masterBuffer /\ done # <<>>
      BY <2>3, <2>7, Passing
    <3> QED
      BY <2>3, <2>4, <2>5, <3>1
  <2> QED
    BY <2>4, <2>6, <2>7
<1> QED
  BY <1>1, AlwaysHonest, PTL DEF Spec, ReadFaithful
=============================================================================
