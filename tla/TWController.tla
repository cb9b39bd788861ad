---------------------------- MODULE TWController ----------------------------
(* source/tw_controller.cpp: the calls of the task that holds the resource,  *)
(* the TWI interrupt, and the two-wire hardware with the slaves on the bus.  *)
(*                                                                           *)
(* The task prepares a transaction, starts it and spins on unState, which    *)
(* the interrupt sets when the transaction is over.  The hardware executes   *)
(* the last command written to TWCR, then raises TWINT and leaves in         *)
(* TWSTATUS what happened; the interrupt is taken if TWIE is set.            *)
EXTENDS Integers, Sequences

CONSTANTS
  TW_BUFFER_LENGTH,
  Slaves,    (* addresses at which a device may answer                       *)
  Address,   (* addresses the tasks use, those of the slaves and others      *)
  Byte,
  Nothing,   (* neither an address nor a byte                                *)
  CALLS,     (* transactions in a run (a bound)                              *)
  ERRORS     (* bus errors and lost arbitrations in a run (a bound)          *)

ASSUME TWAssumption ==
  /\ TW_BUFFER_LENGTH \in Nat \ {0}
  /\ Slaves \subseteq Address
  /\ Nothing \notin Byte \cup Address
  /\ CALLS \in Nat /\ ERRORS \in Nat

VARIABLES
  unState, bSendStop, bInRepStart, unError,
  unSlarw,             \* [address, read]
  masterBuffer,        \* punMasterBuffer: the bytes to send or received so far
  index, length,       \* unMasterBufferIndex, unMasterBufferLength
  txAddress, tx,       \* m_unTxAddress, the bytes of m_punTxBuffer
  rx,                  \* what Read() has still to return of m_punRxBuffer
  pc, asked,           \* the task: where it is, and un_length of Read
  result,              \* what the last call returned
  command, TWIE, TWINT, TWSTATUS, TWDR,  \* the hardware; command was written to TWCR
  bus,                 \* "free", "held" (the START is sent), "write", "read"
  done,                \* history: what the slave acknowledged or sent, so far
  blind,               \* history: the address of this call was not written to TWDR
  calls, errors        \* what is left of the bounds

isr  == <<unState, bSendStop, bInRepStart, unError, unSlarw, masterBuffer, index, length>>
task == <<txAddress, tx, rx, pc, asked, result, calls>>
twi  == <<command, TWIE, TWINT, TWSTATUS, TWDR, bus, done, blind, errors>>
vars == <<isr, task, twi>>

NoSla == [address |-> Nothing, read |-> FALSE]

Init ==
  /\ unState = "READY" /\ bSendStop = TRUE /\ bInRepStart = FALSE
  /\ unError = "NO_ERROR" /\ unSlarw = NoSla
  /\ masterBuffer = <<>> /\ index = 0 /\ length = 0
  /\ txAddress = Nothing /\ tx = <<>> /\ rx = <<>>
  /\ pc = "idle" /\ asked = 0 /\ result = Nothing
  /\ command = "none" /\ TWIE = TRUE /\ TWINT = FALSE
  /\ TWSTATUS = "NO_INFO" /\ TWDR = Nothing
  /\ bus = "free" /\ done = <<>> /\ blind = FALSE
  /\ calls = CALLS /\ errors = ERRORS

-----------------------------------------------------------------------------
(* Writing TWCR: the flag is cleared and the hardware has a command.         *)

TWCR(cmd, ie) == command' = cmd /\ TWIE' = ie /\ TWINT' = FALSE

\* A STOP takes no interrupt; the code waits for its end (TWSTO).
Stop == TWCR("none", TRUE) /\ bus' = "free" /\ unState' = "READY"

-----------------------------------------------------------------------------
(* The calls.                                                               *)

BeginTransmission(a) ==
  /\ pc = "idle" /\ calls > 0
  /\ txAddress' = a /\ tx' = <<>>
  /\ pc' = "filling"
  /\ UNCHANGED <<isr, rx, asked, result, calls, twi>>

Write(b) ==
  /\ pc = "filling"
  /\ Len(tx) < TW_BUFFER_LENGTH
  /\ tx' = Append(tx, b)
  /\ UNCHANGED <<isr, txAddress, rx, pc, asked, result, calls, twi>>

\* What both transactions prepare when the controller is ready.
Prepare(state, stop, sla, data, len) ==
  /\ unState = "READY"
  /\ unState' = state /\ bSendStop' = stop
  /\ unError' = "NO_ERROR"
  /\ index' = 0 /\ length' = len /\ masterBuffer' = data
  /\ unSlarw' = sla
  /\ calls' = calls - 1
  /\ done' = <<>> /\ blind' = FALSE
  /\ UNCHANGED <<bInRepStart, txAddress, tx, rx, result,
                 command, TWIE, TWINT, TWSTATUS, TWDR, bus, errors>>

EndTransmission(stop) ==
  /\ pc = "filling"
  /\ Prepare("MTX", stop, [address |-> txAddress, read |-> FALSE], tx, Len(tx))
  /\ pc' = "start" /\ UNCHANGED asked

\* mistake: the length is not decremented
ReadFrom_More(a, n, stop) ==
  /\ pc = "idle" /\ calls > 0
  /\ Prepare("MRX", stop, [address |-> a, read |-> TRUE], <<>>, n)
  /\ pc' = "start" /\ asked' = n

\* Read(un_address, un_length, b_send_stop)
ReadFrom(a, n, stop) ==
  /\ pc = "idle" /\ calls > 0
  /\ Prepare("MRX", stop, [address |-> a, read |-> TRUE], <<>>, n - 1)
  /\ pc' = "start" /\ asked' = n

Begins == UNCHANGED <<unState, bSendStop, unError, unSlarw, masterBuffer, index, length,
                      txAddress, tx, rx, asked, result, calls, TWSTATUS, bus, done, errors>>

Start ==
  /\ pc = "start" /\ ~bInRepStart
  /\ TWCR("start", TRUE)
  /\ pc' = "wait"
  /\ UNCHANGED <<bInRepStart, TWDR, blind>> /\ Begins

\* In the repeated start state the START was commanded by the interrupt, and
\* the address is written at once: in vain if the START is still under way.
LoadAddress ==
  /\ pc = "start" /\ bInRepStart
  /\ bInRepStart' = FALSE
  /\ \/ command = "none"  /\ TWDR' = unSlarw   /\ UNCHANGED blind
     \/ command = "start" /\ UNCHANGED TWDR    /\ blind' = TRUE
  /\ pc' = "command"
  /\ UNCHANGED <<command, TWIE, TWINT>> /\ Begins

\* TWCR is written next.  A START that is still under way will be served by
\* the interrupt, enabled here; one that is over is followed by what TWDR
\* holds: the address, or what went over the bus last, and a byte may read as
\* any address.
SendLoaded ==
  /\ pc = "command"
  /\ \/ /\ command = "start"
        /\ TWCR("start", TRUE) /\ blind' = FALSE /\ UNCHANGED TWDR
     \/ /\ command = "none"
        /\ TWCR("byte", TRUE) /\ UNCHANGED blind
        /\ TWDR' \in IF blind /\ TWDR \in Byte THEN [address : Address, read : BOOLEAN]
                                               ELSE {TWDR}
  /\ pc' = "wait"
  /\ UNCHANGED bInRepStart /\ Begins

EndReturn ==
  /\ pc = "wait" /\ ~unSlarw.read
  /\ unState # "MTX"
  /\ tx' = <<>>
  /\ result' = CASE unError = "NO_ERROR"     -> 0
                 [] unError = "MT_SLA_NACK"  -> 2
                 [] unError = "MT_DATA_NACK" -> 3
                 [] OTHER                    -> 4
  /\ pc' = "idle"
  /\ UNCHANGED <<isr, txAddress, rx, asked, calls, twi>>

ReadReturn ==
  /\ pc = "wait" /\ unSlarw.read
  /\ unState # "MRX"
  /\ result' = IF index < asked THEN index ELSE asked
  /\ rx' = SubSeq(masterBuffer, 1, result')
  /\ pc' = "idle"
  /\ UNCHANGED <<isr, txAddress, tx, asked, calls, twi>>

\* Read() takes one of the bytes received.
ReadByte ==
  /\ pc = "idle" /\ rx # <<>>
  /\ rx' = Tail(rx)
  /\ UNCHANGED <<isr, txAddress, tx, pc, asked, result, calls, twi>>

-----------------------------------------------------------------------------
(* ISR(TWI_vect), one operator per group of cases.                          *)

Status(s) == TWINT /\ TWIE /\ TWSTATUS \in s

Started ==
  /\ Status({"START", "REP_START"})
  /\ TWDR' = unSlarw /\ TWCR("byte", TRUE)
  /\ UNCHANGED <<isr, bus>>

\* mistake: the START for the next transaction is not remembered
LeaveBus_Forget ==
  \/ bSendStop /\ Stop /\ UNCHANGED bInRepStart
  \/ /\ ~bSendStop
     /\ TWCR("start", FALSE) /\ unState' = "READY"
     /\ UNCHANGED <<bInRepStart, bus>>

\* The end of a transaction: a STOP, or a START for the next one whose
\* interrupt is not taken.
LeaveBus ==
  \/ bSendStop /\ Stop /\ UNCHANGED bInRepStart
  \/ /\ ~bSendStop
     /\ bInRepStart' = TRUE
     /\ TWCR("start", FALSE) /\ unState' = "READY"
     /\ UNCHANGED bus

\* punMasterBuffer[unMasterBufferIndex]: a byte of this call, or else what an
\* earlier one has left there, which is chosen when it is looked at.
NextByte(byte) ==
  /\ index < Len(masterBuffer) => byte = masterBuffer[index + 1]
  /\ masterBuffer' = IF index < Len(masterBuffer) THEN masterBuffer ELSE Append(masterBuffer, byte)
  /\ index' = index + 1

\* mistake: the last byte is not sent
TransmitNext_Short ==
  /\ Status({"MT_SLA_ACK", "MT_DATA_ACK"})
  /\ \/ /\ index + 1 < length
        /\ \E byte \in Byte : NextByte(byte) /\ TWDR' = byte
        /\ TWCR("byte", TRUE)
        /\ UNCHANGED <<unState, bInRepStart, bus>>
     \/ index + 1 >= length /\ LeaveBus /\ UNCHANGED <<TWDR, index, masterBuffer>>
  /\ UNCHANGED <<bSendStop, unError, unSlarw, length>>

TransmitNext ==
  /\ Status({"MT_SLA_ACK", "MT_DATA_ACK"})
  /\ \/ /\ index < length
        /\ \E byte \in Byte : NextByte(byte) /\ TWDR' = byte
        /\ TWCR("byte", TRUE)
        /\ UNCHANGED <<unState, bInRepStart, bus>>
     \/ index >= length /\ LeaveBus /\ UNCHANGED <<TWDR, index, masterBuffer>>
  /\ UNCHANGED <<bSendStop, unError, unSlarw, length>>

\* mistake: the transaction is not ended
Refused_Hang ==
  /\ Status({"MT_SLA_NACK", "MT_DATA_NACK", "BUS_ERROR"})
  /\ unError' = TWSTATUS
  /\ TWCR("none", TRUE) /\ bus' = "free" /\ UNCHANGED unState
  /\ UNCHANGED <<bSendStop, bInRepStart, unSlarw, masterBuffer, index, length, TWDR>>

\* A slave refuses its address or a byte, or the bus is in error: STOP.
Refused ==
  /\ Status({"MT_SLA_NACK", "MT_DATA_NACK", "BUS_ERROR"})
  /\ unError' = TWSTATUS
  /\ Stop
  /\ UNCHANGED <<bSendStop, bInRepStart, unSlarw, masterBuffer, index, length, TWDR>>

ArbitrationLost ==
  /\ Status({"ARB_LOST"})
  /\ unError' = "MT_ARB_LOST"
  /\ TWCR("none", TRUE) /\ unState' = "READY"
  /\ UNCHANGED <<bSendStop, bInRepStart, unSlarw, masterBuffer, index, length, TWDR, bus>>

\* The byte received is put behind those before it.
StoreByte ==
  /\ masterBuffer' = Append(SubSeq(masterBuffer, 1, index), TWDR)
  /\ index' = index + 1

\* mistake: one byte too few is acknowledged
ReceiveNext_Short ==
  /\ Status({"MR_SLA_ACK", "MR_DATA_ACK"})
  /\ IF TWSTATUS = "MR_DATA_ACK"
     THEN StoreByte ELSE UNCHANGED <<masterBuffer, index>>
  /\ TWCR(IF index' + 1 < length THEN "ack" ELSE "nack", TRUE)
  /\ UNCHANGED <<unState, bSendStop, bInRepStart, unError, unSlarw, length, TWDR, bus>>

\* Acknowledge the next byte unless it is the last one.  DATA_ACK falls
\* through to SLA_ACK in the code.
ReceiveNext ==
  /\ Status({"MR_SLA_ACK", "MR_DATA_ACK"})
  /\ IF TWSTATUS = "MR_DATA_ACK"
     THEN StoreByte ELSE UNCHANGED <<masterBuffer, index>>
  /\ TWCR(IF index' < length THEN "ack" ELSE "nack", TRUE)
  /\ UNCHANGED <<unState, bSendStop, bInRepStart, unError, unSlarw, length, TWDR, bus>>

ReceiveLast ==
  /\ Status({"MR_DATA_NACK"})
  /\ StoreByte /\ LeaveBus
  /\ UNCHANGED <<bSendStop, unError, unSlarw, length, TWDR>>

\* A slave refuses its address to a reader: no error is recorded.
ReceiveRefused ==
  /\ Status({"MR_SLA_NACK"})
  /\ Stop
  /\ UNCHANGED <<bSendStop, bInRepStart, unError, unSlarw, masterBuffer, index, length, TWDR>>

ISR ==
  /\ \/ Started \/ TransmitNext \/ Refused \/ ArbitrationLost
     \/ ReceiveNext \/ ReceiveLast \/ ReceiveRefused
  /\ UNCHANGED <<task, TWSTATUS, done, blind, errors>>

-----------------------------------------------------------------------------
(* The hardware executes the command; a slave may refuse anything.          *)

Report(status) ==
  /\ TWSTATUS' = status /\ TWINT' = TRUE /\ command' = "none"
  /\ UNCHANGED <<isr, task, TWIE, blind>>

SendStart ==
  /\ command = "start"
  /\ Report(IF bus = "free" THEN "START" ELSE "REP_START")
  /\ bus' = "held"
  /\ UNCHANGED <<TWDR, done, errors>>

SendAddress ==
  /\ command = "byte" /\ bus = "held"
  /\ \/ /\ TWDR.address \in Slaves
        /\ Report(IF TWDR.read THEN "MR_SLA_ACK" ELSE "MT_SLA_ACK")
        /\ bus' = (IF TWDR.read THEN "read" ELSE "write")
        /\ done' = <<TWDR.address>>
     \/ /\ Report(IF TWDR.read THEN "MR_SLA_NACK" ELSE "MT_SLA_NACK")
        /\ UNCHANGED <<bus, done>>
  /\ UNCHANGED <<TWDR, errors>>

SendByte ==
  /\ command = "byte" /\ bus = "write"
  /\ \/ Report("MT_DATA_ACK") /\ done' = Append(done, TWDR)
     \/ Report("MT_DATA_NACK") /\ UNCHANGED done
  /\ UNCHANGED <<TWDR, bus, errors>>

ReceiveByte ==
  /\ command \in {"ack", "nack"} /\ bus = "read"
  /\ \E b \in Byte : TWDR' = b /\ done' = Append(done, b)
  /\ Report(IF command = "ack" THEN "MR_DATA_ACK" ELSE "MR_DATA_NACK")
  /\ UNCHANGED <<bus, errors>>

\* An illegal START or STOP on the bus, or a line another device holds low.
Disturbed ==
  /\ command # "none" /\ errors > 0
  /\ errors' = errors - 1
  /\ \E status \in {"BUS_ERROR", "ARB_LOST"} : Report(status)
  /\ bus' = "free"
  /\ UNCHANGED <<TWDR, done>>

Hardware == SendStart \/ SendAddress \/ SendByte \/ ReceiveByte

-----------------------------------------------------------------------------

Next ==
  \/ \E a \in Address : BeginTransmission(a)
  \/ \E b \in Byte : Write(b)
  \/ \E stop \in BOOLEAN : EndTransmission(stop)
  \/ \E a \in Address, n \in 1 .. TW_BUFFER_LENGTH, stop \in BOOLEAN : ReadFrom(a, n, stop)
  \/ Start \/ LoadAddress \/ SendLoaded
  \/ EndReturn \/ ReadReturn \/ ReadByte
  \/ ISR \/ Hardware \/ Disturbed

Spec == Init /\ [][Next]_vars

\* No device stretches the clock for ever, interrupts are taken, and the task
\* inside a call is given turns (System: LiveJobsRun).
Fairness ==
  /\ WF_vars(Hardware) /\ WF_vars(ISR)
  /\ WF_vars(Start \/ LoadAddress \/ SendLoaded \/ EndReturn \/ ReadReturn)

FairSpec == Spec /\ Fairness

-----------------------------------------------------------------------------

\* The variables keep their types, and the index stays in the buffer; but that
\* of a call whose address was not written, to which another slave may send a
\* byte more than the call has, may leave it by one.
TypeOK ==
  /\ unState \in {"READY", "MTX", "MRX"}
  /\ bSendStop \in BOOLEAN /\ bInRepStart \in BOOLEAN
  /\ index \in 0 .. TW_BUFFER_LENGTH + 1 /\ length \in 0 .. TW_BUFFER_LENGTH
  /\ masterBuffer \in Seq(Byte) /\ Len(masterBuffer) <= TW_BUFFER_LENGTH + 1
  /\ ~blind => index <= TW_BUFFER_LENGTH /\ Len(masterBuffer) <= TW_BUFFER_LENGTH
  /\ tx \in Seq(Byte) /\ Len(tx) <= TW_BUFFER_LENGTH
  /\ rx \in Seq(Byte) /\ Len(rx) <= TW_BUFFER_LENGTH
  /\ pc \in {"idle", "filling", "start", "command", "wait"}
  /\ command \in {"none", "start", "byte", "ack", "nack"}
  /\ TWIE \in BOOLEAN /\ TWINT \in BOOLEAN /\ blind \in BOOLEAN
  /\ bus \in {"free", "held", "write", "read"}

Returned == pc = "wait" /\ pc' = "idle"

\* EndTransmission() tells the truth, though the interrupt only keeps the last
\* status: 0 if and only if the slave acknowledged its address and every byte
\* in order; 2 if nobody answered; 3 if the slave took a part of them.  It lies
\* only if the repeated START ended between the writes of TWDR and TWCR.
TransmitHonest ==
  [][Returned /\ ~unSlarw.read =>
       \/ /\ result' = 0 <=> done = <<txAddress>> \o tx
          /\ result' = 2 => done = <<>>
          /\ result' = 3 => done # <<>> /\ Len(done) <= Len(tx)
       \/ blind]_vars

\* Read(address, n) leaves for Read() exactly the bytes the slave sent, in
\* order; fewer than n only if nobody answered or the bus was disturbed.  The
\* exception is the same.
ReadFaithful ==
  [][Returned /\ unSlarw.read =>
       \/ /\ IF done = <<>> THEN rx' = <<>> ELSE done = <<unSlarw.address>> \o rx'
          /\ Len(rx') < asked => done = <<>> \/ unError # "NO_ERROR"
       \/ blind]_vars

\* Between two transactions no interrupt can fall into the preparation of the
\* next one, and the task knows the state of the bus: it is free, or the
\* repeated START the interrupt has commanded is on its way or sent.
BetweenTransactions ==
  pc \in {"idle", "filling"} =>
    /\ unState = "READY"
    /\ ~(TWINT /\ TWIE)
    /\ ~bInRepStart => bus = "free" /\ command = "none"
    /\ bInRepStart => ~TWIE

\* The hardware waits for a START that nobody will command.
Stuck == command = "byte" /\ bus = "free"

\* Every call returns, whatever the slaves refuse and whatever disturbs the
\* bus, but for a disturbance of the repeated START: its interrupt is not
\* taken, the next call takes the START for sent ("we hope", :250, :347).
CallsReturn == pc = "wait" ~> (pc = "idle" \/ Stuck)

=============================================================================
