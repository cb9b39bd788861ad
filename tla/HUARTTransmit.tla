--------------------------- MODULE HUARTTransmit ---------------------------
(* The transmitting half of source/huart_controller.cpp: Write() and Flush() *)
(* of the task that holds the resource, the UDRE interrupt, and the two      *)
(* registers of the UART, UDR0 and the shift register behind it.             *)
(*                                                                           *)
(* The interrupt falls between any two statements of the task; a task that   *)
(* is switched out is one that takes no step.  UCSR0B and UCSR0A are read,   *)
(* changed and written back, but the bit written does not depend on the      *)
(* value read and nothing else changes in them, so each is one step.         *)
EXTENDS HUART

VARIABLES
  buffer, head, tail,  \* tx_buffer
  transmitting,
  pc, c,               \* the task: where it is, and the argument of Write
  UDRIE, TXC,          \* bits of UCSR0B and UCSR0A
  UDR, shift,          \* the registers of the transmitter
  written, line        \* history: bytes given to Write, bytes sent

ring == <<buffer, head, tail>>
task == <<transmitting, pc, c>>
uart == <<UDRIE, TXC, UDR, shift>>
vars == <<ring, task, uart, written, line>>

Init ==
  /\ buffer \in [Index -> {0}]
  /\ head = 0 /\ tail = 0
  /\ transmitting = FALSE
  /\ pc = "idle" /\ c = 0
  /\ UDRIE = FALSE /\ TXC = FALSE
  /\ UDR = Empty /\ shift = Empty
  /\ written = <<>> /\ line = <<>>

-----------------------------------------------------------------------------
(* Write(c), statement by statement.                                        *)

WriteCall(b) ==
  /\ pc = "idle"
  /\ Len(written) < LIMIT
  /\ pc' = "wait" /\ c' = b
  /\ UNCHANGED <<ring, transmitting, uart, written, line>>

\* mistake: a full ring is written over
WriteWait_Never ==
  /\ pc = "wait"
  /\ pc' = "store"
  /\ UNCHANGED <<ring, transmitting, c, uart, written, line>>

\* while (i == tail): spin until the interrupt has made room
WriteWait ==
  /\ pc = "wait"
  /\ After(head) # tail
  /\ pc' = "store"
  /\ UNCHANGED <<ring, transmitting, c, uart, written, line>>

WriteStore ==
  /\ pc = "store"
  /\ buffer' = [buffer EXCEPT ![head] = c]
  /\ pc' = "advance"
  /\ UNCHANGED <<head, tail, transmitting, c, uart, written, line>>

WriteAdvance ==
  /\ pc = "advance"
  /\ head' = After(head)
  /\ written' = Append(written, c)
  /\ pc' = "enable"
  /\ UNCHANGED <<buffer, tail, transmitting, c, uart, line>>

\* mistake: the interrupt is thought to be enabled while transmitting
WriteEnable_Once ==
  /\ pc = "enable"
  /\ UDRIE' = (UDRIE \/ ~transmitting)
  /\ pc' = "mark"
  /\ UNCHANGED <<ring, transmitting, c, TXC, UDR, shift, written, line>>

WriteEnable ==
  /\ pc = "enable"
  /\ UDRIE' = TRUE
  /\ pc' = "mark"
  /\ UNCHANGED <<ring, transmitting, c, TXC, UDR, shift, written, line>>

WriteMark ==
  /\ pc = "mark"
  /\ transmitting' = TRUE
  /\ pc' = "clear"
  /\ UNCHANGED <<ring, c, uart, written, line>>

\* writing a one to TXC0 clears it
WriteClear ==
  /\ pc = "clear"
  /\ TXC' = FALSE
  /\ pc' = "idle"
  /\ UNCHANGED <<ring, transmitting, c, UDRIE, UDR, shift, written, line>>

Write == \/ WriteWait \/ WriteStore \/ WriteAdvance
         \/ WriteEnable \/ WriteMark \/ WriteClear

-----------------------------------------------------------------------------

FlushCall ==
  /\ pc = "idle"
  /\ pc' = "flush"
  /\ UNCHANGED <<ring, transmitting, c, uart, written, line>>

\* mistake: waiting for the data register instead of the line
FlushReturn_Early ==
  /\ pc = "flush"
  /\ ~transmitting \/ UDR = Empty
  /\ transmitting' = FALSE
  /\ pc' = "idle"
  /\ UNCHANGED <<ring, c, uart, written, line>>

\* while (transmitting && !TXC0): then the port is quiet
FlushReturn ==
  /\ pc = "flush"
  /\ ~transmitting \/ TXC
  /\ transmitting' = FALSE
  /\ pc' = "idle"
  /\ UNCHANGED <<ring, c, uart, written, line>>

-----------------------------------------------------------------------------
(* The interrupt and the hardware.                                          *)

\* requested as long as UDR0 is empty and the interrupt enabled
UDREPending == UDRIE /\ UDR = Empty

UDREISR ==
  /\ UDREPending
  /\ \/ /\ head = tail
        /\ UDRIE' = FALSE
        /\ UNCHANGED <<tail, UDR>>
     \/ /\ head # tail
        /\ UDR' = buffer[tail]
        /\ tail' = After(tail)
        /\ UNCHANGED UDRIE
  /\ UNCHANGED <<buffer, head, task, TXC, shift, written, line>>

\* A byte moves to the free shift register.
Load ==
  /\ UDR # Empty /\ shift = Empty
  /\ shift' = UDR /\ UDR' = Empty
  /\ UNCHANGED <<ring, task, UDRIE, TXC, written, line>>

\* The last bit of a byte leaves.  A byte takes 174 us: an interrupt that is
\* pending has run by then (the code keeps none disabled for so long).
Sent ==
  /\ shift # Empty
  /\ ~UDREPending
  /\ line' = Append(line, shift)
  /\ shift' = UDR /\ UDR' = Empty
  /\ TXC' = (TXC \/ UDR = Empty)
  /\ UNCHANGED <<ring, task, UDRIE, written>>

-----------------------------------------------------------------------------

Next ==
  \/ \E b \in Byte : WriteCall(b)
  \/ Write
  \/ FlushCall \/ FlushReturn
  \/ UDREISR \/ Load \/ Sent

Spec == Init /\ [][Next]_vars

\* The hardware goes on, and so does a task inside Write or Flush: the kernel
\* gives it turns for ever (System: LiveJobsRun).
Fairness ==
  /\ WF_vars(UDREISR) /\ WF_vars(Load) /\ WF_vars(Sent)
  /\ WF_vars(Write) /\ WF_vars(FlushReturn)

FairSpec == Spec /\ Fairness

-----------------------------------------------------------------------------

TypeOK ==
  /\ buffer \in [Index -> Byte \cup {0}]
  /\ head \in Index /\ tail \in Index
  /\ transmitting \in BOOLEAN
  /\ pc \in {"idle", "wait", "store", "advance", "enable", "mark", "clear", "flush"}
  /\ c \in Byte \cup {0}
  /\ UDRIE \in BOOLEAN /\ TXC \in BOOLEAN
  /\ UDR \in Byte \cup {Empty} /\ shift \in Byte \cup {Empty}
  /\ written \in Seq(Byte) /\ line \in Seq(Byte)

\* The bytes given to Write reach the line in order, each once and unchanged,
\* while the interrupt empties the ring that the task fills: at most
\* SERIAL_BUFFER_SIZE - 1 wait in the ring and two in the transmitter.
Pipe == INSTANCE SerialPipe WITH
          accepted <- written, delivered <- line,
          CAPACITY <- SERIAL_BUFFER_SIZE + 1

InOrder == Pipe!Spec

\* No byte is left in the ring with the interrupt off, although the interrupt
\* disables itself while Write enables it: bytes go on leaving, for ever or
\* until everything written is sent.
EverythingSent == []<>(line = written) \/ []<><<line' # line>>_vars

\* When Flush() returns, nothing is left in the ring nor in the transmitter.
FlushMeansSent ==
  [][pc = "flush" /\ pc' = "idle" => line = written]_vars

\* huart_controller.cpp:190 says that TXC "triggers when EMPTY && SENT", which
\* is what Flush() waits for: it returns.
FlushReturns == pc = "flush" ~> pc # "flush"

=============================================================================
