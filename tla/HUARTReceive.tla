---------------------------- MODULE HUARTReceive ----------------------------
(* The receiving half of source/huart_controller.cpp: the RX interrupt fills *)
(* rx_buffer, and the task that holds the resource empties it with           *)
(* Available() and Read() as InteractiveMode does (main.cpp:441-448).         *)
(* UDR0 is the front of the two bytes the receiver holds.                    *)
EXTENDS HUART

VARIABLES
  buffer, head, tail,  \* rx_buffer
  UDR,                 \* bytes received by the UART and not yet read, with UPE0
  arrivals,            \* bytes that may still arrive
  pc, c,               \* the task: where it is, and the byte Read has fetched
  told,                \* Available() has answered that there is a byte
  stored, fetched      \* history: bytes the ISR stored, bytes Read returned

ring == <<buffer, head, tail>>
vars == <<ring, UDR, arrivals, pc, c, told, stored, fetched>>

Init ==
  /\ buffer \in [Index -> {0}]
  /\ head = 0 /\ tail = 0
  /\ UDR = <<>>
  /\ arrivals = LIMIT
  /\ pc = "idle" /\ c = 0 /\ told = FALSE
  /\ stored = <<>> /\ fetched = <<>>

\* A byte, with or without a parity error, enters the receiver; a third one
\* would be lost there (DOR0).
Arrive ==
  /\ arrivals > 0
  /\ arrivals' = arrivals - 1
  /\ \/ \E b \in Byte, parity \in BOOLEAN :
          /\ Len(UDR) < 2
          /\ UDR' = Append(UDR, [byte |-> b, UPE |-> parity])
     \/ Len(UDR) = 2 /\ UNCHANGED UDR
  /\ UNCHANGED <<ring, pc, c, told, stored, fetched>>

\* mistakes: a full ring is written over; a faulty byte is left in UDR0
RXISR_Overwrite ==
  /\ UDR # <<>>
  /\ \/ /\ ~Head(UDR).UPE
        /\ buffer' = [buffer EXCEPT ![head] = Head(UDR).byte]
        /\ head' = After(head)
        /\ stored' = Append(stored, Head(UDR).byte)
     \/ Head(UDR).UPE /\ UNCHANGED <<buffer, head, stored>>
  /\ UDR' = Tail(UDR)
  /\ UNCHANGED <<tail, arrivals, pc, c, told, fetched>>

RXISR_KeepFaulty ==
  /\ UDR # <<>>
  /\ ~Head(UDR).UPE
  /\ After(head) # tail
  /\ buffer' = [buffer EXCEPT ![head] = Head(UDR).byte]
  /\ head' = After(head)
  /\ stored' = Append(stored, Head(UDR).byte)
  /\ UDR' = Tail(UDR)
  /\ UNCHANGED <<tail, arrivals, pc, c, told, fetched>>

\* The interrupt stays requested as long as UDR0 is not read.  With the ring
\* full it returns without reading it (and is entered again at once): no step.
RXISR ==
  /\ UDR # <<>>
  /\ \/ /\ ~Head(UDR).UPE
        /\ After(head) # tail
        /\ buffer' = [buffer EXCEPT ![head] = Head(UDR).byte]
        /\ head' = After(head)
        /\ stored' = Append(stored, Head(UDR).byte)
     \/ /\ Head(UDR).UPE
        /\ UNCHANGED <<buffer, head, stored>>
  /\ UDR' = Tail(UDR)
  /\ UNCHANGED <<tail, arrivals, pc, c, told, fetched>>

\* mistake: no modulo
Available_NoWrap == SERIAL_BUFFER_SIZE + head - tail

Available == (SERIAL_BUFFER_SIZE + head - tail) % SERIAL_BUFFER_SIZE

\* if (Available()), then Read(), statement by statement.
AvailableCall ==
  /\ pc = "idle"
  /\ Available # 0
  /\ pc' = "read" /\ told' = TRUE
  /\ UNCHANGED <<ring, UDR, arrivals, c, stored, fetched>>

\* Read() without having asked.
ReadCall ==
  /\ pc = "idle"
  /\ pc' = "read" /\ told' = FALSE
  /\ UNCHANGED <<ring, UDR, arrivals, c, stored, fetched>>

\* nothing to read: returns (uint8_t) -1
ReadEmpty ==
  /\ pc = "read"
  /\ head = tail
  /\ pc' = "idle"
  /\ UNCHANGED <<ring, UDR, arrivals, c, told, stored, fetched>>

ReadFetch ==
  /\ pc = "read"
  /\ head # tail
  /\ c' = buffer[tail]
  /\ pc' = "advance"
  /\ UNCHANGED <<ring, UDR, arrivals, told, stored, fetched>>

ReadAdvance ==
  /\ pc = "advance"
  /\ tail' = After(tail)
  /\ fetched' = Append(fetched, c)
  /\ pc' = "idle"
  /\ UNCHANGED <<buffer, head, UDR, arrivals, c, told, stored>>

Read == ReadEmpty \/ ReadFetch \/ ReadAdvance

Next == Arrive \/ RXISR \/ AvailableCall \/ ReadCall \/ Read

Spec == Init /\ [][Next]_vars

\* The interrupt is served, and the task comes round to look again and again.
Fairness == WF_vars(RXISR) /\ SF_vars(AvailableCall) /\ WF_vars(Read)

FairSpec == Spec /\ Fairness

-----------------------------------------------------------------------------

TypeOK ==
  /\ buffer \in [Index -> Byte \cup {0}]
  /\ head \in Index /\ tail \in Index
  /\ UDR \in Seq([byte : Byte, UPE : BOOLEAN]) /\ Len(UDR) <= 2
  /\ arrivals \in 0 .. LIMIT
  /\ pc \in {"idle", "read", "advance"}
  /\ c \in Byte \cup {0} /\ told \in BOOLEAN
  /\ stored \in Seq(Byte) /\ fetched \in Seq(Byte)

\* Read() returns the bytes the interrupt stored, in order, each once and
\* unchanged, while both work on the ring; a full ring overwrites nothing.
Pipe == INSTANCE SerialPipe WITH
          accepted <- stored, delivered <- fetched,
          CAPACITY <- SERIAL_BUFFER_SIZE - 1

ReceiveInOrder == Pipe!Spec

\* A task that was told there is a byte finds it: Read() does not answer -1,
\* whatever the interrupt stores or cannot store in between.
ToldTheTruth == pc = "read" /\ told => head # tail

\* A byte that entered the receiver is fetched or was faulty: a full ring only
\* delays it, because the interrupt leaves it in UDR0 and is entered again.
ReceiverDrained == []<>(UDR = <<>> /\ stored = fetched)

=============================================================================
