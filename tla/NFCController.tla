--------------------------- MODULE NFCController ---------------------------
(* source/nfc_controller.cpp: the dialogues with the NFC chips (PN532) of    *)
(* two faces in contact.  A call is a sequence of commands; each is written, *)
(* acknowledged by a frame, and answered by another.  Faces shows that each  *)
(* of these transactions is alone on the bus and reaches the chip it is      *)
(* meant for: here it is one step.  Between two of them other tasks may      *)
(* speak to the same chip, and the chips to each other.                      *)
EXTENDS Integers, Sequences

CONSTANTS
  Faces,     (* the two faces in contact                         *)
  Tasks,
  FaceOf,    (* the face each task calls for                     *)
  Duties,    (* the calls each task makes                        *)
  Budgets,   (* how many of them each task makes (a bound)       *)
  Attempts,  (* of Init(), which makes 3 (a bound)               *)
  None

ASSUME NFCAssumption ==
  /\ Attempts \in [Tasks -> Nat \ {0}]
  /\ Budgets \subseteq [Tasks -> Nat]
  /\ FaceOf \in [Tasks -> Faces]
  /\ \E f, g \in Faces : f # g /\ Faces = {f, g}

VARIABLES
  call, k,      \* the call each task is in, and its command
  at,           \* what it does next for the command
  m_punIOBuffer,
  inbound,      \* punInboundBuffer, msg
  success, unAttempts,
  left,         \* calls still to make
  todo, out,    \* the command a chip executes, the frame it has for the host
  link, air,    \* the face that is initiator of the other; what is between them
  delivered, answered, heard  \* history: messages read by a task, confirmed by its chip

task == <<call, k, at, m_punIOBuffer, inbound, success, unAttempts, left>>
chips == <<todo, out, link, air, answered, heard>>
vars == <<task, chips, delivered>>

Peer(f) == CHOOSE g \in Faces : g # f

\* The commands of each call.
Commands ==
  [Send    |-> <<"INJUMPFORDEP", "INDATAEXCHANGE", "POWERDOWN">>,
   Receive |-> <<"TGINITASTARGET", "TGGETDATA", "TGSETDATA", "POWERDOWN">>,
   Init    |-> <<"GETFIRMWAREVERSION", "SAMCONFIGURATION", "POWERDOWN">>]

Last(t) == Len(Commands[call[t]])
Cmd(t) == Commands[call[t]][k[t]]

\* What Send() is called with; distinct messages, to tell them apart.
Msg(t) == <<t, left[t]>>
Messages == Tasks \X Nat
Answer == <<"T">>  \* default_response

ASSUME CallsAssumption ==
  /\ Duties \in [Tasks -> SUBSET DOMAIN Commands]
  /\ None \notin Faces \cup Messages \cup {Answer}
  /\ \A c \in DOMAIN Commands : \A n \in 1 .. Len(Commands[c]) : Commands[c][n] # None

\* The bytes of a frame that are looked at: 0, the direction (5), the command
\* answered (6), the status (7) and the data (8, ...).
Frame(dir, cmd, status, data) ==
  [first |-> "00", dir |-> dir, of |-> cmd, status |-> status, data |-> data]
Reply(cmd, status, data) == Frame("PN532TOHOST", cmd, status, data)
Ack == Frame("none", None, 0, None)
Zeroed == Ack

\* A command lays its parameters over the buffer: two of them reach byte 7, the
\* others leave there what was read before.
Parameters(cmd, buffer) ==
  IF cmd \in {"INJUMPFORDEP", "TGINITASTARGET"}
  THEN [first |-> cmd, dir |-> "parameter", of |-> None,
        status |-> IF cmd = "INJUMPFORDEP" THEN 0 ELSE 1, data |-> None]
  ELSE [buffer EXCEPT !.first = cmd]

\* mistakes: the comparison of the first bytes is dropped; or that of the id
Accepts_NoVersion(cmd, buffer) ==
  /\ buffer.of = cmd
  /\ cmd # "SAMCONFIGURATION" => buffer.dir = "PN532TOHOST"
  /\ cmd \notin {"GETFIRMWAREVERSION", "SAMCONFIGURATION", "TGINITASTARGET"} => buffer.status = 0

Accepts_AnyId(cmd, buffer) ==
  /\ cmd # "SAMCONFIGURATION" => buffer.dir = "PN532TOHOST"
  /\ cmd = "GETFIRMWAREVERSION" => buffer.first = "00"
  /\ cmd \notin {"GETFIRMWAREVERSION", "SAMCONFIGURATION", "TGINITASTARGET"} => buffer.status = 0

\* The tests made on the buffer after read_dt(), whatever that returned.  Of
\* the "firmware version" strncmp() compares only byte 0, which is zero.
Accepts(cmd, buffer) ==
  /\ buffer.of = cmd
  /\ cmd # "SAMCONFIGURATION" => buffer.dir = "PN532TOHOST"
  /\ cmd = "GETFIRMWAREVERSION" => buffer.first = "00"
  /\ cmd \notin {"GETFIRMWAREVERSION", "SAMCONFIGURATION", "TGINITASTARGET"} => buffer.status = 0

Init ==
  /\ call = [t \in Tasks |-> "none"] /\ k = [t \in Tasks |-> 1]
  /\ at = [t \in Tasks |-> "none"]
  /\ m_punIOBuffer = [t \in Tasks |-> Zeroed]
  /\ inbound = [t \in Tasks |-> None]
  /\ success = [t \in Tasks |-> FALSE] /\ unAttempts = [t \in Tasks |-> 0]
  /\ left \in Budgets
  /\ todo = [f \in Faces |-> None] /\ out = [f \in Faces |-> None]
  /\ link = None /\ air = None
  /\ delivered = {} /\ answered = {} /\ heard = None

-----------------------------------------------------------------------------
(* The tasks.                                                               *)

\* The buffer of the new CNFCController is not initialised: it holds what the
\* last one left on the stack, unless the task is a new one.
Call(t, c) ==
  /\ call[t] = "none" /\ left[t] > 0
  /\ call' = [call EXCEPT ![t] = c] /\ k' = [k EXCEPT ![t] = 1]
  /\ at' = [at EXCEPT ![t] = "write"]
  /\ unAttempts' = [unAttempts EXCEPT ![t] = Attempts[t]]
  /\ \E bytes \in {m_punIOBuffer[t], Zeroed} : m_punIOBuffer' = [m_punIOBuffer EXCEPT ![t] = bytes]
  /\ UNCHANGED <<success, inbound, left, chips, delivered>>

\* write_cmd(): the chip obeys, giving up what it was doing, or refuses its
\* address, which nobody notices.
WriteCmd(t) ==
  /\ at[t] = "write"
  /\ m_punIOBuffer' = [m_punIOBuffer EXCEPT ![t] = Parameters(Cmd(t), @)]
  /\ at' = [at EXCEPT ![t] = "ack"]
  /\ LET f == FaceOf[t] IN
       \/ /\ todo' = [todo EXCEPT ![f] = [cmd |-> Cmd(t), msg |-> Msg(t), sent |-> FALSE]]
          /\ out' = [out EXCEPT ![f] = Ack]
       \/ UNCHANGED <<todo, out>>
  /\ UNCHANGED <<call, k, inbound, success, unAttempts, left,
                 link, air, answered, heard, delivered>>

Return(t) ==
  /\ call' = [call EXCEPT ![t] = "none"] /\ at' = [at EXCEPT ![t] = "none"]
  /\ k' = [k EXCEPT ![t] = 1] /\ unAttempts' = [unAttempts EXCEPT ![t] = 0]
  /\ success' = [success EXCEPT ![t] = FALSE] /\ inbound' = [inbound EXCEPT ![t] = None]
  /\ left' = [left EXCEPT ![t] = @ - 1]

Issue(t, n) ==
  /\ k' = [k EXCEPT ![t] = n] /\ at' = [at EXCEPT ![t] = "write"]
  /\ UNCHANGED <<call, left>>

Retry(t) ==
  /\ Issue(t, 1)
  /\ unAttempts' = [unAttempts EXCEPT ![t] = @ - 1]
  /\ UNCHANGED <<success, inbound>>

\* mistake: the attempts are not limited
InitAgain_Always(t) == Retry(t)

\* Init() starts again, as often as it may.
InitAgain(t) == IF unAttempts[t] > 1 THEN Retry(t) ELSE Return(t)

\* mistake: P2PTargetTxRx() answers although it could not read
Rejected_Answer(t) ==
  /\ UNCHANGED delivered
  /\ IF call[t] = "Init" THEN InitAgain(t)
     ELSE IF k[t] = Last(t) THEN Return(t)
     ELSE /\ Issue(t, IF Cmd(t) = "TGGETDATA" THEN k[t] + 1 ELSE Last(t))
          /\ UNCHANGED <<success, inbound, unAttempts>>

\* A command failed: Send() and Receive() still power the chip down.
Rejected(t) ==
  /\ UNCHANGED delivered
  /\ IF call[t] = "Init" THEN InitAgain(t)
     ELSE IF k[t] = Last(t) THEN Return(t)
     ELSE Issue(t, Last(t)) /\ UNCHANGED <<success, inbound, unAttempts>>

\* The value of PowerDown() is of interest to Init() only.
Matters(t) == call[t] = "Init" \/ k[t] < Last(t)

Accepted(t) ==
  LET data == m_punIOBuffer'[t].data IN
  /\ delivered' = IF Cmd(t) = "TGGETDATA" THEN delivered \cup {data} ELSE delivered
  /\ IF k[t] = Last(t) THEN Return(t)
     ELSE /\ Issue(t, k[t] + 1) /\ UNCHANGED unAttempts
          /\ inbound' = IF Cmd(t) \in {"INDATAEXCHANGE", "TGGETDATA"}
                        THEN [inbound EXCEPT ![t] = data] ELSE inbound
          /\ success' = [success EXCEPT ![t] =
               \/ Cmd(t) = "INDATAEXCHANGE" /\ data = Answer
               \/ Cmd(t) = "TGSETDATA"]

\* What read_dt() returns is ignored.
Decide(t) == IF Accepts(Cmd(t), m_punIOBuffer'[t]) THEN Accepted(t) ELSE Rejected(t)

\* read_ack(): whatever frame there is, is read.
ReadAck(t) ==
  /\ at[t] = "ack" /\ out[FaceOf[t]] # None
  /\ out' = [out EXCEPT ![FaceOf[t]] = None]
  /\ IF out[FaceOf[t]] = Ack
     THEN /\ at' = [at EXCEPT ![t] = "reply"]
          /\ UNCHANGED <<call, k, inbound, success, unAttempts, left, delivered>>
     ELSE Rejected(t)
  /\ UNCHANGED <<m_punIOBuffer, todo, link, air, answered, heard>>

\* read_dt(), and the tests of its caller.
ReadReply(t) ==
  /\ at[t] = "reply" /\ out[FaceOf[t]] # None
  /\ out' = [out EXCEPT ![FaceOf[t]] = None]
  /\ m_punIOBuffer' = [m_punIOBuffer EXCEPT ![t] = out[FaceOf[t]]]
  /\ Decide(t)
  /\ UNCHANGED <<todo, link, air, answered, heard>>

\* mistake: read_dt() does not give up
TimedOut_Never(t) == at[t] \in {"ack", "reply"} /\ out[FaceOf[t]] = None /\ UNCHANGED vars

\* The last of the 25 attempts of read_dt() finds no frame; those before it
\* change nothing.
TimedOut(t) ==
  /\ out[FaceOf[t]] = None
  /\ UNCHANGED <<m_punIOBuffer, chips>>
  /\ \/ at[t] = "ack" /\ Rejected(t)
     \/ at[t] = "reply" /\ Decide(t)

Proceed(t) == WriteCmd(t) \/ ReadAck(t) \/ ReadReply(t) \/ TimedOut(t)

-----------------------------------------------------------------------------
(* The chips, and what they say to each other.  They answer when the host    *)
(* has read the acknowledgement.                                            *)

Executes(f, cmd) == todo[f] # None /\ todo[f].cmd = cmd /\ out[f] = None

Replies(f, status, data) ==
  /\ out' = [out EXCEPT ![f] = Reply(todo[f].cmd, status, data)]
  /\ todo' = [todo EXCEPT ![f] = None]

Obey(f) ==
  /\ Executes(f, "GETFIRMWAREVERSION") \/ Executes(f, "SAMCONFIGURATION")
  /\ Replies(f, 0, None)
  /\ UNCHANGED <<link, air, answered, heard>>

PowerDown(f) ==
  /\ Executes(f, "POWERDOWN")
  /\ \E status \in {0, 1} : Replies(f, status, None)
  /\ link' = None /\ air' = None
  /\ UNCHANGED <<answered, heard>>

\* Nobody there, or contact lost.
Fail(f) ==
  /\ \E cmd \in {"INJUMPFORDEP", "INDATAEXCHANGE", "TGGETDATA", "TGSETDATA"} : Executes(f, cmd)
  /\ Replies(f, 1, None)
  /\ UNCHANGED <<link, air, answered, heard>>

Activate(f) ==
  LET g == Peer(f) IN
  /\ Executes(f, "INJUMPFORDEP") /\ Executes(g, "TGINITASTARGET")
  /\ out' = [h \in Faces |-> Reply(todo[h].cmd, 0, None)]
  /\ todo' = [h \in Faces |-> None]
  /\ link' = f /\ air' = None /\ heard' = None
  /\ UNCHANGED answered

Emit(f) ==
  /\ Executes(f, "INDATAEXCHANGE") /\ link = f /\ ~todo[f].sent
  /\ air' = todo[f].msg
  /\ todo' = [todo EXCEPT ![f].sent = TRUE]
  /\ UNCHANGED <<out, link, answered, heard>>

TargetHears(f) ==
  /\ Executes(f, "TGGETDATA") /\ link = Peer(f) /\ air \in Messages
  /\ Replies(f, 0, air)
  /\ heard' = air /\ air' = None
  /\ UNCHANGED <<link, answered>>

TargetAnswers(f) ==
  /\ Executes(f, "TGSETDATA") /\ link = Peer(f)
  /\ air \in Messages \/ heard # None
  /\ Replies(f, 0, None)
  /\ air' = Answer
  /\ answered' = answered \cup ({heard} \ {None})
  /\ UNCHANGED <<link, heard>>

InitiatorHears(f) ==
  /\ Executes(f, "INDATAEXCHANGE") /\ link = f /\ todo[f].sent /\ air = Answer
  /\ Replies(f, 0, Answer)
  /\ air' = None
  /\ UNCHANGED <<link, answered, heard>>

Chip(f) ==
  /\ \/ Obey(f) \/ PowerDown(f) \/ Fail(f) \/ Activate(f) \/ Emit(f)
     \/ TargetHears(f) \/ TargetAnswers(f) \/ InitiatorHears(f)
  /\ UNCHANGED <<task, delivered>>

-----------------------------------------------------------------------------

Next ==
  \/ \E t \in Tasks : Proceed(t) \/ \E c \in Duties[t] : Call(t, c)
  \/ \E f \in Faces : Chip(f)

Spec == Init /\ [][Next]_vars

\* A task executes again and again, and takes the locks it asks for (LiveJobsRun
\* of System, AllFinish of Resource).  The chips owe nothing.
Fairness == \A t \in Tasks : WF_vars(Proceed(t))

TypeOK ==
  /\ \A t \in Tasks :
       /\ call[t] \in DOMAIN Commands \cup {"none"}
       /\ call[t] # "none" => k[t] \in 1 .. Last(t)
       /\ at[t] \in {"write", "ack", "reply", "none"}
       /\ unAttempts[t] \in 0 .. Attempts[t]
       /\ left[t] \in Nat
  /\ link \in Faces \cup {None}
  /\ air \in Messages \cup {Answer, None}
  /\ delivered \subseteq Messages

\* What read_dt() returns is ignored, and when it gives up the tests are made on
\* what the buffer held before.  That never passes for the reply awaited, though
\* it may be a frame that an earlier command or an earlier object has read, and
\* other tasks speak to the chip in between.  (The last PowerDown() of Send() and
\* Receive() may well accept an old frame, but nobody looks.)
OwnReply ==
  \A t \in Tasks :
    at[t] = "reply" /\ Matters(t) => ~Accepts(Cmd(t), m_punIOBuffer[t])

Returns(t, c) == call[t] = c /\ call'[t] = "none"

\* When Send() returns true, a task on the other side has the message in its
\* buffer; that task's Receive() may have returned false.
SendHonest ==
  [][\A t \in Tasks : Returns(t, "Send") /\ success[t] => Msg(t) \in delivered]_vars

\* When Receive() returns true, its message was confirmed to the sender's chip.
ReceiveHonest ==
  [][\A t \in Tasks : Returns(t, "Receive") /\ success[t] => inbound[t] \in answered]_vars

\* A call returns even if the chip never answers or refuses everything.
CallsReturn == \A t \in Tasks : call[t] # "none" ~> call[t] = "none"

=============================================================================
