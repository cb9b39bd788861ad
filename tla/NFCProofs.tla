------------------------------ MODULE NFCProofs ------------------------------
(* What a block does with its NFC chips, for any tasks, calls and attempts,   *)
(* and any changes of the lines: read_dt() failing unnoticed never passes for *)
(* a reply; when one task at most talks through each face, Send() and         *)
(* Receive() tell the truth; no face is answered more often than it called.   *)
EXTENDS MCNFC, TLAPS

-----------------------------------------------------------------------------
(* What is always so, for any tasks and calls.                              *)

Calls    == {"Send", "Receive", "Init"}
InitCmds == {"GETFIRMWAREVERSION", "SAMCONFIGURATION", "POWERDOWN"}
TalkCmds == {"INJUMPFORDEP", "INDATAEXCHANGE", "TGINITASTARGET", "TGGETDATA", "TGSETDATA"}
Cmds     == InitCmds \cup TalkCmds

Frames ==
  [first : Cmds \cup {"00"}, dir : {"none", "PN532TOHOST", "parameter"},
   of : Cmds \cup {None}, status : {0, 1}, data : Messages \cup {Answer, None}]
Orders == [cmd : Cmds, msg : Messages, sent : BOOLEAN]

TasksTyped ==
  /\ call \in [Tasks -> Calls \cup {"none"}] /\ k \in [Tasks -> Nat]
  /\ at \in [Tasks -> {"write", "ack", "reply", "none"}]
  /\ m_punIOBuffer \in [Tasks -> Frames]
  /\ inbound \in [Tasks -> Messages \cup {Answer, None}]
  /\ success \in [Tasks -> BOOLEAN]
  /\ unAttempts \in [Tasks -> Nat] /\ left \in [Tasks -> Nat]
  /\ delivered \subseteq Messages
ChipsTyped ==
  /\ todo \in [Faces -> Orders \cup {None}] /\ out \in [Faces -> Frames \cup {None}]
  /\ link \in Faces \cup {None} /\ air \in Messages \cup {Answer, None}
  /\ heard \in Messages \cup {None}
Typed == TasksTyped /\ ChipsTyped

\* A task that is in no call, and one that is.
Idle(t) == at[t] = "none" /\ ~success[t]
Busy(t) ==
  /\ call[t] \in Duties[t] /\ k[t] \in 1 .. Last(t)
  /\ at[t] # "none" /\ left[t] > 0
  /\ success[t] => k[t] = Last(t) /\ call[t] # "Init"
InCall(t) ==
  /\ unAttempts[t] <= Attempts[t]
  /\ IF call[t] = "none" THEN Idle(t) ELSE Busy(t)

\* What the buffer holds before a frame is read into it: the reply to the
\* command before this one, or parameters, with this command over its byte 0.
Stale(t) ==
  /\ at[t] # "write" => m_punIOBuffer[t].first # "00"
  /\ k[t] > 1 /\ Matters(t) => m_punIOBuffer[t].of = Commands[call[t]][k[t] - 1]
  /\ at[t] # "write" /\ Cmd(t) \in {"INJUMPFORDEP", "TGINITASTARGET"} => m_punIOBuffer[t].of = None

\* A chip that has a reply for the host executes nothing, and what it gives for
\* data is a message.
ChipOK(f) ==
  out[f] # None /\ out[f] # Ack =>
    /\ todo[f] = None
    /\ out[f].of = "TGGETDATA" /\ out[f].status = 0 => out[f].data \in Messages

TaskOK(t) == InCall(t) /\ (call[t] # "none" => Stale(t))

Inv ==
  /\ Typed
  /\ \A t \in Tasks : TaskOK(t)
  /\ \A f \in Faces : ChipOK(f)

-----------------------------------------------------------------------------
(* What is always so when one task at most talks through each face.         *)

Talks(t) == "Send" \in Duties[t] \/ "Receive" \in Duties[t]

\* In main.cpp only InteractiveMode calls Send() and Receive().
OneVoice == \A t, u \in Tasks : Talks(t) /\ Talks(u) /\ FaceOf[t] = FaceOf[u] => t = u

Doing(f, cmd) == todo[f] # None /\ todo[f].cmd = cmd
Says(f, cmd)  == out[f] # None /\ out[f].of = cmd /\ out[f].status = 0
At(t, c, n)   == call[t] = c /\ k[t] = n

\* In the middle of a call, the chip is at no other command of a call than the
\* task's own, once that is written.
Speaking(t) == call[t] \in {"Send", "Receive"} /\ 1 < k[t] /\ k[t] < Last(t)
OwnWords(t) ==
  LET f   == FaceOf[t]
      Own == IF at[t] = "write" THEN {} ELSE {Cmd(t)} IN
  Speaking(t) =>
    /\ todo[f] # None =>
         /\ todo[f].cmd \in InitCmds \cup Own
         /\ todo[f].cmd = Cmd(t) => todo[f].msg = Msg(t)
    /\ out[f] # None => out[f].of \in InitCmds \cup {None} \cup Own

\* Nothing is said yet between the chips, since they are linked.
Fresh(f) ==
  \/ Says(f, "INJUMPFORDEP")
  \/ Doing(f, "INDATAEXCHANGE") /\ ~todo[f].sent
  \/ \E t \in Tasks : FaceOf[t] = f /\ At(t, "Send", 2) /\ at[t] = "write"

\* The message given to its chip is the one the chips speak of; an answer to
\* it comes from a task that has it.
Sent(f) == Doing(f, "INDATAEXCHANGE") /\ todo[f].sent
Exchange(f) ==
  link = f =>
    /\ Fresh(f) => air = None /\ heard = None
    /\ Sent(f) =>
         /\ air \in {todo[f].msg, Answer, None} /\ heard \in {todo[f].msg, None}
         /\ air = Answer => todo[f].msg \in delivered

\* The target's task has the message its chip has heard.
Confirming(f, t) ==
  /\ FaceOf[t] = f /\ At(t, "Receive", 3)
  /\ at[t] = "write" \/ Doing(f, "TGSETDATA")
Heard(f) ==
  link = Peer(f) =>
    /\ Says(f, "TGGETDATA") => heard = out[f].data
    /\ Doing(f, "TGSETDATA") => heard \in delivered
    /\ \A t \in Tasks : Confirming(f, t) => heard = inbound[t] /\ heard \in delivered

\* The reply a task awaits says what has happened, and so does its result.
Truth(t) ==
  LET f == FaceOf[t] IN
  /\ At(t, "Send", 2) /\ Says(f, "INDATAEXCHANGE") /\ out[f].data = Answer => Msg(t) \in delivered
  /\ At(t, "Receive", 3) /\ Says(f, "TGSETDATA") => inbound[t] \in answered
  /\ success[t] /\ call[t] = "Send" => Msg(t) \in delivered
  /\ success[t] /\ call[t] = "Receive" => inbound[t] \in answered

Honest ==
  /\ \A t \in Tasks : OwnWords(t) /\ Truth(t)
  /\ \A f \in Faces : Exchange(f) /\ Heard(f)
-----------------------------------------------------------------------------
(* The faces and the commands.                                              *)

\* There are two faces in contact.
LEMMA Peers ==
  ASSUME NEW f \in Faces
  PROVE  /\ Peer(f) \in Faces /\ Peer(f) # f /\ Peer(Peer(f)) = f
         /\ \A h \in Faces : h = f \/ h = Peer(f)
<1>1. PICK a \in Faces, b \in Faces : a # b /\ Faces = {a, b}
  BY NFCAssumption
<1>2. \A h \in Faces : Peer(h) \in Faces /\ Peer(h) # h
  <2> SUFFICES ASSUME NEW h \in Faces PROVE Peer(h) \in Faces /\ Peer(h) # h
    OBVIOUS
  <2>1. \E g \in Faces : g # h
    BY <1>1
  <2> QED
    BY <2>1 DEF Peer
<1> QED
  BY <1>1, <1>2

\* An answer is no message, nor is nothing.
LEMMA Different == Answer \notin Messages /\ None \notin Messages /\ None # Answer /\ None \notin Faces
<1>1. \A m \in Messages : Answer # m
  <2> SUFFICES ASSUME NEW t \in Tasks, NEW n \in Nat PROVE Answer # <<t, n>>
    BY DEF Messages
  <2>1. Len(Answer) = 1 /\ Len(<<t, n>>) = 2
    BY DEF Answer
  <2> QED
    BY <2>1
<1> QED
  BY <1>1, CallsAssumption

\* The calls there are.
LEMMA Calling == DOMAIN Commands = Calls
BY DEF Commands, Calls

\* The commands, call by call.
LEMMA Table ==
  /\ Len(Commands["Send"]) = 3 /\ Len(Commands["Receive"]) = 4 /\ Len(Commands["Init"]) = 3
  /\ Commands["Send"][1] = "INJUMPFORDEP" /\ Commands["Send"][2] = "INDATAEXCHANGE"
  /\ Commands["Send"][3] = "POWERDOWN"
  /\ Commands["Receive"][1] = "TGINITASTARGET" /\ Commands["Receive"][2] = "TGGETDATA"
  /\ Commands["Receive"][3] = "TGSETDATA" /\ Commands["Receive"][4] = "POWERDOWN"
  /\ Commands["Init"][1] = "GETFIRMWAREVERSION" /\ Commands["Init"][2] = "SAMCONFIGURATION"
  /\ Commands["Init"][3] = "POWERDOWN"
BY DEF Commands

\* None answers no command.
LEMMA NoneIsNoCommand == None \notin Cmds
BY CallsAssumption, Calling, Table DEF Calls, Cmds, InitCmds, TalkCmds

\* A busy task is at one of these commands.
LEMMA AtCommand ==
  ASSUME NEW t \in Tasks, Typed, Busy(t)
  PROVE  /\ call[t] \in Calls /\ call[t] # "none" /\ k[t] \in 1 .. Last(t) /\ Cmd(t) \in Cmds
         /\ \/ call[t] = "Send" /\ Last(t) = 3
               /\ \/ k[t] = 1 /\ Cmd(t) = "INJUMPFORDEP"
                  \/ k[t] = 2 /\ Cmd(t) = "INDATAEXCHANGE"
                  \/ k[t] = 3 /\ Cmd(t) = "POWERDOWN"
            \/ call[t] = "Receive" /\ Last(t) = 4
               /\ \/ k[t] = 1 /\ Cmd(t) = "TGINITASTARGET"
                  \/ k[t] = 2 /\ Cmd(t) = "TGGETDATA"
                  \/ k[t] = 3 /\ Cmd(t) = "TGSETDATA"
                  \/ k[t] = 4 /\ Cmd(t) = "POWERDOWN"
            \/ call[t] = "Init" /\ Last(t) = 3
               /\ \/ k[t] = 1 /\ Cmd(t) = "GETFIRMWAREVERSION"
                  \/ k[t] = 2 /\ Cmd(t) = "SAMCONFIGURATION"
                  \/ k[t] = 3 /\ Cmd(t) = "POWERDOWN"
<1>1. call[t] \in Calls /\ k[t] \in 1 .. Last(t)
  BY CallsAssumption, Calling DEF Busy
<1>2. CASE call[t] = "Send"
  BY <1>1, <1>2, Table DEF Last, Cmd, Cmds, InitCmds, TalkCmds, Calls
<1>3. CASE call[t] = "Receive"
  BY <1>1, <1>3, Table DEF Last, Cmd, Cmds, InitCmds, TalkCmds, Calls
<1>4. CASE call[t] = "Init"
  BY <1>1, <1>4, Table DEF Last, Cmd, Cmds, InitCmds, TalkCmds, Calls
<1> QED
  BY <1>1, <1>2, <1>3, <1>4 DEF Calls

\* The command before the one a task is at is another.
LEMMA CommandBefore ==
  ASSUME NEW t \in Tasks, Typed, Busy(t), k[t] > 1
  PROVE  Commands[call[t]][k[t] - 1] # Cmd(t) /\ Commands[call[t]][k[t] - 1] \in Cmds
BY AtCommand, Table DEF Cmds, InitCmds, TalkCmds

-----------------------------------------------------------------------------
(* The buffer never passes for the reply awaited.                           *)

\* What a task holds while it waits is not accepted, unless nobody looks.
LEMMA NotAccepted ==
  ASSUME Inv, NEW t \in Tasks, at[t] = "reply", Matters(t)
  PROVE  ~Accepts(Cmd(t), m_punIOBuffer[t])
<1>1. Typed /\ Busy(t) /\ call[t] # "none" /\ Stale(t)
  BY DEF Inv, TaskOK, InCall, Idle
<1>2. m_punIOBuffer[t].first # "00"
  BY <1>1 DEF Stale
<1>3. CASE Cmd(t) = "GETFIRMWAREVERSION"
  BY <1>2, <1>3 DEF Accepts
<1>4. CASE Cmd(t) \in {"INJUMPFORDEP", "TGINITASTARGET"}
  <2>1. m_punIOBuffer[t].of = None /\ Cmd(t) # None
    BY <1>1, <1>4, NoneIsNoCommand, AtCommand DEF Stale
  <2> QED
    BY <2>1 DEF Accepts
<1>5. CASE k[t] > 1
  <2>1. m_punIOBuffer[t].of # Cmd(t)
    BY <1>1, <1>5, CommandBefore DEF Stale
  <2> QED
    BY <2>1 DEF Accepts
<1>6. k[t] > 1 \/ Cmd(t) \in {"INJUMPFORDEP", "TGINITASTARGET", "GETFIRMWAREVERSION"}
  BY <1>1, AtCommand DEF Typed, TasksTyped, ChipsTyped
<1> QED
  BY <1>3, <1>4, <1>5, <1>6

\* What a task does to the chip when it reads: it takes the frame, if there is one.
Reads(t) ==
  /\ out' = [out EXCEPT ![FaceOf[t]] = None]
  /\ UNCHANGED <<todo, link, air, answered, heard>>

\* What it makes of it.
Acked(t) ==
  /\ at[t] = "ack" /\ at' = [at EXCEPT ![t] = "reply"]
  /\ UNCHANGED <<call, k, m_punIOBuffer, inbound, success, unAttempts, left, delivered>>
Returned(t) == Return(t) /\ UNCHANGED delivered
Again(t) == call[t] = "Init" /\ unAttempts[t] > 1 /\ Retry(t) /\ UNCHANGED delivered
GivesUp(t) ==
  /\ call[t] # "Init" /\ k[t] < Last(t) /\ Issue(t, Last(t))
  /\ UNCHANGED <<success, inbound, unAttempts, delivered>>
GoesOn(t) ==
  LET frame == out[FaceOf[t]] IN
  /\ at[t] = "reply" /\ k[t] < Last(t) /\ frame # None /\ frame # Ack /\ Accepts(Cmd(t), frame)
  /\ m_punIOBuffer' = [m_punIOBuffer EXCEPT ![t] = frame]
  /\ Issue(t, k[t] + 1) /\ UNCHANGED unAttempts
  /\ delivered' = IF Cmd(t) = "TGGETDATA" THEN delivered \cup {frame.data} ELSE delivered
  /\ inbound' = IF Cmd(t) \in {"INDATAEXCHANGE", "TGGETDATA"}
                THEN [inbound EXCEPT ![t] = frame.data] ELSE inbound
  /\ success' = [success EXCEPT ![t] =
       \/ Cmd(t) = "INDATAEXCHANGE" /\ frame.data = Answer
       \/ Cmd(t) = "TGSETDATA"]

\* A task that reads goes on only with a reply that it has just read.
LEMMA Outcomes ==
  ASSUME Inv, NEW t \in Tasks, ReadAck(t) \/ ReadReply(t) \/ TimedOut(t)
  PROVE  /\ at[t] \in {"ack", "reply"} /\ call[t] # "none" /\ Busy(t)
         /\ Reads(t)
         /\ \E b \in Frames : m_punIOBuffer' = [m_punIOBuffer EXCEPT ![t] = b]
         /\ Acked(t) \/ Returned(t) \/ Again(t) \/ GivesUp(t) \/ GoesOn(t)
<1> DEFINE f    == FaceOf[t]
           Made == Acked(t) \/ Returned(t) \/ Again(t) \/ GivesUp(t) \/ GoesOn(t)
<1>1. at[t] \in {"ack", "reply"}
  BY DEF ReadAck, ReadReply, TimedOut
<1>2. Typed /\ call[t] # "none" /\ Busy(t)
  BY <1>1 DEF Inv, TaskOK, InCall, Idle
<1>3. f \in Faces /\ out[f] \in Frames \cup {None}
  BY <1>2, NFCAssumption DEF Typed, TasksTyped, ChipsTyped
<1>4. Reads(t)
  <2>1. CASE ReadAck(t) \/ ReadReply(t)
    BY <2>1 DEF ReadAck, ReadReply, Reads
  <2>2. CASE TimedOut(t)
    BY <2>2, <1>2, <1>3 DEF TimedOut, chips, Reads, Typed, TasksTyped, ChipsTyped
  <2> QED
    BY <2>1, <2>2
<1>5. \E b \in Frames : m_punIOBuffer' = [m_punIOBuffer EXCEPT ![t] = b]
  <2>1. CASE ReadReply(t)
    BY <2>1, <1>3 DEF ReadReply
  <2>2. CASE m_punIOBuffer' = m_punIOBuffer
    BY <2>2, <1>2 DEF Typed, TasksTyped, ChipsTyped
  <2> QED
    BY <2>1, <2>2 DEF ReadAck, TimedOut
<1>6. ASSUME Rejected(t) PROVE Returned(t) \/ Again(t) \/ GivesUp(t)
  <2>1. k[t] < Last(t) \/ k[t] = Last(t)
    BY <1>2, AtCommand
  <2> QED
    BY <1>6, <2>1 DEF Rejected, InitAgain, Returned, Again, GivesUp
<1>7. ASSUME k[t] = Last(t), Accepted(t) PROVE Returned(t)
  BY <1>7, <1>2, AtCommand DEF Accepted, Returned
<1>8. ASSUME ReadAck(t) PROVE Made
  BY <1>8, <1>6 DEF ReadAck, Acked
<1>9. ASSUME TimedOut(t) PROVE Made
  <2>1. m_punIOBuffer' = m_punIOBuffer /\ (Rejected(t) \/ (at[t] = "reply" /\ Decide(t)))
    BY <1>9 DEF TimedOut
  <2>2. CASE at[t] = "reply" /\ Decide(t) /\ ~Rejected(t)
    <3>1. Accepts(Cmd(t), m_punIOBuffer[t]) /\ Accepted(t)
      BY <2>1, <2>2 DEF Decide
    <3>2. k[t] = Last(t)
      BY <3>1, <2>2, <1>2, NotAccepted, AtCommand DEF Matters
    <3> QED
      BY <3>1, <3>2, <1>7
  <2> QED
    BY <2>1, <2>2, <1>6
<1>10. ASSUME ReadReply(t) PROVE Made
  <2>1. m_punIOBuffer' = [m_punIOBuffer EXCEPT ![t] = out[f]] /\ m_punIOBuffer'[t] = out[f]
        /\ at[t] = "reply" /\ Decide(t) /\ out[f] # None
    BY <1>10, <1>2 DEF ReadReply, Typed, TasksTyped, ChipsTyped
  <2>2. CASE Accepts(Cmd(t), out[f]) /\ Accepted(t) /\ k[t] # Last(t)
    <3>1. k[t] < Last(t)
      BY <2>2, <1>2, AtCommand
    <3>2. out[f] # Ack
      BY <2>2, <1>2, AtCommand, NoneIsNoCommand DEF Accepts, Ack, Frame
    <3> QED
      BY <2>1, <2>2, <3>1, <3>2 DEF Accepted, GoesOn
  <2> QED
    BY <2>1, <2>2, <1>6, <1>7 DEF Decide
<1> QED
  BY <1>1, <1>2, <1>4, <1>5, <1>8, <1>9, <1>10

-----------------------------------------------------------------------------
(* The invariant holds of every behaviour.                                  *)

\* At first no task calls and no chip has anything to do or to say.
LEMMA InitInv == Init => Inv
<1> SUFFICES ASSUME Init PROVE Inv
  OBVIOUS
<1>1. Zeroed \in Frames
  BY DEF Zeroed, Ack, Frame, Frames
<1>2. Typed
  BY <1>1, NFCAssumption DEF Init, Typed, TasksTyped, ChipsTyped
<1>3. ASSUME NEW t \in Tasks PROVE TaskOK(t)
  <2>1. Attempts[t] \in Nat
    BY NFCAssumption
  <2> QED
    BY <2>1, <1>2 DEF Init, TaskOK, InCall, Idle
<1>4. \A f \in Faces : ChipOK(f)
  BY DEF Init, ChipOK
<1> QED
  BY <1>2, <1>3, <1>4 DEF Inv

\* What a task does is nothing to the others.
OthersUntouched(t) ==
  \A u \in Tasks : u # t =>
    /\ call'[u] = call[u] /\ k'[u] = k[u] /\ at'[u] = at[u] /\ inbound'[u] = inbound[u]
    /\ m_punIOBuffer'[u] = m_punIOBuffer[u]
    /\ success'[u] = success[u] /\ unAttempts'[u] = unAttempts[u] /\ left'[u] = left[u]

\* What one task does leaves the others as they were.
LEMMA OthersOK ==
  ASSUME Inv, NEW t \in Tasks, OthersUntouched(t), TaskOK(t)'
  PROVE  \A u \in Tasks : TaskOK(u)'
<1> SUFFICES ASSUME NEW u \in Tasks, u # t PROVE TaskOK(u)'
  OBVIOUS
<1> QED
  BY DEF Inv, OthersUntouched, TaskOK, InCall, Idle, Busy, Stale, Matters, Last, Cmd

\* A call starts with its first command, and all its attempts.
LEMMA CallInv ==
  ASSUME Inv, NEW t \in Tasks, NEW c \in Duties[t], Call(t, c)
  PROVE  Inv' /\ OthersUntouched(t)
<1>1. c \in Calls /\ Typed /\ Attempts[t] \in Nat \ {0}
  BY CallsAssumption, NFCAssumption, Calling DEF Inv
<1>2. Zeroed \in Frames
  BY DEF Zeroed, Ack, Frame, Frames
<1>3. PICK b \in Frames : m_punIOBuffer' = [m_punIOBuffer EXCEPT ![t] = b]
  BY <1>1, <1>2 DEF Call, Typed, TasksTyped
<1>4. Typed'
  BY <1>1, <1>3 DEF Call, chips, Typed, TasksTyped, ChipsTyped
<1>5. OthersUntouched(t)
  BY <1>1, <1>3 DEF Call, chips, OthersUntouched, Typed, TasksTyped
<1>6. call'[t] = c /\ k'[t] = 1 /\ at'[t] = "write" /\ unAttempts'[t] = Attempts[t]
      /\ left'[t] = left[t] /\ success'[t] = success[t] /\ left[t] > 0 /\ call[t] = "none"
  BY <1>1 DEF Call, Typed, TasksTyped
<1>7. ~success[t]
  BY <1>6 DEF Inv, TaskOK, InCall, Idle
<1>8. Busy(t)'
  BY <1>1, <1>6, <1>7, Table DEF Busy, Last, Calls
<1>9. Stale(t)'
  BY <1>6 DEF Stale
<1>10. TaskOK(t)'
  BY <1>1, <1>6, <1>8, <1>9 DEF TaskOK, InCall, Calls
<1>11. \A f \in Faces : ChipOK(f)'
  BY DEF Call, chips, Inv, ChipOK
<1> QED
  BY <1>4, <1>5, <1>10, <1>11, OthersOK DEF Inv

\* The command is laid over the buffer; the chip drops what it had to say.
LEMMA WriteInv ==
  ASSUME Inv, NEW t \in Tasks, WriteCmd(t)
  PROVE  Inv' /\ OthersUntouched(t) /\ Busy(t) /\ call[t] # "none"
<1> DEFINE f == FaceOf[t]
<1>1. Typed /\ Busy(t) /\ call[t] # "none" /\ Stale(t) /\ TaskOK(t) /\ f \in Faces
  BY NFCAssumption DEF Inv, TaskOK, InCall, Idle, WriteCmd
<1>2. Cmd(t) \in Cmds /\ Msg(t) \in Messages
  BY <1>1, AtCommand DEF Msg, Messages, Typed, TasksTyped
<1> DEFINE b == Parameters(Cmd(t), m_punIOBuffer[t])
<1>3. m_punIOBuffer' = [m_punIOBuffer EXCEPT ![t] = b] /\ m_punIOBuffer'[t] = b
  BY <1>1 DEF WriteCmd, Typed, TasksTyped
<1>4. /\ b \in Frames /\ b.first = Cmd(t)
      /\ b.of = IF Cmd(t) \in {"INJUMPFORDEP", "TGINITASTARGET"} THEN None ELSE m_punIOBuffer[t].of
  <2>1. m_punIOBuffer[t] \in Frames
    BY <1>1 DEF Typed, TasksTyped
  <2> QED
    BY <2>1, <1>2 DEF Parameters, Frames
<1>5. /\ todo' \in [Faces -> Orders \cup {None}] /\ out' \in [Faces -> Frames \cup {None}]
      /\ \A h \in Faces : ChipOK(h)'
  <2>1. Ack \in Frames
    BY DEF Ack, Frame, Frames
  <2>2. [cmd |-> Cmd(t), msg |-> Msg(t), sent |-> FALSE] \in Orders
    BY <1>2 DEF Orders
  <2>3. CASE UNCHANGED <<todo, out>>
    BY <2>3, <1>1 DEF Inv, Typed, ChipsTyped, ChipOK
  <2>4. CASE /\ todo' = [todo EXCEPT ![f] = [cmd |-> Cmd(t), msg |-> Msg(t), sent |-> FALSE]]
             /\ out' = [out EXCEPT ![f] = Ack]
    <3>1. todo' \in [Faces -> Orders \cup {None}] /\ out' \in [Faces -> Frames \cup {None}]
      BY <2>1, <2>2, <2>4, <1>1 DEF Typed, ChipsTyped
    <3>2. ASSUME NEW h \in Faces PROVE ChipOK(h)'
      BY <2>4, <1>1 DEF Inv, Typed, ChipsTyped, ChipOK
    <3> QED
      BY <3>1, <3>2
  <2> QED
    BY <2>3, <2>4 DEF WriteCmd
<1>6. Typed'
  BY <1>1, <1>3, <1>4, <1>5 DEF WriteCmd, Typed, TasksTyped, ChipsTyped
<1>7. OthersUntouched(t)
  BY <1>1, <1>3 DEF WriteCmd, OthersUntouched, Typed, TasksTyped
<1>8. at'[t] = "ack" /\ UNCHANGED <<call, k, inbound, success, unAttempts, left>>
  BY <1>1 DEF WriteCmd, Typed, TasksTyped
<1>9. InCall(t)'
  BY <1>1, <1>8 DEF TaskOK, InCall, Busy, Last
<1>10. Stale(t)'
  <2>1. b.first # "00"
    BY <1>2, <1>4 DEF Cmds, InitCmds, TalkCmds
  <2>2. k[t] > 1 => Cmd(t) \notin {"INJUMPFORDEP", "TGINITASTARGET"}
    BY <1>1, AtCommand
  <2> QED
    BY <2>1, <2>2, <1>1, <1>3, <1>4, <1>8 DEF Stale, Matters, Last, Cmd
<1> QED
  BY <1>1, <1>5, <1>6, <1>7, <1>9, <1>10, OthersOK DEF Inv, TaskOK

\* To read a frame is to leave the chip without one.
LEMMA ReadsTyped ==
  ASSUME Inv, NEW t \in Tasks, Reads(t)
  PROVE  ChipsTyped' /\ \A f \in Faces : ChipOK(f)'
<1>1. FaceOf[t] \in Faces /\ ChipsTyped
  BY NFCAssumption DEF Inv, Typed
<1>2. ChipsTyped'
  BY <1>1 DEF Reads, ChipsTyped
<1>3. ASSUME NEW f \in Faces PROVE ChipOK(f)'
  BY <1>1 DEF Reads, Inv, ChipsTyped, ChipOK
<1> QED
  BY <1>2, <1>3

\* However the task goes on, it holds what its next command is to find.
LEMMA ReadInv ==
  ASSUME Inv, NEW t \in Tasks, ReadAck(t) \/ ReadReply(t) \/ TimedOut(t)
  PROVE  Inv' /\ OthersUntouched(t)
<1> DEFINE f == FaceOf[t]
<1>1. /\ at[t] \in {"ack", "reply"} /\ call[t] # "none" /\ Busy(t) /\ Reads(t)
      /\ \E b \in Frames : m_punIOBuffer' = [m_punIOBuffer EXCEPT ![t] = b]
      /\ Acked(t) \/ Returned(t) \/ Again(t) \/ GivesUp(t) \/ GoesOn(t)
  BY Outcomes
<1>2. TasksTyped /\ ChipsTyped /\ TaskOK(t) /\ Stale(t) /\ unAttempts[t] <= Attempts[t] /\ f \in Faces
  BY <1>1, NFCAssumption DEF Inv, Typed, TaskOK, InCall
<1>3. ChipsTyped' /\ \A h \in Faces : ChipOK(h)'
  BY <1>1, ReadsTyped
<1>4. m_punIOBuffer' \in [Tasks -> Frames] /\ \A u \in Tasks : u # t => m_punIOBuffer'[u] = m_punIOBuffer[u]
  BY <1>1, <1>2 DEF TasksTyped
<1>5. Attempts[t] \in Nat /\ unAttempts[t] \in Nat /\ left[t] \in Nat /\ left[t] > 0 /\ k[t] \in Nat
  BY <1>1, <1>2, NFCAssumption DEF TasksTyped, Busy
<1>6. CASE Acked(t)
  <2>1. TasksTyped' /\ OthersUntouched(t)
    BY <1>2, <1>6 DEF Acked, TasksTyped, OthersUntouched
  <2>2. at'[t] = "reply"
    BY <1>2, <1>6 DEF Acked, TasksTyped
  <2>3. TaskOK(t)'
    BY <1>1, <1>2, <1>6, <2>2 DEF Acked, TaskOK, InCall, Busy, Stale, Last, Matters, Cmd
  <2> QED
    BY <1>3, <2>1, <2>3, OthersOK DEF Inv, Typed
<1>7. CASE Returned(t)
  <2>1. TasksTyped' /\ OthersUntouched(t)
    BY <1>2, <1>4, <1>5, <1>7 DEF Returned, Return, TasksTyped, OthersUntouched
  <2>2. call'[t] = "none" /\ at'[t] = "none" /\ success'[t] = FALSE /\ unAttempts'[t] = 0
    BY <1>2, <1>7 DEF Returned, Return, TasksTyped
  <2>3. TaskOK(t)'
    BY <1>5, <2>2 DEF TaskOK, InCall, Idle
  <2> QED
    BY <1>3, <2>1, <2>3, OthersOK DEF Inv, Typed
<1>8. CASE Again(t)
  <2>1. TasksTyped' /\ OthersUntouched(t)
    BY <1>2, <1>4, <1>5, <1>8 DEF Again, Retry, Issue, TasksTyped, OthersUntouched
  <2>2. /\ call'[t] = call[t] /\ at'[t] = "write" /\ success'[t] = success[t] /\ k'[t] = 1
        /\ unAttempts'[t] = unAttempts[t] - 1 /\ left' = left
    BY <1>2, <1>8 DEF Again, Retry, Issue, TasksTyped
  <2>3. ~success[t]
    BY <1>1, <1>8 DEF Again, Busy
  <2>4. TaskOK(t)'
    BY <1>1, <1>2, <1>5, <1>8, <2>2, <2>3, Table DEF Again, TaskOK, InCall, Busy, Stale, Last
  <2> QED
    BY <1>3, <2>1, <2>4, OthersOK DEF Inv, Typed
<1>9. CASE GivesUp(t)
  <2>1. Last(t) \in Nat /\ call[t] \in {"Send", "Receive"} /\ Last(t) >= 1
    BY <1>1, <1>9, AtCommand DEF GivesUp, Inv
  <2>2. TasksTyped' /\ OthersUntouched(t)
    BY <1>2, <1>4, <2>1, <1>9 DEF GivesUp, Issue, TasksTyped, OthersUntouched
  <2>3. /\ call' = call /\ at'[t] = "write" /\ success' = success /\ k'[t] = Last(t)
        /\ unAttempts' = unAttempts /\ left' = left
    BY <1>2, <1>9 DEF GivesUp, Issue, TasksTyped
  <2>4. Last(t)' = Last(t)
    BY <2>3 DEF Last
  <2>5. TaskOK(t)'
    BY <1>1, <1>2, <2>1, <2>3, <2>4 DEF TaskOK, InCall, Busy, Stale, Matters
  <2> QED
    BY <1>3, <2>2, <2>5, OthersOK DEF Inv, Typed
<1>10. CASE GoesOn(t)
  <2> DEFINE frame == out[f]
  <2>1. frame \in Frames /\ frame # Ack /\ frame # None /\ m_punIOBuffer'[t] = frame
    BY <1>2, <1>10 DEF GoesOn, TasksTyped, ChipsTyped
  <2>2. frame.data \in Messages \cup {Answer, None}
    BY <2>1 DEF Frames
  <2>3. frame.of = Cmd(t)
    BY <1>10 DEF GoesOn, Accepts
  <2>4. Cmd(t) = "TGGETDATA" => frame.data \in Messages
    <3>1. Cmd(t) = "TGGETDATA" => frame.status = 0
      BY <1>10 DEF GoesOn, Accepts
    <3> QED
      BY <1>2, <2>1, <2>3, <3>1 DEF Inv, ChipOK
  <2>5. TasksTyped' /\ OthersUntouched(t)
    BY <1>2, <1>4, <1>5, <2>2, <2>4, <1>10 DEF GoesOn, Issue, TasksTyped, OthersUntouched
  <2>6. /\ call' = call /\ at'[t] = "write" /\ k'[t] = k[t] + 1 /\ k[t] < Last(t)
        /\ unAttempts' = unAttempts /\ left' = left
        /\ success'[t] = \/ Cmd(t) = "INDATAEXCHANGE" /\ frame.data = Answer
                         \/ Cmd(t) = "TGSETDATA"
    BY <1>2, <1>10 DEF GoesOn, Issue, TasksTyped
  <2>7. Last(t)' = Last(t)
    BY <2>6 DEF Last
  <2>8. k'[t] \in 1 .. Last(t) /\ (success'[t] => k'[t] = Last(t) /\ call[t] # "Init")
    BY <1>1, <2>6, AtCommand DEF Inv
  <2>9. Busy(t)'
    BY <1>1, <2>6, <2>7, <2>8 DEF Busy
  <2>10. Stale(t)'
    <3>1. Commands[call'[t]][k'[t] - 1] = Cmd(t)
      BY <1>5, <2>6 DEF Cmd
    <3> QED
      BY <2>1, <2>3, <2>6, <3>1 DEF Stale
  <2>11. TaskOK(t)'
    BY <1>1, <1>2, <2>6, <2>9, <2>10 DEF TaskOK, InCall
  <2> QED
    BY <1>3, <2>5, <2>11, OthersOK DEF Inv, Typed
<1> QED
  BY <1>1, <1>6, <1>7, <1>8, <1>9, <1>10

\* The reply a chip gives.
LEMMA AReply ==
  ASSUME NEW cmd \in Cmds, NEW status \in {0, 1}, NEW data \in Messages \cup {Answer, None}
  PROVE  /\ Reply(cmd, status, data) \in Frames
         /\ Reply(cmd, status, data).of = cmd /\ Reply(cmd, status, data).status = status
         /\ Reply(cmd, status, data).data = data
<1>1. Reply(cmd, status, data).of = cmd /\ Reply(cmd, status, data).status = status
         /\ Reply(cmd, status, data).data = data
  BY DEF Reply, Frame
<1> QED
  BY <1>1 DEF Reply, Frame, Frames

\* What the chips do is nothing to the tasks.
LEMMA TasksUntouched ==
  ASSUME Inv, UNCHANGED <<task, delivered>>
  PROVE  TasksTyped' /\ \A t \in Tasks : TaskOK(t)'
<1>1. TasksTyped'
  BY DEF Inv, Typed, TasksTyped, task
<1>2. ASSUME NEW t \in Tasks PROVE TaskOK(t)'
  BY DEF Inv, task, TaskOK, InCall, Idle, Busy, Stale, Matters, Last, Cmd
<1> QED
  BY <1>1, <1>2

\* A chip replies once it has executed.
LEMMA RepliesOK ==
  ASSUME Inv, NEW f \in Faces, NEW status \in {0, 1}, NEW data \in Messages \cup {Answer, None},
         todo[f] # None, Replies(f, status, data),
         todo[f].cmd = "TGGETDATA" /\ status = 0 => data \in Messages
  PROVE  /\ todo' \in [Faces -> Orders \cup {None}] /\ out' \in [Faces -> Frames \cup {None}]
         /\ \A h \in Faces : ChipOK(h)'
<1>1. todo[f] \in Orders /\ ChipsTyped
  BY DEF Inv, Typed, ChipsTyped
<1> DEFINE reply == Reply(todo[f].cmd, status, data)
<1>2. todo[f].cmd \in Cmds
  BY <1>1 DEF Orders
<1>3. reply \in Frames /\ reply.of = todo[f].cmd /\ reply.status = status /\ reply.data = data
  BY <1>2, AReply
<1>4. out' = [out EXCEPT ![f] = reply] /\ todo' = [todo EXCEPT ![f] = None]
  BY DEF Replies
<1> HIDE DEF reply
<1>5. ASSUME NEW h \in Faces PROVE ChipOK(h)'
  BY <1>1, <1>3, <1>4 DEF Inv, ChipsTyped, ChipOK
<1> QED
  BY <1>1, <1>3, <1>4, <1>5 DEF ChipsTyped

\* A chip has one thing at a time: a command, or the reply to it.
LEMMA ChipInv ==
  ASSUME Inv, NEW f \in Faces, Chip(f)
  PROVE  Inv'
<1> DEFINE g == Peer(f)
<1>1. UNCHANGED <<task, delivered>> /\ ChipsTyped
  BY DEF Chip, Inv, Typed
<1>2. SUFFICES ChipsTyped' /\ \A h \in Faces : ChipOK(h)'
  BY <1>1, TasksUntouched DEF Inv, Typed
<1>3. CASE Obey(f)
  <2>1. Replies(f, 0, None) /\ todo[f] # None /\ todo[f].cmd # "TGGETDATA"
    BY <1>3 DEF Obey, Executes
  <2> QED
    BY <1>1, <1>3, <2>1, RepliesOK DEF Obey, ChipsTyped
<1>4. CASE PowerDown(f)
  <2>1. PICK status \in {0, 1} : Replies(f, status, None)
    BY <1>4 DEF PowerDown
  <2>2. todo[f] # None /\ todo[f].cmd # "TGGETDATA"
    BY <1>4 DEF PowerDown, Executes
  <2> QED
    BY <1>1, <1>4, <2>1, <2>2, RepliesOK DEF PowerDown, ChipsTyped
<1>5. CASE Fail(f)
  <2>1. Replies(f, 1, None) /\ todo[f] # None
    BY <1>5 DEF Fail, Executes
  <2> QED
    BY <1>1, <1>5, <2>1, RepliesOK DEF Fail, ChipsTyped
<1>6. CASE Activate(f)
  <2>1. /\ todo[f] # None /\ todo[f].cmd = "INJUMPFORDEP"
        /\ todo[g] # None /\ todo[g].cmd = "TGINITASTARGET"
        /\ link' = f /\ air' = None /\ heard' = None
        /\ out' = [h \in Faces |-> Reply(todo[h].cmd, 0, None)]
        /\ todo' = [h \in Faces |-> None]
    BY <1>6 DEF Activate, Executes
  <2>2. ASSUME NEW h \in Faces
        PROVE  /\ Reply(todo[h].cmd, 0, None) \in Frames
               /\ Reply(todo[h].cmd, 0, None).of # "TGGETDATA"
    <3>1. todo[h].cmd \in {"INJUMPFORDEP", "TGINITASTARGET"}
      BY <2>1, Peers
    <3> QED
      BY <3>1, AReply DEF Cmds, TalkCmds
  <2>3. out' \in [Faces -> Frames \cup {None}] /\ todo' \in [Faces -> Orders \cup {None}]
    BY <2>1, <2>2
  <2>4. ASSUME NEW h \in Faces PROVE ChipOK(h)'
    BY <2>1, <2>2 DEF ChipOK
  <2> QED
    BY <2>1, <2>3, <2>4 DEF ChipsTyped
<1>7. CASE Emit(f)
  <2>1. /\ todo[f] # None /\ out[f] = None /\ air' = todo[f].msg
        /\ todo' = [todo EXCEPT ![f].sent = TRUE] /\ UNCHANGED <<out, link, heard>>
    BY <1>7 DEF Emit, Executes
  <2>2. todo[f] \in Orders
    BY <1>1, <2>1 DEF ChipsTyped
  <2>3. todo' \in [Faces -> Orders \cup {None}] /\ air' \in Messages
    BY <1>1, <2>1, <2>2 DEF ChipsTyped, Orders
  <2>4. ASSUME NEW h \in Faces PROVE ChipOK(h)'
    BY <1>1, <2>1 DEF Inv, ChipsTyped, ChipOK
  <2> QED
    BY <1>1, <2>1, <2>3, <2>4 DEF ChipsTyped
<1>8. CASE TargetHears(f)
  <2>1. Replies(f, 0, air) /\ todo[f] # None /\ air \in Messages /\ heard' = air /\ air' = None
        /\ link' = link
    BY <1>8 DEF TargetHears, Executes
  <2> QED
    BY <1>1, <2>1, RepliesOK DEF ChipsTyped
<1>9. CASE TargetAnswers(f)
  <2>1. Replies(f, 0, None) /\ todo[f] # None /\ todo[f].cmd # "TGGETDATA"
    BY <1>9 DEF TargetAnswers, Executes
  <2> QED
    BY <1>1, <1>9, <2>1, RepliesOK DEF TargetAnswers, ChipsTyped
<1>10. CASE InitiatorHears(f)
  <2>1. Replies(f, 0, Answer) /\ todo[f] # None /\ todo[f].cmd # "TGGETDATA"
    BY <1>10 DEF InitiatorHears, Executes
  <2> QED
    BY <1>1, <1>10, <2>1, RepliesOK DEF InitiatorHears, ChipsTyped
<1> QED
  BY <1>3, <1>4, <1>5, <1>6, <1>7, <1>8, <1>9, <1>10 DEF Chip

\* Every step keeps it.
LEMMA NextInv == Inv /\ [Next]_vars => Inv'
<1> SUFFICES ASSUME Inv, [Next]_vars PROVE Inv'
  OBVIOUS
<1>1. ASSUME NEW t \in Tasks, Proceed(t) PROVE Inv'
  BY <1>1, WriteInv, ReadInv DEF Proceed
<1>2. ASSUME NEW t \in Tasks, NEW c \in Duties[t], Call(t, c) PROVE Inv'
  BY <1>2, CallInv
<1>3. ASSUME NEW f \in Faces, Chip(f) PROVE Inv'
  BY <1>3, ChipInv
<1>4. ASSUME UNCHANGED vars PROVE Inv'
  <2>1. UNCHANGED <<task, delivered>> /\ UNCHANGED <<todo, out, link, air, heard>>
    BY <1>4 DEF vars, chips
  <2>2. ChipsTyped' /\ \A f \in Faces : ChipOK(f)'
    BY <2>1 DEF Inv, Typed, ChipsTyped, ChipOK
  <2> QED
    BY <2>1, <2>2, TasksUntouched DEF Inv, Typed
<1> QED
  BY <1>1, <1>2, <1>3, <1>4 DEF Next

\* The invariant holds in every behaviour: types, the place of each task in its
\* call, what its buffer holds, and that a chip has a command or a reply.
THEOREM Invariance == Spec => []Inv
BY InitInv, NextInv, PTL DEF Spec

\* The types of the tasks' calls and of what the chips say.
THEOREM TypeCorrect == Spec => []TypeOK
<1>1. Inv => TypeOK
  <2> SUFFICES ASSUME Inv PROVE TypeOK
    OBVIOUS
  <2>1. ASSUME NEW t \in Tasks
        PROVE  /\ call[t] \in DOMAIN Commands \cup {"none"}
               /\ call[t] # "none" => k[t] \in 1 .. Last(t)
               /\ at[t] \in {"write", "ack", "reply", "none"}
               /\ unAttempts[t] \in 0 .. Attempts[t]
               /\ left[t] \in Nat
    BY Calling, NFCAssumption DEF Inv, Typed, TasksTyped, TaskOK, InCall, Busy
  <2> QED
    BY <2>1 DEF TypeOK, Inv, Typed, TasksTyped, ChipsTyped
<1> QED
  BY <1>1, Invariance, PTL

\* Whatever read_dt() returns, what is in the buffer passes for a reply only if
\* it was read for it.
THEOREM OwnReplies == Spec => []OwnReply
<1>1. Inv => OwnReply
  BY NotAccepted DEF OwnReply
<1> QED
  BY <1>1, Invariance, PTL

-----------------------------------------------------------------------------
(* What the chips say is true, when one task at most talks through a face.  *)

\* At first nothing is said.
LEMMA InitHonest == Init => Honest
<1> SUFFICES ASSUME Init PROVE Honest
  OBVIOUS
<1>1. ASSUME NEW t \in Tasks PROVE OwnWords(t) /\ Truth(t)
  <2>1. call[t] = "none" /\ success[t] = FALSE
    BY <1>1 DEF Init
  <2> QED
    BY <2>1 DEF OwnWords, Speaking, Truth, At
<1>2. ASSUME NEW f \in Faces PROVE Exchange(f) /\ Heard(f)
  <2>1. link # f /\ link # Peer(f)
    BY <1>2, Peers, Different DEF Init
  <2> QED
    BY <2>1 DEF Exchange, Heard
<1> QED
  BY <1>1, <1>2 DEF Honest

\* The commands by which a task in the middle of a call is known.
LEMMA SpeakingAt ==
  ASSUME Inv, NEW t \in Tasks
  PROVE  /\ Speaking(t) => /\ Cmd(t) \in {"INDATAEXCHANGE", "TGGETDATA", "TGSETDATA"}
                           /\ call[t] # "none" /\ Talks(t)
         /\ At(t, "Send", 2) => Speaking(t) /\ Cmd(t) = "INDATAEXCHANGE"
         /\ At(t, "Receive", 3) => Speaking(t) /\ Cmd(t) = "TGSETDATA"
         /\ call[t] \in {"Send", "Receive"} => Talks(t)
         /\ call[t] # "none" /\ call[t] \notin {"Send", "Receive"} => Cmd(t) \in InitCmds
<1>1. Typed /\ (call[t] # "none" => Busy(t))
  BY DEF Inv, TaskOK, InCall
<1>2. call[t] \in {"Send", "Receive"} => Talks(t)
  BY <1>1 DEF Busy, Talks
<1>3. CASE call[t] = "none"
  BY <1>3 DEF Speaking, At
<1>4. CASE call[t] # "none"
  BY <1>1, <1>2, <1>4, AtCommand DEF Speaking, At, InitCmds
<1> QED
  BY <1>2, <1>3, <1>4

\* Two tasks that call Send() or Receive() do so for different faces.
LEMMA NoOtherVoice ==
  ASSUME Inv, OneVoice, NEW t \in Tasks, NEW u \in Tasks, u # t, FaceOf[u] = FaceOf[t],
         Speaking(u), call[t] # "none"
  PROVE  Cmd(t) \in InitCmds
BY SpeakingAt DEF OneVoice

\* A call that starts says nothing yet.
LEMMA CallHonest ==
  ASSUME Inv, Honest, NEW t \in Tasks, NEW c \in Duties[t], Call(t, c)
  PROVE  Honest'
<1>1. /\ UNCHANGED <<todo, out, link, air, answered, heard, delivered>>
      /\ k'[t] = 1 /\ success'[t] = FALSE
  BY DEF Call, chips, Inv, Typed, TasksTyped, TaskOK, InCall, Idle
<1>2. OthersUntouched(t)
  BY CallInv
<1>3. ASSUME NEW u \in Tasks PROVE OwnWords(u)' /\ Truth(u)'
  <2>1. CASE u = t
    BY <1>1, <2>1 DEF OwnWords, Speaking, Truth, At
  <2>2. CASE u # t
    <3>1. /\ Cmd(u)' = Cmd(u) /\ Msg(u)' = Msg(u) /\ Speaking(u)' = Speaking(u)
          /\ \A d, n : At(u, d, n)' = At(u, d, n)
          /\ call'[u] = call[u] /\ at'[u] = at[u] /\ inbound'[u] = inbound[u] /\ success'[u] = success[u]
      BY <1>2, <2>2 DEF OthersUntouched, Speaking, At, Msg, Cmd, Last
    <3>2. OwnWords(u)'
      BY <1>1, <3>1 DEF Honest, OwnWords
    <3>3. Truth(u)'
      BY <1>1, <3>1 DEF Honest, Truth, Says
    <3> QED
      BY <3>2, <3>3
  <2> QED
    BY <2>1, <2>2
<1>4. ASSUME NEW f \in Faces PROVE Exchange(f)' /\ Heard(f)'
  BY <1>1, <1>2 DEF Honest, OthersUntouched, Exchange, Heard, Fresh, Sent, Confirming, Says, Doing, At
<1> QED
  BY <1>3, <1>4 DEF Honest

\* A command is the task's own: what it says is said from here on.
LEMMA WriteHonest ==
  ASSUME Inv, OneVoice, Honest, NEW t \in Tasks, WriteCmd(t)
  PROVE  Honest'
<1> DEFINE f     == FaceOf[t]
           order == [cmd |-> Cmd(t), msg |-> Msg(t), sent |-> FALSE]
<1>1. /\ OthersUntouched(t) /\ Busy(t) /\ call[t] # "none" /\ f \in Faces /\ ChipsTyped
      /\ at[t] = "write" /\ at'[t] = "ack"
      /\ UNCHANGED <<call, k, inbound, success, left, link, air, answered, heard, delivered>>
  BY WriteInv, NFCAssumption DEF WriteCmd, Inv, Typed, TasksTyped
<1>2. Cmd(t)' = Cmd(t) /\ Msg(t)' = Msg(t) /\ Last(t)' = Last(t)
  BY <1>1 DEF Cmd, Msg, Last
<1>3. \/ UNCHANGED <<todo, out>>
      \/ /\ todo' = [todo EXCEPT ![f] = order] /\ out' = [out EXCEPT ![f] = Ack]
  BY DEF WriteCmd
<1>4. /\ \A h \in Faces : h # f => todo'[h] = todo[h] /\ out'[h] = out[h]
      /\ \/ todo'[f] = todo[f] /\ out'[f] = out[f]
         \/ todo'[f] = order /\ out'[f] = Ack
  BY <1>1, <1>3 DEF ChipsTyped
<1>5. order.cmd = Cmd(t) /\ order.msg = Msg(t) /\ order.sent = FALSE
  OBVIOUS
<1>6. Ack.of = None /\ None \notin Cmds
  BY NoneIsNoCommand DEF Ack, Frame
<1> HIDE DEF order, f
<1>7. ASSUME NEW u \in Tasks PROVE OwnWords(u)'
  <2>1. FaceOf[u] \in Faces /\ OwnWords(u)
    BY NFCAssumption DEF Honest
  <2>2. CASE u = t
    BY <1>1, <1>2, <1>4, <1>5, <1>6, <2>1, <2>2 DEF OwnWords, Speaking, f
  <2>3. CASE u # t
    <3>1. Cmd(u)' = Cmd(u) /\ Msg(u)' = Msg(u) /\ Speaking(u)' = Speaking(u) /\ at'[u] = at[u]
      BY <1>1, <2>3 DEF Cmd, Msg, Speaking, Last, OthersUntouched
    <3>2. CASE FaceOf[u] = f /\ Speaking(u)
      <4>1. Cmd(t) \in InitCmds
        BY <1>1, <2>3, <3>2, NoOtherVoice DEF f
      <4>2. Cmd(u) \notin InitCmds
        BY <3>2, SpeakingAt DEF InitCmds
      <4> QED
        BY <1>4, <1>5, <1>6, <2>1, <3>1, <3>2, <4>1, <4>2 DEF OwnWords
    <3>3. CASE FaceOf[u] # f \/ ~Speaking(u)
      BY <1>4, <2>1, <3>1, <3>3 DEF OwnWords
    <3> QED
      BY <3>2, <3>3
  <2> QED
    BY <2>2, <2>3
<1>8. ASSUME NEW h \in Faces, NEW cmd \in Cmds, Says(h, cmd)' PROVE Says(h, cmd) /\ out'[h] = out[h]
  BY <1>4, <1>6, <1>8 DEF Says
<1>9. ASSUME NEW u \in Tasks PROVE Truth(u)'
  <2>1. FaceOf[u] \in Faces /\ Truth(u) /\ "INDATAEXCHANGE" \in Cmds /\ "TGSETDATA" \in Cmds
    BY NFCAssumption DEF Honest, Cmds, TalkCmds
  <2>2. Msg(u)' = Msg(u)
    BY <1>1 DEF Msg
  <2> QED
    BY <1>1, <1>8, <2>1, <2>2 DEF Truth, At
<1>10. At(t, "Send", 2) <=> Cmd(t) = "INDATAEXCHANGE"
  BY <1>1, AtCommand DEF At, Inv
<1>11. At(t, "Receive", 3) <=> Cmd(t) = "TGSETDATA"
  BY <1>1, AtCommand DEF At, Inv
<1>12. ASSUME NEW h \in Faces PROVE Exchange(h)'
  <2>1. Fresh(h)' => Fresh(h)
    <3>1. "INJUMPFORDEP" \in Cmds
      BY DEF Cmds, TalkCmds
    <3>2. ASSUME NEW u \in Tasks, FaceOf[u] = h, At(u, "Send", 2)', at'[u] = "write" PROVE Fresh(h)
      BY <1>1, <3>2 DEF OthersUntouched, Fresh, At
    <3>3. ASSUME Doing(h, "INDATAEXCHANGE")', ~todo'[h].sent PROVE Fresh(h)
      BY <1>1, <1>4, <1>5, <1>10, <3>3 DEF Fresh, Doing, f
    <3> QED
      BY <1>8, <3>1, <3>2, <3>3 DEF Fresh
  <2>2. Sent(h)' => Sent(h) /\ todo'[h] = todo[h]
    BY <1>4, <1>5 DEF Sent, Doing
  <2> QED
    BY <1>1, <2>1, <2>2 DEF Honest, Exchange
<1>13. ASSUME NEW h \in Faces PROVE Heard(h)'
  <2>1. "TGGETDATA" \in Cmds
    BY DEF Cmds, TalkCmds
  <2>2. Doing(h, "TGSETDATA")' => Doing(h, "TGSETDATA") \/ Confirming(h, t)
    BY <1>1, <1>4, <1>5, <1>11 DEF Doing, Confirming, f
  <2>3. ASSUME NEW u \in Tasks, Confirming(h, u)' PROVE Confirming(h, u)
    <3>1. FaceOf[u] = h /\ At(u, "Receive", 3)
      BY <1>1, <2>3 DEF Confirming, At
    <3>2. CASE u = t
      BY <1>1, <3>1, <3>2 DEF Confirming
    <3>3. CASE u # t
      <4>1. Speaking(u)
        BY <3>1, SpeakingAt
      <4>2. f = h => Cmd(t) \in InitCmds
        BY <1>1, <3>1, <3>3, <4>1, NoOtherVoice DEF f
      <4>3. Doing(h, "TGSETDATA")' => Doing(h, "TGSETDATA")
        BY <1>4, <1>5, <4>2 DEF Doing, InitCmds
      <4> QED
        BY <1>1, <2>3, <3>1, <3>3, <4>3 DEF Confirming, OthersUntouched
    <3> QED
      BY <3>2, <3>3
  <2> QED
    BY <1>1, <1>8, <2>1, <2>2, <2>3 DEF Honest, Heard
<1> QED
  BY <1>7, <1>9, <1>12, <1>13 DEF Honest

\* What is read is known to be true, and the task that reads it goes on from there.
LEMMA ReadHonest ==
  ASSUME Inv, Honest, NEW t \in Tasks, ReadAck(t) \/ ReadReply(t) \/ TimedOut(t)
  PROVE  Honest'
<1> DEFINE f == FaceOf[t]
<1>1. /\ at[t] \in {"ack", "reply"} /\ call[t] # "none" /\ Busy(t) /\ Reads(t)
      /\ Acked(t) \/ Returned(t) \/ Again(t) \/ GivesUp(t) \/ GoesOn(t)
  BY Outcomes
<1>2. TasksTyped /\ ChipsTyped /\ f \in Faces /\ OthersUntouched(t)
  BY ReadInv, NFCAssumption DEF Inv, Typed
<1>3. /\ UNCHANGED <<todo, link, air, answered, heard>> /\ out'[f] = None
      /\ \A h \in Faces : h # f => out'[h] = out[h]
  BY <1>1, <1>2 DEF Reads, ChipsTyped
<1>4. delivered \subseteq delivered'
  BY <1>1 DEF Acked, Returned, Again, GivesUp, GoesOn
<1>5. ASSUME NEW h \in Faces, NEW cmd, Says(h, cmd)' PROVE h # f /\ Says(h, cmd) /\ out'[h] = out[h]
  BY <1>3, <1>5 DEF Says
<1>6. ASSUME GoesOn(t)
      PROVE  /\ todo[f] = None /\ out[f] # None /\ out[f].of = Cmd(t) /\ k'[t] = k[t] + 1
             /\ Cmd(t) # "TGINITASTARGET" => Says(f, Cmd(t)) \/ call[t] = "Init"
  <2>1. out[f] # None /\ out[f] # Ack /\ Accepts(Cmd(t), out[f]) /\ k'[t] = k[t] + 1 /\ k[t] < Last(t)
    BY <1>2, <1>6 DEF GoesOn, Issue, TasksTyped
  <2>2. todo[f] = None
    BY <1>2, <2>1 DEF Inv, ChipOK
  <2>3. Cmd(t) \in {"GETFIRMWAREVERSION", "SAMCONFIGURATION"} => call[t] = "Init"
    BY <1>1, AtCommand DEF Inv
  <2> QED
    BY <2>1, <2>2, <2>3 DEF Accepts, Says
\* How the task goes on.
<1>7. /\ At(t, "Send", 2)' => Acked(t) \/ (GoesOn(t) /\ At(t, "Send", 1))
      /\ At(t, "Receive", 3)' => Acked(t) \/ (GoesOn(t) /\ At(t, "Receive", 2))
      /\ Speaking(t)' => Acked(t) \/ GoesOn(t)
  <2>1. CASE Acked(t)
    BY <2>1
  <2>2. CASE Returned(t)
    <3>1. call'[t] = "none"
      BY <1>2, <2>2 DEF Returned, Return, TasksTyped
    <3> QED
      BY <3>1 DEF At, Speaking
  <2>3. CASE Again(t)
    <3>1. call'[t] = "Init"
      BY <2>3 DEF Again, Retry, Issue
    <3> QED
      BY <3>1 DEF At, Speaking
  <2>4. CASE GivesUp(t)
    <3>1. call' = call /\ k'[t] = Last(t) /\ Last(t)' = Last(t)
      BY <1>2, <2>4 DEF GivesUp, Issue, TasksTyped, Last
    <3>2. (call[t] = "Send" => Last(t) = 3) /\ (call[t] = "Receive" => Last(t) = 4) /\ Last(t) \in Nat
      BY <1>1, AtCommand DEF Inv
    <3> QED
      BY <3>1, <3>2 DEF At, Speaking
  <2>5. CASE GoesOn(t)
    <3>1. call' = call /\ k'[t] = k[t] + 1 /\ k[t] \in Nat
      BY <1>2, <2>5 DEF GoesOn, Issue, TasksTyped
    <3> QED
      BY <2>5, <3>1 DEF At
  <2> QED
    BY <1>1, <2>1, <2>2, <2>3, <2>4, <2>5
<1>8. Acked(t) => /\ at[t] = "ack" /\ at'[t] = "reply"
                  /\ UNCHANGED <<call, k, inbound, success, left, delivered>>
  BY <1>2 DEF Acked, TasksTyped
<1>9. GoesOn(t) => at'[t] = "write"
  BY <1>2 DEF GoesOn, Issue, TasksTyped
<1>10. GoesOn(t) /\ At(t, "Receive", 2) => /\ Says(f, "TGGETDATA")
                                          /\ inbound'[t] = out[f].data /\ out[f].data \in delivered'
  <2> SUFFICES ASSUME GoesOn(t), At(t, "Receive", 2)
               PROVE  Says(f, "TGGETDATA") /\ inbound'[t] = out[f].data /\ out[f].data \in delivered'
    OBVIOUS
  <2>1. Cmd(t) = "TGGETDATA" /\ call[t] # "Init"
    BY <1>1, AtCommand DEF Inv, At
  <2> QED
    BY <1>2, <1>6, <2>1 DEF GoesOn, TasksTyped
<1>11. ASSUME NEW u \in Tasks, u # t
       PROVE  /\ Cmd(u)' = Cmd(u) /\ Msg(u)' = Msg(u) /\ Speaking(u)' = Speaking(u)
              /\ \A d, n : At(u, d, n)' = At(u, d, n)
              /\ call'[u] = call[u] /\ at'[u] = at[u] /\ inbound'[u] = inbound[u] /\ success'[u] = success[u]
  BY <1>2, <1>11 DEF OthersUntouched, Speaking, At, Msg, Cmd, Last
<1>12. ASSUME NEW u \in Tasks PROVE OwnWords(u)'
  <2>1. FaceOf[u] \in Faces /\ OwnWords(u)
    BY NFCAssumption DEF Honest
  <2>2. out'[FaceOf[u]] = None \/ out'[FaceOf[u]] = out[FaceOf[u]]
    BY <1>3, <2>1
  <2>3. CASE u # t
    BY <1>3, <1>11, <2>1, <2>2, <2>3 DEF OwnWords
  <2>4. CASE u = t /\ Acked(t)
    <3>1. Cmd(t)' = Cmd(t) /\ Msg(t)' = Msg(t) /\ Speaking(t)' = Speaking(t)
      BY <1>8, <2>4 DEF Cmd, Msg, Speaking, Last
    <3> QED
      BY <1>3, <1>8, <2>1, <2>4, <3>1 DEF OwnWords
  <2>5. CASE u = t /\ GoesOn(t)
    BY <1>3, <1>6, <2>5 DEF OwnWords
  <2>6. CASE u = t /\ ~Speaking(t)'
    BY <2>6 DEF OwnWords
  <2> QED
    BY <1>7, <2>3, <2>4, <2>5, <2>6
<1>13. ASSUME NEW u \in Tasks PROVE Truth(u)'
  <2>1. FaceOf[u] \in Faces /\ Truth(u)
    BY NFCAssumption DEF Honest
  <2>2. CASE u # t
    BY <1>3, <1>4, <1>5, <1>11, <2>1, <2>2 DEF Truth
  <2>3. CASE u = t /\ Acked(t)
    BY <1>3, <1>5, <1>8, <2>1, <2>3 DEF Truth, At, Msg
  <2>4. CASE u = t /\ GoesOn(t)
    <3>1. /\ call' = call /\ left' = left /\ call[t] \in Calls
          /\ success'[t] = \/ Cmd(t) = "INDATAEXCHANGE" /\ out[f].data = Answer
                           \/ Cmd(t) = "TGSETDATA"
      BY <1>1, <1>2, <2>4, AtCommand DEF GoesOn, Issue, TasksTyped, Inv
    <3>2. ~Says(f, "INDATAEXCHANGE")' /\ ~Says(f, "TGSETDATA")'
      BY <1>5, <1>2
    <3>3. ASSUME success'[t], call'[t] = "Send" PROVE Msg(t)' \in delivered'
      <4>1. Cmd(t) = "INDATAEXCHANGE" /\ At(t, "Send", 2) /\ out[f].data = Answer
        BY <1>1, <3>1, <3>3, AtCommand DEF Inv, At
      <4>2. Says(f, "INDATAEXCHANGE")
        BY <1>6, <2>4, <4>1 DEF At
      <4> QED
        BY <1>4, <2>1, <2>4, <3>1, <4>1, <4>2 DEF Truth, Msg
    <3>4. ASSUME success'[t], call'[t] = "Receive" PROVE inbound'[t] \in answered'
      <4>1. Cmd(t) = "TGSETDATA" /\ At(t, "Receive", 3)
        BY <1>1, <3>1, <3>4, AtCommand DEF Inv, At
      <4>2. Says(f, "TGSETDATA")
        BY <1>6, <2>4, <4>1 DEF At
      <4>3. inbound'[t] = inbound[t]
        BY <2>4, <4>1 DEF GoesOn
      <4> QED
        BY <1>3, <2>1, <2>4, <4>1, <4>2, <4>3 DEF Truth
    <3> QED
      BY <2>4, <3>2, <3>3, <3>4 DEF Truth
  <2>5. CASE u = t /\ (Returned(t) \/ Again(t) \/ GivesUp(t))
    <3>1. ~success'[t]
      <4>1. CASE Returned(t)
        BY <1>2, <4>1 DEF Returned, Return, TasksTyped
      <4>2. CASE Again(t)
        BY <1>1, <4>2 DEF Again, Retry, Busy
      <4>3. CASE GivesUp(t)
        <5>1. k[t] # Last(t)
          BY <1>1, <4>3, AtCommand DEF GivesUp, Inv
        <5> QED
          BY <1>1, <4>3, <5>1 DEF GivesUp, Busy
      <4> QED
        BY <2>5, <4>1, <4>2, <4>3
    <3>2. ~Says(f, "INDATAEXCHANGE")' /\ ~Says(f, "TGSETDATA")'
      BY <1>5, <1>2
    <3> QED
      BY <2>5, <3>1, <3>2 DEF Truth
  <2> QED
    BY <1>1, <2>2, <2>3, <2>4, <2>5
<1>14. ASSUME NEW h \in Faces PROVE Exchange(h)'
  <2>1. Fresh(h)' => Fresh(h)
    <3>1. ASSUME NEW u \in Tasks, FaceOf[u] = h, At(u, "Send", 2)', at'[u] = "write" PROVE Fresh(h)
      <4>1. CASE u # t
        BY <1>11, <3>1, <4>1 DEF Fresh
      <4>2. CASE u = t
        <5>1. GoesOn(t) /\ At(t, "Send", 1)
          BY <1>7, <1>8, <3>1, <4>2
        <5>2. Cmd(t) = "INJUMPFORDEP" /\ call[t] # "Init"
          BY <1>1, <5>1, AtCommand DEF At, Inv
        <5> QED
          BY <1>6, <3>1, <4>2, <5>1, <5>2 DEF Fresh
      <4> QED
        BY <4>1, <4>2
    <3> QED
      BY <1>3, <1>5, <3>1 DEF Fresh, Doing
  <2>2. Sent(h)' = Sent(h)
    BY <1>3 DEF Sent, Doing
  <2> QED
    BY <1>3, <1>4, <2>1, <2>2 DEF Honest, Exchange
<1>15. ASSUME NEW h \in Faces PROVE Heard(h)'
  <2> SUFFICES ASSUME link = Peer(h)
               PROVE  /\ Says(h, "TGGETDATA")' => heard = out'[h].data
                      /\ Doing(h, "TGSETDATA") => heard \in delivered'
                      /\ \A u \in Tasks : Confirming(h, u)' => heard = inbound'[u] /\ heard \in delivered'
    BY <1>3 DEF Heard, Doing
  <2>1. Heard(h)
    BY DEF Honest
  <2>2. ASSUME NEW u \in Tasks, Confirming(h, u)' PROVE heard = inbound'[u] /\ heard \in delivered'
    <3>1. CASE u # t
      <4>1. Confirming(h, u)
        BY <1>3, <1>11, <2>2, <3>1 DEF Confirming, Doing
      <4> QED
        BY <1>4, <1>11, <2>1, <3>1, <4>1 DEF Heard
    <3>2. CASE u = t /\ Acked(t)
      <4>1. Confirming(h, t)
        BY <1>3, <1>8, <2>2, <3>2 DEF Confirming, Doing, At
      <4> QED
        BY <1>8, <2>1, <3>2, <4>1 DEF Heard
    <3>3. CASE u = t /\ ~Acked(t)
      <4>1. GoesOn(t) /\ At(t, "Receive", 2) /\ h = f
        BY <1>7, <2>2, <3>3 DEF Confirming
      <4> QED
        BY <1>10, <2>1, <3>3, <4>1 DEF Heard
    <3> QED
      BY <3>1, <3>2, <3>3
  <2> QED
    BY <1>4, <1>5, <2>1, <2>2 DEF Heard
<1> QED
  BY <1>12, <1>13, <1>14, <1>15 DEF Honest

\* What a chip says is a reply to what its task has asked it last.
LEMMA RepliesHonest ==
  ASSUME Inv, Honest, NEW f \in Faces, NEW status, NEW data,
         todo[f] # None, Replies(f, status, data), UNCHANGED <<task, delivered>>
  PROVE  /\ todo'[f] = None /\ out'[f].of = todo[f].cmd /\ out'[f].status = status /\ out'[f].data = data
         /\ \A h \in Faces : h # f => todo'[h] = todo[h] /\ out'[h] = out[h]
         /\ \A t \in Tasks : OwnWords(t)'
<1>1. ChipsTyped
  BY DEF Inv, Typed
<1>2. /\ todo'[f] = None /\ out'[f].of = todo[f].cmd /\ out'[f].status = status /\ out'[f].data = data
      /\ \A h \in Faces : h # f => todo'[h] = todo[h] /\ out'[h] = out[h]
  BY <1>1 DEF Replies, Reply, Frame, ChipsTyped
<1>3. ASSUME NEW t \in Tasks PROVE OwnWords(t)'
  <2>1. Cmd(t)' = Cmd(t) /\ Msg(t)' = Msg(t) /\ Speaking(t)' = Speaking(t) /\ at'[t] = at[t]
    BY DEF task, Cmd, Msg, Speaking, Last
  <2>2. FaceOf[t] \in Faces /\ OwnWords(t)
    BY NFCAssumption DEF Honest
  <2> QED
    BY <1>2, <2>1, <2>2 DEF OwnWords
<1> QED
  BY <1>2, <1>3

\* While a chip is at a command of a call, no task on its face is about to
\* write another in the middle of one, and one that waits has asked for it.
LEMMA WhoAsked ==
  ASSUME Inv, Honest, NEW f \in Faces, todo[f] # None, todo[f].cmd \in TalkCmds,
         NEW t \in Tasks, FaceOf[t] = f, Speaking(t)
  PROVE  at[t] # "write" /\ todo[f].cmd = Cmd(t) /\ todo[f].msg = Msg(t)
<1>1. OwnWords(t) /\ todo[f].cmd \notin InitCmds
  BY DEF Honest, InitCmds, TalkCmds
<1> QED
  BY <1>1 DEF OwnWords

\* While a chip acts the tasks are where they were.
LEMMA TasksSame ==
  ASSUME UNCHANGED <<task, delivered>>, NEW t \in Tasks
  PROVE  /\ \A c, n : At(t, c, n)' = At(t, c, n)
         /\ Msg(t)' = Msg(t) /\ Speaking(t)' = Speaking(t)
         /\ call'[t] = call[t] /\ at'[t] = at[t] /\ inbound'[t] = inbound[t] /\ success'[t] = success[t]
         /\ delivered' = delivered
BY DEF task, At, Msg, Speaking, Last

\* A reply that is none to a command of a call, or tells that it failed, says nothing.
LEMMA SaysNothing ==
  ASSUME Inv, Honest, NEW f \in Faces, NEW status, NEW data,
         todo[f] # None, Replies(f, status, data), UNCHANGED <<task, delivered>>,
         todo[f].cmd \in InitCmds \/ status = 1,
         UNCHANGED answered,
         \/ UNCHANGED <<link, air, heard>>
         \/ link' = None
  PROVE  Honest'
<1>1. /\ todo'[f] = None /\ out'[f].of = todo[f].cmd /\ out'[f].status = status /\ out'[f].data = data
      /\ \A h \in Faces : h # f => todo'[h] = todo[h] /\ out'[h] = out[h]
      /\ \A t \in Tasks : OwnWords(t)'
  BY RepliesHonest
<1>2. ASSUME NEW h \in Faces, NEW cmd \in TalkCmds, Says(h, cmd)' PROVE Says(h, cmd) /\ out'[h] = out[h]
  <2>1. h # f
    BY <1>1, <1>2 DEF Says, InitCmds, TalkCmds
  <2> QED
    BY <1>1, <1>2, <2>1 DEF Says
<1>3. ASSUME NEW h \in Faces, NEW cmd, Doing(h, cmd)' PROVE Doing(h, cmd) /\ todo'[h] = todo[h]
  BY <1>1, <1>3 DEF Doing
<1>4. "INJUMPFORDEP" \in TalkCmds /\ "INDATAEXCHANGE" \in TalkCmds /\ "TGGETDATA" \in TalkCmds
      /\ "TGSETDATA" \in TalkCmds
  BY DEF TalkCmds
<1>5. ASSUME NEW t \in Tasks PROVE Truth(t)'
  BY <1>2, <1>4, TasksSame, NFCAssumption DEF Honest, Truth
<1>6. ASSUME NEW h \in Faces PROVE Exchange(h)' /\ Heard(h)'
  <2>1. CASE link' = None
    <3>1. link' # h /\ link' # Peer(h)
      BY <2>1, Peers, Different
    <3> QED
      BY <3>1 DEF Exchange, Heard
  <2>2. CASE UNCHANGED <<link, air, heard>>
    <3>1. Fresh(h)' => Fresh(h)
      BY <1>2, <1>3, <1>4, TasksSame DEF Fresh
    <3>2. Sent(h)' => Sent(h) /\ todo'[h] = todo[h]
      BY <1>3 DEF Sent
    <3>3. Exchange(h)'
      BY <2>2, <3>1, <3>2, TasksSame DEF Honest, Exchange
    <3>4. ASSUME NEW t \in Tasks, Confirming(h, t)' PROVE Confirming(h, t)
      BY <1>3, <3>4, TasksSame DEF Confirming
    <3>5. Heard(h)'
      <4>1. Heard(h) /\ delivered' = delivered
        BY DEF Honest
      <4>2. \A t \in Tasks : inbound'[t] = inbound[t]
        BY TasksSame
      <4> QED
        BY <1>2, <1>3, <1>4, <2>2, <3>4, <4>1, <4>2 DEF Heard
    <3> QED
      BY <3>3, <3>5
  <2> QED
    BY <2>1, <2>2
<1> QED
  BY <1>1, <1>5, <1>6 DEF Honest

\* When the chips are linked, no task is in the middle of a call.
LEMMA ActivateHonest ==
  ASSUME Inv, Honest, NEW f \in Faces, Activate(f), UNCHANGED <<task, delivered>>
  PROVE  Honest'
<1> DEFINE g == Peer(f)
<1>1. /\ todo[f] # None /\ todo[f].cmd = "INJUMPFORDEP"
      /\ todo[g] # None /\ todo[g].cmd = "TGINITASTARGET"
      /\ link' = f /\ air' = None /\ heard' = None /\ answered' = answered
      /\ out' = [h \in Faces |-> Reply(todo[h].cmd, 0, None)]
      /\ todo' = [h \in Faces |-> None]
  BY DEF Activate, Executes
<1>2. g \in Faces /\ g # f /\ Peer(g) = f /\ \A h \in Faces : h = f \/ h = g
  BY Peers
<1>3. /\ \A h \in Faces : todo'[h] = None
      /\ out'[f].of = "INJUMPFORDEP" /\ out'[g].of = "TGINITASTARGET"
  BY <1>1, <1>2 DEF Reply, Frame
<1>4. ASSUME NEW t \in Tasks PROVE ~Speaking(t)
  <2>1. FaceOf[t] \in Faces
    BY NFCAssumption
  <2>2. todo[FaceOf[t]] # None /\ todo[FaceOf[t]].cmd \in {"INJUMPFORDEP", "TGINITASTARGET"}
    BY <1>1, <1>2, <2>1
  <2>3. Speaking(t) => Cmd(t) = todo[FaceOf[t]].cmd
    BY <2>1, <2>2, WhoAsked DEF TalkCmds
  <2> QED
    BY <2>2, <2>3, SpeakingAt
<1>5. ASSUME NEW t \in Tasks
      PROVE  ~Speaking(t)' /\ ~At(t, "Send", 2)' /\ ~At(t, "Receive", 3)'
  BY <1>4, SpeakingAt, TasksSame
<1>6. ASSUME NEW t \in Tasks PROVE OwnWords(t)' /\ Truth(t)'
  BY <1>1, <1>5, TasksSame DEF Honest, OwnWords, Truth
<1>7. ASSUME NEW h \in Faces PROVE ~Doing(h, "INDATAEXCHANGE")' /\ ~Doing(h, "TGSETDATA")'
                                   /\ ~Says(h, "TGGETDATA")'
  BY <1>2, <1>3 DEF Doing, Says
<1>8. ASSUME NEW h \in Faces PROVE Exchange(h)' /\ Heard(h)'
  BY <1>1, <1>5, <1>7 DEF Exchange, Sent, Heard, Confirming
<1> QED
  BY <1>6, <1>8 DEF Honest

\* The initiator says what its task has asked it to, and has said nothing before.
LEMMA EmitHonest ==
  ASSUME Inv, Honest, NEW f \in Faces, Emit(f), UNCHANGED <<task, delivered>>
  PROVE  Honest'
<1>1. /\ todo[f] # None /\ todo[f].cmd = "INDATAEXCHANGE" /\ out[f] = None /\ link = f /\ ~todo[f].sent
      /\ air' = todo[f].msg /\ UNCHANGED <<out, link, answered, heard>>
      /\ todo' = [todo EXCEPT ![f].sent = TRUE]
  BY DEF Emit, Executes
<1>2. todo[f] \in Orders /\ ChipsTyped
  BY <1>1 DEF Inv, Typed, ChipsTyped
<1>3. /\ todo'[f].cmd = todo[f].cmd /\ todo'[f].msg = todo[f].msg /\ todo'[f].sent
      /\ \A h \in Faces : h # f => todo'[h] = todo[h]
  BY <1>1, <1>2 DEF ChipsTyped, Orders
<1>4. ASSUME NEW t \in Tasks PROVE OwnWords(t)'
  <2>1. FaceOf[t] \in Faces /\ OwnWords(t)
    BY NFCAssumption DEF Honest
  <2>2. Cmd(t)' = Cmd(t) /\ Msg(t)' = Msg(t) /\ Speaking(t)' = Speaking(t) /\ at'[t] = at[t]
    BY DEF task, Cmd, Msg, Speaking, Last
  <2>3. CASE FaceOf[t] # f
    BY <1>1, <1>3, <2>1, <2>2, <2>3 DEF OwnWords
  <2>4. CASE FaceOf[t] = f
    BY <1>1, <1>3, <2>1, <2>2, <2>4 DEF OwnWords
  <2> QED
    BY <2>3, <2>4
<1>5. ASSUME NEW h, NEW cmd PROVE Says(h, cmd)' = Says(h, cmd) /\ out' = out
  BY <1>1 DEF Says
<1>6. ASSUME NEW t \in Tasks PROVE Truth(t)'
  BY <1>1, <1>5, TasksSame DEF Honest, Truth
<1>7. Exchange(f)'
  <2>1. air = None /\ heard = None
    BY <1>1 DEF Honest, Exchange, Fresh, Doing
  <2>2. ~Fresh(f)'
    <3>1. ~Says(f, "INJUMPFORDEP")'
      BY <1>1 DEF Says
    <3>2. ASSUME NEW t \in Tasks, FaceOf[t] = f, At(t, "Send", 2) PROVE at[t] # "write"
      BY <1>1, <3>2, WhoAsked, SpeakingAt DEF TalkCmds
    <3> QED
      BY <1>3, <3>1, <3>2, TasksSame DEF Fresh
  <2>3. air' # Answer
    BY <1>1, <1>2, Different DEF Orders
  <2> QED
    BY <1>1, <1>3, <2>1, <2>2, <2>3 DEF Exchange
<1>8. ASSUME NEW h \in Faces, h # f PROVE Exchange(h)'
  BY <1>1, <1>8 DEF Exchange
<1>9. ASSUME NEW h \in Faces PROVE Heard(h)'
  <2>1. Heard(h) /\ delivered' = delivered
    BY DEF Honest
  <2>2. Doing(h, "TGSETDATA")' => Doing(h, "TGSETDATA")
    BY <1>1, <1>3 DEF Doing
  <2>3. ASSUME NEW t \in Tasks, Confirming(h, t)' PROVE Confirming(h, t) /\ inbound'[t] = inbound[t]
    BY <2>2, <2>3, TasksSame DEF Confirming
  <2> QED
    BY <1>1, <1>5, <2>1, <2>2, <2>3 DEF Heard
<1> QED
  BY <1>4, <1>6, <1>7, <1>8, <1>9 DEF Honest

\* What the target hears is what the initiator has said.
LEMMA HearHonest ==
  ASSUME Inv, Honest, NEW f \in Faces, TargetHears(f), UNCHANGED <<task, delivered>>
  PROVE  Honest'
<1> DEFINE g == Peer(f)
<1>1. /\ todo[f] # None /\ todo[f].cmd = "TGGETDATA" /\ link = g /\ air \in Messages
      /\ Replies(f, 0, air) /\ heard' = air /\ air' = None /\ UNCHANGED <<link, answered>>
  BY DEF TargetHears, Executes
<1>2. /\ todo'[f] = None /\ out'[f].of = "TGGETDATA" /\ out'[f].data = air
      /\ \A h \in Faces : h # f => todo'[h] = todo[h] /\ out'[h] = out[h]
      /\ \A t \in Tasks : OwnWords(t)'
  BY <1>1, RepliesHonest
<1>3. g \in Faces /\ g # f /\ Peer(g) = f /\ \A h \in Faces : h = f \/ h = g
  BY Peers
<1>4. ASSUME NEW h \in Faces, NEW cmd, cmd # "TGGETDATA", Says(h, cmd)'
      PROVE  Says(h, cmd) /\ out'[h] = out[h]
  BY <1>2, <1>4 DEF Says
<1>5. ASSUME NEW t \in Tasks PROVE Truth(t)'
  BY <1>1, <1>4, TasksSame, NFCAssumption DEF Honest, Truth
<1>6. Exchange(g)'
  <2>1. Exchange(g) /\ air # None /\ air # Answer /\ heard' # None
    BY <1>1, <1>3, Different DEF Honest
  <2>2. ~Fresh(g)
    BY <1>1, <2>1 DEF Exchange
  <2>3. Fresh(g)' = Fresh(g) /\ Sent(g)' = Sent(g) /\ todo'[g] = todo[g]
    BY <1>2, <1>3, TasksSame DEF Fresh, Sent, Says, Doing
  <2> QED
    BY <1>1, <2>1, <2>2, <2>3, Different DEF Exchange
<1>7. Exchange(f)' /\ Heard(g)'
  BY <1>1, <1>3 DEF Exchange, Heard
<1>8. Heard(f)'
  <2>1. ~Doing(f, "TGSETDATA")'
    BY <1>2 DEF Doing
  <2>2. ASSUME NEW t \in Tasks PROVE ~Confirming(f, t)'
    <3>1. FaceOf[t] = f /\ At(t, "Receive", 3) => at[t] # "write"
      BY <1>1, WhoAsked, SpeakingAt DEF TalkCmds
    <3> QED
      BY <2>1, <3>1, TasksSame DEF Confirming
  <2> QED
    BY <1>1, <1>2, <2>1, <2>2 DEF Heard
<1> QED
  BY <1>2, <1>3, <1>5, <1>6, <1>7, <1>8 DEF Honest

\* The target answers for its task, which has the message its chip has heard.
LEMMA AnswerHonest ==
  ASSUME Inv, Honest, NEW f \in Faces, TargetAnswers(f), UNCHANGED <<task, delivered>>
  PROVE  Honest'
<1> DEFINE g == Peer(f)
<1>1. /\ todo[f] # None /\ todo[f].cmd = "TGSETDATA" /\ link = g
      /\ Replies(f, 0, None) /\ air' = Answer
      /\ answered' = answered \cup ({heard} \ {None}) /\ UNCHANGED <<link, heard>>
  BY DEF TargetAnswers, Executes
<1>2. /\ todo'[f] = None /\ out'[f].of = "TGSETDATA"
      /\ \A h \in Faces : h # f => todo'[h] = todo[h] /\ out'[h] = out[h]
      /\ \A t \in Tasks : OwnWords(t)'
  BY <1>1, RepliesHonest
<1>3. g \in Faces /\ g # f /\ Peer(g) = f /\ \A h \in Faces : h = f \/ h = g
  BY Peers
<1>4. heard \in delivered /\ heard \in Messages /\ heard # None
  BY <1>1, Different DEF Honest, Heard, Doing, Inv, Typed, TasksTyped
<1>5. ASSUME NEW h \in Faces, NEW cmd, cmd # "TGSETDATA", Says(h, cmd)'
      PROVE  Says(h, cmd) /\ out'[h] = out[h]
  BY <1>2, <1>5 DEF Says
<1>6. ASSUME NEW t \in Tasks PROVE Truth(t)'
  <2>1. FaceOf[t] \in Faces /\ Truth(t) /\ answered \subseteq answered' /\ heard \in answered'
    BY <1>1, <1>4, NFCAssumption DEF Honest
  <2>2. ASSUME At(t, "Receive", 3), FaceOf[t] = f PROVE inbound[t] \in answered'
    <3>1. Confirming(f, t)
      BY <1>1, <2>2 DEF Confirming, Doing
    <3> QED
      BY <1>1, <2>1, <3>1 DEF Honest, Heard
  <2>3. FaceOf[t] # f /\ Says(FaceOf[t], "TGSETDATA")' => Says(FaceOf[t], "TGSETDATA")
    BY <1>2, <2>1 DEF Says
  <2>4. /\ At(t, "Send", 2)' = At(t, "Send", 2) /\ At(t, "Receive", 3)' = At(t, "Receive", 3)
        /\ Msg(t)' = Msg(t) /\ call'[t] = call[t] /\ inbound'[t] = inbound[t] /\ success'[t] = success[t]
        /\ delivered' = delivered
    BY TasksSame
  <2> QED
    BY <1>5, <2>1, <2>2, <2>3, <2>4 DEF Truth
<1>7. Exchange(g)'
  <2>1. Exchange(g) /\ delivered' = delivered
    BY <1>3 DEF Honest
  <2>2. ~Fresh(g)
    BY <1>1, <1>4, <2>1 DEF Exchange
  <2>3. Fresh(g)' = Fresh(g) /\ Sent(g)' = Sent(g) /\ todo'[g] = todo[g]
    BY <1>2, <1>3, TasksSame DEF Fresh, Sent, Says, Doing
  <2> QED
    BY <1>1, <1>4, <2>1, <2>2, <2>3 DEF Exchange
<1>8. Exchange(f)' /\ Heard(g)'
  BY <1>1, <1>3 DEF Exchange, Heard
<1>9. Heard(f)'
  <2>1. ~Doing(f, "TGSETDATA")' /\ ~Says(f, "TGGETDATA")'
    BY <1>2 DEF Doing, Says
  <2>2. ASSUME NEW t \in Tasks PROVE ~Confirming(f, t)'
    <3>1. FaceOf[t] = f /\ At(t, "Receive", 3) => at[t] # "write"
      BY <1>1, WhoAsked, SpeakingAt DEF TalkCmds
    <3> QED
      BY <2>1, <3>1, TasksSame DEF Confirming
  <2> QED
    BY <2>1, <2>2 DEF Heard
<1> QED
  BY <1>2, <1>3, <1>6, <1>7, <1>8, <1>9 DEF Honest

\* The initiator's task is told of an answer to its own message.
LEMMA AnsweredHonest ==
  ASSUME Inv, Honest, NEW f \in Faces, InitiatorHears(f), UNCHANGED <<task, delivered>>
  PROVE  Honest'
<1>1. /\ todo[f] # None /\ todo[f].cmd = "INDATAEXCHANGE" /\ link = f /\ todo[f].sent /\ air = Answer
      /\ Replies(f, 0, Answer) /\ air' = None /\ UNCHANGED <<link, answered, heard>>
  BY DEF InitiatorHears, Executes
<1>2. /\ todo'[f] = None /\ out'[f].of = "INDATAEXCHANGE"
      /\ \A h \in Faces : h # f => todo'[h] = todo[h] /\ out'[h] = out[h]
      /\ \A t \in Tasks : OwnWords(t)'
  BY <1>1, RepliesHonest
<1>3. todo[f].msg \in delivered
  BY <1>1 DEF Honest, Exchange, Sent, Doing
<1>4. ASSUME NEW h \in Faces, NEW cmd, cmd # "INDATAEXCHANGE", Says(h, cmd)'
      PROVE  Says(h, cmd) /\ out'[h] = out[h]
  BY <1>2, <1>4 DEF Says
<1>5. ASSUME NEW t \in Tasks PROVE Truth(t)'
  <2>1. FaceOf[t] \in Faces /\ Truth(t)
    BY NFCAssumption DEF Honest
  <2>2. ASSUME At(t, "Send", 2), FaceOf[t] = f PROVE Msg(t) \in delivered
    BY <1>1, <1>3, <2>2, WhoAsked, SpeakingAt DEF TalkCmds
  <2>3. FaceOf[t] # f => out'[FaceOf[t]] = out[FaceOf[t]]
    BY <1>2, <2>1
  <2>4. /\ At(t, "Send", 2)' = At(t, "Send", 2) /\ At(t, "Receive", 3)' = At(t, "Receive", 3)
        /\ Msg(t)' = Msg(t) /\ call'[t] = call[t] /\ inbound'[t] = inbound[t] /\ success'[t] = success[t]
        /\ delivered' = delivered
    BY TasksSame
  <2> QED
    BY <1>1, <1>4, <2>1, <2>2, <2>3, <2>4 DEF Truth, Says
<1>6. ASSUME NEW h \in Faces, h # f PROVE Exchange(h)'
  BY <1>1, <1>6 DEF Exchange
<1>7. Exchange(f)'
  <2>1. ~Fresh(f)'
    <3>1. ~Says(f, "INJUMPFORDEP")' /\ ~Doing(f, "INDATAEXCHANGE")'
      BY <1>2 DEF Says, Doing
    <3>2. ASSUME NEW t \in Tasks, FaceOf[t] = f, At(t, "Send", 2) PROVE at[t] # "write"
      BY <1>1, <3>2, WhoAsked, SpeakingAt DEF TalkCmds
    <3> QED
      BY <3>1, <3>2, TasksSame DEF Fresh
  <2> QED
    BY <1>2, <2>1 DEF Exchange, Sent, Doing
<1>8. ASSUME NEW h \in Faces PROVE Heard(h)'
  <2>1. Heard(h) /\ delivered' = delivered
    BY DEF Honest
  <2>2. Doing(h, "TGSETDATA")' => Doing(h, "TGSETDATA")
    BY <1>2 DEF Doing
  <2>3. ASSUME NEW t \in Tasks, Confirming(h, t)' PROVE Confirming(h, t) /\ inbound'[t] = inbound[t]
    BY <2>2, <2>3, TasksSame DEF Confirming
  <2> QED
    BY <1>1, <1>4, <2>1, <2>2, <2>3 DEF Heard
<1> QED
  BY <1>2, <1>5, <1>6, <1>7, <1>8 DEF Honest

\* Whatever a chip does, what it says is true.
LEMMA ChipHonest ==
  ASSUME Inv, Honest, NEW f \in Faces, Chip(f)
  PROVE  Honest'
<1>1. UNCHANGED <<task, delivered>>
  BY DEF Chip
<1>2. CASE Obey(f)
  <2>1. Replies(f, 0, None) /\ todo[f] # None /\ todo[f].cmd \in InitCmds
        /\ UNCHANGED <<link, air, answered, heard>>
    BY <1>2 DEF Obey, Executes, InitCmds
  <2> QED
    BY <1>1, <2>1, SaysNothing
<1>3. CASE PowerDown(f)
  <2>1. PICK status \in {0, 1} : Replies(f, status, None)
    BY <1>3 DEF PowerDown
  <2>2. todo[f] # None /\ todo[f].cmd \in InitCmds /\ link' = None /\ UNCHANGED answered
    BY <1>3 DEF PowerDown, Executes, InitCmds
  <2> QED
    BY <1>1, <2>1, <2>2, SaysNothing
<1>4. CASE Fail(f)
  <2>1. Replies(f, 1, None) /\ todo[f] # None /\ UNCHANGED <<link, air, answered, heard>>
    BY <1>4 DEF Fail, Executes
  <2> QED
    BY <1>1, <2>1, SaysNothing
<1> QED
  BY <1>1, <1>2, <1>3, <1>4, ActivateHonest, EmitHonest, HearHonest, AnswerHonest, AnsweredHonest DEF Chip

\* Every step keeps the truth of what is said.
LEMMA NextHonest == OneVoice /\ Inv /\ Honest /\ [Next]_vars => Honest'
<1> SUFFICES ASSUME OneVoice, Inv, Honest, [Next]_vars PROVE Honest'
  OBVIOUS
<1>1. ASSUME NEW t \in Tasks, Proceed(t) PROVE Honest'
  BY <1>1, WriteHonest, ReadHonest DEF Proceed
<1>2. ASSUME NEW t \in Tasks, NEW c \in Duties[t], Call(t, c) PROVE Honest'
  BY <1>2, CallHonest
<1>3. ASSUME NEW f \in Faces, Chip(f) PROVE Honest'
  BY <1>3, ChipHonest
<1>4. ASSUME UNCHANGED vars PROVE Honest'
  <2>1. UNCHANGED <<task, delivered>> /\ UNCHANGED <<todo, out, link, air, answered, heard>>
    BY <1>4 DEF vars, chips
  <2>2. ASSUME NEW t \in Tasks PROVE OwnWords(t)' /\ Truth(t)'
    <3>1. Cmd(t)' = Cmd(t)
      BY <2>1 DEF task, Cmd
    <3>2. OwnWords(t)'
      BY <2>1, <3>1, TasksSame DEF Honest, OwnWords
    <3>3. Truth(t)'
      BY <2>1, TasksSame DEF Honest, Truth, Says
    <3> QED
      BY <3>2, <3>3
  <2>3. ASSUME NEW h \in Faces PROVE Exchange(h)' /\ Heard(h)'
    <3>1. Exchange(h)'
      BY <2>1, TasksSame DEF Honest, Exchange, Fresh, Sent, Says, Doing
    <3>2. Heard(h)'
      BY <2>1, TasksSame DEF Honest, Heard, Confirming, Says, Doing
    <3> QED
      BY <3>1, <3>2
  <2> QED
    BY <2>2, <2>3 DEF Honest
<1> QED
  BY <1>1, <1>2, <1>3, <1>4 DEF Next

\* What is said is true in every behaviour.
LEMMA Honesty ==
  ASSUME OneVoice
  PROVE  Spec => [](Inv /\ Honest)
<1>1. Inv /\ Honest /\ [Next]_vars => (Inv /\ Honest)'
  BY NextInv, NextHonest
<1> QED
  BY <1>1, InitInv, InitHonest, PTL DEF Spec

\* A Send() that returns true: a task on the other side has its message.
THEOREM SendTellsTheTruth ==
  ASSUME OneVoice
  PROVE  Spec => SendHonest
<1>1. Inv /\ Honest => \A t \in Tasks : Returns(t, "Send") /\ success[t] => Msg(t) \in delivered
  BY DEF Honest, Truth, Returns
<1> QED
  BY <1>1, Honesty, PTL DEF SendHonest

\* A Receive() that returns true: its message was confirmed to the sender's chip.
THEOREM ReceiveTellsTheTruth ==
  ASSUME OneVoice
  PROVE  Spec => ReceiveHonest
<1>1. Inv /\ Honest => \A t \in Tasks : Returns(t, "Receive") /\ success[t] => inbound[t] \in answered
  BY DEF Honest, Truth, Returns
<1> QED
  BY <1>1, Honesty, PTL DEF ReceiveHonest

\* The tasks that TLC runs are such: InteractiveMode talks, on either face.
THEOREM TheInstance ==
  ASSUME Tasks = TheTasks, FaceOf = TheFaces, Duties = TheDuties, A # B,
         interactive # initNFC, interactive # neighbour, interactive # restarted,
         initNFC # neighbour, initNFC # restarted, neighbour # restarted
  PROVE  OneVoice
<1>1. \A t \in TheTasks : Talks(t) => t \in {interactive, neighbour}
  BY DEF Talks, TheTasks, TheDuties
<1>2. FaceOf[interactive] = A /\ FaceOf[neighbour] = B
  BY DEF TheTasks, TheFaces
<1> QED
  BY <1>1, <1>2 DEF OneVoice

-----------------------------------------------------------------------------
(* How a face that calls is noticed: nothing is counted twice.              *)

One(b) == IF b THEN 1 ELSE 0

\* The calls of face p that may still be taken for one: in the vector, between
\* the reading and the vector, and on the line, not yet read.
InVector(p) == One(p \in m_unInterrupts)
InHand(p)   == One(pc \in {"reset", "append"} /\ p \in unRegisterState \ m_unLastRegisterState)
OnLine(p)   == One(p \in low \ P!LastRead)

\* Each failed reading may let a line that is low fall once more.
Failed == FAILURES - failures

LinesTyped ==
  /\ low \subseteq Faces
  /\ m_unInterrupts \subseteq Faces /\ unRegisterState \subseteq Faces
  /\ calls \in [Faces -> Int] /\ failures \in Int

CallsInv ==
  /\ LinesTyped
  /\ \A p \in Faces : calls[p] + Failed >= InVector(p) + InHand(p) + OnLine(p)

\* A line that is low at first is one call.
LEMMA LinesInitInv == P!Init => CallsInv
BY LineAssumption
DEF P!Init, P!Constructed, CallsInv, Failed, LinesTyped, InVector, InHand, OnLine, One, P!LastRead

\* A line that falls is a call, and is on the line unless it was read low.
LEMMA LinesChangeInv == CallsInv /\ (\E p \in Faces : P!Change(p)) => CallsInv'
<1> SUFFICES ASSUME CallsInv, NEW q \in Faces, P!Change(q) PROVE CallsInv'
  OBVIOUS
<1> USE LineAssumption DEF CallsInv, LinesTyped, Failed
<1>1. UNCHANGED <<P!controller, P!task, failures>>
  BY DEF P!Change
<1>2. CASE q \notin low /\ low' = low \cup {q} /\ calls' = [calls EXCEPT ![q] = @ + 1]
  <2>1. LinesTyped'
    BY <1>1, <1>2 DEF P!controller, P!task
  <2>2. ASSUME NEW p \in Faces PROVE calls'[p] + Failed' >= (InVector(p) + InHand(p) + OnLine(p))'
    BY <1>1, <1>2 DEF P!controller, P!task, InVector, InHand, OnLine, One, P!LastRead
  <2> QED
    BY <2>1, <2>2
<1>3. CASE low' = low \ {q} /\ UNCHANGED calls
  <2>1. LinesTyped'
    BY <1>1, <1>3 DEF P!controller, P!task
  <2>2. ASSUME NEW p \in Faces PROVE calls'[p] + Failed' >= (InVector(p) + InHand(p) + OnLine(p))'
    BY <1>1, <1>3 DEF P!controller, P!task, InVector, InHand, OnLine, One, P!LastRead
  <2> QED
    BY <2>1, <2>2
<1> QED
  BY <1>2, <1>3 DEF P!Change

\* What is read passes from the line to the hand, what is appended from the
\* hand to the vector, and what is taken from the vector is one call.
LEMMA LinesReactInv == CallsInv /\ P!NFCReact => CallsInv'
<1> SUFFICES ASSUME CallsInv, P!NFCReact PROVE CallsInv'
  OBVIOUS
<1> USE LineAssumption DEF CallsInv, LinesTyped, Failed, InVector, InHand, OnLine, One, P!LastRead
<1>1. CASE P!Synchronize
  BY <1>1 DEF P!Synchronize, P!lines, P!controller, P!history
<1>2. CASE P!ReadInputs
  <2>1. /\ pc = "read" /\ pc' = "reset" /\ UNCHANGED <<low, m_unInterrupts, m_unLastRegisterState, calls>>
    BY <1>2 DEF P!ReadInputs, P!controller
  <2>2. CASE unRegisterState' = low /\ UNCHANGED failures
    BY <2>1, <2>2
  <2>3. CASE failures' = failures - 1 /\ unRegisterState' = {}
    BY <2>1, <2>3
  <2> QED
    BY <1>2, <2>2, <2>3 DEF P!ReadInputs
<1>3. CASE P!ResetFlag
  BY <1>3 DEF P!ResetFlag, P!lines, P!history
<1>4. CASE P!AppendEdges
  BY <1>4 DEF P!AppendEdges, P!lines
<1>5. CASE P!TakeInterrupts
  BY <1>5 DEF P!TakeInterrupts, P!lines
<1> QED
  BY <1>1, <1>2, <1>3, <1>4, <1>5 DEF P!NFCReact, P!SynchronizeInterrupts

\* No step loses count.
LEMMA LinesNextInv == CallsInv /\ [P!Next]_P!vars => CallsInv'
<1> SUFFICES ASSUME CallsInv, [P!Next]_P!vars PROVE CallsInv'
  OBVIOUS
<1> USE LineAssumption DEF CallsInv, LinesTyped, Failed, InVector, InHand, OnLine, One, P!LastRead
<1>1. CASE P!EnableInterrupt
  BY <1>1 DEF P!EnableInterrupt, P!controller, P!history
<1>2. CASE P!Handler01
  BY <1>2 DEF P!Handler01, P!ServiceRoutine, P!task
<1>3. CASE P!NFCTransmit
  BY <1>3 DEF P!NFCTransmit, P!lines, P!task, P!history
<1>4. CASE UNCHANGED P!vars
  BY <1>4 DEF P!vars, P!lines, P!controller, P!task, P!history
<1> QED
  BY <1>1, <1>2, <1>3, <1>4, LinesChangeInv, LinesReactInv DEF P!Next

\* A behaviour of MCNFC is one of each half.
LEMMA Halves == MCSpec => Spec /\ P!Spec
<1>1. MCInit => Init /\ P!Init
  BY DEF MCInit
<1>2. [MCNext]_<<half, vars, pvars>> => [Next]_vars /\ [P!Next]_P!vars
  BY DEF MCNext, Notice, Speak, pvars, P!vars, P!lines, P!controller, P!task, P!history
<1> QED
  BY <1>1, <1>2, PTL DEF MCSpec, Spec, P!Spec

\* Each time a face is received from, it has called once more, whatever edges
\* are merged, repeated or seen twice, but for one time for each reading that
\* failed.
THEOREM NoFalseCall == MCSpec => []NoPhantomCall
<1>1. CallsInv => P!NoPhantomCall
  <2> SUFFICES ASSUME CallsInv, NEW p \in Faces
               PROVE  calls[p] + Failed >= IF p \in m_unInterrupts THEN 1 ELSE 0
    BY DEF P!NoPhantomCall, Failed
  <2>1. calls[p] \in Int /\ Failed \in Int /\ calls[p] + Failed >= InVector(p) + InHand(p) + OnLine(p)
    BY LineAssumption DEF CallsInv, LinesTyped, Failed
  <2>2. InHand(p) \in {0, 1} /\ OnLine(p) \in {0, 1} /\ InVector(p) = IF p \in m_unInterrupts THEN 1 ELSE 0
    BY DEF InHand, OnLine, InVector, One
  <2> QED
    BY <2>1, <2>2
<1>2. P!Spec => []P!NoPhantomCall
  BY <1>1, LinesInitInv, LinesNextInv, PTL DEF P!Spec
<1> QED
  BY <1>2, Halves, PTL DEF NoPhantomCall

=============================================================================
