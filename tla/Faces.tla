------------------------------- MODULE Faces -------------------------------
(* The tasks of source/main.cpp that share the faces of the block: each      *)
(* executes its sequence of the calls of PortController and LEDController    *)
(* step by step, and is preempted between any two of them.  The locks are    *)
(* those Resource promises: at most one holder each.  A transaction may      *)
(* fail; none of these calls looks at what EndTransmission() returns, and    *)
(* Read() gives a byte all the same.                                         *)
(*                                                                           *)
(* As in main.cpp, a call of a CPortController that is not its own locked    *)
(* section is made with the controller locked, and the modes of the leds of  *)
(* a face are set by one task (InitLEDs).                                    *)
EXTENDS LEDController

CONSTANTS
  Tasks,
  Program,  (* what each task executes *)
  Settings, (* [tasks, failures]: those scheduled, and how many transactions fail (a bound) *)
  Free      (* the holder of a lock that nobody holds *)

ASSUME FacesAssumption ==
  /\ Free \notin Tasks
  /\ Settings \subseteq [tasks : SUBSET Tasks, failures : Nat]

-----------------------------------------------------------------------------
(* What the tasks do with the faces.                                        *)

\* write_cmd() and read_dt() of nfc_controller.cpp: a command, its
\* acknowledgement and its reply are three locked sections.
Command(p) == OnFace(p, Nothing) \o OnFace(p, Nothing) \o OnFace(p, Nothing)

\* mistake: the ports are probed without the lock
InitPortController_Unlocked(ports) ==
  <<[op |-> "instance"]>> \o SelectPort(NULLPORT)
  \o FlattenSeq([i \in 1 .. Len(ports) |-> IsPortConnected(ports[i])])
  \o SelectPort(NULLPORT)

InitPortController(ports) ==
  Acquire \o SelectPort(NULLPORT)
  \o FlattenSeq([i \in 1 .. Len(ports) |-> IsPortConnected(ports[i])])
  \o SelectPort(NULLPORT) \o Release

\* for(eConnectedPort : m_peConnectedPorts) if(eConnectedPort != NULLPORT)
ForEach(list, body(_)) ==
  FlattenSeq([i \in 1 .. Len(list) |-> IF list[i] = NULLPORT THEN <<>> ELSE body(list[i])])

InitLEDs(list) ==
  LET Body(p) == InitFace(p) \o SetAllModesOnFace(p, "PWM") \o SetAllColorsOnFace(p)
  IN  ForEach(list, Body)

\* mistakes: the empty places of the list are not skipped; the reset register is changed outside the locked section
InitNFC_All(list) ==
  FlattenSeq([i \in 1 .. Len(list) |->
    Acquire \o SelectPort(list[i]) \o EnablePort(list[i]) \o Release])

InitNFC_Unlocked(list) ==
  LET Body(p) == Acquire \o SelectPort(p) \o Release \o EnablePort(p)
                   \o Command(p) \o SetAllColorsOnFace(p)
  IN  ForEach(list, Body)

InitNFC(list) ==
  LET Body(p) == Acquire \o SelectPort(p) \o EnablePort(p) \o Release
                   \o Command(p) \o SetAllColorsOnFace(p)
  IN  ForEach(list, Body)

\* The way back, with DisablePort(), which main.cpp does not use yet.
Retire(p) == Acquire \o DisablePort(p) \o Release

NFCReact(p) == Acquire \o ReadInterrupts \o Release \o Command(p) \o SetAllColorsOnFace(p)

VARIABLES
  at,            \* the step of its program each task has come to
  init,          \* the steps left of CPortController::Init(), if it is in it
  holder,        \* of the locks PORT and TW
  bInitRequired,
  selected,      \* the face the multiplexer connects
  outputs,       \* the faces enabled by the reset register
  modes,         \* the mode registers of the light drivers
  value,         \* the register a task has read and not yet written back
  asked, wanted, \* history: outputs and modes as set by the calls that ended,
                 \* "any" where a failure has spoilt them since
  failures

device == <<outputs, modes, asked, wanted, failures>>
vars == <<at, init, holder, bInitRequired, selected, device, value>>

Modes == {"OFF", "ON", "PWM", "BLINK"}
All(mode) == [c \in Channels |-> mode]  \* a mode register

FacesInit ==
  /\ \E setting \in Settings :
       /\ at = [t \in Tasks |-> IF t \in setting.tasks THEN 1 ELSE Len(Program[t]) + 1]
       /\ failures = setting.failures
  /\ init = [t \in Tasks |-> <<>>]
  /\ holder = [r \in {"PORT", "TW"} |-> Free]
  /\ bInitRequired = TRUE
  /\ selected = NULLPORT
  /\ outputs = Ports /\ asked = [p \in Ports |-> "on"]
  /\ modes = [p \in Ports |-> [r \in 0 .. PACKS - 1 |-> All("OFF")]]
  /\ wanted = [p \in Ports |-> [led \in Leds |-> "OFF"]]
  /\ value = [t \in Tasks |-> Nothing]

Code == Program  \* a definition, so that TLC evaluates it once

Finished(t) == init[t] = <<>> /\ at[t] > Len(Code[t])

\* The step task t is about to take.
Step(t) == IF init[t] # <<>> THEN Head(init[t]) ELSE Code[t][at[t]]

Effect(t) == Step(t).effect

At(t, op) == ~Finished(t) /\ Step(t).op = op

Advance(t) ==
  IF init[t] # <<>> THEN init' = [init EXCEPT ![t] = Tail(@)] /\ UNCHANGED at
                    ELSE at' = [at EXCEPT ![t] = @ + 1] /\ UNCHANGED init

-----------------------------------------------------------------------------

\* CPortController::instance()
Instance(t) ==
  /\ At(t, "instance")
  /\ at' = [at EXCEPT ![t] = @ + 1]
  /\ init' = IF bInitRequired THEN [init EXCEPT ![t] = Init] ELSE init
  /\ UNCHANGED <<holder, bInitRequired, selected, device, value>>

Initialised(t) ==
  /\ At(t, "initialised") /\ Advance(t)
  /\ bInitRequired' = FALSE
  /\ UNCHANGED <<holder, selected, device, value>>

Take(t) ==
  /\ At(t, "lock") /\ Advance(t)
  /\ holder[Step(t).res] = Free
  /\ holder' = [holder EXCEPT ![Step(t).res] = t]
  /\ UNCHANGED <<bInitRequired, selected, device, value>>

Give(t) ==
  /\ At(t, "unlock") /\ Advance(t)
  /\ holder' = [holder EXCEPT ![Step(t).res] = Free]
  /\ UNCHANGED <<bInitRequired, selected, device, value>>

Select(t) ==
  /\ At(t, "select") /\ Advance(t)
  /\ selected' = Step(t).port
  /\ UNCHANGED <<holder, bInitRequired, device, value>>

\* The start of a transaction, and the pulse on the clock line.
Drive(t) ==
  /\ At(t, "start") \/ At(t, "pulse")
  /\ Advance(t)
  /\ UNCHANGED <<holder, bInitRequired, selected, device, value>>

\* The end of a transaction, on the device it really reached.
Reach(t) == IF Step(t).port = NULLPORT THEN NULLPORT ELSE selected

ReadRegister(t) ==
  /\ At(t, "end") /\ Effect(t).do \in {"read outputs", "read modes"} /\ Advance(t)
  /\ value' = [value EXCEPT ![t] =
       [byte |-> IF Effect(t).do = "read outputs" THEN outputs ELSE modes[Reach(t)][Effect(t).reg],
        true |-> TRUE]]
  /\ UNCHANGED <<holder, bInitRequired, selected, device>>

Fail == failures > 0 /\ failures' = failures - 1

\* Read() returns 0xFF if nothing was received; if only the number of the
\* register was not, another register, of which one is all zero.
Misread(t) ==
  /\ At(t, "end") /\ Effect(t).do \in {"read outputs", "read modes"} /\ Advance(t)
  /\ Fail
  /\ \E byte \in IF Effect(t).do = "read outputs" THEN {Ports, {}} ELSE {All("BLINK"), All("OFF")} :
       value' = [value EXCEPT ![t] = [byte |-> byte, true |-> FALSE]]
  /\ UNCHANGED <<holder, bInitRequired, selected, outputs, modes, asked, wanted>>

\* What the rest of the register of h is known to be when t has written it.
Rest(t, h) == IF value[t].true THEN h ELSE "any"

WriteOutputs(t) ==
  /\ At(t, "end") /\ Advance(t)
  /\ \/ /\ Effect(t).do = "enable"
        /\ outputs' = value[t].byte \cup {Effect(t).which}
        /\ asked' = [[p \in Ports |-> Rest(t, asked[p])] EXCEPT ![Effect(t).which] = "on"]
     \/ /\ Effect(t).do = "disable"
        /\ outputs' = value[t].byte \ {Effect(t).which}
        /\ asked' = [[p \in Ports |-> Rest(t, asked[p])] EXCEPT ![Effect(t).which] = "off"]
  /\ value' = [value EXCEPT ![t] = Nothing]
  /\ UNCHANGED <<holder, bInitRequired, selected, modes, wanted, failures>>

WriteMode(t) ==
  /\ At(t, "end") /\ Effect(t).do = "write mode" /\ Advance(t)
  /\ modes' = [modes EXCEPT ![Reach(t)][Effect(t).reg] =
                 [value[t].byte EXCEPT ![Effect(t).led % 4] = Effect(t).mode]]
  /\ wanted' = [wanted EXCEPT ![Step(t).port] =
       [led \in Leds |-> CASE led = Effect(t).led              -> Effect(t).mode
                          [] led \div 4 # Effect(t).led \div 4 -> @[led]
                          [] OTHER                            -> Rest(t, @[led])]]
  /\ value' = [value EXCEPT ![t] = Nothing]
  /\ UNCHANGED <<holder, bInitRequired, selected, outputs, asked, failures>>

Reset(t) ==
  /\ At(t, "end") /\ Effect(t).do = "reset" /\ Advance(t)
  /\ modes' = [modes EXCEPT ![Reach(t)] = [r \in 0 .. PACKS - 1 |-> All("OFF")]]
  /\ wanted' = [wanted EXCEPT ![Step(t).port] = [led \in Leds |-> "OFF"]]
  /\ UNCHANGED <<holder, bInitRequired, selected, outputs, asked, failures, value>>

\* A write that the device does not acknowledge.
Unheard(t) ==
  /\ At(t, "end") /\ Advance(t)
  /\ Fail
  /\ \/ /\ Effect(t).do \in {"enable", "disable"}
        /\ asked' = [asked EXCEPT ![Effect(t).which] = "any"] /\ UNCHANGED wanted
     \/ /\ Effect(t).do = "write mode"
        /\ wanted' = [wanted EXCEPT ![Step(t).port][Effect(t).led] = "any"] /\ UNCHANGED asked
     \/ /\ Effect(t).do = "reset"
        /\ wanted' = [wanted EXCEPT ![Step(t).port] = [led \in Leds |-> "any"]] /\ UNCHANGED asked
  /\ value' = [value EXCEPT ![t] = Nothing]
  /\ UNCHANGED <<holder, bInitRequired, selected, outputs, modes>>

WriteOther(t) ==
  /\ At(t, "end") /\ Effect(t).do = "nothing" /\ Advance(t)
  /\ UNCHANGED <<holder, bInitRequired, selected, device, value>>

AllFinished == (\A t \in Tasks : Finished(t)) /\ UNCHANGED vars

Next ==
  \/ \E t \in Tasks :
       \/ Instance(t) \/ Initialised(t) \/ Take(t) \/ Give(t)
       \/ Select(t) \/ Drive(t)
       \/ ReadRegister(t) \/ WriteOutputs(t) \/ WriteMode(t) \/ Reset(t) \/ WriteOther(t)
       \/ Misread(t) \/ Unheard(t)
  \/ AllFinished

Spec == FacesInit /\ [][Next]_vars

-----------------------------------------------------------------------------

TypeOK ==
  /\ \A t \in Tasks : at[t] \in 1 .. Len(Code[t]) + 1 /\ Len(init[t]) <= Len(Init)
  /\ holder \in [{"PORT", "TW"} -> Tasks \cup {Free}]
  /\ bInitRequired \in BOOLEAN
  /\ selected \in Ports \cup {NULLPORT}
  /\ outputs \subseteq Ports
  /\ modes \in [Ports -> [0 .. PACKS - 1 -> [Channels -> Modes]]]
  /\ asked \in [Ports -> {"on", "off", "any"}]
  /\ wanted \in [Ports -> [Leds -> Modes \cup {"any"}]]

Transacting(t) == At(t, "end")

\* A transaction meant for a face has the multiplexer on that face from its
\* start to its end, although tasks select faces one after the other, the
\* selection passes through NORTH, and instance() may initialise the
\* controller, and select none, behind a task that has used it before.
RightFace ==
  \A t \in Tasks : Transacting(t) /\ Step(t).port # NULLPORT => selected = Step(t).port

\* port_controller.cpp:177: IsPortConnected() drives the clock line without the
\* two-wire lock, yet nobody is in a transaction then, nor are two tasks in one.
BusAlone ==
  \A t, u \in Tasks :
    t # u /\ (Transacting(t) \/ At(t, "pulse")) => ~Transacting(u) /\ ~At(u, "pulse")

\* Each led has the mode that was last set for it: writing a register back
\* undoes no other call, though it was read in an earlier locked section.  A
\* failure, which nobody notices, spoils at most the register it is about,
\* until its leds are set again.
ModesAsSet ==
  \A p \in Ports, led \in Leds : wanted[p][led] \in {modes[p][led \div 4][led % 4], "any"}

\* The faces enabled are those the calls have enabled and not disabled since,
\* though EnablePort() releases the bus between its read and its write; a
\* failure is made good by the next call for the face.
OutputsAsAsked ==
  \A p \in Ports : asked[p] \in {IF p \in outputs THEN "on" ELSE "off", "any"}

=============================================================================
