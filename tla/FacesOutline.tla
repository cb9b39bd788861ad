---------------------------- MODULE FacesOutline ----------------------------
(* Why the tasks of Faces do not disturb each other: what a task may rely on *)
(* between two steps of its program (the points of a proof outline), which   *)
(* step leads from one point to another, and the inductive invariant: a task *)
(* may rely on it, whatever the others do.                                   *)
EXTENDS Faces

CONSTANT Owns  \* the faces whose modes each task sets

Targets == Ports \cup {NULLPORT}
Registers == 0 .. PACKS - 1

ReadOutputs == [do |-> "read outputs"]
ReadModes(p, r) == [do |-> "read modes", port |-> p, reg |-> r]
Reads == {Nothing, ReadOutputs} \cup {ReadModes(p, r) : p \in Ports, r \in Registers}

\* The locks held (none, that of the controller, or that of the bus too, which
\* is always taken second), the face known to be selected (at most one), the register
\* read and not yet written back, and the faces whose modes are the task's.
\* The multiplexer and the reset register are known only under the lock.
Points ==
  {h \in [held : {"none", "PORT", "both"}, face : SUBSET Targets, read : Reads, own : SUBSET Ports] :
     h.held = "none" => h.face = {} /\ h.read # ReadOutputs}

Idle(own) == [held |-> "none", face |-> {}, read |-> Nothing, own |-> own]

\* At the end of a transaction on p: what has been read, or is written back.
Ends(h, p, effect, g) ==
  \/ effect = Nothing /\ g = h
  \/ effect = ReadOutputs /\ g = [h EXCEPT !.read = ReadOutputs]
  \/ /\ \E q \in Ports, do \in {"enable", "disable"} : effect = [do |-> do, which |-> q]
     /\ h.read = ReadOutputs /\ g = [h EXCEPT !.read = Nothing]
  \/ \E r \in Registers :
       /\ p \in h.own /\ effect = [do |-> "read modes", reg |-> r]
       /\ g = [h EXCEPT !.read = ReadModes(p, r)]
  \/ \E led \in Leds, mode \in Modes :
       /\ p \in h.own
       /\ effect = [do |-> "write mode", reg |-> led \div 4, led |-> led, mode |-> mode]
       /\ h.read = ReadModes(p, led \div 4) /\ g = [h EXCEPT !.read = Nothing]
  \/ p \in h.own /\ effect = [do |-> "reset"] /\ h.read = Nothing /\ g = h

\* A task that may rely on h may take the step s, and on g thereafter: it
\* locks the controller before the bus, selects a face and drives the clock
\* line only with the controller locked, starts a transaction only with both
\* locks and with the face it is meant for, writes back only what it has read,
\* and sets the modes of its own faces only.
Leads(h, s, g) ==
  \/ s = [op |-> "instance"] /\ h.held = "none" /\ g = h
  \/ s = [op |-> "initialised"] /\ h.held # "none" /\ g = h
  \/ s = [op |-> "lock", res |-> "PORT"] /\ h.held = "none" /\ g = [h EXCEPT !.held = "PORT"]
  \/ s = [op |-> "lock", res |-> "TW"] /\ h.held = "PORT" /\ g = [h EXCEPT !.held = "both"]
  \/ s = [op |-> "unlock", res |-> "TW"] /\ h.held = "both" /\ g = [h EXCEPT !.held = "PORT"]
  \/ /\ s = [op |-> "unlock", res |-> "PORT"] /\ h.held = "PORT"
     /\ g = [held |-> "none", face |-> {}, read |-> h.read, own |-> h.own]
  \/ \E p \in Targets :
       s = [op |-> "select", port |-> p] /\ h.held # "none" /\ g = [h EXCEPT !.face = {p}]
  \/ s = [op |-> "start"] /\ h.held = "both" /\ g = h
  \/ s = [op |-> "pulse"] /\ h.held # "none" /\ g = h
  \/ \E p \in Targets :
       /\ s = [op |-> "end", port |-> p, effect |-> s.effect]
       /\ h.held = "both" /\ (p # NULLPORT => h.face = {p})
       /\ Ends(h, p, s.effect, g)

\* o is an outline of the code s that leads from h to g.
Outlines(h, s, g) ==
  {o \in [1 .. Len(s) + 1 -> Points] :
     /\ o[1] = h /\ o[Len(s) + 1] = g
     /\ \A k \in 1 .. Len(s) : Leads(o[k], s[k], o[k + 1])}

\* From h, the code s may be executed, and leaves its task with g.
Runs(h, s, g) == s \in Seq(Range(s)) /\ Outlines(h, s, g) # {}

\* Code that keeps the discipline of Leads from its start to its end.
Keeps(own, s) == Runs(Idle(own), s, Idle(own))

Disciplined ==
  /\ Owns \in [Tasks -> SUBSET Ports]
  /\ \A t \in Tasks : Keeps(Owns[t], Code[t])

\* As in main.cpp, the modes of the leds of a face are set by one task.
ModesOwned == \A t, u \in Tasks : t # u => Owns[t] \cap Owns[u] = {}

-----------------------------------------------------------------------------

Outline ==
  [t \in Tasks |-> CHOOSE o : o \in Outlines(Idle(Owns[t]), Code[t], Idle(Owns[t]))]

\* Init() is called where nothing is locked, and leaves its caller what it knew.
InitOutline(h) == CHOOSE o : o \in Outlines(h, Init, h)

\* Where Init() is when n of its steps are left.
InitPlace(n) == Len(Init) - n + 1

\* What task t may rely on now.
Here(t) ==
  LET h == Outline[t][at[t]]
  IN  IF init[t] = <<>> THEN h ELSE InitOutline(h)[InitPlace(Len(init[t]))]

\* The code of Init() is left from some place on, and is entered with nothing locked.
InitInPlace ==
  /\ at \in [Tasks -> Nat] /\ init \in [Tasks -> Seq(Range(Init))] /\ DOMAIN value = Tasks
  /\ \A t \in Tasks :
       /\ Len(init[t]) <= Len(Init)
       /\ \A j \in 1 .. Len(init[t]) : init[t][j] = Init[InitPlace(Len(init[t])) + j - 1]
       /\ init[t] # <<>> => Outline[t][at[t]].held = "none"

LocksKnown ==
  \A t \in Tasks :
    /\ holder["PORT"] = t <=> Here(t).held # "none"
    /\ holder["TW"] = t <=> Here(t).held = "both"

FaceKnown ==
  \A t \in Tasks : \A p \in Here(t).face : selected = p

OutputsKnown ==
  \A t \in Tasks : Here(t).read = ReadOutputs =>
    /\ value[t].byte \subseteq Ports /\ value[t].true \in BOOLEAN
    /\ value[t].true => value[t].byte = outputs

ModesRead ==
  \A t \in Tasks, p \in Ports, r \in Registers : Here(t).read = ReadModes(p, r) =>
    value[t].byte \in [Channels -> Modes] /\ value[t].true \in BOOLEAN

FacesInv ==
  TypeOK /\ InitInPlace /\ LocksKnown /\ FaceKnown /\ OutputsKnown /\ ModesRead /\ OutputsAsAsked

OwnKnown == \A t \in Tasks : Here(t).own = Owns[t]

\* Nobody but its owner has changed a mode register since it was read.
ModesKnown ==
  \A t \in Tasks, p \in Ports, r \in Registers : Here(t).read = ReadModes(p, r) =>
    p \in Owns[t] /\ (value[t].true => value[t].byte = modes[p][r])

FacesModesInv == FacesInv /\ OwnKnown /\ ModesKnown /\ ModesAsSet

=============================================================================
