--------------------------- MODULE PortController ---------------------------
(* source/port_controller.cpp: the multiplexer that connects one face of the *)
(* block to the two-wire bus, and the reset register of the faces.           *)
(*                                                                           *)
(* A call is the sequence of its steps that other tasks can notice: what it  *)
(* locks, where it leaves the multiplexer, when it is on the bus and what it *)
(* does there.  Faces executes such sequences, one step at a time, for       *)
(* several tasks.                                                            *)
EXTENDS Integers, Sequences

CONSTANTS
  Ports,     (* the faces: EPort, but for NULLPORT                       *)
  NORTH,     (* the face whose number, 0, a cleared multiplexer selects  *)
  NULLPORT

ASSUME PortAssumption == NORTH \in Ports /\ NULLPORT \notin Ports

-----------------------------------------------------------------------------
(* Steps.                                                                   *)

Lock(r)   == <<[op |-> "lock", res |-> r]>>
Unlock(r) == <<[op |-> "unlock", res |-> r]>>

\* From "start" to the end of the step that follows, the task is in a
\* transaction with a device of face p, or with an expander of the block
\* itself (NULLPORT), which the multiplexer does not hide.
Transact(p, effect) == <<[op |-> "start"], [op |-> "end", port |-> p, effect |-> effect]>>

Nothing == [do |-> "nothing"]  \* on what these modules know

-----------------------------------------------------------------------------
(* The calls of CPortController.                                            *)

\* PORTC is cleared, then set
SelectPort(p) == <<[op |-> "select", port |-> NORTH], [op |-> "select", port |-> p]>>

\* What instance() does the first time it is called.
Init_Unlocked ==  \* mistake: the lock is not taken
  SelectPort(NULLPORT)
  \o Lock("TW") \o Transact(NULLPORT, Nothing) \o Unlock("TW")
  \o <<[op |-> "initialised"]>>

Init ==
  Lock("PORT")
  \o SelectPort(NULLPORT)
  \o Lock("TW") \o Transact(NULLPORT, Nothing) \o Unlock("TW")
  \o <<[op |-> "initialised"]>>
  \o Unlock("PORT")

\* CPortController::instance().lock()
Acquire == <<[op |-> "instance"]>> \o Lock("PORT")
Release == Unlock("PORT")

\* The register is read in one locked section and written back in another.
OutputSection(effect) ==
  Lock("TW") \o Transact(NULLPORT, effect) \o Unlock("TW")

EnablePort(p) ==
  OutputSection([do |-> "read outputs"])
  \o OutputSection([do |-> "enable", which |-> p])

DisablePort(p) ==
  OutputSection([do |-> "read outputs"])
  \o OutputSection([do |-> "disable", which |-> p])

\* The part of SynchronizeInterrupts() that is on the bus; see PortInterrupts.
ReadInterrupts == Lock("TW") \o Transact(NULLPORT, Nothing) \o Unlock("TW")

\* The clock line is driven by hand, after a sleep.
IsPortConnected(p) == SelectPort(p) \o <<[op |-> "pulse"]>>

=============================================================================
