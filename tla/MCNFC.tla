------------------------------- MODULE MCNFC -------------------------------
(* Small instances for TLC of what a block does with its NFC chips: how it   *)
(* notices that a face calls, PortInterrupts, in the behaviours where half   *)
(* is "notice", and what is then said, NFCController, in the others.         *)
EXTENDS NFCController

CONSTANTS
  A, B, interactive, initNFC, neighbour, restarted,
  CHANGES, FAILURES  (* of a line, and of readings of the lines (bounds) *)

ASSUME LineAssumption == CHANGES \in Nat /\ FAILURES \in Nat

BothFaces   == {A, B}
TheTasks    == {interactive, initNFC, neighbour, restarted}
TheFaces    == [t \in TheTasks |-> IF t = neighbour THEN B ELSE A]
TheAttempts == [t \in TheTasks |-> IF t = restarted THEN 3 ELSE 1]
TheDuties   ==
  [t \in TheTasks |->
    CASE t = interactive -> {"Send"}
      [] t = neighbour   -> {"Receive"}
      [] OTHER           -> {"Init"}]

\* Two exchanges in turn; one, with the chip initialised behind it; a chip that
\* is initialised twice.
Budget(n, S) == [t \in TheTasks |-> IF t \in S THEN n ELSE 0]
TheBudgets ==
  {Budget(2, {interactive, neighbour}), Budget(1, {interactive, neighbour, initNFC}),
   Budget(2, {restarted})}

VARIABLES half, low, read, INTF0, bSynchronizeRequired, m_unInterrupts, m_unLastRegisterState,
          pc, unRegisterState, unIRQs, changes, failures, due, missed, calls

pvars == <<low, read, INTF0, bSynchronizeRequired, m_unInterrupts, m_unLastRegisterState,
           pc, unRegisterState, unIRQs, changes, failures, due, missed, calls>>

P == INSTANCE PortInterrupts WITH Ports <- Faces

MCInit ==
  /\ Init /\ P!Init /\ half \in {"notice", "speak"}
  /\ half = "notice" => left = Budget(2, {restarted})
  /\ half = "speak" => low = {} /\ read = {}

Notice == half = "notice" /\ P!Next /\ UNCHANGED <<half, vars>>
Speak  == half = "speak" /\ Next /\ UNCHANGED <<half, pvars>>

MCNext == Notice \/ Speak

MCSpec ==
  /\ MCInit /\ [][MCNext]_<<half, vars, pvars>>
  /\ Fairness
  /\ WF_pvars(half = "notice" /\ P!EnableInterrupt)
  /\ WF_pvars(P!Handler01) /\ WF_pvars(half = "notice" /\ P!NFCReact)

\* The properties of PortInterrupts.
LostOnlyUnread == P!LostOnlyUnread
NoPhantomCall  == P!NoPhantomCall
=============================================================================
