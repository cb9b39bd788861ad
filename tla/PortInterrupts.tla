--------------------------- MODULE PortInterrupts ---------------------------
(* source/port_controller.cpp and NFCReact() of main.cpp: how the task that  *)
(* holds the port controller learns that a face calls.  A line of each face  *)
(* goes to the inputs of a port expander (PCA9554), whose INT output is low  *)
(* while an input differs from what was last read; its falling edge is the   *)
(* external interrupt INT0, once the controller is initialised.              *)
EXTENDS Integers, FiniteSets

CONSTANTS
  Ports,
  CHANGES,  (* changes of a line in a run (a bound)                          *)
  FAILURES  (* readings of the expander that fail in a run (a bound)         *)

VARIABLES
  low,       \* the faces whose line is low
  read,      \* low, as it was when the input register was last read
  INTF0,     \* the falling edge of INT, not yet served
  bSynchronizeRequired,
  m_unInterrupts,
  m_unLastRegisterState,  \* the faces that are low in it
  pc, unRegisterState, unIRQs,  \* the task, and its locals
  changes, failures,  \* what is left of the bounds
  due,       \* history: faces that called, still call and were not noticed; one
             \* that was read low, and rose and fell since, does not show
  missed,    \* history: the last reading failed, or an interrupt came between it
             \* and the reset
  calls      \* history: how often each face has called and was not answered

lines == <<low, read, INTF0, changes, failures>>
controller == <<bSynchronizeRequired, m_unInterrupts, m_unLastRegisterState>>
task == <<pc, unRegisterState, unIRQs>>
history == <<due, missed, calls>>
vars == <<lines, controller, task, history>>

\* The block starts, or starts again, among others that may be calling it; the
\* expander may have been read by the program that ran before.
Constructed(synchronize) ==
  /\ low \in SUBSET Ports /\ read \in SUBSET Ports /\ INTF0 = FALSE
  /\ bSynchronizeRequired = synchronize
  /\ m_unInterrupts = {} /\ m_unLastRegisterState = {}
  /\ pc = "boot" /\ unRegisterState = {} /\ unIRQs = {}
  /\ changes = CHANGES /\ failures = FAILURES
  /\ due = low /\ missed = FALSE /\ calls = [p \in Ports |-> IF p \in low THEN 1 ELSE 0]

Init_Trusting == Constructed(FALSE)  \* mistake: there is no first reading
Init          == Constructed(TRUE)

\* The faces that were low in the last byte that was read.
LastRead == IF pc \in {"reset", "append"} THEN unRegisterState ELSE m_unLastRegisterState

\* A change of an input.  The edge of INT is not kept before INT0 is set up.
Change(p) ==
  /\ changes > 0
  /\ changes' = changes - 1
  /\ \/ /\ p \notin low /\ low' = low \cup {p}
        /\ due' = due \cup ({p} \ LastRead) /\ calls' = [calls EXCEPT ![p] = @ + 1]
     \/ /\ p \in low /\ low' = low \ {p}
        /\ due' = due \ {p} /\ UNCHANGED calls
  /\ INTF0' = (INTF0 \/ (pc # "boot" /\ low = read /\ low' # read))
  /\ UNCHANGED <<read, failures, controller, task, missed>>

\* The end of CPortController::Init(), which the first call of instance() makes;
\* the change of EICRA may raise the flag by itself.
EnableInterrupt ==
  /\ pc = "boot" /\ pc' = "idle"
  /\ INTF0' \in BOOLEAN
  /\ UNCHANGED <<low, read, changes, failures, controller, unRegisterState, unIRQs, history>>

\* CPortInterrupt::ServiceRoutine(), the owner of the first vector
ServiceRoutine == bSynchronizeRequired' = TRUE

Handler01 ==
  /\ pc # "boot" /\ INTF0
  /\ INTF0' = FALSE
  /\ ServiceRoutine
  /\ missed' = (missed \/ pc = "reset")
  /\ UNCHANGED <<low, read, changes, failures, m_unInterrupts, m_unLastRegisterState,
                 task, due, calls>>

-----------------------------------------------------------------------------
(* SynchronizeInterrupts(), with the port controller locked.                *)

Synchronize ==
  /\ pc = "idle"
  /\ pc' = IF bSynchronizeRequired THEN "read" ELSE "has"
  /\ UNCHANGED <<lines, controller, unRegisterState, unIRQs, history>>

\* The transaction with the expander; the byte is fetched after the reset.  A
\* transaction that fails is not noticed, and leaves no byte to fetch: Read()
\* then returns 0xFF, no face low.  The expander may have released INT or not.
ReadInputs ==
  /\ pc = "read"
  /\ \/ unRegisterState' = low /\ read' = low /\ missed' = FALSE /\ UNCHANGED failures
     \/ /\ failures > 0 /\ failures' = failures - 1
        /\ unRegisterState' = {} /\ read' \in {read, low} /\ missed' = TRUE
  /\ pc' = "reset"
  /\ UNCHANGED <<low, INTF0, changes, controller, unIRQs, due, calls>>

ResetFlag ==
  /\ pc = "reset"
  /\ bSynchronizeRequired' = FALSE
  /\ pc' = "append"
  /\ UNCHANGED <<lines, m_unInterrupts, m_unLastRegisterState, unRegisterState, unIRQs, history>>

\* mistake: the state is not kept for the next time
AppendEdges_Forget ==
  /\ pc = "append"
  /\ m_unInterrupts' = m_unInterrupts \cup (unRegisterState \ m_unLastRegisterState)
  /\ due' = due \ m_unInterrupts'
  /\ pc' = "has"
  /\ UNCHANGED <<lines, bSynchronizeRequired, m_unLastRegisterState, unRegisterState, unIRQs, missed, calls>>

AppendEdges ==
  /\ pc = "append"
  /\ m_unInterrupts' = m_unInterrupts \cup (unRegisterState \ m_unLastRegisterState)
  /\ m_unLastRegisterState' = unRegisterState
  /\ due' = due \ m_unInterrupts'
  /\ pc' = "has"
  /\ UNCHANGED <<lines, bSynchronizeRequired, unRegisterState, unIRQs, missed, calls>>

SynchronizeInterrupts == Synchronize \/ ReadInputs \/ ResetFlag \/ AppendEdges

\* HasInterrupts(), GetInterrupts(), ClearInterrupts(unIRQs); the faces in
\* unIRQs are then received from.
TakeInterrupts ==
  /\ pc = "has"
  /\ unIRQs' = m_unInterrupts
  /\ m_unInterrupts' = m_unInterrupts \ unIRQs'
  /\ calls' = [p \in Ports |-> IF p \in unIRQs' THEN calls[p] - 1 ELSE calls[p]]
  /\ pc' = "idle"
  /\ UNCHANGED <<lines, bSynchronizeRequired, m_unLastRegisterState, unRegisterState, due, missed>>

NFCReact == SynchronizeInterrupts \/ TakeInterrupts

\* NFCTransmit(), in the same task, clears all after each message it sends.
NFCTransmit ==
  /\ pc = "idle"
  /\ m_unInterrupts' = {}
  /\ UNCHANGED <<lines, bSynchronizeRequired, m_unLastRegisterState, task, history>>

Next ==
  \/ \E p \in Ports : Change(p)
  \/ EnableInterrupt \/ Handler01 \/ NFCReact \/ NFCTransmit

Spec == Init /\ [][Next]_vars

\* InteractiveMode comes round to NFCReact for ever, and the interrupt is taken.
FairSpec == Spec /\ WF_vars(EnableInterrupt) /\ WF_vars(Handler01) /\ WF_vars(NFCReact)

-----------------------------------------------------------------------------

\* SynchronizeInterrupts() "detects interrupts at the port interrupt register"
\* (port_controller.h:37): a face whose line falls and stays low is noticed.
CallNoticed == \A p \in Ports : p \in due ~> p \notin due

\* A face that calls for ever without being noticed does so because the flag was
\* reset after a reading that failed, or with an interrupt that came after the
\* reading, and because no reading has followed: the next one that succeeds makes
\* up for it.  Nothing else loses a call, though INT falls once for several faces,
\* not at all while it is low, rises when a line returns to what was read, and is
\* not looked at before the controller is initialised.
LostOnlyUnread == \A p \in Ports : <>[](p \in due) => <>[]missed

\* A face is not answered more often than it has called, but for one answer for
\* each reading that failed: after it, a line that is still low seems to fall.
NoPhantomCall ==
  \A p \in Ports :
    calls[p] + (FAILURES - failures) >= IF p \in m_unInterrupts THEN 1 ELSE 0

=============================================================================
