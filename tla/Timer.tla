------------------------------- MODULE Timer -------------------------------
(* source/timer.cpp: the millisecond counter, several bytes wide, that the   *)
(* interrupt of timer 2 increments and that tasks read byte by byte, as      *)
(* dummy5() and LOG() of main.cpp do.  Readers share nothing else: one is    *)
(* enough, and its preemption is a pause between two of its steps.           *)
EXTENDS Integers

CONSTANTS
  BYTE,   (* values of a byte                          *)
  WIDTH   (* bytes of the counter: uint32_t has four   *)

Places == 1 .. WIDTH  \* the lowest byte first

VARIABLES
  m_unTimerMilliseconds,
  I,              \* SREG: the interrupts are enabled
  pc,             \* the statement the reader has come to
  oldSREG, m, loaded,  \* its locals, and how many bytes of m it has loaded
  seen            \* history: the values of the counter since it called

vars == <<m_unTimerMilliseconds, I, pc, oldSREG, m, loaded, seen>>

Zero == [i \in Places |-> 0]

Init ==
  /\ m_unTimerMilliseconds = Zero
  /\ I = TRUE
  /\ pc = "out" /\ oldSREG = TRUE /\ m = Zero /\ loaded = 0
  /\ seen = {Zero}

\* ++ with its carries; the counter wraps.
Increment(c) ==
  [i \in Places |-> IF \A l \in 1 .. i - 1 : c[l] = BYTE - 1 THEN (c[i] + 1) % BYTE ELSE c[i]]

\* ISR(TIMER2_COMPA_vect)
ISR ==
  /\ I
  /\ m_unTimerMilliseconds' = Increment(m_unTimerMilliseconds)
  /\ seen' = seen \cup {m_unTimerMilliseconds'}
  /\ UNCHANGED <<I, pc, oldSREG, m, loaded>>

-----------------------------------------------------------------------------
(* GetMilliseconds()                                                        *)

SaveSREG ==
  /\ pc = "out"
  /\ oldSREG' = I
  /\ seen' = {m_unTimerMilliseconds}
  /\ pc' = "cli"
  /\ UNCHANGED <<m_unTimerMilliseconds, I, m, loaded>>

\* mistake: the interrupts stay enabled
Cli_Forgotten ==
  /\ pc = "cli"
  /\ pc' = "load" /\ loaded' = 0
  /\ UNCHANGED <<m_unTimerMilliseconds, I, oldSREG, m, seen>>

Cli ==
  /\ pc = "cli"
  /\ I' = FALSE
  /\ pc' = "load" /\ loaded' = 0
  /\ UNCHANGED <<m_unTimerMilliseconds, oldSREG, m, seen>>

Load ==
  /\ pc = "load"
  /\ loaded' = loaded + 1
  /\ m' = [m EXCEPT ![loaded'] = m_unTimerMilliseconds[loaded']]
  /\ pc' = IF loaded' = WIDTH THEN "restore" ELSE pc
  /\ UNCHANGED <<m_unTimerMilliseconds, I, oldSREG, seen>>

RestoreSREG ==
  /\ pc = "restore"
  /\ I' = oldSREG
  /\ pc' = "return"
  /\ UNCHANGED <<m_unTimerMilliseconds, oldSREG, m, loaded, seen>>

\* The caller prints the time.
Return ==
  /\ pc = "return"
  /\ pc' = "out"
  /\ UNCHANGED <<m_unTimerMilliseconds, I, oldSREG, m, loaded, seen>>

GetMilliseconds == SaveSREG \/ Cli \/ Load \/ RestoreSREG \/ Return

Next == ISR \/ GetMilliseconds

Spec == Init /\ [][Next]_vars

-----------------------------------------------------------------------------

\* GetMilliseconds() returns a time that it was between its call and its
\* return, never the bytes of two, whatever carries and wraps meanwhile.
TimeIsTrue == pc = "return" => m \in seen

=============================================================================
