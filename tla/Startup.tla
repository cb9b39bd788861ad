------------------------------ MODULE Startup ------------------------------
(* NFCtask() of source/main.cpp and the tasks it starts.  Nothing but time   *)
(* orders them: NFCtask sleeps a second, or five, between two of its calls   *)
(* of schedule_task and takes it that the task started before has ended by   *)
(* then, although each of them reads what the one before has prepared.       *)
(*                                                                           *)
(* Time is counted in ticks, the interrupts of timer 0.  What a task does    *)
(* between two sleeps takes no time if it fits in a tick; else it is a       *)
(* "busy" step, of at most so many ticks.  A sleep lasts as SystemSleep      *)
(* shows for one that no interrupt cuts while it is stored.                  *)
EXTENDS Integers, Sequences, FiniteSets

CONSTANTS
  MAX_TASKS,
  TICK_INTERVAL,  (* ms                                                       *)
  NUM_PORTS,
  LIGHTING,       (* ticks InitLEDs() is busy with a face (a bound)           *)
  PRINTING,       (* ticks a task is busy printing (a bound)                  *)
  POLLS,          (* readings until a chip that works has answered (a bound)  *)
  TOLERATED,      (* faulty chips that 5 s allow for                          *)
  NULLPORT

Ports == 1 .. NUM_PORTS

\* The tasks NFCtask() starts, in its order.
Stages == <<"InitPortController", "InitLEDs", "InitNFC", "InteractiveMode">>
Names  == {Stages[i] : i \in DOMAIN Stages} \cup {"NFCtask"}

-----------------------------------------------------------------------------
(* The steps of the tasks.                                                  *)

Ticks(ms) == (ms + TICK_INTERVAL - 1) \div TICK_INTERVAL

Sleep(ms)  == <<[op |-> "wait", ticks |-> Ticks(ms)]>>
Busy(max)  == <<[op |-> "busy", ticks |-> max]>>
Start(n)   == <<[op |-> "start", name |-> n]>>
Exit       == <<[op |-> "exit"]>>
Append1(p) == <<[op |-> "append", port |-> p]>>
Face(op)   == [i \in Ports |-> [op |-> op, index |-> i]]  \* of a list of faces

Repeat(s, n) == [i \in 1 .. n * Len(s) |-> s[((i - 1) % Len(s)) + 1]]

\* mistake: it does not wait for the list
NFCtask_Hasty ==
  Start("InitPortController") \o Sleep(100)
  \o Start("InitLEDs") \o Sleep(1000)
  \o Start("InitNFC") \o Sleep(5000)
  \o Start("InteractiveMode") \o Exit

NFCtask ==
  Start("InitPortController") \o Sleep(1000)
  \o Start("InitLEDs") \o Sleep(1000)
  \o Start("InitNFC") \o Sleep(5000)
  \o Start("InteractiveMode") \o Exit

InitPortController == Sleep(10) \o Face("probe") \o Busy(PRINTING) \o Exit

InitLEDs == Face("light") \o Busy(PRINTING) \o Sleep(10) \o Exit

InitNFC == Face("attempt") \o Busy(PRINTING) \o Sleep(10) \o Exit

Program(n) ==
  CASE n = "NFCtask"            -> NFCtask
    [] n = "InitPortController" -> InitPortController
    [] n = "InitLEDs"           -> InitLEDs
    [] n = "InitNFC"            -> InitNFC
    [] n = "InteractiveMode"    -> <<>>  \* goes on for ever: see Interactive

\* write_cmd(); read_dt() polls every 10 ms until the chip is ready.
WriteCmd   == Sleep(2) \o Sleep(100)
ReadDt(n)  == Repeat(Sleep(10), n)
Command(n) == WriteCmd \o ReadDt(n) \o ReadDt(n)  \* the acknowledgement, the reply

\* CNFCController::Init() makes up to three attempts, of which so many are left.
Try(left) == <<[op |-> "try", left |-> left]>>

\* One that succeeds: Probe, ConfigureSAM, PowerDown.
Answering(n) == Command(n) \o Command(n) \o Command(n)

\* A command that fails: no acknowledgement or a wrong one, no reply or a wrong one.
Failed(n) ==
  {WriteCmd \o ReadDt(25), WriteCmd \o ReadDt(n),
   WriteCmd \o ReadDt(n) \o ReadDt(25), Command(n)}

\* An attempt that fails, at its first command or at a later one.
Failing(n) ==
  {before \o command \o Sleep(100) :
     before \in {<<>>, Command(n), Command(n) \o Command(n)}, command \in Failed(n)}

-----------------------------------------------------------------------------

VARIABLES
  phase,   \* of each task: "new", "live", "done" or "refused"
  todo,    \* the steps left to each
  pause,   \* the ticks it still sleeps or is busy
  m_peConnectedPorts,
  connected, \* the faces that are
  faulty     \* history: chips whose first attempt failed

vars == <<phase, todo, pause, m_peConnectedPorts, connected, faulty>>

Live == {n \in Names : phase[n] = "live"}

Init ==
  /\ phase = [n \in Names |-> IF n = "NFCtask" THEN "live" ELSE "new"]
  /\ todo = [n \in Names |-> Program(n)]
  /\ pause = [n \in Names |-> 0]
  /\ m_peConnectedPorts = [i \in Ports |-> NULLPORT]
  /\ connected \in SUBSET Ports
  /\ faulty = 0

\* n is live, awake, and its next step is op.
At(n, op) == phase[n] = "live" /\ pause[n] = 0 /\ todo[n] # <<>> /\ Head(todo[n]).op = op

Becomes(n, rest) == todo' = [todo EXCEPT ![n] = rest]

Wait(n) ==
  /\ At(n, "wait")
  /\ pause' = [pause EXCEPT ![n] = Head(todo[n]).ticks]
  /\ Becomes(n, Tail(todo[n]))
  /\ UNCHANGED <<phase, m_peConnectedPorts, connected, faulty>>

Work(n) ==
  /\ At(n, "busy")
  /\ pause' \in {[pause EXCEPT ![n] = t] : t \in 0 .. Head(todo[n]).ticks}
  /\ Becomes(n, Tail(todo[n]))
  /\ UNCHANGED <<phase, m_peConnectedPorts, connected, faulty>>

\* schedule_task() as Multitask promises it; nobody looks at its value.
ScheduleTask(n) ==
  /\ At(n, "start")
  /\ phase' = [phase EXCEPT ![Head(todo[n]).name] =
                 IF Cardinality(Live) < MAX_TASKS THEN "live" ELSE "refused"]
  /\ Becomes(n, Tail(todo[n]))
  /\ UNCHANGED <<pause, m_peConnectedPorts, connected, faulty>>

ExitTask(n) ==
  /\ At(n, "exit")
  /\ phase' = [phase EXCEPT ![n] = "done"]
  /\ Becomes(n, <<>>)
  /\ UNCHANGED <<pause, m_peConnectedPorts, connected, faulty>>

\* The body of the loop of InitPortController(): IsPortConnected() sleeps twice.
ProbeFace(n) ==
  /\ At(n, "probe")
  /\ Becomes(n, Sleep(10) \o Sleep(10) \o Append1(Head(todo[n]).index) \o Tail(todo[n]))
  /\ UNCHANGED <<phase, pause, m_peConnectedPorts, connected, faulty>>

\* The first NULLPORT of the list is replaced.
AppendPort(n) ==
  /\ At(n, "append")
  /\ LET p    == Head(todo[n]).port
         Free == {i \in Ports : m_peConnectedPorts[i] = NULLPORT}
     IN  m_peConnectedPorts' =
           IF p \notin connected THEN m_peConnectedPorts
           ELSE [m_peConnectedPorts EXCEPT ![CHOOSE i \in Free : \A k \in Free : i <= k] = p]
  /\ Becomes(n, Tail(todo[n]))
  /\ UNCHANGED <<phase, pause, connected, faulty>>

\* The body of the loop of InitLEDs() or InitNFC(), for one place of the list.
DoFace(n) ==
  /\ At(n, "light") \/ At(n, "attempt")
  /\ \/ /\ m_peConnectedPorts[Head(todo[n]).index] = NULLPORT
        /\ Becomes(n, Tail(todo[n]))
     \/ /\ m_peConnectedPorts[Head(todo[n]).index] # NULLPORT
        /\ \/ At(n, "light")   /\ Becomes(n, Busy(LIGHTING) \o Tail(todo[n]))
           \/ At(n, "attempt") /\ Becomes(n, Try(3) \o Tail(todo[n]))
  /\ UNCHANGED <<phase, pause, m_peConnectedPorts, connected, faulty>>

\* The body of the loop of CNFCController::Init(): any attempt may fail, at any of
\* its commands, and the third is the last.
TryInit(n) ==
  /\ At(n, "try")
  /\ \E polls \in {0, POLLS} :
       \/ Becomes(n, Answering(polls) \o Tail(todo[n])) /\ UNCHANGED faulty
       \/ \E steps \in Failing(polls) :
            LET left == Head(todo[n]).left IN
            /\ \/ left = 1 /\ Becomes(n, steps \o Tail(todo[n]))
               \/ left > 1 /\ Becomes(n, steps \o Try(left - 1) \o Tail(todo[n]))
            /\ faulty' = IF left = 3 THEN faulty + 1 ELSE faulty
  /\ UNCHANGED <<phase, pause, m_peConnectedPorts, connected>>

Step(n) ==
  \/ Wait(n) \/ Work(n) \/ ScheduleTask(n) \/ ExitTask(n)
  \/ ProbeFace(n) \/ AppendPort(n) \/ DoFace(n) \/ TryInit(n)

\* A tick, when nobody has a step left that fits before it.
Tick ==
  /\ \A n \in Live : pause[n] > 0 \/ todo[n] = <<>>
  /\ pause' = [n \in Names |-> IF pause[n] > 0 THEN pause[n] - 1 ELSE 0]
  /\ UNCHANGED <<phase, todo, m_peConnectedPorts, connected, faulty>>

Next == Tick \/ \E n \in Names : Step(n)

Spec == Init /\ [][Next]_vars

-----------------------------------------------------------------------------
(* What the sleeps of NFCtask() rely on.                                    *)

\* The ticks InitNFC() spends at most on a face whose chip answers, on an attempt
\* that fails, and on a faulty chip more than on one that answers.
Answer  == 3 * (Ticks(2) + Ticks(100) + 2 * POLLS * Ticks(10))
Failure == Answer + Ticks(100) + (25 - POLLS) * Ticks(10)
Trouble == 3 * Failure - Answer

\* Each sleep is longer than what the task started before it takes at most.
SleepsSuffice ==
  /\ Ticks(10) + NUM_PORTS * (2 * Ticks(10)) + PRINTING < Ticks(1000)
  /\ NUM_PORTS * LIGHTING + PRINTING + Ticks(10) < Ticks(1000)
  /\ NUM_PORTS * Answer + TOLERATED * Trouble + PRINTING + Ticks(10) < Ticks(5000)

Listed == {m_peConnectedPorts[i] : i \in Ports} \ {NULLPORT}

\* main.cpp:480-490: each task that NFCtask() starts has ended when it starts
\* the next, none is refused, and the list of faces is complete before it is
\* read: the sleeps are long enough for any faces, but not for InitNFC() if
\* the first attempt at more than TOLERATED of their chips fails.
StagesInOrder ==
  /\ \A i, k \in DOMAIN Stages :
       i < k /\ phase[Stages[k]] # "new" =>
         \/ phase[Stages[i]] = "done"
         \/ Stages[i] = "InitNFC" /\ faulty > TOLERATED
  /\ \A n \in Names : phase[n] # "refused"
  /\ phase["InitLEDs"] # "new" => Listed = connected

=============================================================================
