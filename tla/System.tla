------------------------------- MODULE System -------------------------------
(***************************************************************************)
(* The multitasking kernel of source/system.cpp: the task table, the       *)
(* round-robin choice of the next task, the context switch (context.h) made *)
(* by the timer interrupt and by do_something_else(), and the calls a task  *)
(* makes: schedule_task, yield, sleep, exit_task.                           *)
(*                                                                         *)
(* A job is one activation of a task function, i.e. one accepted or refused *)
(* call of schedule_task.  A context is what SAVE_CONTEXT pushes: where the *)
(* interrupted code continues and the locals it needs.  A stack pointer is  *)
(* modelled by the name of the job whose frame it designates, and the frame *)
(* itself lives in the stack of a slot, so that a pointer and the bytes it  *)
(* points to can disagree: restoring such a frame gives Garbage.            *)
(*                                                                         *)
(* Code between cli() and sei() is one step; outside it the timer interrupt *)
(* may fall between any two steps of the same function.                     *)
(***************************************************************************)
EXTENDS Integers

CONSTANTS
  MAX_TASKS,      (* slots in the task table                                *)
  TICK_INTERVAL,  (* milliseconds between two timer interrupts              *)
  BYTE,           (* values of a byte: an int is stored as two of them      *)
  Jobs,           (* activations that may ever be submitted (a bound)       *)
  Schedulers,     (* the jobs whose code calls schedule_task                *)
  SleepTimes,     (* arguments given to sleep()                             *)
  Overlap,        (* may two calls of schedule_task be in progress at once? *)
  Main,           (* main(), which becomes the idle loop of run()           *)
  NoJob

ASSUME KernelAssumption ==
  /\ MAX_TASKS \in Nat \ {0}
  /\ TICK_INTERVAL \in Nat \ {0}
  /\ BYTE \in Nat \ {0}
  /\ SleepTimes \subseteq Int
  /\ Schedulers \subseteq Jobs
  /\ Overlap \in BOOLEAN
  /\ Main \notin Jobs
  /\ NoJob \notin Jobs
  /\ Main # NoJob

Slots == 0 .. MAX_TASKS - 1
Idle  == -1                      \* current_task when no task is running
Places == Slots \cup {Idle}      \* one stack per slot, and main's

VARIABLES
  task_count, current_task,
  running, sleep_time,  \* tasks[n].running, tasks[n].sleep_time
  sp,                   \* tasks[n].sp, and stackTop at Idle
  stack,                \* the frame last saved on the stack of each place
  cpu,                  \* the context being executed
  timerOn,              \* TIMSK0 has OCIE0A: run() was called
  phase                 \* history: what became of each job

vars == <<task_count, current_task, running, sleep_time, sp, stack, cpu,
          timerOn, phase>>

table == <<task_count, running, sleep_time>>

-----------------------------------------------------------------------------
(* Where a context continues.                                               *)

\* inside schedule_task, up to the end of its last critical section
InSchedule == {"test", "scan", "count", "stack", "publish"}
\* inside sleep, with the high or the low byte of sleep_time still to store
InSleep    == {"high", "low"}

PC == {"main", "idle", "run", "switch", "leave", "exited", "none", "garbage"}
        \cup InSchedule \cup InSleep

Context == [job : Jobs \cup {Main, NoJob}, pc : PC,
            arg : Jobs \cup {NoJob}, n : Int]

At(j, pc)  == [job |-> j, pc |-> pc, arg |-> NoJob, n |-> 0]
Popped     == At(NoJob, "none")     \* nothing left to restore
Garbage    == At(NoJob, "garbage")  \* registers and PC loaded from stale bytes

\* the code that called into the kernel: main() or a task function
Caller(j) == IF j = Main THEN "main" ELSE "run"

Goto(pc) == cpu' = [cpu EXCEPT !.pc = pc]
Return   == cpu' = At(cpu.job, Caller(cpu.job))

-----------------------------------------------------------------------------
(* Boot: the static constructor of System and the zeroed .bss.              *)

Init ==
  /\ task_count = 0
  /\ current_task = Idle
  /\ running = [n \in Slots |-> FALSE]
  /\ sleep_time = [n \in Slots |-> 0]
  /\ sp = [n \in Places |-> NoJob]
  /\ stack = [n \in Places |-> Popped]
  /\ cpu = At(Main, "main")
  /\ timerOn = FALSE
  /\ phase = [j \in Jobs |-> "new"]

\* run(): enable the timer interrupt and become the idle loop.
Run ==
  /\ cpu.pc = "main"
  /\ timerOn' = TRUE
  /\ Goto("idle")
  /\ UNCHANGED <<table, current_task, sp, stack, phase>>

-----------------------------------------------------------------------------
(* Choosing and switching.                                                  *)

\* mistakes: a sleeper may run; the last interval of a sleep is cut short
Runnable_Asleep(run, sleep, n)  == run[n]
Runnable_Rounded(run, sleep, n) == run[n] /\ sleep[n] < TICK_INTERVAL

Runnable(run, sleep, n) == run[n] /\ sleep[n] <= 0

\* mistake: always searching from the first slot
ChooseNextTask_First(sleep, next) ==
  \/ next = Idle /\ \A n \in 0 .. task_count - 1 : ~Runnable(running, sleep, n)
  \/ /\ next \in 0 .. task_count - 1 /\ Runnable(running, sleep, next)
     /\ \A n \in 0 .. next - 1 : ~Runnable(running, sleep, n)

\* chooseNextTask(): the first runnable slot after current_task, cyclically
\* and current_task itself last; -1 if there is none.
ChooseNextTask(sleep, next) ==
  LET nth(k) == (current_task + k) % task_count
  IN  \/ /\ next = Idle
         /\ \A k \in 1 .. task_count : ~Runnable(running, sleep, nth(k))
      \/ \E k \in 1 .. task_count :
           /\ next = nth(k)
           /\ Runnable(running, sleep, next)
           /\ \A m \in 1 .. k - 1 : ~Runnable(running, sleep, nth(m))

\* mistake: the global is not updated
SwitchTo_Stale(next, pc) ==
  LET frames == [stack EXCEPT ![current_task] = [cpu EXCEPT !.pc = pc]]
  IN  /\ sp' = [sp EXCEPT ![current_task] = cpu.job]
      /\ stack' = [frames EXCEPT ![next] = Popped]
      /\ cpu' = frames[next]
      /\ current_task' = current_task

\* SAVE_CONTEXT, the choice and RESTORE_CONTEXT, with interrupts disabled:
\* the context left behind will continue at pc.
SwitchTo(next, pc) ==
  LET frames == [stack EXCEPT ![current_task] = [cpu EXCEPT !.pc = pc]]
      tops   == [sp EXCEPT ![current_task] = cpu.job]
  IN  /\ sp' = tops
      /\ stack' = [frames EXCEPT ![next] = Popped]
      /\ cpu' = IF tops[next] # NoJob /\ frames[next].job = tops[next]
                THEN frames[next] ELSE Garbage
      /\ current_task' = next

\* mistake: a tick taken for a millisecond
UpdateSleepTime_One ==
  [n \in Slots |-> IF n < task_count /\ running[n] /\ sleep_time[n] > 0
                   THEN sleep_time[n] - 1 ELSE sleep_time[n]]

\* update_sleep_time()
UpdateSleepTime ==
  [n \in Slots |-> IF n < task_count /\ running[n] /\ sleep_time[n] > 0
                   THEN sleep_time[n] - TICK_INTERVAL ELSE sleep_time[n]]

\* ISR(TIMER0_COMPA_vect)
TimerISR ==
  /\ timerOn
  /\ cpu.pc # "garbage"
  /\ sleep_time' = UpdateSleepTime
  /\ \E next \in Places : /\ ChooseNextTask(sleep_time', next)
                          /\ SwitchTo(next, cpu.pc)
  /\ UNCHANGED <<task_count, running, timerOn, phase>>

\* do_something_else(), returning to its caller at pc.
DoSomethingElse(pc) ==
  /\ \E next \in Places : /\ ChooseNextTask(sleep_time, next)
                          /\ SwitchTo(next, pc)
  /\ UNCHANGED <<table, timerOn, phase>>

-----------------------------------------------------------------------------
(* schedule_task(address, args).  The interrupts are only disabled at its   *)
(* end, so the timer interrupt may fall between any two of these steps.     *)

InProgress == \/ cpu.pc \in InSchedule
              \/ \E p \in Places : stack[p].pc \in InSchedule

\* The call, for an activation y that was never submitted before.
ScheduleCall(y) ==
  /\ phase[y] = "new"
  /\ cpu.pc = Caller(cpu.job)
  /\ cpu.job \in Schedulers \cup {Main}
  /\ Overlap \/ ~InProgress
  /\ phase' = [phase EXCEPT ![y] = "submitted"]
  /\ cpu' = [cpu EXCEPT !.pc = "test", !.arg = y]
  /\ UNCHANGED <<table, current_task, sp, stack, timerOn>>

\* mistake: a full table is not noticed
ScheduleTest_NoFull ==
  /\ cpu.pc = "test"
  /\ cpu' = [cpu EXCEPT !.pc = "count", !.n = task_count]
  /\ UNCHANGED <<table, current_task, sp, stack, timerOn, phase>>

\* Is the table full?  task_count is read here once and for all.
ScheduleTest ==
  /\ cpu.pc = "test"
  /\ cpu' = IF task_count = MAX_TASKS
            THEN [cpu EXCEPT !.pc = "scan", !.n = 0]
            ELSE [cpu EXCEPT !.pc = "count", !.n = task_count]
  /\ UNCHANGED <<table, current_task, sp, stack, timerOn, phase>>

\* mistakes: the first slot is taken whatever it holds; the search starts over
\* instead of giving up
ScheduleScan_Untested ==
  /\ cpu.pc = "scan"
  /\ Goto("stack")
  /\ UNCHANGED <<table, current_task, sp, stack, timerOn, phase>>

ScheduleScan_Again ==
  /\ cpu.pc = "scan"
  /\ IF running[cpu.n] THEN cpu' = [cpu EXCEPT !.n = (@ + 1) % MAX_TASKS]
                       ELSE Goto("stack")
  /\ UNCHANGED <<table, current_task, sp, stack, timerOn, phase>>

\* Look for a slot whose task has finished; refuse if every one runs.
ScheduleScan ==
  /\ cpu.pc = "scan"
  /\ \/ /\ ~running[cpu.n]
        /\ Goto("stack")
        /\ UNCHANGED phase
     \/ /\ running[cpu.n]
        /\ cpu.n + 1 < MAX_TASKS
        /\ cpu' = [cpu EXCEPT !.n = @ + 1]
        /\ UNCHANGED phase
     \/ /\ running[cpu.n]
        /\ cpu.n + 1 = MAX_TASKS
        /\ phase' = [phase EXCEPT ![cpu.arg] = "refused"]
        /\ Return
  /\ UNCHANGED <<table, current_task, sp, stack, timerOn>>

\* mistake: the count is not incremented
ScheduleCount_Lost ==
  /\ cpu.pc = "count"
  /\ Goto("stack")
  /\ UNCHANGED <<table, current_task, sp, stack, timerOn, phase>>

\* Take the next slot of a table that is not full: store the count.
ScheduleCount ==
  /\ cpu.pc = "count"
  /\ task_count' = cpu.n + 1
  /\ Goto("stack")
  /\ UNCHANGED <<current_task, running, sleep_time, sp, stack, timerOn, phase>>

\* mistake: the stack pointer is published over an empty stack
ScheduleStack_Empty ==
  /\ cpu.pc = "stack"
  /\ Goto("publish")
  /\ UNCHANGED <<table, current_task, sp, stack, timerOn, phase>>

\* Clear the slot's stack and lay out the frame of a task that starts.
ScheduleStack ==
  /\ cpu.pc = "stack"
  /\ stack' = [stack EXCEPT ![cpu.n] = At(cpu.arg, "run")]
  /\ Goto("publish")
  /\ UNCHANGED <<table, current_task, sp, timerOn, phase>>

\* The critical section that makes the slot visible to chooseNextTask().
SchedulePublish ==
  /\ cpu.pc = "publish"
  /\ sp' = [sp EXCEPT ![cpu.n] = cpu.arg]
  /\ sleep_time' = [sleep_time EXCEPT ![cpu.n] = -1]
  /\ running' = [running EXCEPT ![cpu.n] = TRUE]
  /\ phase' = [phase EXCEPT ![cpu.arg] = "live"]
  /\ Return
  /\ UNCHANGED <<task_count, current_task, stack, timerOn>>

-----------------------------------------------------------------------------
(* yield(), sleep(t), exit_task().                                          *)

Yield ==
  /\ cpu.pc = "run"
  /\ DoSomethingElse("run")

Hi(v) == (v \div BYTE) % BYTE
Lo(v) == v % BYTE

\* the signed value of two bytes
Word(h, l) ==
  LET v == h * BYTE + l
  IN  IF 2 * v < BYTE * BYTE THEN v ELSE v - BYTE * BYTE

\* sleep_time is an int, which the AVR stores one byte at a time, and sleep()
\* does not disable the interrupts: the compiler chooses which byte is first.
StoreHi(v) == sleep_time' = [sleep_time EXCEPT ![current_task] = Word(Hi(v), Lo(@))]
StoreLo(v) == sleep_time' = [sleep_time EXCEPT ![current_task] = Word(Hi(@), Lo(v))]

SleepCall(t) ==
  /\ cpu.pc = "run"
  /\ \/ StoreHi(t) /\ cpu' = [cpu EXCEPT !.pc = "low", !.n = t]
     \/ StoreLo(t) /\ cpu' = [cpu EXCEPT !.pc = "high", !.n = t]
  /\ UNCHANGED <<task_count, current_task, running, sp, stack, timerOn, phase>>

SleepStore ==
  /\ \/ cpu.pc = "low"  /\ StoreLo(cpu.n)
     \/ cpu.pc = "high" /\ StoreHi(cpu.n)
  /\ cpu' = At(cpu.job, "switch")
  /\ UNCHANGED <<task_count, current_task, running, sp, stack, timerOn, phase>>

SleepSwitch ==
  /\ cpu.pc = "switch"
  /\ DoSomethingElse("run")

ExitTask ==
  /\ cpu.pc = "run"
  /\ running' = [running EXCEPT ![current_task] = FALSE]
  /\ phase' = [phase EXCEPT ![cpu.job] = "done"]
  /\ Goto("leave")
  /\ UNCHANGED <<task_count, current_task, sleep_time, sp, stack, timerOn>>

ExitSwitch ==
  /\ cpu.pc = "leave"
  /\ DoSomethingElse("exited")

-----------------------------------------------------------------------------

ScheduleTask ==
  \/ ScheduleTest \/ ScheduleScan \/ ScheduleCount
  \/ ScheduleStack \/ SchedulePublish

\* the rest of a call the executing context has begun
Continue == \/ ScheduleTask \/ SleepStore \/ SleepSwitch \/ ExitSwitch

Next ==
  \/ Run \/ TimerISR
  \/ \E y \in Jobs : ScheduleCall(y)
  \/ \E t \in SleepTimes : SleepCall(t)
  \/ Yield \/ ExitTask
  \/ Continue

Spec == Init /\ [][Next]_vars

\* The timer ticks for ever, main() reaches run(), and a task that executes
\* again and again gets through the call it is in: a time slice is 10 ms and
\* none of these calls waits for anything.
Fairness ==
  /\ WF_vars(Run)
  /\ WF_vars(TimerISR)
  /\ \A j \in Jobs \cup {Main} : SF_vars(cpu.job = j /\ Continue)

FairSpec == Spec /\ Fairness

-----------------------------------------------------------------------------
(* Properties.                                                              *)

\* Every variable of the kernel keeps a value of its type (system.h:25-30).
TypeOK ==
  /\ task_count \in 0 .. MAX_TASKS
  /\ current_task \in Places
  /\ running \in [Slots -> BOOLEAN]
  /\ sleep_time \in [Slots -> Int]
  /\ sp \in [Places -> Jobs \cup {Main, NoJob}]
  /\ stack \in [Places -> Context]
  /\ cpu \in Context
  /\ timerOn \in BOOLEAN
  /\ phase \in [Jobs -> {"new", "submitted", "live", "refused", "done"}]

\* RESTORE_CONTEXT never loads registers and a return address from bytes that
\* are not the frame the stack pointer was saved for, whatever calls the timer
\* interrupted; and exit_task() never returns.
ContextIntegrity == cpu.pc \notin {"garbage", "none", "exited"}

\* The job whose code a slot holds: executing, or saved where sp says.
Owner(n) == IF n = current_task THEN cpu.job
            ELSE IF sp[n] = stack[n].job THEN sp[n] ELSE NoJob

\* schedule_task() returned 0 for a job, so there was room for it (README.md:38
\* of the repository: it "returns -1 if not enough room for the task"): until it exits, the job has a slot of
\* its own, and only one, from which it will be resumed.
Hosts(n, j) == running[n] /\ Owner(n) = j

AcceptedHosted ==
  \A j \in Jobs : phase[j] = "live" =>
    \E n \in Slots : Hosts(n, j) /\ \A m \in Slots : Hosts(m, j) => m = n

\* No job is starved: as long as it has not exited, a job whose scheduling
\* succeeded executes again and again, however the others yield, sleep, exit
\* and schedule (this needs both the rotation and the end of every sleep).
LiveJobsRun ==
  \A j \in Jobs : []<>(phase[j] # "live" \/ cpu.job = j)

\* A call of schedule_task() always returns.
ScheduleReturns ==
  \A j \in Jobs : phase[j] = "submitted" ~> phase[j] # "submitted"

=============================================================================
