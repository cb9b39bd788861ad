--------------------------- MODULE SystemPromise ---------------------------
(* The kernel of System with three history variables, and the mapping under  *)
(* which it keeps the promise of Multitask.                                  *)
EXTENDS System, FiniteSets

VARIABLES
  seenFull,  \* jobs whose call of schedule_task began with every slot running
  passed,    \* the jobs served since each one was, or woke up
  slot       \* the slot each job was scheduled into, Idle before

pvars == <<vars, seenFull, passed, slot>>

PInit ==
  /\ Init
  /\ seenFull = {} /\ passed = [j \in Jobs |-> {}]
  /\ slot = [j \in Jobs |-> Idle]

\* the live jobs whose slot chooseNextTask() may return
Awake == {j \in Jobs : \E n \in Slots : Hosts(n, j) /\ sleep_time[n] <= 0}

PSubmit(y) ==
  /\ ScheduleCall(y)
  /\ seenFull' = IF \A n \in Slots : running[n] THEN seenFull \cup {y} ELSE seenFull
  /\ UNCHANGED <<passed, slot>>

\* every switch of context: by the timer, yield, sleep, and exit_task
PTurn ==
  /\ TimerISR \/ Yield \/ SleepSwitch \/ ExitSwitch
  /\ passed' = [j \in Jobs |->
                  IF j \in Awake' \ {cpu'.job} THEN passed[j] \cup {cpu'.job} ELSE {}]
  /\ UNCHANGED <<seenFull, slot>>

POther ==
  /\ \/ Run \/ ExitTask \/ SleepStore \/ ScheduleTask
     \/ \E t \in SleepTimes : SleepCall(t)
  /\ slot' = IF cpu.pc = "publish" THEN [slot EXCEPT ![cpu.arg] = cpu.n] ELSE slot
  /\ UNCHANGED <<seenFull, passed>>

PNext == (\E y \in Jobs : PSubmit(y)) \/ PTurn \/ POther

PSpec == PInit /\ [][PNext]_pvars /\ Fairness

\* exit_task(), sleep() and the switch write to the slot of current_task without
\* asking whose it is: it is always the one the executing job was scheduled into,
\* even when exit_task() has given it up and another call of schedule_task() may
\* take it, and none at all in main().
ExecutingTaskIsCurrent ==
  current_task = IF cpu.job = Main THEN Idle ELSE slot[cpu.job]

\* Every behaviour of the kernel is one Multitask allows: at most MAX_TASKS
\* live jobs, no refusal while a slot is free at the call, no turn for a job
\* that sleeps or has exited, no job served twice while another waits.
Promise == INSTANCE Multitask WITH
             status <- phase, exec <- cpu.job, awake <- Awake

KeepsPromise == Promise!Spec

=============================================================================
