---------------------------- MODULE SystemSleep ----------------------------
(* How long sleep(t) lasts: the kernel of System with a history of the       *)
(* sleep each job is in, counted in timer interrupts.                        *)
EXTENDS System

CONSTANT TICK_BOUND  (* interrupts are counted up to it, beyond every sleep *)

\* The argument of sleep() is an int.
ASSUME SleepAssumption ==
  /\ TICK_BOUND \in Nat
  /\ \A t \in SleepTimes : t <= TICK_BOUND * TICK_INTERVAL /\ 2 * t < BYTE * BYTE

VARIABLES
  resumed,     \* the executing code was resumed by the timer inside sleep()
  nap          \* per job: the argument of the sleep it is in or just left
               \* (0: it did not ask to sleep), the interrupts since, and
               \* where in sleep() they fell before it switched

svars == <<vars, resumed, nap>>

Awaken == [asked |-> 0, ticks |-> 0, cut |-> {}]

Inside == InSleep \cup {"switch"}

\* the job executes again after sleep(), and has done nothing else since
BackFromSleep(j) == nap[j].asked > 0 /\ cpu.job = j /\ cpu.pc = "run"

SInit == Init /\ resumed = FALSE /\ nap = [j \in Jobs |-> Awaken]

\* The few instructions of sleep() fit in the interval that starts when the
\* timer resumes them: the next interrupt does not find them again.
STick ==
  /\ ~resumed
  /\ TimerISR
  /\ resumed' = (cpu'.pc \in Inside)
  /\ nap' = [j \in Jobs |->
       IF BackFromSleep(j) THEN Awaken
       ELSE IF nap[j].asked > 0 /\ nap[j].ticks < TICK_BOUND THEN
            [nap[j] EXCEPT !.ticks = @ + 1,
                           !.cut = IF cpu.job = j THEN @ \cup ({cpu.pc} \cap Inside) ELSE @]
       ELSE nap[j]]

SSleep(t) ==
  /\ SleepCall(t)
  /\ nap' = [nap EXCEPT ![cpu.job] = [Awaken EXCEPT !.asked = t]]
  /\ UNCHANGED resumed

\* the rest of the call, up to the switch
SGoing ==
  /\ \/ SleepStore /\ UNCHANGED resumed
     \/ SleepSwitch /\ resumed' = FALSE
  /\ UNCHANGED nap

\* whatever the task does after its sleep
SOther ==
  /\ \/ Run \/ Yield \/ ExitTask \/ ExitSwitch \/ ScheduleTask
     \/ \E y \in Jobs : ScheduleCall(y)
  /\ nap' = [j \in Jobs |-> IF cpu.job = j THEN Awaken ELSE nap[j]]
  /\ resumed' = FALSE

SNext == STick \/ SGoing \/ SOther \/ \E t \in SleepTimes : SSleep(t)

SSpec == SInit /\ [][SNext]_svars

-----------------------------------------------------------------------------

\* A sleep whose two bytes were stored between the same two interrupts never
\* ends early, however the table changes and the other tasks are switched:
\* its argument has been counted down to zero (system.cpp:139-144).
NoShortSleep ==
  \A j \in Jobs : BackFromSleep(j) /\ nap[j].cut \cap InSleep = {} =>
    nap[j].ticks * TICK_INTERVAL >= nap[j].asked

\* README.md:80 of the repository: sleep() "can have an error of + or - 10 ms"
\* (TICK_INTERVAL), besides the turns the other slots have when it ends.
\* k interrupts since the call mean that between k-1 and k intervals passed.
WithinTick(s, turns) ==
  /\ (s.ticks - 1) * TICK_INTERVAL < s.asked + (1 + turns) * TICK_INTERVAL
  /\ s.ticks * TICK_INTERVAL > s.asked - TICK_INTERVAL

\* Every sleep is as accurate as the README says.
SleepWithinTick ==
  \A j \in Jobs : BackFromSleep(j) => WithinTick(nap[j], MAX_TASKS - 1)

\* Every sleep is, if no interrupt fell inside the call: however the slots
\* change hands, the job is served within one turn of each of the others.
UncutSleepWithinTick ==
  \A j \in Jobs : BackFromSleep(j) /\ nap[j].cut = {} =>
    WithinTick(nap[j], MAX_TASKS - 1)

=============================================================================
