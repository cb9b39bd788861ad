---------------------------- MODULE SystemProofs ----------------------------
(* The kernel's safety, for any number of slots, jobs and bytes: when calls  *)
(* of schedule_task() do not overlap, Inv is an invariant of Spec, and with  *)
(* it TypeOK, ContextIntegrity and AcceptedHosted.                           *)
EXTENDS SystemInvariant, TLAPS

-----------------------------------------------------------------------------
(* Facts about the operators.                                               *)

\* The place Idle is none of the slots.
LEMMA Place == Idle \in Places /\ Slots \subseteq Places /\ Idle \notin Slots
               /\ \A p \in Places : p \in Slots \/ p = Idle
BY KernelAssumption DEF Idle, Places, Slots

\* chooseNextTask() returns -1 or a slot whose task runs.
LEMMA Chosen ==
  ASSUME TypeOK, NEW sleep, NEW next, ChooseNextTask(sleep, next)
  PROVE  next \in Places /\ Resumable(next)
<1> DEFINE nth(k) == (current_task + k) % task_count
<1>1. CASE next = Idle
  BY <1>1, Place DEF Resumable
<1>2. ASSUME NEW k \in 1 .. task_count, next = nth(k), Runnable(running, sleep, next)
      PROVE  next \in Places /\ Resumable(next)
  <2>1. task_count \in 0 .. MAX_TASKS /\ current_task \in Int /\ MAX_TASKS \in Nat
    BY KernelAssumption DEF TypeOK, Places, Slots, Idle
  <2>2. k \in Int /\ task_count \in Int /\ task_count > 0
    BY <2>1
  <2>3. nth(k) \in 0 .. task_count - 1
    <3> HIDE DEF nth
    <3>1. \A a, b \in Int : b > 0 => a % b \in 0 .. b - 1
      OBVIOUS
    <3>2. current_task + k \in Int
      BY <2>1, <2>2
    <3> QED
      BY <2>2, <3>1, <3>2 DEF nth
  <2>4. next \in Slots
    BY <1>2, <2>1, <2>3 DEF Slots
  <2> QED
    BY <1>2, <2>4, Place DEF Runnable, Resumable
<1> QED
  BY <1>1, <1>2 DEF ChooseNextTask

\* The bytes of an int, and the int of two bytes, are integers.
LEMMA Bytes == \A v, w \in Int : Word(Hi(v), Lo(w)) \in Int
<1> SUFFICES ASSUME NEW v \in Int, NEW w \in Int PROVE Word(Hi(v), Lo(w)) \in Int
  OBVIOUS
<1>1. BYTE \in Int /\ BYTE > 0
  BY KernelAssumption
<1>2. Hi(v) \in Int /\ Lo(w) \in Int
  BY <1>1 DEF Hi, Lo
<1> DEFINE x == Hi(v) * BYTE + Lo(w)
<1>3. x \in Int /\ x - BYTE * BYTE \in Int
  BY <1>1, <1>2
<1>4. Word(Hi(v), Lo(w)) = IF 2 * x < BYTE * BYTE THEN x ELSE x - BYTE * BYTE
  BY DEF Word
<1> QED
  <2> HIDE DEF x
  <2> QED BY <1>3, <1>4, Zenon

\* What a context is made of.
LEMMA ContextFields ==
  \A x \in Context : /\ x.job \in Jobs \cup {Main, NoJob} /\ x.pc \in PC
                     /\ x.arg \in Jobs \cup {NoJob} /\ x.n \in Int
                     /\ \A pc \in PC : [x EXCEPT !.pc = pc] \in Context
                     /\ \A n \in Int : [x EXCEPT !.n = n] \in Context
BY DEF Context

LEMMA ContextUpdate ==
  \A x \in Context, pc \in PC, n \in Int : [x EXCEPT !.pc = pc, !.n = n] \in Context
BY DEF Context

LEMMA Frames ==
  /\ Popped \in Context /\ Garbage \in Context
  /\ \A j \in Jobs \cup {Main, NoJob}, pc \in PC : At(j, pc) \in Context
BY DEF Popped, Garbage, At, Context, PC

-----------------------------------------------------------------------------
(* The switch: every resumable context, and the one left behind, is where it *)
(* was, and the frame restored is the frame saved.                           *)

LEMMA SwitchCtx ==
  ASSUME TypeOK, SavedFrames, cpu.job # NoJob,
         NEW next \in Places, Resumable(next), NEW pc \in PC, SwitchTo(next, pc)
  PROVE  /\ current_task' = next
         /\ \A p \in Places :
              Ctx(p)' = IF p = current_task THEN [cpu EXCEPT !.pc = pc] ELSE Ctx(p)
         /\ \A p \in Places \ {next} : Resumable(p) =>
              sp'[p] = stack'[p].job /\ sp'[p] # NoJob
         /\ sp' \in [Places -> Jobs \cup {Main, NoJob}]
         /\ stack' \in [Places -> Context] /\ cpu' \in Context
<1> DEFINE saved  == [cpu EXCEPT !.pc = pc]
           frames == [stack EXCEPT ![current_task] = saved]
           tops   == [sp EXCEPT ![current_task] = cpu.job]
<1>1. /\ sp' = tops
      /\ stack' = [frames EXCEPT ![next] = Popped]
      /\ cpu' = IF tops[next] # NoJob /\ frames[next].job = tops[next]
                THEN frames[next] ELSE Garbage
      /\ current_task' = next
  BY DEF SwitchTo
<1>2. saved \in Context /\ saved.job = cpu.job /\ current_task \in Places
  BY ContextFields DEF TypeOK, Context
<1>3. frames \in [Places -> Context] /\ tops \in [Places -> Jobs \cup {Main, NoJob}]
  BY <1>2, ContextFields DEF TypeOK
<1>4. \A p \in Places : /\ frames[p] = IF p = current_task THEN saved ELSE stack[p]
                        /\ tops[p] = IF p = current_task THEN cpu.job ELSE sp[p]
  BY <1>2 DEF TypeOK
<1>5. \A p \in Places : Resumable(p) => tops[p] # NoJob /\ frames[p].job = tops[p]
  BY <1>2, <1>4 DEF SavedFrames
<1> HIDE DEF saved, frames, tops
<1>6. cpu' = frames[next]
  BY <1>1, <1>5
<1>7. \A p \in Places : stack'[p] = IF p = next THEN Popped ELSE frames[p]
  BY <1>1, <1>3
<1>8. \A p \in Places : Ctx(p)' = IF p = current_task THEN saved ELSE Ctx(p)
  <2> TAKE p \in Places
  <2>1. Ctx(p)' = frames[p]
    BY <1>1, <1>6, <1>7 DEF Ctx
  <2> QED
    BY <1>4, <2>1 DEF Ctx
<1>9. stack' \in [Places -> Context] /\ cpu' \in Context
  BY <1>1, <1>3, <1>6, Frames
<1>10. \A p \in Places \ {next} : Resumable(p) => sp'[p] = stack'[p].job /\ sp'[p] # NoJob
  BY <1>1, <1>5, <1>7
<1> QED
  BY <1>1, <1>3, <1>8, <1>9, <1>10 DEF saved

-----------------------------------------------------------------------------
(* Steps of the executing code that leave every frame where it is.           *)

LEMMA CpuStep ==
  ASSUME Inv, TypeOK',
         UNCHANGED <<current_task, running, sp, stack>>,
         task_count' >= task_count,
         \A j \in Jobs : phase'[j] = "live" <=> phase[j] = "live",
         cpu.pc # "leave", cpu'.job = cpu.job,
         current_task = Idle => cpu'.pc \in MainPC,
         current_task \in Slots => cpu'.pc \in JobPC,
         cpu'.pc \in InSchedule => Scheduling(cpu)',
         \/ cpu.pc \in InSchedule
         \/ ~InProgress
         \/ cpu'.pc \notin InSchedule /\ UNCHANGED <<task_count, phase>>
  PROVE  Inv'
<1> USE DEF Inv
<1>1. current_task \in Places
  BY DEF TypeOK
<1>2. \A p : Ctx(p)' = IF p = current_task THEN cpu' ELSE Ctx(p)
  BY DEF Ctx
<1>3. \A p : Resumable(p)' <=> Resumable(p)
  BY DEF Resumable
<1>4. \A p : Ctx(p)'.job = Ctx(p).job
  BY <1>2 DEF Ctx
<1>5. SavedFrames'
  BY <1>3 DEF SavedFrames
<1>6. MainAtIdle'
  BY <1>2, <1>4 DEF MainAtIdle
<1>7. JobsInSlots'
  BY <1>2, <1>4 DEF JobsInSlots
<1>8. Leaving'
  BY DEF Leaving
<1>9. OneSlotPerJob'
  BY <1>4 DEF OneSlotPerJob
<1>10. LiveJobsHosted'
  BY <1>4 DEF LiveJobsHosted
<1>11. CountCoversRunning'
  <2> SUFFICES ASSUME NEW n \in Slots, running[n] PROVE n < task_count'
    BY DEF CountCoversRunning
  <2>1. n < task_count /\ n \in Int /\ task_count \in Int /\ task_count' \in Int
    BY KernelAssumption DEF CountCoversRunning, TypeOK, Slots
  <2> QED
    BY <2>1
<1>12. Calls'
  <2>1. CASE cpu.pc \in InSchedule \/ ~InProgress
    <3>1. \A p \in Places \ {current_task} : Ctx(p).pc \notin InSchedule
      BY <2>1, <1>1 DEF Calls, InProgress, Ctx
    <3>2. \A p \in Places : Ctx(p)'.pc \in InSchedule => p = current_task
      BY <1>2, <3>1
    <3>3. cpu'.pc \in InSchedule => Resumable(current_task)
      BY <1>1, Place DEF Resumable, Leaving
    <3> QED
      BY <1>2, <1>3, <3>2, <3>3 DEF Calls
  <2>2. CASE cpu'.pc \notin InSchedule /\ UNCHANGED <<task_count, phase>>
    <3>1. \A p \in Places : Ctx(p)'.pc \in InSchedule =>
             p # current_task /\ Ctx(p)' = Ctx(p)
      BY <1>2, <2>2
    <3>2. \A p \in Places : Ctx(p)'.pc \in InSchedule =>
             Resumable(p)' /\ Scheduling(Ctx(p))'
      <4> TAKE p \in Places
      <4> HAVE Ctx(p)'.pc \in InSchedule
      <4>1. p # current_task /\ Ctx(p)' = Ctx(p)
        BY <3>1
      <4>2. Resumable(p) /\ Scheduling(Ctx(p))
        BY <4>1 DEF Calls
      <4>3. Scheduling(Ctx(p))'
        BY <4>1, <4>2, <2>2 DEF Scheduling, At
      <4> QED
        BY <1>3, <4>2, <4>3
    <3> QED
      BY <3>1, <3>2 DEF Calls
  <2> QED
    BY <2>1, <2>2
<1> QED
  BY <1>5, <1>6, <1>7, <1>8, <1>9, <1>10, <1>11, <1>12

\* What Inv says of the context that executes.
LEMMA Executing ==
  ASSUME Inv
  PROVE  /\ current_task \in Places /\ cpu \in Context
         /\ cpu.job \in Jobs \cup {Main} /\ cpu.job # NoJob
         /\ current_task = Idle => cpu.job = Main /\ cpu.pc \in MainPC
         /\ current_task \in Slots => cpu.job \in Jobs
         /\ current_task \in Slots /\ cpu.pc # "leave" =>
              running[current_task] /\ cpu.pc \in JobPC /\ phase[cpu.job] = "live"
         /\ cpu.pc \in InSchedule => Resumable(current_task) /\ Scheduling(cpu)
BY Place, KernelAssumption
DEF Inv, TypeOK, Ctx, MainAtIdle, JobsInSlots, Leaving, Calls, Resumable

LEMMA RunInv == Inv /\ Run => Inv'
<1> SUFFICES ASSUME Inv, Run PROVE Inv'
  OBVIOUS
<1>1. current_task = Idle /\ cpu.pc = "main"
  BY Executing, Place DEF Run, JobPC, InSleep, InSchedule
<1>2. TypeOK'
  BY ContextFields DEF Inv, TypeOK, Run, Goto, table, PC
<1>3. cpu'.pc = "idle" /\ cpu'.job = cpu.job
  BY Executing DEF Run, Goto, Context
<1>4. task_count' >= task_count
  BY KernelAssumption DEF Run, table, Inv, TypeOK
<1> QED
  BY <1>1, <1>2, <1>3, <1>4, Place, CpuStep DEF Run, table, MainPC, InSchedule

LEMMA ScheduleCallInv == Overlap = FALSE /\ Inv /\ (\E y \in Jobs : ScheduleCall(y)) => Inv'
<1> SUFFICES ASSUME Overlap = FALSE, Inv, NEW y \in Jobs, ScheduleCall(y) PROVE Inv'
  OBVIOUS
<1>1. cpu' = [cpu EXCEPT !.pc = "test", !.arg = y]
  BY DEF ScheduleCall
<1>2. cpu'.pc = "test" /\ cpu'.job = cpu.job /\ cpu'.arg = y /\ cpu' \in Context
  BY <1>1, Executing DEF Context, PC, InSchedule
<1>3. phase' = [phase EXCEPT ![y] = "submitted"] /\ phase[y] = "new"
  BY DEF ScheduleCall
<1>4. TypeOK'
  BY <1>2, <1>3 DEF Inv, TypeOK, ScheduleCall, table
<1>5. \A j \in Jobs : phase'[j] = "live" <=> phase[j] = "live"
  BY <1>3 DEF Inv, TypeOK
<1>6. Scheduling(cpu)'
  BY <1>2, <1>3 DEF Scheduling, Inv, TypeOK
<1>7. task_count' >= task_count
  BY KernelAssumption DEF ScheduleCall, table, Inv, TypeOK
<1>8. cpu.pc # "leave"
  BY DEF ScheduleCall, Caller
<1> QED
  BY <1>2, <1>4, <1>5, <1>6, <1>7, <1>8, CpuStep
  DEF ScheduleCall, table, MainPC, JobPC, InSchedule

LEMMA ScheduleTestInv == Inv /\ ScheduleTest => Inv'
<1> SUFFICES ASSUME Inv, ScheduleTest PROVE Inv'
  OBVIOUS
<1>1. cpu.pc \in InSchedule /\ Scheduling(cpu)
  BY Executing DEF ScheduleTest, InSchedule
<1>2. UNCHANGED <<task_count, running, current_task, sp, stack, phase, sleep_time, timerOn>>
  BY DEF ScheduleTest, table
<1>3. task_count \in 0 .. MAX_TASKS /\ MAX_TASKS \in Nat \ {0}
  BY KernelAssumption DEF Inv, TypeOK
<1>4. \/ /\ task_count = MAX_TASKS
         /\ cpu'.pc = "scan" /\ cpu'.n = 0
      \/ /\ task_count < MAX_TASKS
         /\ cpu'.pc = "count" /\ cpu'.n = task_count
  BY <1>3, Executing DEF ScheduleTest, Context
<1>5. cpu'.job = cpu.job /\ cpu'.arg = cpu.arg /\ cpu' \in Context
  <2>1. cpu'.job = cpu.job /\ cpu'.arg = cpu.arg
    BY Executing DEF ScheduleTest, Context
  <2>2. \E pc \in PC, n \in Int : cpu' = [cpu EXCEPT !.pc = pc, !.n = n]
    <3>1. 0 \in Int /\ task_count \in Int /\ "scan" \in PC /\ "count" \in PC
      BY <1>3 DEF PC, InSchedule
    <3> QED
      BY <3>1, Zenon DEF ScheduleTest
  <2>3. PICK pc \in PC, n \in Int : cpu' = [cpu EXCEPT !.pc = pc, !.n = n]
    BY <2>2, Zenon
  <2>4. cpu' \in Context
    BY <2>3, Executing, ContextUpdate
  <2> QED
    BY <2>1, <2>4
<1>6. TypeOK'
  BY <1>2, <1>5 DEF Inv, TypeOK
<1>7. Scheduling(cpu)'
  BY <1>1, <1>2, <1>3, <1>4, <1>5 DEF Scheduling, Slots
<1>8. task_count' >= task_count
  BY <1>2, <1>3
<1> QED
  BY <1>1, <1>2, <1>4, <1>5, <1>6, <1>7, <1>8, CpuStep
  DEF MainPC, JobPC, InSchedule

LEMMA ScheduleScanInv == Inv /\ ScheduleScan => Inv'
<1> SUFFICES ASSUME Inv, ScheduleScan PROVE Inv'
  OBVIOUS
<1>1. /\ cpu.pc = "scan" /\ cpu.pc \in InSchedule /\ Scheduling(cpu)
      /\ cpu.n \in Slots /\ task_count = MAX_TASKS
  BY Executing DEF ScheduleScan, InSchedule, Scheduling
<1>2. UNCHANGED <<task_count, running, current_task, sp, stack, sleep_time, timerOn>>
  BY DEF ScheduleScan, table
<1>3. task_count' >= task_count /\ MAX_TASKS \in Nat /\ cpu.n \in Int
  BY <1>1, <1>2, KernelAssumption DEF Slots
<1>4. CASE ~running[cpu.n] /\ Goto("stack") /\ UNCHANGED phase
  <2>1. cpu'.pc = "stack" /\ cpu'.job = cpu.job /\ cpu'.arg = cpu.arg /\ cpu'.n = cpu.n
    BY <1>4, Executing DEF Goto, Context
  <2>2. TypeOK'
    BY <1>2, <1>4, ContextFields DEF Inv, TypeOK, Goto, PC, InSchedule
  <2>3. cpu.n # current_task
    BY <1>1, <1>4, Executing, Place DEF Resumable
  <2>4. Scheduling(cpu)'
    BY <1>1, <1>2, <1>3, <1>4, <2>1, <2>3 DEF Scheduling, Slots
  <2> QED
    BY <1>1, <1>2, <1>3, <1>4, <2>1, <2>2, <2>4, CpuStep DEF MainPC, JobPC, InSchedule
<1>5. CASE cpu.n + 1 < MAX_TASKS /\ cpu' = [cpu EXCEPT !.n = @ + 1] /\ UNCHANGED phase
  <2>1. cpu'.pc = "scan" /\ cpu'.job = cpu.job /\ cpu'.arg = cpu.arg /\ cpu'.n = cpu.n + 1
    BY <1>1, <1>5, Executing DEF Context
  <2>2. TypeOK'
    <3>1. cpu' = [cpu EXCEPT !.n = cpu.n + 1] /\ cpu.n + 1 \in Int
      BY <1>3, <1>5
    <3>2. cpu' \in Context
      BY <3>1, Executing, ContextFields
    <3> QED
      BY <1>2, <1>5, <3>2 DEF Inv, TypeOK
  <2>3. Scheduling(cpu)'
    BY <1>1, <1>2, <1>3, <1>5, <2>1 DEF Scheduling, Slots
  <2> QED
    BY <1>1, <1>2, <1>3, <1>5, <2>1, <2>2, <2>3, CpuStep DEF MainPC, JobPC, InSchedule
<1>6. CASE phase' = [phase EXCEPT ![cpu.arg] = "refused"] /\ Return
  <2>1. cpu' = At(cpu.job, Caller(cpu.job)) /\ cpu'.job = cpu.job
        /\ cpu'.pc = Caller(cpu.job)
    BY <1>6 DEF Return, At
  <2>2. TypeOK'
    BY <1>2, <1>6, <2>1, Executing, Frames DEF Inv, TypeOK, Caller, PC
  <2>3. \A j \in Jobs : phase'[j] = "live" <=> phase[j] = "live"
    BY <1>1, <1>6 DEF Scheduling, Inv, TypeOK
  <2>4. /\ current_task = Idle => cpu'.pc = "main"
        /\ current_task \in Slots => cpu'.pc = "run"
        /\ cpu'.pc \notin InSchedule
    BY <2>1, Executing, KernelAssumption DEF Caller, InSchedule
  <2> QED
    BY <1>1, <1>2, <1>3, <2>1, <2>2, <2>3, <2>4, CpuStep DEF MainPC, JobPC
<1> QED
  BY <1>4, <1>5, <1>6 DEF ScheduleScan

LEMMA ScheduleCountInv == Inv /\ ScheduleCount => Inv'
<1> SUFFICES ASSUME Inv, ScheduleCount PROVE Inv'
  OBVIOUS
<1>1. /\ cpu.pc = "count" /\ cpu.pc \in InSchedule /\ Scheduling(cpu)
      /\ cpu.n = task_count /\ cpu.n < MAX_TASKS
  BY Executing DEF ScheduleCount, InSchedule, Scheduling
<1>2. UNCHANGED <<running, current_task, sp, stack, sleep_time, timerOn, phase>>
  BY DEF ScheduleCount
<1>3. task_count \in 0 .. MAX_TASKS /\ MAX_TASKS \in Nat /\ task_count' = task_count + 1
  BY <1>1, KernelAssumption DEF ScheduleCount, Inv, TypeOK
<1>4. cpu'.pc = "stack" /\ cpu'.job = cpu.job /\ cpu'.arg = cpu.arg /\ cpu'.n = cpu.n
  BY Executing DEF ScheduleCount, Goto, Context
<1>5. cpu' \in Context /\ task_count' \in 0 .. MAX_TASKS
  BY <1>1, <1>3, Executing, ContextFields DEF ScheduleCount, Goto, PC, InSchedule
<1>6. TypeOK'
  BY <1>2, <1>5 DEF Inv, TypeOK
<1>7. cpu.n \in Slots /\ ~running[cpu.n] /\ cpu.n < task_count'
  BY <1>1, <1>3 DEF Inv, CountCoversRunning, Slots
<1>8. cpu.n # current_task
  BY <1>1, <1>7, Executing, Place DEF Resumable
<1>9. Scheduling(cpu)'
  BY <1>1, <1>2, <1>4, <1>7, <1>8 DEF Scheduling
<1> QED
  BY <1>1, <1>2, <1>3, <1>4, <1>6, <1>9, CpuStep DEF MainPC, JobPC, InSchedule

LEMMA Store ==
  ASSUME sleep_time \in [Slots -> Int], current_task \in Slots, NEW v \in Int,
         StoreHi(v) \/ StoreLo(v)
  PROVE  sleep_time' \in [Slots -> Int]
<1> DEFINE old == sleep_time[current_task]
<1>1. old \in Int
  OBVIOUS
<1>2. \/ sleep_time' = [sleep_time EXCEPT ![current_task] = Word(Hi(v), Lo(old))]
      \/ sleep_time' = [sleep_time EXCEPT ![current_task] = Word(Hi(old), Lo(v))]
  BY DEF StoreHi, StoreLo
<1>3. Word(Hi(v), Lo(old)) \in Int /\ Word(Hi(old), Lo(v)) \in Int
  BY <1>1, Bytes
<1> QED
  BY <1>2, <1>3

LEMMA SleepCallInv == Inv /\ (\E t \in SleepTimes : SleepCall(t)) => Inv'
<1> SUFFICES ASSUME Inv, NEW t \in SleepTimes, SleepCall(t) PROVE Inv'
  OBVIOUS
<1>1. cpu.pc = "run" /\ t \in Int
  BY KernelAssumption DEF SleepCall
<1>2. current_task \in Slots
  BY <1>1, Executing, Place DEF MainPC, InSchedule
<1>3. UNCHANGED <<task_count, current_task, running, sp, stack, timerOn, phase>>
  BY DEF SleepCall
<1>4. \E pc \in {"low", "high"} : cpu' = [cpu EXCEPT !.pc = pc, !.n = t]
  BY DEF SleepCall
<1>5. cpu' \in Context /\ cpu'.pc \in {"low", "high"} /\ cpu'.job = cpu.job
  <2>1. PICK pc \in {"low", "high"} : cpu' = [cpu EXCEPT !.pc = pc, !.n = t]
    BY <1>4
  <2>2. pc \in PC
    BY DEF PC, InSleep
  <2> QED
    BY <1>1, <2>1, <2>2, Executing, ContextUpdate DEF Context
<1>6. sleep_time' \in [Slots -> Int]
  BY <1>1, <1>2, Store DEF SleepCall, Inv, TypeOK
<1>7. TypeOK'
  BY <1>3, <1>5, <1>6 DEF Inv, TypeOK
<1>8. task_count' >= task_count
  BY <1>3, KernelAssumption DEF Inv, TypeOK
<1>9. cpu'.pc \notin InSchedule /\ cpu'.pc \in JobPC /\ current_task # Idle
  BY <1>2, <1>5, Place DEF InSchedule, JobPC, InSleep
<1> QED
  BY <1>1, <1>3, <1>5, <1>7, <1>8, <1>9, CpuStep

LEMMA SleepStoreInv == Inv /\ SleepStore => Inv'
<1> SUFFICES ASSUME Inv, SleepStore PROVE Inv'
  OBVIOUS
<1>1. cpu.pc \in {"low", "high"} /\ cpu.n \in Int
  BY Executing, ContextFields DEF SleepStore
<1>2. current_task \in Slots
  BY <1>1, Executing, Place DEF MainPC, InSchedule
<1>3. UNCHANGED <<task_count, current_task, running, sp, stack, timerOn, phase>>
  BY DEF SleepStore
<1>4. cpu' = At(cpu.job, "switch") /\ cpu'.pc = "switch" /\ cpu'.job = cpu.job
  BY DEF SleepStore, At
<1>5. sleep_time' \in [Slots -> Int]
  BY <1>1, <1>2, Store DEF SleepStore, Inv, TypeOK
<1>6. cpu' \in Context
  BY <1>4, Executing, Frames DEF PC
<1>7. TypeOK'
  BY <1>3, <1>5, <1>6 DEF Inv, TypeOK
<1>8. task_count' >= task_count
  BY <1>3, KernelAssumption DEF Inv, TypeOK
<1>9. cpu'.pc \notin InSchedule /\ cpu'.pc \in JobPC /\ current_task # Idle
  BY <1>2, <1>4, Place DEF InSchedule, JobPC
<1> QED
  BY <1>1, <1>3, <1>4, <1>7, <1>8, <1>9, CpuStep

-----------------------------------------------------------------------------
(* Steps that write a frame, a slot or a job's fate.                         *)

\* The frame is written into the free slot that was chosen: nobody's.
LEMMA ScheduleStackInv == Inv /\ ScheduleStack => Inv'
<1> SUFFICES ASSUME Inv, ScheduleStack PROVE Inv'
  OBVIOUS
<1> USE DEF Inv
<1> DEFINE n == cpu.n
           fresh == At(cpu.arg, "run")
<1>1. /\ cpu.pc = "stack" /\ cpu.pc \in InSchedule /\ Scheduling(cpu)
      /\ n \in Slots /\ n \in Places /\ ~running[n] /\ n # current_task /\ n # Idle
      /\ cpu.arg \in Jobs
  BY Executing, Place DEF ScheduleStack, InSchedule, Scheduling
<1>2. /\ UNCHANGED <<task_count, running, sleep_time, current_task, sp, timerOn, phase>>
      /\ stack' = [stack EXCEPT ![n] = fresh]
  BY DEF ScheduleStack, table
<1>3. cpu'.pc = "publish" /\ cpu'.job = cpu.job /\ cpu'.arg = cpu.arg /\ cpu'.n = n
      /\ cpu' \in Context
  BY Executing, ContextFields DEF ScheduleStack, Goto, Context, PC, InSchedule
<1>4. fresh \in Context /\ fresh.pc = "run"
  BY <1>1, Frames DEF At, PC
<1>5. TypeOK'
  BY <1>2, <1>3, <1>4 DEF TypeOK
<1>6. \A p \in Places : stack'[p] = IF p = n THEN fresh ELSE stack[p]
  BY <1>2 DEF TypeOK
<1>7. \A p \in Places : Ctx(p)' = IF p = current_task THEN cpu'
                                  ELSE IF p = n THEN fresh ELSE Ctx(p)
  BY <1>2, <1>6 DEF Ctx
<1>8. \A p \in Places : Resumable(p)' <=> Resumable(p)
  BY <1>2 DEF Resumable
<1>9. \A p \in Places : Resumable(p) => p # n
  BY <1>1 DEF Resumable
<1>10. \A p \in Places : Resumable(p) => Ctx(p)'.job = Ctx(p).job
  BY <1>3, <1>7, <1>9 DEF Ctx
<1>11. SavedFrames'
  BY <1>2, <1>6, <1>8, <1>9 DEF SavedFrames
<1>12. MainAtIdle'
  BY <1>3, <1>7, <1>10, <1>9, Place DEF MainAtIdle, Resumable, MainPC, InSchedule
<1>13. \A m \in Slots : running[m] => Ctx(m)'.job = Ctx(m).job /\ Ctx(m)'.pc \in JobPC
  <2> TAKE m \in Slots
  <2> HAVE running[m]
  <2>1. m \in Places /\ Resumable(m) /\ m # n
    BY <1>9, Place DEF Resumable
  <2>2. Ctx(m)' = IF m = current_task THEN cpu' ELSE Ctx(m)
    BY <1>7, <2>1
  <2> QED
    BY <1>3, <1>10, <2>1, <2>2 DEF JobsInSlots, JobPC, InSchedule
<1>14. JobsInSlots' /\ OneSlotPerJob' /\ LiveJobsHosted'
  BY <1>2, <1>13 DEF JobsInSlots, OneSlotPerJob, LiveJobsHosted
<1>15. Leaving' /\ CountCoversRunning'
  BY <1>1, <1>2, Executing, Place DEF Leaving, CountCoversRunning, Resumable
<1>16. Calls'
  <2>1. \A p \in Places : Ctx(p)'.pc \in InSchedule => p = current_task
    <3>1. \A p \in Places : Ctx(p).pc \in InSchedule => p = current_task
      BY <1>1, Executing DEF Calls, Ctx
    <3>2. fresh.pc \notin InSchedule
      BY <1>4 DEF InSchedule
    <3> HIDE DEF fresh
    <3> QED
      BY <1>7, <3>1, <3>2
  <2>2. Ctx(current_task)' = cpu' /\ current_task \in Places
    BY <1>2, Executing DEF Ctx
  <2>3. Scheduling(cpu)'
    BY <1>1, <1>2, <1>3, <1>6 DEF Scheduling
  <2> QED
    BY <1>1, <1>2, <1>8, <2>1, <2>2, <2>3, Executing DEF Calls, Ctx
<1> QED
  BY <1>5, <1>11, <1>12, <1>14, <1>15, <1>16

\* The critical section: the free slot becomes the new job's.
LEMMA SchedulePublishInv == Inv /\ SchedulePublish => Inv'
<1> SUFFICES ASSUME Inv, SchedulePublish PROVE Inv'
  OBVIOUS
<1> USE DEF Inv
<1>0. PICK n, y : n = cpu.n /\ y = cpu.arg
  OBVIOUS
<1>1. /\ cpu.pc = "publish" /\ cpu.pc \in InSchedule /\ Scheduling(cpu)
      /\ n \in Slots /\ n \in Places /\ ~running[n] /\ n # current_task /\ n # Idle
      /\ n < task_count /\ y \in Jobs /\ phase[y] = "submitted"
      /\ stack[n] = At(y, "run")
  BY <1>0, Executing, Place DEF SchedulePublish, InSchedule, Scheduling
<1>2. /\ UNCHANGED <<task_count, current_task, stack, timerOn>>
      /\ sp' = [sp EXCEPT ![n] = y]
      /\ sleep_time' = [sleep_time EXCEPT ![n] = -1]
      /\ running' = [running EXCEPT ![n] = TRUE]
      /\ phase' = [phase EXCEPT ![y] = "live"]
      /\ cpu' = At(cpu.job, Caller(cpu.job))
  BY <1>0 DEF SchedulePublish, Return
<1>3. cpu'.job = cpu.job /\ cpu'.pc = Caller(cpu.job) /\ cpu' \in Context
  BY <1>2, Executing, Frames DEF At, Caller, PC
<1>4. /\ current_task = Idle => cpu'.pc = "main"
      /\ current_task \in Slots => cpu'.pc = "run"
      /\ cpu'.pc \notin InSchedule
  BY <1>3, Executing, KernelAssumption DEF Caller, InSchedule
<1>5. TypeOK'
  BY <1>1, <1>2, <1>3 DEF TypeOK
<1>6. \A p \in Places : Ctx(p)' = IF p = current_task THEN cpu' ELSE Ctx(p)
  BY <1>2 DEF Ctx
<1>7. \A p \in Places : Ctx(p)'.job = Ctx(p).job
  BY <1>3, <1>6 DEF Ctx
<1>8. \A m \in Slots : running'[m] <=> m = n \/ running[m]
  BY <1>1, <1>2 DEF TypeOK
<1>9. Ctx(n) = At(y, "run") /\ Ctx(n).job = y /\ Ctx(n).pc = "run" /\ Ctx(n)' = Ctx(n)
  BY <1>1, <1>6 DEF Ctx, At
<1>10. \A j \in Jobs : phase'[j] = "live" <=> j = y \/ phase[j] = "live"
  BY <1>1, <1>2 DEF TypeOK
<1>11. y # NoJob
  BY <1>1, KernelAssumption
<1>12. SavedFrames'
  <2> SUFFICES ASSUME NEW p \in Places, p # current_task, Resumable(p)'
               PROVE  sp'[p] = stack[p].job /\ sp'[p] # NoJob
    BY <1>2 DEF SavedFrames
  <2>1. CASE p = n
    BY <2>1, <1>1, <1>2, <1>9, <1>11 DEF Ctx, TypeOK
  <2>2. CASE p # n
    BY <2>2, <1>2, <1>8, Place DEF SavedFrames, Resumable, TypeOK
  <2> QED
    BY <2>1, <2>2
<1>13. MainAtIdle'
  BY <1>4, <1>6, <1>7, Place DEF MainAtIdle, MainPC
<1>14. JobsInSlots'
  <2> SUFFICES ASSUME NEW m \in Slots, running'[m]
               PROVE  Ctx(m)'.job \in Jobs /\ Ctx(m)'.pc \in JobPC /\ phase'[Ctx(m)'.job] = "live"
    BY DEF JobsInSlots
  <2>1. CASE m = n
    BY <2>1, <1>1, <1>9, <1>10 DEF JobPC
  <2>2. CASE m # n
    <3>1. running[m] /\ m \in Places
      BY <2>2, <1>8, Place
    <3>2. Ctx(m).job \in Jobs /\ Ctx(m).pc \in JobPC /\ phase[Ctx(m).job] = "live"
      BY <3>1 DEF JobsInSlots
    <3>3. Ctx(m)'.pc \in JobPC
      BY <1>4, <1>6, <3>1, <3>2 DEF JobPC
    <3> QED
      BY <1>7, <1>10, <3>1, <3>2, <3>3
  <2> QED
    BY <2>1, <2>2
<1>15. Leaving' /\ CountCoversRunning'
  BY <1>1, <1>2, <1>8, Executing, Place DEF Leaving, CountCoversRunning, Resumable
<1>16. OneSlotPerJob'
  <2>1. \A m \in Slots : running[m] => Ctx(m).job # y
    BY <1>1 DEF JobsInSlots
  <2> QED
    BY <1>7, <1>8, <1>9, <2>1, Place DEF OneSlotPerJob
<1>17. LiveJobsHosted'
  BY <1>1, <1>7, <1>8, <1>9, <1>10, Place DEF LiveJobsHosted
<1>18. Calls'
  <2>1. \A p \in Places : Ctx(p).pc \in InSchedule => p = current_task
    BY <1>1, Executing DEF Calls, Ctx
  <2>2. \A p \in Places : Ctx(p)'.pc \notin InSchedule
    BY <1>4, <1>6, <2>1
  <2> QED
    BY <2>2 DEF Calls
<1> QED
  BY <1>5, <1>12, <1>13, <1>14, <1>15, <1>16, <1>17, <1>18

\* The job gives its slot up, and executes on until its last switch.
LEMMA ExitTaskInv == Inv /\ ExitTask => Inv'
<1> SUFFICES ASSUME Inv, ExitTask PROVE Inv'
  OBVIOUS
<1> USE DEF Inv
<1> DEFINE n == current_task
           j == cpu.job
<1>1. cpu.pc = "run"
  BY DEF ExitTask
<1>2. n \in Slots /\ n \in Places /\ n # Idle /\ j \in Jobs /\ running[n] /\ phase[j] = "live"
  BY <1>1, Executing, Place DEF MainPC, InSchedule
<1>3. /\ UNCHANGED <<task_count, current_task, sleep_time, sp, stack, timerOn>>
      /\ running' = [running EXCEPT ![n] = FALSE]
      /\ phase' = [phase EXCEPT ![j] = "done"]
      /\ cpu' = [cpu EXCEPT !.pc = "leave"]
  BY DEF ExitTask, Goto
<1>4. cpu'.pc = "leave" /\ cpu'.job = j /\ cpu' \in Context
  BY <1>3, Executing, ContextFields DEF Context, PC
<1>5. TypeOK'
  BY <1>2, <1>3, <1>4 DEF TypeOK
<1>6. \A p \in Places : p # n => Ctx(p)' = Ctx(p)
  BY <1>3 DEF Ctx
<1>7. \A m \in Slots : running'[m] <=> m # n /\ running[m]
  BY <1>2, <1>3 DEF TypeOK
<1>8. \A k \in Jobs : phase'[k] = "live" <=> k # j /\ phase[k] = "live"
  BY <1>2, <1>3 DEF TypeOK
<1>9. \A m \in Slots : running[m] /\ m # n => Ctx(m).job # j
  BY <1>2 DEF OneSlotPerJob, Ctx
<1>10. SavedFrames' /\ CountCoversRunning'
  BY <1>3, <1>7, Place DEF SavedFrames, CountCoversRunning, Resumable
<1>11. MainAtIdle'
  BY <1>2, <1>6, Place DEF MainAtIdle
<1>12. JobsInSlots' /\ OneSlotPerJob'
  BY <1>6, <1>7, <1>8, <1>9, Place DEF JobsInSlots, OneSlotPerJob
<1>13. Leaving'
  BY <1>2, <1>3, <1>4 DEF Leaving, TypeOK
<1>14. LiveJobsHosted'
  <2> SUFFICES ASSUME NEW k \in Jobs, phase'[k] = "live"
               PROVE  \E m \in Slots : running'[m] /\ Ctx(m)'.job = k
    BY DEF LiveJobsHosted
  <2>1. k # j /\ phase[k] = "live"
    BY <1>8
  <2>2. PICK m \in Slots : running[m] /\ Ctx(m).job = k
    BY <2>1 DEF LiveJobsHosted
  <2>3. m # n
    BY <2>1, <2>2 DEF Ctx
  <2> QED
    BY <1>6, <1>7, <2>2, <2>3, Place
<1>15. Calls'
  <2>1. \A p \in Places : Ctx(p)'.pc \in InSchedule => p # n /\ Ctx(p)' = Ctx(p)
    BY <1>3, <1>4, <1>6 DEF Ctx, InSchedule
  <2>2. ASSUME NEW p \in Places, Ctx(p)'.pc \in InSchedule
        PROVE  Resumable(p)' /\ Scheduling(Ctx(p))'
    <3>1. p # n /\ Ctx(p)' = Ctx(p) /\ Resumable(p) /\ Scheduling(Ctx(p))
      BY <2>1, <2>2 DEF Calls
    <3>2. Ctx(p).arg # j
      BY <1>2, <3>1 DEF Scheduling
    <3>3. phase'[Ctx(p).arg] = "submitted"
      BY <1>3, <3>1, <3>2 DEF Scheduling, TypeOK
    <3>4. Scheduling(Ctx(p))'
      BY <1>3, <1>7, <3>1, <3>3 DEF Scheduling, At
    <3> QED
      BY <1>7, <3>1, <3>4, Place DEF Resumable
  <2> QED
    BY <2>1, <2>2 DEF Calls
<1> QED
  BY <1>5, <1>10, <1>11, <1>12, <1>13, <1>14, <1>15

-----------------------------------------------------------------------------
(* The four switches.                                                       *)

LEMMA SwitchInv ==
  ASSUME Inv, NEW pc \in PC, NEW sleep, NEW next,
         ChooseNextTask(sleep, next), SwitchTo(next, pc),
         UNCHANGED <<task_count, running, timerOn, phase>>,
         sleep_time' \in [Slots -> Int],
         \/ pc = cpu.pc
         \/ cpu.pc \in {"run", "switch"} /\ pc = "run"
         \/ cpu.pc = "leave" /\ pc = "exited"
  PROVE  Inv'
<1> USE DEF Inv
<1>1. next \in Places /\ Resumable(next) /\ cpu.job # NoJob
  BY Chosen, Executing
<1>2. /\ current_task' = next
      /\ \A p \in Places :
           Ctx(p)' = IF p = current_task THEN [cpu EXCEPT !.pc = pc] ELSE Ctx(p)
      /\ \A p \in Places \ {next} : Resumable(p) =>
           sp'[p] = stack'[p].job /\ sp'[p] # NoJob
      /\ sp' \in [Places -> Jobs \cup {Main, NoJob}]
      /\ stack' \in [Places -> Context] /\ cpu' \in Context
  BY <1>1, SwitchCtx
<1>3. TypeOK'
  BY <1>1, <1>2 DEF TypeOK
<1>4. \A p : Resumable(p)' <=> Resumable(p)
  BY DEF Resumable
<1>5. SavedFrames'
  BY <1>2, <1>4 DEF SavedFrames
<1>6. \A p \in Places : Ctx(p)'.job = Ctx(p).job
  BY <1>2, Executing DEF Ctx, Context
<1>7. \A p \in Places : Resumable(p) /\ Ctx(p).pc # "leave" =>
        \/ Ctx(p)'.pc = Ctx(p).pc
        \/ Ctx(p)'.pc = "run" /\ Ctx(p).pc \in {"run", "switch"}
  <2> SUFFICES ASSUME NEW p \in Places, Ctx(p).pc # "leave"
               PROVE  \/ Ctx(p)'.pc = Ctx(p).pc
                      \/ Ctx(p)'.pc = "run" /\ Ctx(p).pc \in {"run", "switch"}
    OBVIOUS
  <2>1. CASE p # current_task
    BY <1>2, <2>1
  <2>2. CASE p = current_task
    <3>1. Ctx(p)'.pc = pc /\ Ctx(p) = cpu
      BY <1>2, <2>2, Executing DEF Ctx, Context
    <3> QED
      BY <3>1
  <2> QED
    BY <2>1, <2>2
<1>8. MainAtIdle'
  BY <1>6, <1>7, Place DEF MainAtIdle, MainPC, InSchedule, Resumable
<1>9. JobsInSlots'
  <2> SUFFICES ASSUME NEW n \in Slots, running[n]
               PROVE  Ctx(n)'.job \in Jobs /\ Ctx(n)'.pc \in JobPC /\ phase[Ctx(n)'.job] = "live"
    BY DEF JobsInSlots
  <2>1. n \in Places /\ Resumable(n)
    BY Place DEF Resumable
  <2>2. Ctx(n).job \in Jobs /\ Ctx(n).pc \in JobPC /\ phase[Ctx(n).job] = "live"
    BY DEF JobsInSlots
  <2>3. Ctx(n).pc # "leave" /\ "run" \in JobPC
    BY <2>2 DEF JobPC, InSchedule, InSleep
  <2> QED
    BY <1>6, <1>7, <2>1, <2>2, <2>3
<1>10. Leaving'
  BY <1>1, <1>2, Place DEF Leaving, Resumable
<1>11. OneSlotPerJob' /\ LiveJobsHosted'
  BY <1>6, Place DEF OneSlotPerJob, LiveJobsHosted
<1>12. CountCoversRunning'
  BY DEF CountCoversRunning
<1>13. \A p \in Places : Ctx(p)'.pc \in InSchedule => Ctx(p)' = Ctx(p)
  <2> SUFFICES ASSUME NEW p \in Places, Ctx(p)'.pc \in InSchedule PROVE Ctx(p)' = Ctx(p)
    OBVIOUS
  <2>1. CASE p # current_task
    BY <1>2, <2>1
  <2>2. CASE p = current_task
    <3>1. Ctx(p)' = [cpu EXCEPT !.pc = pc] /\ Ctx(p) = cpu
      BY <1>2, <2>2 DEF Ctx
    <3>2. pc = cpu.pc
      BY <3>1, Executing DEF InSchedule, Context
    <3> QED
      BY <3>1, <3>2, Executing DEF Context
  <2> QED
    BY <2>1, <2>2
<1>14. Calls'
  <2>1. ASSUME NEW p \in Places, Ctx(p)'.pc \in InSchedule
        PROVE  Resumable(p)' /\ Scheduling(Ctx(p))'
    <3>1. Ctx(p)' = Ctx(p) /\ Resumable(p) /\ Scheduling(Ctx(p))
      BY <1>13, <2>1 DEF Calls
    <3> DEFINE n == Ctx(p).n
    <3>2. Ctx(p).pc \in {"stack", "publish"} => n # next
      BY <1>1, <3>1, Place DEF Scheduling, Resumable
    <3>3. Ctx(p).pc = "publish" => Ctx(n) = At(Ctx(p).arg, "run") /\ n # current_task /\ n \in Places
      BY <3>1, Place DEF Scheduling, Ctx
    <3>4. Ctx(p).pc = "publish" => stack'[n] = At(Ctx(p).arg, "run")
      <4>1. \A q \in Places : q # current_task /\ q # next => stack'[q] = Ctx(q)
        BY <1>2 DEF Ctx
      <4> QED
        BY <3>2, <3>3, <4>1
    <3>5. Scheduling(Ctx(p))'
      BY <1>2, <3>1, <3>2, <3>4 DEF Scheduling, At
    <3> QED
      BY <1>4, <3>1, <3>5
  <2>2. ASSUME NEW p \in Places, NEW q \in Places,
               Ctx(p)'.pc \in InSchedule, Ctx(q)'.pc \in InSchedule
        PROVE  p = q
    BY <1>13, <2>2 DEF Calls
  <2> QED
    BY <2>1, <2>2 DEF Calls
<1> QED
  BY <1>3, <1>5, <1>8, <1>9, <1>10, <1>11, <1>12, <1>14

LEMMA SwitchesInv == Inv /\ (TimerISR \/ Yield \/ SleepSwitch \/ ExitSwitch) => Inv'
<1> SUFFICES ASSUME Inv, TimerISR \/ Yield \/ SleepSwitch \/ ExitSwitch PROVE Inv'
  OBVIOUS
<1>1. sleep_time \in [Slots -> Int] /\ cpu.pc \in PC
  BY Executing, ContextFields DEF Inv, TypeOK
<1>2. CASE TimerISR
  <2>1. PICK next : ChooseNextTask(sleep_time', next) /\ SwitchTo(next, cpu.pc)
    BY <1>2 DEF TimerISR
  <2>2. sleep_time' \in [Slots -> Int]
    BY <1>1, <1>2, KernelAssumption DEF TimerISR, UpdateSleepTime
  <2>3. UNCHANGED <<task_count, running, timerOn, phase>>
    BY <1>2 DEF TimerISR
  <2> QED
    BY <1>1, <2>1, <2>2, <2>3, SwitchInv
<1>3. ASSUME NEW pc \in PC, DoSomethingElse(pc),
             \/ cpu.pc \in {"run", "switch"} /\ pc = "run"
             \/ cpu.pc = "leave" /\ pc = "exited"
      PROVE  Inv'
  <2>1. PICK next : ChooseNextTask(sleep_time, next) /\ SwitchTo(next, pc)
    BY <1>3 DEF DoSomethingElse
  <2>2. UNCHANGED <<task_count, running, sleep_time, timerOn, phase>>
    BY <1>3 DEF DoSomethingElse, table
  <2> QED
    BY <1>1, <1>3, <2>1, <2>2, SwitchInv
<1>4. "run" \in PC /\ "exited" \in PC
  BY DEF PC
<1> QED
  BY <1>2, <1>3, <1>4 DEF Yield, SleepSwitch, ExitSwitch

-----------------------------------------------------------------------------

LEMMA InitInv == Init => Inv
<1> SUFFICES ASSUME Init PROVE Inv
  OBVIOUS
<1>1. Popped \in Context /\ At(Main, "main") \in Context /\ Popped.pc = "none"
      /\ At(Main, "main").pc = "main" /\ At(Main, "main").job = Main
  BY Frames DEF At, Popped, PC
<1>2. TypeOK
  <2>1. task_count \in 0 .. MAX_TASKS /\ current_task \in Places /\ timerOn \in BOOLEAN
    <3>1. task_count = 0 /\ current_task = Idle /\ timerOn = FALSE
      BY DEF Init
    <3>2. MAX_TASKS \in Nat
      BY KernelAssumption
    <3>3. timerOn \in BOOLEAN
      BY <3>1, Zenon
    <3>4. 0 \in 0 .. MAX_TASKS
      BY <3>2
    <3> QED
      BY <3>1, <3>3, <3>4, Place, Zenon
  <2>2. /\ running \in [Slots -> BOOLEAN] /\ sleep_time \in [Slots -> Int]
        /\ sp \in [Places -> Jobs \cup {Main, NoJob}]
        /\ phase \in [Jobs -> {"new", "submitted", "live", "refused", "done"}]
    BY DEF Init
  <2>3. stack \in [Places -> Context] /\ cpu \in Context
    BY <1>1 DEF Init
  <2> QED
    BY <2>1, <2>2, <2>3 DEF TypeOK
<1>3. \A n \in Slots : ~running[n] /\ n # Idle
  BY Place DEF Init
<1>4. \A p \in Places : Ctx(p).pc \notin InSchedule
  BY <1>1 DEF Init, Ctx, InSchedule
<1>5. SavedFrames
  BY <1>3, Place DEF Init, SavedFrames, Resumable
<1>6. MainAtIdle /\ Leaving
  BY <1>1, <1>3 DEF Init, MainAtIdle, Leaving, Ctx, MainPC
<1> QED
  BY <1>2, <1>3, <1>4, <1>5, <1>6
  DEF Inv, JobsInSlots, OneSlotPerJob, LiveJobsHosted, CountCoversRunning, Calls, Init

LEMMA NextInv == Overlap = FALSE /\ Inv /\ [Next]_vars => Inv'
<1> SUFFICES ASSUME Overlap = FALSE, Inv, [Next]_vars PROVE Inv'
  OBVIOUS
<1>1. CASE UNCHANGED vars
  BY <1>1 DEF vars, Inv, TypeOK, SavedFrames, MainAtIdle, JobsInSlots, Leaving,
     OneSlotPerJob, LiveJobsHosted, CountCoversRunning, Calls, Ctx, Resumable,
     Scheduling
<1>2. CASE ScheduleTask
  BY <1>2, ScheduleTestInv, ScheduleScanInv, ScheduleCountInv, ScheduleStackInv,
     SchedulePublishInv DEF ScheduleTask
<1> QED
  BY <1>1, <1>2, RunInv, ScheduleCallInv, SleepCallInv, SleepStoreInv, ExitTaskInv,
     SwitchesInv DEF Next, Continue

\* When no two calls of schedule_task() overlap, the kernel's bookkeeping is
\* consistent in every reachable state, for every size of the table.
THEOREM KernelInvariant == ASSUME Overlap = FALSE PROVE Spec => []Inv
<1>1. Inv /\ [Next]_vars => Inv'
  BY NextInv
<1> QED
  BY <1>1, InitInv, PTL DEF Spec

\* The context switch never resumes anything but a saved frame, and exit_task()
\* never returns.
THEOREM ContextSafety == ASSUME Overlap = FALSE PROVE Spec => []ContextIntegrity
<1>1. ASSUME Inv PROVE ContextIntegrity
  <2>1. cpu.pc \in MainPC \cup JobPC \cup {"leave"}
    BY <1>1, Executing, Place
  <2> QED
    BY <2>1 DEF ContextIntegrity, MainPC, JobPC, InSchedule, InSleep
<1> QED
  BY <1>1, KernelInvariant, PTL

\* No accepted job is lost, and none is given two slots.
THEOREM JobsAreHosted == ASSUME Overlap = FALSE PROVE Spec => []AcceptedHosted
<1>1. ASSUME Inv PROVE AcceptedHosted
  <2>1. \A n \in Slots : running[n] => Owner(n) = Ctx(n).job
    BY <1>1, Place DEF Inv, SavedFrames, Resumable, Owner, Ctx
  <2> QED
    BY <1>1, <2>1 DEF AcceptedHosted, Hosts, Inv, LiveJobsHosted, OneSlotPerJob
<1> QED
  BY <1>1, KernelInvariant, PTL

\* The variables keep their types, current_task and task_count their ranges.
THEOREM TypeCorrect == ASSUME Overlap = FALSE PROVE Spec => []TypeOK
BY KernelInvariant, PTL DEF Inv

=============================================================================
