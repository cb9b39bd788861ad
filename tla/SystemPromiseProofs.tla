------------------------ MODULE SystemPromiseProofs ------------------------
(* The kernel keeps the promise of Multitask, for any number of slots, jobs  *)
(* and bytes, when calls of schedule_task() do not overlap: every behaviour  *)
(* of System is, without slots and stacks, one of Multitask.                 *)
(* A job executes from the slot it was scheduled into and from no other.     *)
EXTENDS SystemPromise, SystemProofs, FiniteSetTheorems

-----------------------------------------------------------------------------
(* What relates the histories of SystemPromise to the slots.                *)

\* The rotation, from current_task on, comes to slot m before slot n.
Sooner(m, n) ==
  IF m > current_task THEN n <= current_task \/ m < n
                      ELSE n <= current_task /\ m < n

Wakeful(n) == running[n] /\ sleep_time[n] <= 0

Served == {j \in Jobs : phase[j] \in {"live", "done"}}

\* Only a job that waits for its turn has been passed, and the rotation comes to
\* its slot before it comes again to that of a job that has passed it.
Passing ==
  /\ passed \in [Jobs -> SUBSET Served]
  /\ \A j \in Jobs : passed[j] # {} => j \in Awake /\ j # cpu.job
  /\ \A n, m \in Slots :
       Wakeful(n) /\ running[m] /\ n # m /\ Ctx(m).job \in passed[Ctx(n).job] => Sooner(n, m)

\* If a slot was free at the call of schedule_task(), one is that the search has
\* not come to: nobody else takes it.
Searching ==
  \A p \in Places : Ctx(p).pc \in {"test", "scan"} /\ Ctx(p).arg \notin seenFull =>
    \E n \in Slots : ~running[n] /\ (Ctx(p).pc = "scan" => n >= Ctx(p).n)

PromiseInv == Inv /\ current_task < task_count /\ Passing /\ Searching

-----------------------------------------------------------------------------
(* The rotation.                                                            *)

\* The k-th slot after the current one.
LEMMA Cyclic ==
  ASSUME NEW t \in Nat, NEW c \in Int, -1 <= c, c < t, NEW k \in 1 .. t
  PROVE  (c + k) % t = IF c + k < t THEN c + k ELSE c + k - t
<1>1. \A x, b \in Int : 0 <= x /\ x < b => x % b = x
  OBVIOUS
<1>2. \A x, b \in Int : b <= x /\ x < 2 * b => x % b = x - b
  OBVIOUS
<1>3. CASE c + k < t
  BY <1>1, <1>3
<1>4. CASE c + k >= t
  <2>1. PICK s \in Int : s = c + k
    OBVIOUS
  <2>2. t \in Int /\ t <= s /\ s < 2 * t
    BY <1>4, <2>1
  <2>3. s % t = s - t
    BY <1>2, <2>2
  <2> QED
    BY <1>4, <2>1, <2>3
<1> QED
  BY <1>3, <1>4

\* chooseNextTask() returns the runnable slot that the rotation comes to first.
LEMMA First ==
  ASSUME PromiseInv, NEW sleep, NEW next, ChooseNextTask(sleep, next)
  PROVE  \/ /\ next = Idle
            /\ \A n \in Slots : ~Runnable(running, sleep, n)
         \/ /\ next \in Slots /\ Runnable(running, sleep, next)
            /\ \A n \in Slots \ {next} : Runnable(running, sleep, n) => Sooner(next, n)
<1> DEFINE nth(k)  == (current_task + k) % task_count
           turn(n) == IF n > current_task THEN n - current_task
                                          ELSE n - current_task + task_count
<1>1. /\ task_count \in Nat /\ current_task \in Int
      /\ -1 <= current_task /\ current_task < task_count
      /\ \A n \in Slots : n \in Int /\ 0 <= n
      /\ Slots \subseteq Int
  BY KernelAssumption DEF PromiseInv, Inv, TypeOK, Places, Slots, Idle
<1>2. \A n \in Slots : Runnable(running, sleep, n) => n < task_count
  BY DEF PromiseInv, Inv, CountCoversRunning, Runnable
<1>3. \A k \in 1 .. task_count :
        nth(k) = IF current_task + k < task_count THEN current_task + k
                                                  ELSE current_task + k - task_count
  BY <1>1, Cyclic
<1>4. \A n \in Slots : Runnable(running, sleep, n) =>
        turn(n) \in 1 .. task_count /\ nth(turn(n)) = n
  <2> SUFFICES ASSUME NEW n \in Slots, n < task_count
               PROVE  turn(n) \in 1 .. task_count /\ nth(turn(n)) = n
    BY <1>2
  <2>1. n \in Int /\ 0 <= n
    BY <1>1
  <2>2. turn(n) \in 1 .. task_count
    BY <1>1, <2>1
  <2>3. nth(turn(n)) = IF current_task + turn(n) < task_count
                       THEN current_task + turn(n) ELSE current_task + turn(n) - task_count
    BY <1>3, <2>2
  <2> HIDE DEF nth
  <2> QED
    BY <1>1, <2>1, <2>2, <2>3
<1> HIDE DEF nth
<1>5. CASE next = Idle /\ \A k \in 1 .. task_count : ~Runnable(running, sleep, nth(k))
  BY <1>4, <1>5
<1>6. ASSUME NEW k \in 1 .. task_count, next = nth(k), Runnable(running, sleep, next),
             \A m \in 1 .. k - 1 : ~Runnable(running, sleep, nth(m))
      PROVE  /\ next \in Slots
             /\ \A n \in Slots \ {next} : Runnable(running, sleep, n) => Sooner(next, n)
  <2>1. next \in 0 .. task_count - 1 /\ k \in Int
    BY <1>1, <1>3, <1>6
  <2>2. next \in Slots
    BY <2>1, KernelAssumption DEF PromiseInv, Inv, TypeOK, Slots
  <2>3. turn(next) = k
    <3>1. next = IF current_task + k < task_count THEN current_task + k
                                                  ELSE current_task + k - task_count
      BY <1>3, <1>6
    <3>2. 1 <= k /\ k <= task_count
      BY <1>6
    <3> QED
      BY <1>1, <2>1, <3>1, <3>2
  <2> SUFFICES ASSUME NEW n \in Slots, n # next, Runnable(running, sleep, n)
               PROVE  Sooner(next, n)
    BY <2>2
  <2>4. turn(n) \in 1 .. task_count /\ nth(turn(n)) = n /\ n \in Int
    BY <1>1, <1>4
  <2>5. turn(n) > k
    <3>1. turn(n) \notin 1 .. k - 1
      BY <1>6, <2>4
    <3>2. turn(n) # k
      BY <1>6, <2>4
    <3> QED
      BY <2>1, <2>4, <3>1, <3>2
  <2> QED
    BY <1>1, <1>2, <2>1, <2>3, <2>4, <2>5 DEF Sooner
<1> QED
  BY <1>5, <1>6 DEF ChooseNextTask, nth

-----------------------------------------------------------------------------
(* Slots and jobs.                                                          *)

\* The owner of a slot and the awake jobs, in terms of contexts.
ByContext ==
  /\ \A n \in Slots : running[n] => Owner(n) = Ctx(n).job
  /\ Awake = {j \in Jobs : \E n \in Slots : Wakeful(n) /\ Ctx(n).job = j}
  /\ \A n \in Slots : running[n] => (Ctx(n).job \in Awake <=> Wakeful(n))
  /\ Awake \subseteq Promise!Live

LEMMA AwakeSlots == Inv => ByContext
<1> SUFFICES ASSUME Inv PROVE ByContext
  OBVIOUS
<1>1. \A n \in Slots : running[n] => Owner(n) = Ctx(n).job
  BY Place DEF Inv, SavedFrames, Resumable, Owner, Ctx
<1>2. Awake = {j \in Jobs : \E n \in Slots : Wakeful(n) /\ Ctx(n).job = j}
  BY <1>1 DEF Awake, Hosts, Wakeful
<1>3. \A n \in Slots : running[n] => (Ctx(n).job \in Awake <=> Wakeful(n))
  BY <1>2 DEF Inv, OneSlotPerJob, JobsInSlots, Wakeful
<1>4. Awake \subseteq Promise!Live
  BY <1>2 DEF Promise!Live, Inv, JobsInSlots, Wakeful
<1> QED
  BY <1>1, <1>2, <1>3, <1>4 DEF ByContext

\* The same after a step.
LEMMA AwakeSlotsNext == Inv' => ByContext'
BY AwakeSlots, PTL

\* Multitask counts as this module does.
LEMMA SameCardinality == \A S : Promise!Cardinality(S) = Cardinality(S)
BY DEF Promise!Cardinality, Cardinality, Promise!IsFiniteSet, IsFiniteSet

\* There are as many live jobs as slots that run.
LEMMA LiveCount ==
  ASSUME Inv
  PROVE  /\ IsFiniteSet(Promise!Live)
         /\ Cardinality(Promise!Live) \in Nat /\ Cardinality(Promise!Live) <= MAX_TASKS
         /\ Cardinality(Promise!Live) = MAX_TASKS <=> \A n \in Slots : running[n]
<1> DEFINE Live == {j \in Jobs : phase[j] = "live"}
           host == [j \in Live |-> CHOOSE n \in Slots : running[n] /\ Ctx(n).job = j]
<1>1. Promise!Live = Live
  BY DEF Promise!Live
<1>2. IsFiniteSet(Slots) /\ Cardinality(Slots) = MAX_TASKS
  BY KernelAssumption, FS_Interval DEF Slots
<1>3. \A j \in Live : host[j] \in Slots /\ running[host[j]] /\ Ctx(host[j]).job = j
  BY DEF Inv, LiveJobsHosted
<1>4. \A n \in Slots : running[n] => Ctx(n).job \in Live /\ host[Ctx(n).job] = n
  <2>1. \A n \in Slots : running[n] => Ctx(n).job \in Live
    BY DEF Inv, JobsInSlots
  <2> HIDE DEF host
  <2> QED
    BY <1>3, <2>1 DEF Inv, OneSlotPerJob
<1>5. host \in [Live -> Slots]
  <2>1. host = [j \in Live |-> host[j]]
    OBVIOUS
  <2> HIDE DEF host
  <2> QED
    BY <1>3, <2>1
<1> HIDE DEF host, Live
<1>6. host \in Injection(Live, Slots)
  BY <1>3, <1>5 DEF Injection, IsInjective
<1>7. host \in Surjection(Live, Slots) <=> \A n \in Slots : running[n]
  BY <1>3, <1>4, <1>5 DEF Surjection
<1>8. /\ IsFiniteSet(Live) /\ Cardinality(Live) <= Cardinality(Slots)
      /\ Cardinality(Live) = Cardinality(Slots) <=> host \in Surjection(Live, Slots)
  BY <1>2, <1>6, FS_Injection
<1>9. Cardinality(Live) \in Nat
  BY <1>8, FS_CardinalityType
<1> QED
  BY <1>1, <1>2, <1>7, <1>8, <1>9

-----------------------------------------------------------------------------
(* Steps other than a switch.                                               *)

\* The histories stand when the slots of the other jobs are left alone, and a
\* slot that starts to run has a job nobody has heard of.
LEMMA PassingKept ==
  ASSUME PromiseInv, Inv', UNCHANGED <<current_task, passed>>, cpu'.job = cpu.job,
         Served \subseteq Served',
         \A n \in Slots \ {current_task} : running[n] =>
           running'[n] /\ sleep_time'[n] = sleep_time[n] /\ Ctx(n)'.job = Ctx(n).job,
         \A n \in Slots : running'[n] =>
           (running[n] /\ Ctx(n)'.job = Ctx(n).job) \/ Ctx(n)'.job \notin Served
  PROVE  Passing'
<1>1. ByContext /\ ByContext' /\ Passing /\ Inv
  BY AwakeSlots, AwakeSlotsNext DEF PromiseInv
<1>2. passed \in [Jobs -> SUBSET Served'] /\ passed \in [Jobs -> SUBSET Served]
  BY <1>1 DEF Passing
<1>3. \A n \in Slots : Ctx(n).job # cpu.job => n # current_task
  BY DEF Ctx
<1>4. \A j \in Jobs : passed[j] # {} => j \in Awake' /\ j # cpu'.job
  <2> SUFFICES ASSUME NEW j \in Jobs, passed[j] # {} PROVE j \in Awake'
    BY <1>1 DEF Passing
  <2>1. PICK n \in Slots : Wakeful(n) /\ Ctx(n).job = j
    BY <1>1 DEF Passing, ByContext
  <2>2. n # current_task
    BY <1>1, <1>3, <2>1 DEF Passing
  <2>3. Wakeful(n)' /\ Ctx(n)'.job = j
    BY <2>1, <2>2 DEF Wakeful
  <2> QED
    BY <1>1, <2>3 DEF ByContext
<1>5. ASSUME NEW n \in Slots, NEW m \in Slots, Wakeful(n)', running'[m], n # m,
             Ctx(m)'.job \in passed[Ctx(n)'.job]
      PROVE  Sooner(n, m)'
  <2>1. Ctx(n)'.job \in Jobs /\ running'[n]
    BY <1>5 DEF Inv, JobsInSlots, Wakeful
  <2>2. Ctx(n)'.job \in Awake /\ Ctx(n)'.job # cpu.job
    BY <1>1, <1>5, <2>1 DEF Passing
  <2>3. Ctx(n)'.job \in Served /\ Ctx(m)'.job \in Served
    BY <1>1, <1>2, <1>5, <2>1, <2>2 DEF ByContext, Promise!Live, Served
  <2>4. running[n] /\ Ctx(n)'.job = Ctx(n).job /\ running[m] /\ Ctx(m)'.job = Ctx(m).job
    BY <1>5, <2>1, <2>3
  <2>5. Wakeful(n)
    BY <1>1, <2>2, <2>4 DEF ByContext
  <2>6. Sooner(n, m)
    BY <1>1, <1>5, <2>4, <2>5 DEF Passing
  <2> QED
    BY <2>6 DEF Sooner
<1> QED
  BY <1>2, <1>4, <1>5 DEF Passing

\* The free slot a search will find stays free and ahead of it.
LEMMA SearchingKept ==
  ASSUME PromiseInv, UNCHANGED current_task, seenFull \subseteq seenFull',
         \A p \in Places \ {current_task} :
           Ctx(p)' = Ctx(p) \/ Ctx(p)'.pc \notin {"test", "scan"},
         \A n \in Slots : ~running[n] => ~running'[n],
         cpu'.pc \in {"test", "scan"} /\ cpu'.arg \notin seenFull' =>
           \E n \in Slots : ~running[n] /\ (cpu'.pc = "scan" => n >= cpu'.n)
  PROVE  Searching'
<1> SUFFICES ASSUME NEW p \in Places, Ctx(p)'.pc \in {"test", "scan"},
                    Ctx(p)'.arg \notin seenFull'
             PROVE  \E n \in Slots : ~running'[n] /\ (Ctx(p)'.pc = "scan" => n >= Ctx(p)'.n)
  BY DEF Searching
<1>1. CASE p = current_task
  BY <1>1 DEF Ctx
<1>2. CASE p # current_task
  <2>1. Ctx(p)' = Ctx(p)
    BY <1>2
  <2> QED
    BY <2>1 DEF PromiseInv, Searching
<1> QED
  BY <1>1, <1>2

\* A step that moves no job, no slot and no sleep changes what is passed on
\* neither side.
LEMMA Quiet ==
  ASSUME PromiseInv, Inv', cpu'.job = cpu.job,
         UNCHANGED <<current_task, running, sleep_time, passed>>,
         Served \subseteq Served',
         \A n \in Slots : running[n] => Ctx(n)'.job = Ctx(n).job
  PROVE  Passing' /\ Awake' = Awake
<1>1. Passing'
  BY PassingKept
<1>2. ByContext /\ ByContext'
  BY AwakeSlots, AwakeSlotsNext DEF PromiseInv
<1>3. Awake' = Awake
  BY <1>2 DEF ByContext, Wakeful
<1> QED
  BY <1>1, <1>3

-----------------------------------------------------------------------------
(* Every step keeps PromiseInv, and is one of Multitask or a stutter.        *)

LEMMA SubmitStep ==
  ASSUME PromiseInv, Inv', NEW y \in Jobs, PSubmit(y)
  PROVE  PromiseInv' /\ Promise!Submit(y)
<1>1. /\ UNCHANGED <<task_count, running, sleep_time, current_task, sp, stack, passed>>
      /\ phase[y] = "new" /\ phase' = [phase EXCEPT ![y] = "submitted"]
      /\ cpu' = [cpu EXCEPT !.pc = "test", !.arg = y]
      /\ seenFull' = IF \A n \in Slots : running[n] THEN seenFull \cup {y} ELSE seenFull
  BY DEF PSubmit, ScheduleCall, table
<1>2. Inv /\ cpu \in Context
  BY Executing DEF PromiseInv
<1>3. cpu'.job = cpu.job /\ cpu'.pc = "test" /\ cpu'.arg = y
  BY <1>1, <1>2 DEF Context
<1>4. Served \subseteq Served'
  BY <1>1, <1>2 DEF Served, Inv, TypeOK
<1>5. \A p \in Places \ {current_task} : Ctx(p)' = Ctx(p)
  BY <1>1 DEF Ctx
<1>6. \A n \in Slots : running[n] => Ctx(n)'.job = Ctx(n).job
  BY <1>1, <1>3 DEF Ctx
<1>7. Passing' /\ Awake' = Awake
  BY <1>1, <1>3, <1>4, <1>6, Quiet
<1>8. Searching'
  BY <1>1, <1>3, <1>5, SearchingKept
<1>9. Promise!Submit(y)
  <2>1. Cardinality(Promise!Live) = MAX_TASKS <=> \A n \in Slots : running[n]
    BY <1>2, LiveCount
  <2> QED
    BY <1>1, <1>3, <1>7, <2>1, SameCardinality DEF Promise!Submit
<1> QED
  BY <1>1, <1>7, <1>8, <1>9 DEF PromiseInv

\* Steps between two changes that anyone else can see.
LEMMA HiddenStep ==
  ASSUME PromiseInv, Inv', Run \/ ScheduleTest \/ ScheduleCount \/ ScheduleStack,
         UNCHANGED <<seenFull, passed>>
  PROVE  PromiseInv' /\ UNCHANGED Promise!vars
<1>1. Inv /\ cpu \in Context
  BY Executing DEF PromiseInv
<1>2. UNCHANGED <<running, sleep_time, current_task, sp, phase>>
  BY DEF Run, ScheduleTest, ScheduleCount, ScheduleStack, table
<1>3. cpu'.job = cpu.job /\ cpu'.arg = cpu.arg
  BY <1>1 DEF Run, ScheduleTest, ScheduleCount, ScheduleStack, Goto, Context
<1>4. current_task' < task_count'
  <2>1. current_task \in Int /\ task_count \in Int /\ current_task < task_count
    BY KernelAssumption DEF PromiseInv, Inv, TypeOK, Places, Slots, Idle
  <2>2. CASE ScheduleCount
    <3>1. task_count' = task_count + 1
      BY <1>1, <2>2, Executing DEF ScheduleCount, Scheduling, InSchedule
    <3> QED
      BY <1>2, <2>1, <3>1
  <2>3. CASE Run \/ ScheduleTest \/ ScheduleStack
    BY <1>2, <2>1, <2>3 DEF Run, ScheduleTest, ScheduleStack, table
  <2> QED
    BY <2>2, <2>3
<1>5. \A p \in Places \ {current_task} :
        Ctx(p)' = Ctx(p) \/ (ScheduleStack /\ p = cpu.n)
  <2>1. CASE Run \/ ScheduleTest \/ ScheduleCount
    BY <2>1, <1>2 DEF Run, ScheduleTest, ScheduleCount, Ctx
  <2>2. CASE ScheduleStack
    BY <2>2, <1>1, <1>2 DEF ScheduleStack, Ctx, Inv, TypeOK
  <2> QED
    BY <2>1, <2>2
<1>6. \A n \in Places : ScheduleStack /\ n = cpu.n =>
        n \in Slots /\ ~running[n] /\ Ctx(n)'.pc = "run"
  <2> SUFFICES ASSUME NEW n \in Places, ScheduleStack, n = cpu.n
               PROVE  n \in Slots /\ ~running[n] /\ Ctx(n)'.pc = "run"
    OBVIOUS
  <2>1. n \in Slots /\ ~running[n] /\ n # current_task
    BY <1>1, Executing, Place DEF ScheduleStack, Scheduling, InSchedule
  <2> QED
    BY <1>1, <1>2, <2>1 DEF ScheduleStack, Ctx, At, Inv, TypeOK
<1>7. \A n \in Slots : running[n] => Ctx(n)'.job = Ctx(n).job
  BY <1>2, <1>3, <1>5, <1>6, Place DEF Ctx
<1>8. Passing' /\ Awake' = Awake
  BY <1>2, <1>3, <1>7, Quiet DEF Served
<1>9. cpu'.pc \in {"test", "scan"} /\ cpu'.arg \notin seenFull' =>
        \E n \in Slots : ~running[n] /\ (cpu'.pc = "scan" => n >= cpu'.n)
  <2>1. CASE ScheduleTest
    <3>1. cpu'.pc = "scan" => cpu'.n = 0
      BY <1>1, <2>1 DEF ScheduleTest, Context
    <3>2. cpu.pc = "test" /\ Ctx(current_task) = cpu /\ current_task \in Places
      BY <1>1, <2>1, Executing DEF ScheduleTest, Ctx
    <3>3. cpu.arg \notin seenFull => \E n \in Slots : ~running[n]
      BY <3>2 DEF PromiseInv, Searching
    <3>4. \A n \in Slots : n >= 0
      BY DEF Slots
    <3> QED
      BY <1>3, <3>1, <3>3, <3>4
  <2>2. CASE Run \/ ScheduleCount \/ ScheduleStack
    BY <1>1, <2>2 DEF Run, ScheduleCount, ScheduleStack, Goto, Context
  <2> QED
    BY <2>1, <2>2
<1>10. \A p \in Places \ {current_task} :
         Ctx(p)' = Ctx(p) \/ Ctx(p)'.pc \notin {"test", "scan"}
  BY <1>5, <1>6
<1>11. Searching'
  BY <1>2, <1>9, <1>10, SearchingKept
<1> QED
  BY <1>2, <1>3, <1>4, <1>8, <1>11 DEF PromiseInv, Promise!vars

\* The search goes on, or ends, or refuses a job for which no slot was free.
LEMMA ScanStep ==
  ASSUME PromiseInv, Inv', ScheduleScan, UNCHANGED <<seenFull, passed>>
  PROVE  PromiseInv' /\ (Promise!Refuse(cpu.arg) \/ UNCHANGED Promise!vars)
<1>1. /\ Inv /\ cpu \in Context /\ Scheduling(cpu)
      /\ cpu.pc = "scan" /\ cpu.arg \in Jobs /\ phase[cpu.arg] = "submitted"
      /\ cpu.n \in Slots /\ Ctx(current_task) = cpu /\ current_task \in Places
  BY Executing DEF PromiseInv, ScheduleScan, Scheduling, InSchedule, Ctx
<1>2. UNCHANGED <<task_count, running, sleep_time, current_task, sp, stack>>
  BY DEF ScheduleScan, table
<1>3. cpu'.job = cpu.job
  BY <1>1 DEF ScheduleScan, Goto, Return, At, Context
<1>4. Served \subseteq Served'
  BY <1>1 DEF ScheduleScan, Served, Inv, TypeOK
<1>5. \A p \in Places \ {current_task} : Ctx(p)' = Ctx(p)
  BY <1>2 DEF Ctx
<1>6. \A n \in Slots : running[n] => Ctx(n)'.job = Ctx(n).job
  BY <1>2, <1>3 DEF Ctx
<1>7. Passing' /\ Awake' = Awake
  BY <1>2, <1>3, <1>4, <1>6, Quiet
<1>8. cpu.arg \notin seenFull => \E n \in Slots : ~running[n] /\ n >= cpu.n
  BY <1>1 DEF PromiseInv, Searching
<1>9. \A n \in Slots : n \in Int /\ n <= MAX_TASKS - 1 /\ MAX_TASKS \in Int
  BY KernelAssumption DEF Slots
<1>10. cpu'.pc \in {"test", "scan"} /\ cpu'.arg \notin seenFull' =>
         \E n \in Slots : ~running[n] /\ (cpu'.pc = "scan" => n >= cpu'.n)
  <2>1. CASE Goto("stack")
    BY <1>1, <2>1 DEF Goto, Context
  <2>2. CASE running[cpu.n] /\ cpu' = [cpu EXCEPT !.n = @ + 1]
    <3>1. cpu'.n = cpu.n + 1 /\ cpu'.arg = cpu.arg
      BY <1>1, <2>2 DEF Context
    <3>2. \A n \in Slots : ~running[n] /\ n >= cpu.n => n >= cpu.n + 1
      BY <1>1, <1>9, <2>2
    <3> QED
      BY <1>8, <3>1, <3>2
  <2>3. CASE Return
    BY <2>3 DEF Return, At, Caller
  <2> QED
    BY <2>1, <2>2, <2>3 DEF ScheduleScan
<1>11. Searching'
  BY <1>2, <1>5, <1>10, SearchingKept
<1>12. CASE UNCHANGED phase
  BY <1>2, <1>3, <1>7, <1>11, <1>12 DEF PromiseInv, Promise!vars
<1>13. CASE /\ running[cpu.n] /\ cpu.n + 1 = MAX_TASKS
            /\ phase' = [phase EXCEPT ![cpu.arg] = "refused"]
  <2>1. cpu.arg \in seenFull
    <3>1. \A n \in Slots : n >= cpu.n => n = cpu.n
      BY <1>1, <1>9, <1>13
    <3> QED
      BY <1>8, <1>13, <3>1
  <2>2. Promise!Refuse(cpu.arg)
    BY <1>1, <1>3, <1>7, <1>13, <2>1 DEF Promise!Refuse
  <2> QED
    BY <1>2, <1>7, <1>11, <2>2 DEF PromiseInv
<1> QED
  BY <1>12, <1>13 DEF ScheduleScan

\* The new job takes a free slot, and nobody searches any more.
LEMMA PublishStep ==
  ASSUME PromiseInv, Inv', SchedulePublish, UNCHANGED <<seenFull, passed>>
  PROVE  PromiseInv' /\ Promise!Accept(cpu.arg)
<1>0. PICK n, y : n = cpu.n /\ y = cpu.arg
  OBVIOUS
<1>1. /\ Inv /\ Inv' /\ cpu.pc = "publish"
      /\ n \in Slots /\ n \in Places /\ ~running[n] /\ n # current_task
      /\ y \in Jobs /\ phase[y] = "submitted" /\ stack[n] = At(y, "run")
      /\ Ctx(current_task) = cpu /\ current_task \in Places
  BY <1>0, Executing, Place DEF PromiseInv, SchedulePublish, InSchedule, Scheduling, Ctx
<1>2. /\ UNCHANGED <<task_count, current_task, stack>>
      /\ sleep_time' = [sleep_time EXCEPT ![n] = -1]
      /\ running' = [running EXCEPT ![n] = TRUE]
      /\ phase' = [phase EXCEPT ![y] = "live"]
      /\ cpu' = At(cpu.job, Caller(cpu.job))
  BY <1>0 DEF SchedulePublish, Return
<1>3. cpu'.job = cpu.job /\ cpu'.pc \in {"main", "run"}
  BY <1>2 DEF At, Caller
<1>4. \A p \in Places : Ctx(p)' = IF p = current_task THEN cpu' ELSE Ctx(p)
  BY <1>2 DEF Ctx
<1>5. \A p \in Places : Ctx(p)'.job = Ctx(p).job
  BY <1>1, <1>3, <1>4
<1>6. \A m \in Slots : /\ running'[m] = IF m = n THEN TRUE ELSE running[m]
                       /\ sleep_time'[m] = IF m = n THEN -1 ELSE sleep_time[m]
  BY <1>1, <1>2 DEF Inv, TypeOK
<1>7. Ctx(n).job = y /\ y \notin Served
  BY <1>1 DEF Ctx, At, Served
<1>8. Served \subseteq Served'
  BY <1>1, <1>2 DEF Served, Inv, TypeOK
<1>9. Passing'
  BY <1>1, <1>2, <1>3, <1>5, <1>6, <1>7, <1>8, Place, PassingKept
<1>10. \A p \in Places : Ctx(p)'.pc \notin {"test", "scan"}
  <2>1. \A p \in Places : Ctx(p).pc \in InSchedule => p = current_task
    BY <1>1 DEF Inv, Calls, InSchedule
  <2> QED
    BY <1>3, <1>4, <2>1 DEF InSchedule
<1>11. Searching'
  BY <1>10 DEF Searching
<1>12. ByContext /\ ByContext'
  BY <1>1, AwakeSlots, AwakeSlotsNext
<1>13. Awake' = Awake \cup {y}
  <2>1. \A m \in Slots : Wakeful(m)' <=> m = n \/ Wakeful(m)
    <3> TAKE m \in Slots
    <3>1. CASE m = n
      <4>1. sleep_time'[m] = -1 /\ running'[m]
        BY <1>6, <3>1
      <4> QED
        BY <3>1, <4>1 DEF Wakeful
    <3>2. CASE m # n
      <4>1. sleep_time'[m] = sleep_time[m] /\ running'[m] = running[m]
        BY <1>6, <3>2
      <4> QED
        BY <3>2, <4>1 DEF Wakeful
    <3> QED
      BY <3>1, <3>2
  <2>2. \A m \in Slots : Ctx(m)'.job = Ctx(m).job
    BY <1>5, Place
  <2> QED
    BY <1>1, <1>7, <1>12, <2>1, <2>2 DEF ByContext
<1>14. Cardinality(Promise!Live) < MAX_TASKS
  <2>1. Cardinality(Promise!Live) # MAX_TASKS /\ Cardinality(Promise!Live) <= MAX_TASKS
        /\ Cardinality(Promise!Live) \in Nat
    BY <1>1, LiveCount
  <2> QED
    BY <2>1, KernelAssumption
<1>15. Promise!Accept(y)
  BY <1>1, <1>2, <1>3, <1>13, <1>14, SameCardinality DEF Promise!Accept
<1> QED
  BY <1>0, <1>1, <1>2, <1>9, <1>11, <1>15 DEF PromiseInv

\* The executing job stores what sleep() was given.
LEMMA DozeStep ==
  ASSUME PromiseInv, Inv', SleepStore \/ (\E t \in SleepTimes : SleepCall(t)),
         UNCHANGED <<seenFull, passed>>
  PROVE  PromiseInv' /\ Promise!Doze
<1>1. cpu.pc \in {"run", "low", "high"}
  BY DEF SleepStore, SleepCall
<1>2. /\ Inv /\ cpu \in Context
      /\ current_task \in Slots /\ running[current_task]
      /\ cpu.job \in Jobs /\ phase[cpu.job] = "live" /\ Ctx(current_task) = cpu
  BY <1>1, Executing, Place DEF PromiseInv, MainPC, InSchedule, Ctx
<1>3. UNCHANGED <<task_count, current_task, running, sp, stack, phase>>
  BY DEF SleepStore, SleepCall
<1>4. \A n \in Slots \ {current_task} : sleep_time'[n] = sleep_time[n]
  BY <1>2 DEF SleepStore, SleepCall, StoreHi, StoreLo, Inv, TypeOK
<1>5. cpu'.job = cpu.job /\ cpu'.pc \in {"low", "high", "switch"}
  <2>1. CASE SleepStore
    BY <2>1 DEF SleepStore, At
  <2>2. ASSUME NEW t \in SleepTimes, SleepCall(t)
        PROVE  cpu'.job = cpu.job /\ cpu'.pc \in {"low", "high", "switch"}
    BY <1>2, <2>2 DEF SleepCall, Context
  <2> QED
    BY <2>1, <2>2
<1>6. \A p \in Places : /\ Ctx(p)'.job = Ctx(p).job
                        /\ p # current_task => Ctx(p)' = Ctx(p)
  BY <1>2, <1>3, <1>5 DEF Ctx
<1>7. Passing'
  BY <1>2, <1>3, <1>4, <1>5, <1>6, Place, PassingKept DEF Served
<1>8. Searching'
  BY <1>3, <1>5, <1>6, SearchingKept
<1>9. ByContext /\ ByContext'
  BY <1>2, AwakeSlots, AwakeSlotsNext
<1>10. \A j \in Jobs \ {cpu.job} : j \in Awake' <=> j \in Awake
  <2>1. \A n \in Slots : Ctx(n).job # cpu.job => (Wakeful(n)' <=> Wakeful(n))
    BY <1>2, <1>3, <1>4 DEF Wakeful
  <2> QED
    BY <1>6, <1>9, <2>1, Place DEF ByContext
<1>11. Awake' \in {Awake \cup {cpu.job}, Awake \ {cpu.job}}
  <2>1. Awake \subseteq Jobs /\ Awake' \subseteq Jobs
    BY <1>9 DEF ByContext
  <2> QED
    BY <1>2, <1>10, <2>1
<1>12. Promise!Doze
  BY <1>2, <1>3, <1>5, <1>11 DEF Promise!Doze, Promise!Live
<1> QED
  BY <1>3, <1>7, <1>8, <1>12 DEF PromiseInv

\* The executing job ends.
LEMMA ExitStep ==
  ASSUME PromiseInv, Inv', ExitTask, UNCHANGED <<seenFull, passed>>
  PROVE  PromiseInv' /\ Promise!Exit
<1>1. /\ Inv /\ cpu \in Context /\ cpu.pc = "run"
      /\ current_task \in Slots /\ running[current_task]
      /\ cpu.job \in Jobs /\ phase[cpu.job] = "live" /\ Ctx(current_task) = cpu
  BY Executing, Place DEF PromiseInv, ExitTask, MainPC, InSchedule, Ctx
<1>2. /\ UNCHANGED <<task_count, current_task, sleep_time, sp, stack>>
      /\ running' = [running EXCEPT ![current_task] = FALSE]
      /\ phase' = [phase EXCEPT ![cpu.job] = "done"]
      /\ cpu' = [cpu EXCEPT !.pc = "leave"]
  BY DEF ExitTask, Goto
<1>3. cpu'.job = cpu.job /\ cpu'.pc = "leave"
  BY <1>1, <1>2 DEF Context
<1>4. \A n \in Slots : running'[n] <=> n # current_task /\ running[n]
  BY <1>1, <1>2 DEF Inv, TypeOK
<1>5. \A p \in Places : /\ Ctx(p)'.job = Ctx(p).job
                        /\ p # current_task => Ctx(p)' = Ctx(p)
  BY <1>1, <1>2, <1>3 DEF Ctx
<1>6. Served \subseteq Served'
  BY <1>1, <1>2 DEF Served, Inv, TypeOK
<1>7. Passing'
  BY <1>2, <1>3, <1>4, <1>5, <1>6, Place, PassingKept
<1>8. Searching'
  BY <1>2, <1>3, <1>4, <1>5, SearchingKept
<1>9. ByContext /\ ByContext'
  BY <1>1, AwakeSlots, AwakeSlotsNext
<1>10. Awake' = Awake \ {cpu.job}
  <2>1. \A n \in Slots : Wakeful(n)' <=> n # current_task /\ Wakeful(n)
    BY <1>2, <1>4 DEF Wakeful
  <2>2. \A n \in Slots : Ctx(n)'.job = Ctx(n).job
    BY <1>5, Place
  <2>3. \A n \in Slots : Wakeful(n) => (n = current_task <=> Ctx(n).job = cpu.job)
    BY <1>1 DEF Inv, OneSlotPerJob, Wakeful
  <2> QED
    BY <1>9, <2>1, <2>2, <2>3 DEF ByContext
<1>11. Promise!Exit
  BY <1>1, <1>2, <1>3, <1>10 DEF Promise!Exit, Promise!Live
<1> QED
  BY <1>2, <1>7, <1>8, <1>11 DEF PromiseInv

\* A switch: the job that comes next has been passed on to nobody before it.
LEMMA TurnStep ==
  ASSUME PromiseInv, Inv', PTurn
  PROVE  PromiseInv' /\ Promise!Turn(cpu'.job)
<1>1. PICK next, pc : /\ ChooseNextTask(sleep_time', next) /\ SwitchTo(next, pc)
                      /\ pc = cpu.pc \/ pc \in {"run", "exited"}
  <2>1. CASE TimerISR
    BY <2>1 DEF TimerISR
  <2>2. CASE Yield \/ SleepSwitch \/ ExitSwitch
    <3>1. sleep_time' = sleep_time
      BY <2>2 DEF Yield, SleepSwitch, ExitSwitch, DoSomethingElse, table
    <3> QED
      BY <2>2, <3>1 DEF Yield, SleepSwitch, ExitSwitch, DoSomethingElse
  <2> QED
    BY <2>1, <2>2 DEF PTurn
<1>2. /\ UNCHANGED <<task_count, running, phase, seenFull>>
      /\ passed' = [j \in Jobs |->
                      IF j \in Awake' \ {cpu'.job} THEN passed[j] \cup {cpu'.job} ELSE {}]
  BY DEF PTurn, TimerISR, Yield, SleepSwitch, ExitSwitch, DoSomethingElse, table
<1>3. \A n \in Slots : sleep_time[n] <= 0 => sleep_time'[n] <= 0
  <2>1. CASE TimerISR
    BY <2>1 DEF TimerISR, UpdateSleepTime, PromiseInv, Inv, TypeOK
  <2>2. CASE Yield \/ SleepSwitch \/ ExitSwitch
    BY <2>2 DEF Yield, SleepSwitch, ExitSwitch, DoSomethingElse, table
  <2> QED
    BY <2>1, <2>2 DEF PTurn
<1>4. /\ Inv /\ cpu \in Context /\ cpu.job # NoJob /\ next \in Places /\ Resumable(next)
      /\ pc \in PC /\ ByContext /\ ByContext' /\ Passing
  BY <1>1, Executing, Chosen, ContextFields, AwakeSlots, AwakeSlotsNext
  DEF PromiseInv, Inv, PC
<1>5. /\ current_task' = next
      /\ \A p \in Places :
           Ctx(p)' = IF p = current_task THEN [cpu EXCEPT !.pc = pc] ELSE Ctx(p)
  BY <1>1, <1>4, SwitchCtx DEF Inv
<1>6. \A p \in Places : Ctx(p)'.job = Ctx(p).job
  BY <1>4, <1>5 DEF Ctx, Context
<1>7. cpu'.job = Ctx(next).job
  <2>1. cpu' = Ctx(next)'
    BY <1>5 DEF Ctx
  <2> QED
    BY <1>4, <1>6, <2>1
<1>8. \/ next = Idle /\ \A n \in Slots : ~Wakeful(n)'
      \/ /\ next \in Slots /\ Wakeful(next)'
         /\ \A n \in Slots \ {next} : Wakeful(n)' => Sooner(next, n)
  <2>1. \A n \in Slots : Wakeful(n)' <=> Runnable(running, sleep_time', n)
    BY <1>2 DEF Wakeful, Runnable
  <2> QED
    BY <1>1, <2>1, First
<1>9. \A n \in Slots : Ctx(n)'.job = Ctx(n).job /\ (Wakeful(n) => Wakeful(n)')
  BY <1>2, <1>3, <1>6, Place DEF Wakeful
<1>10. /\ Awake \subseteq Awake' /\ Awake' \subseteq Promise!Live /\ Promise!Live \subseteq Jobs
       /\ Promise!Live \subseteq Served
  <2>1. Promise!Live' = Promise!Live
    BY <1>2 DEF Promise!Live
  <2> QED
    BY <1>4, <1>9, <2>1 DEF ByContext, Promise!Live, Served
<1>11. \/ next \in Slots /\ cpu'.job \in Awake'
       \/ next = Idle /\ cpu'.job = Main /\ Awake' = {}
  <2>1. CASE next = Idle /\ \A n \in Slots : ~Wakeful(n)'
    BY <1>4, <1>7, <2>1 DEF Inv, MainAtIdle, ByContext
  <2>2. CASE next \in Slots /\ Wakeful(next)'
    BY <1>4, <1>7, <1>9, <2>2 DEF Inv, JobsInSlots, ByContext, Wakeful
  <2> QED
    BY <1>8, <2>1, <2>2
<1>12. \A n \in Places : n \in Int /\ current_task \in Int /\ current_task' \in Int
  BY <1>4, <1>5, KernelAssumption DEF Inv, TypeOK, Places, Slots, Idle
\* a job that has been passed waits, and no slot with a job that passed it is due
<1>13. ASSUME NEW n \in Slots, NEW m \in Slots, Wakeful(n)', running[m], n # m,
              Ctx(m).job \in passed[Ctx(n).job]
       PROVE  Wakeful(n) /\ Sooner(n, m)
  <2>1. Ctx(n).job \in Jobs /\ running[n]
    BY <1>2, <1>4, <1>13 DEF Inv, JobsInSlots, Wakeful
  <2>2. Wakeful(n)
    BY <1>4, <1>13, <2>1 DEF Passing, ByContext
  <2> QED
    BY <1>4, <1>13, <2>2 DEF Passing
<1>14. \A j \in Awake' \ {cpu'.job} : cpu'.job \notin passed[j]
  <2> SUFFICES ASSUME NEW j \in Awake', j # cpu'.job, cpu'.job \in passed[j]
               PROVE  FALSE
    OBVIOUS
  <2>1. PICK n \in Slots : Wakeful(n)' /\ Ctx(n).job = j
    BY <1>4, <1>9 DEF ByContext
  <2>2. next \in Slots /\ n # next
    BY <1>7, <1>11, <2>1
  <2>3. running[next]
    BY <1>2, <1>8, <2>1, <2>2 DEF Wakeful
  <2>4. Sooner(n, next)
    BY <1>7, <1>13, <2>1, <2>2, <2>3
  <2>5. Sooner(next, n)
    BY <1>8, <2>1, <2>2
  <2> QED
    BY <1>12, <2>2, <2>4, <2>5, Place DEF Sooner
<1>15. Promise!Turn(cpu'.job)
  <2>1. \E woken \in SUBSET (Promise!Live \ Awake) : Awake' = Awake \cup woken
    <3>1. Awake' \ Awake \in SUBSET (Promise!Live \ Awake)
          /\ Awake' = Awake \cup (Awake' \ Awake)
      BY <1>10
    <3> QED
      BY <3>1
  <2> QED
    BY <1>2, <1>11, <1>14, <2>1 DEF Promise!Turn
<1>16. ASSUME NEW n \in Slots, NEW m \in Slots, Wakeful(n)', running[m], n # m,
              Ctx(m).job \in passed'[Ctx(n).job]
       PROVE  Sooner(n, m)'
  <2>1. Ctx(n).job \in Jobs
    BY <1>2, <1>4, <1>16 DEF Inv, JobsInSlots, Wakeful
  <2>2. /\ Ctx(n).job \in Awake' \ {cpu'.job}
        /\ Ctx(m).job \in passed[Ctx(n).job] \cup {cpu'.job}
    BY <1>2, <1>16, <2>1
  <2>3. next \in Slots /\ n # next /\ running[next]
    BY <1>2, <1>7, <1>8, <1>11, <1>16, <2>2 DEF Wakeful
  <2>4. Sooner(next, n)
    BY <1>8, <1>16, <2>3
  <2>5. CASE m = next
    BY <1>5, <1>12, <1>16, <2>3, <2>5, Place DEF Sooner
  <2>6. CASE m # next
    <3>1. Ctx(m).job # cpu'.job
      BY <1>4, <1>7, <1>16, <2>3, <2>6 DEF Inv, OneSlotPerJob
    <3>2. Sooner(n, m)
      BY <1>13, <1>16, <2>2, <3>1
    <3> QED
      BY <1>5, <1>12, <1>16, <2>3, <2>4, <2>6, <3>2, Place DEF Sooner
  <2> QED
    BY <2>5, <2>6
<1>17. Passing'
  <2>1. Served' = Served
    BY <1>2 DEF Served
  <2>2. \A j \in Jobs : /\ passed'[j] \subseteq Served
                        /\ passed'[j] # {} => j \in Awake' /\ j # cpu'.job
    BY <1>2, <1>4, <1>10, <1>11 DEF Passing
  <2>3. passed' \in [Jobs -> SUBSET Served]
    BY <1>2, <2>2
  <2> QED
    BY <1>2, <1>9, <1>16, <2>1, <2>2, <2>3 DEF Passing
<1>18. Searching'
  <2> SUFFICES ASSUME NEW p \in Places, Ctx(p)'.pc \in {"test", "scan"},
                      Ctx(p)'.arg \notin seenFull'
               PROVE  \E n \in Slots : ~running'[n] /\ (Ctx(p)'.pc = "scan" => n >= Ctx(p)'.n)
    BY DEF Searching
  <2>1. Ctx(p)'.pc = Ctx(p).pc /\ Ctx(p)'.arg = Ctx(p).arg /\ Ctx(p)'.n = Ctx(p).n
    BY <1>1, <1>4, <1>5 DEF Ctx, Context
  <2> QED
    BY <1>2, <2>1 DEF PromiseInv, Searching
<1>19. current_task' < task_count'
  <2>1. next < task_count
    <3>1. CASE next = Idle
      BY <3>1, <1>4, KernelAssumption DEF Idle, Inv, TypeOK
    <3>2. CASE next \in Slots
      BY <3>2, <1>2, <1>4, <1>8, Place DEF Inv, CountCoversRunning, Wakeful
    <3> QED
      BY <1>8, <3>1, <3>2
  <2> QED
    BY <1>2, <1>5, <2>1
<1> QED
  BY <1>15, <1>17, <1>18, <1>19 DEF PromiseInv

-----------------------------------------------------------------------------

\* Some job executes, or main().
LEMMA ExecutingNext == Inv' => (cpu.job \in Jobs \cup {Main})'
<1>1. Inv => cpu.job \in Jobs \cup {Main}
  BY Executing
<1> QED
  BY <1>1, PTL

LEMMA PromiseInit == PInit => PromiseInv /\ Promise!Init
<1> SUFFICES ASSUME PInit PROVE PromiseInv /\ Promise!Init
  OBVIOUS
<1>1. Inv /\ Init
  BY InitInv DEF PInit
<1>2. /\ task_count = 0 /\ current_task = Idle /\ cpu = At(Main, "main")
      /\ running = [n \in Slots |-> FALSE] /\ phase = [j \in Jobs |-> "new"]
      /\ seenFull = {} /\ passed = [j \in Jobs |-> {}]
      /\ stack = [p \in Places |-> Popped]
  BY <1>1 DEF Init, PInit
<1>3. Awake = {}
  BY <1>2 DEF Awake, Hosts
<1>4. current_task < task_count
  BY <1>2 DEF Idle
<1>5. Passing
  BY <1>2 DEF Passing, Wakeful
<1>6. Searching
  BY <1>2 DEF Searching, Ctx, At, Popped
<1> QED
  BY <1>1, <1>2, <1>3, <1>4, <1>5, <1>6 DEF PromiseInv, Promise!Init, At

LEMMA PromiseStep ==
  ASSUME Overlap = FALSE, PromiseInv, [PNext]_pvars
  PROVE  PromiseInv' /\ [Promise!Next]_Promise!vars
<1>1. Inv'
  <2>1. Inv /\ [Next]_vars
    BY DEF PromiseInv, PNext, PSubmit, PTurn, POther, Next, Continue, pvars
  <2> QED
    BY <2>1, NextInv
<1>2. CASE \E y \in Jobs : PSubmit(y)
  BY <1>1, <1>2, SubmitStep DEF Promise!Next
<1>3. CASE PTurn
  <2>1. cpu'.job \in Jobs \cup {Main}
    BY <1>1, ExecutingNext
  <2> QED
    BY <1>1, <1>3, <2>1, TurnStep DEF Promise!Next
<1>4. CASE POther
  <2>1. UNCHANGED <<seenFull, passed>>
    BY <1>4 DEF POther
  <2>2. CASE Run \/ ScheduleTest \/ ScheduleCount \/ ScheduleStack
    BY <1>1, <2>1, <2>2, HiddenStep
  <2>3. CASE ScheduleScan
    BY <1>1, <2>1, <2>3, ScanStep, Executing
    DEF Promise!Next, PromiseInv, Scheduling, InSchedule, ScheduleScan
  <2>4. CASE SchedulePublish
    BY <1>1, <2>1, <2>4, PublishStep, Executing
    DEF Promise!Next, PromiseInv, Scheduling, InSchedule, SchedulePublish
  <2>5. CASE ExitTask
    BY <1>1, <2>1, <2>5, ExitStep DEF Promise!Next
  <2>6. CASE SleepStore \/ \E t \in SleepTimes : SleepCall(t)
    BY <1>1, <2>1, <2>6, DozeStep DEF Promise!Next
  <2> QED
    BY <1>4, <2>2, <2>3, <2>4, <2>5, <2>6 DEF POther, ScheduleTask
<1>5. CASE UNCHANGED pvars
  <2>1. UNCHANGED <<task_count, current_task, running, sleep_time, sp, stack, cpu,
                    timerOn, phase, seenFull, passed>>
    BY <1>5 DEF pvars, vars
  <2>2. Passing' /\ Searching' /\ current_task' < task_count'
    BY <2>1 DEF PromiseInv, Passing, Searching, Served, Awake, Hosts, Owner, Wakeful,
                Sooner, Ctx
  <2>3. UNCHANGED Promise!vars
    BY <2>1 DEF Promise!vars, Awake, Hosts, Owner
  <2> QED
    BY <1>1, <2>2, <2>3 DEF PromiseInv
<1> QED
  BY <1>2, <1>3, <1>4, <1>5 DEF PNext

\* Every behaviour of the kernel is one of Multitask: at most MAX_TASKS jobs are
\* live, schedule_task() refuses only who called it with every slot taken, only
\* the executing job falls asleep or ends, and no job has two turns while another
\* one that is awake waits for its own.
THEOREM KernelKeepsPromise == ASSUME Overlap = FALSE PROVE PSpec => KeepsPromise
<1>1. PromiseInv /\ [PNext]_pvars => PromiseInv' /\ [Promise!Next]_Promise!vars
  BY PromiseStep
<1>2. PInit => PromiseInv /\ Promise!Init
  BY PromiseInit
<1> QED
  BY <1>1, <1>2, PTL DEF PSpec, KeepsPromise, Promise!Spec

-----------------------------------------------------------------------------
(* Which slot a job executes from.                                           *)

\* A slot that runs, or whose job is leaving it, was given to the job whose
\* context it holds.
Taken(n) == running[n] \/ n = current_task

Placed ==
  /\ slot \in [Jobs -> Places]
  /\ \A n \in Slots : Taken(n) => slot[Ctx(n).job] = n

LEMMA PlacedKept ==
  ASSUME Placed, UNCHANGED slot,
         \A n \in Slots : Taken(n)' => Taken(n) /\ Ctx(n)'.job = Ctx(n).job
  PROVE  Placed'
BY DEF Placed

\* Neither a switch nor what a job does for itself moves a job.
LEMMA PlacedSwitch ==
  ASSUME Inv, Placed, UNCHANGED slot, TimerISR \/ Yield \/ SleepSwitch \/ ExitSwitch
  PROVE  Placed'
<1>1. PICK next, pc, sleep :
        /\ ChooseNextTask(sleep, next) /\ SwitchTo(next, pc)
        /\ pc = cpu.pc \/ pc \in {"run", "exited"}
  <2>1. CASE TimerISR
    BY <2>1 DEF TimerISR
  <2>2. CASE Yield \/ SleepSwitch \/ ExitSwitch
    BY <2>2 DEF Yield, SleepSwitch, ExitSwitch, DoSomethingElse
  <2> QED
    BY <2>1, <2>2
<1>2. UNCHANGED running
  BY DEF TimerISR, Yield, SleepSwitch, ExitSwitch, DoSomethingElse, table
<1>3. /\ cpu \in Context /\ cpu.job # NoJob /\ next \in Places /\ Resumable(next) /\ pc \in PC
      /\ TypeOK /\ SavedFrames
  BY <1>1, Executing, Chosen, ContextFields DEF Inv, PC
<1>4. /\ current_task' = next
      /\ \A p \in Places :
           Ctx(p)' = IF p = current_task THEN [cpu EXCEPT !.pc = pc] ELSE Ctx(p)
  BY <1>1, <1>3, SwitchCtx
<1>5. \A p \in Places : Ctx(p)'.job = Ctx(p).job
  BY <1>3, <1>4 DEF Ctx, Context
<1>6. \A n \in Slots : Taken(n)' => Taken(n)
  BY <1>2, <1>3, <1>4, Place DEF Taken, Resumable
<1> QED
  BY <1>5, <1>6, Place, PlacedKept

LEMMA PlacedAlone ==
  ASSUME Inv, Placed, UNCHANGED slot,
         \/ Run \/ ExitTask \/ SleepStore \/ (\E t \in SleepTimes : SleepCall(t))
         \/ (\E y \in Jobs : ScheduleCall(y))
         \/ ScheduleTest \/ ScheduleScan \/ ScheduleCount \/ ScheduleStack
  PROVE  Placed'
<1>1. cpu \in Context
  BY Executing
<1>2. UNCHANGED current_task /\ cpu'.job = cpu.job
  <2>1. CASE Run \/ ExitTask \/ ScheduleCount \/ ScheduleStack
    BY <1>1, <2>1 DEF Run, ExitTask, ScheduleCount, ScheduleStack, Goto, Context
  <2>2. CASE SleepStore
    BY <1>1, <2>2 DEF SleepStore, At
  <2>3. CASE ScheduleTest
    <3>1. UNCHANGED current_task
      BY <2>3 DEF ScheduleTest
    <3>2. cpu'.job = cpu.job
      <4>1. \/ cpu' = [cpu EXCEPT !.pc = "scan", !.n = 0]
            \/ cpu' = [cpu EXCEPT !.pc = "count", !.n = task_count]
        BY <2>3 DEF ScheduleTest
      <4> QED
        BY <1>1, <4>1 DEF Context
    <3> QED
      BY <3>1, <3>2
  <2>4. CASE \E t \in SleepTimes : SleepCall(t)
    BY <1>1, <2>4 DEF SleepCall, Context
  <2>5. CASE \E y \in Jobs : ScheduleCall(y)
    BY <1>1, <2>5 DEF ScheduleCall, Context
  <2>6. CASE ScheduleScan
    BY <1>1, <2>6 DEF ScheduleScan, Goto, Return, At, Context
  <2> QED
    BY <2>1, <2>2, <2>3, <2>4, <2>5, <2>6
<1>3. \A n \in Slots : running'[n] => running[n]
  BY DEF Inv, TypeOK, Run, ExitTask, SleepStore, SleepCall, ScheduleCall, ScheduleTest,
         ScheduleScan, ScheduleCount, ScheduleStack, table
<1>4. \A n \in Slots : Taken(n) => stack'[n] = stack[n]
  <2>1. CASE ScheduleStack
    <3>1. ~running[cpu.n] /\ cpu.n # current_task
      BY <2>1, Executing DEF ScheduleStack, InSchedule, Scheduling
    <3> QED
      BY <2>1, <3>1 DEF ScheduleStack, Taken, Inv, TypeOK
  <2>2. CASE ~ScheduleStack
    BY <2>2 DEF Run, ExitTask, SleepStore, SleepCall, ScheduleCall, ScheduleTest,
                ScheduleScan, ScheduleCount
  <2> QED
    BY <2>1, <2>2
<1>5. \A n \in Slots : Taken(n)' => Taken(n) /\ Ctx(n)'.job = Ctx(n).job
  BY <1>2, <1>3, <1>4 DEF Taken, Ctx
<1> QED
  BY <1>5, PlacedKept

\* Only the critical section of schedule_task() gives a slot to a job.
LEMMA PlacedPublish ==
  ASSUME Inv, Placed, SchedulePublish, slot' = [slot EXCEPT ![cpu.arg] = cpu.n]
  PROVE  Placed'
<1>0. PICK n, y : n = cpu.n /\ y = cpu.arg
  OBVIOUS
<1>1. /\ cpu \in Context /\ n \in Slots /\ y \in Jobs /\ phase[y] = "submitted"
      /\ n # current_task /\ stack[n] = At(y, "run")
  BY <1>0, Executing DEF SchedulePublish, InSchedule, Scheduling
<1>2. /\ UNCHANGED <<current_task, stack>> /\ cpu'.job = cpu.job
      /\ running' = [running EXCEPT ![n] = TRUE] /\ slot' = [slot EXCEPT ![y] = n]
  BY <1>0, <1>1 DEF SchedulePublish, Return, At
<1>3. slot' \in [Jobs -> Places]
  BY <1>1, <1>2, Place DEF Placed
<1>4. \A m \in Slots : m # n => Ctx(m)'.job = Ctx(m).job /\ (Taken(m)' <=> Taken(m))
  BY <1>1, <1>2 DEF Ctx, Taken, Inv, TypeOK
<1>5. \A m \in Slots : Taken(m) => Ctx(m).job \in Jobs /\ Ctx(m).job # y
  BY <1>1 DEF Inv, JobsInSlots, Leaving, Taken, Ctx
<1>6. Ctx(n)'.job = y
  BY <1>1, <1>2 DEF Ctx, At
<1>7. ASSUME NEW m \in Slots, Taken(m)' PROVE slot'[Ctx(m)'.job] = m
  <2>1. CASE m = n
    BY <1>1, <1>2, <1>6, <2>1 DEF Placed
  <2>2. CASE m # n
    BY <1>1, <1>2, <1>4, <1>5, <1>7, <2>2 DEF Placed
  <2> QED
    BY <2>1, <2>2
<1> QED
  BY <1>3, <1>7 DEF Placed

LEMMA PlacedStep ==
  ASSUME Overlap = FALSE, Inv, Placed, [PNext]_pvars
  PROVE  Inv' /\ Placed'
<1>1. Inv'
  <2>1. [Next]_vars
    BY DEF PNext, PSubmit, PTurn, POther, Next, Continue, pvars
  <2> QED
    BY <2>1, NextInv
<1>2. CASE UNCHANGED pvars
  <2>1. UNCHANGED <<current_task, running, stack, cpu, slot>>
    BY <1>2 DEF pvars, vars
  <2> QED
    BY <1>1, <2>1 DEF Placed, Taken, Ctx
<1>3. CASE PTurn
  BY <1>1, <1>3, PlacedSwitch DEF PTurn
<1>4. CASE \E y \in Jobs : PSubmit(y)
  BY <1>1, <1>4, PlacedAlone DEF PSubmit
<1>5. CASE POther /\ SchedulePublish
  BY <1>1, <1>5, PlacedPublish DEF POther, SchedulePublish
<1>6. CASE POther /\ ~SchedulePublish
  <2>1. /\ \/ Run \/ ExitTask \/ SleepStore \/ (\E t \in SleepTimes : SleepCall(t))
           \/ ScheduleTest \/ ScheduleScan \/ ScheduleCount \/ ScheduleStack
        /\ slot' = IF cpu.pc = "publish" THEN [slot EXCEPT ![cpu.arg] = cpu.n] ELSE slot
    BY <1>6 DEF POther, ScheduleTask
  <2>2. cpu.pc # "publish"
    BY <2>1 DEF Run, ExitTask, SleepStore, SleepCall, ScheduleTest, ScheduleScan,
                ScheduleCount, ScheduleStack
  <2> QED
    BY <1>1, <2>1, <2>2, PlacedAlone
<1> QED
  BY <1>1, <1>2, <1>3, <1>4, <1>5, <1>6 DEF PNext

\* Whoever executes does it from the slot it was scheduled into, and current_task
\* designates that slot, until the last instruction of exit_task().
THEOREM CurrentExecutes == ASSUME Overlap = FALSE PROVE PSpec => []ExecutingTaskIsCurrent
<1>1. Inv /\ Placed => ExecutingTaskIsCurrent
  <2> SUFFICES ASSUME Inv, Placed PROVE ExecutingTaskIsCurrent
    OBVIOUS
  <2>1. CASE current_task = Idle
    BY <2>1, Executing DEF ExecutingTaskIsCurrent
  <2>2. CASE current_task \in Slots
    <3>1. cpu.job \in Jobs /\ cpu.job # Main
      BY <2>2, Executing, KernelAssumption
    <3>2. slot[cpu.job] = current_task
      BY <2>2 DEF Placed, Taken, Ctx
    <3> QED
      BY <3>1, <3>2 DEF ExecutingTaskIsCurrent
  <2> QED
    BY <2>1, <2>2, Executing, Place
<1>2. Inv /\ Placed /\ [PNext]_pvars => Inv' /\ Placed'
  BY PlacedStep
<1>3. PInit => Inv /\ Placed
  <2> SUFFICES ASSUME PInit PROVE Inv /\ Placed
    OBVIOUS
  <2>1. Inv
    BY InitInv DEF PInit
  <2>2. \A n \in Slots : ~Taken(n)
    BY Place DEF PInit, Init, Taken
  <2>3. slot \in [Jobs -> Places]
    BY Place DEF PInit
  <2> QED
    BY <2>1, <2>2, <2>3 DEF Placed
<1> QED
  BY <1>1, <1>2, <1>3, PTL DEF PSpec

=============================================================================
