---------------------------- MODULE TimeProofs ----------------------------
(* How long a sleep lasts, what time the clock tells, and what NFCtask()     *)
(* makes of its sleeps, for any number of slots, jobs, bytes and faces: the  *)
(* slot of a job that sleeps counts its argument down by the interrupts, and *)
(* the job has its turn once it is counted; the bytes of the clock are those *)
(* of a time it told; and a task that NFCtask() has started has less left to *)
(* do than NFCtask() has to sleep.                                           *)
EXTENDS MCTime, SystemProofs, Sequences, FiniteSetTheorems, WellFoundedInduction

-----------------------------------------------------------------------------
(* What is always so of a sleep, and of the slot of the job that sleeps.    *)

Naps == [asked : Int, ticks : Nat, cut : SUBSET Inside]

\* A sleep is one an int can hold, and one that the ticks are counted beyond;
\* only a live job is in one.
NapOK(j) ==
  LET s == nap[j] IN
  /\ s \in Naps /\ s.ticks <= TICK_BOUND
  /\ s.asked <= TICK_BOUND * TICK_INTERVAL /\ 2 * s.asked < BYTE * BYTE
  /\ s.asked > 0 => phase[j] = "live"

\* The slots that have their turn before slot n, and n itself.
Turns(n) == IF n > current_task THEN n - current_task ELSE n - current_task + MAX_TASKS

\* The slot counts the sleep down by the ticks, until they have passed it.
Counting(n, s) ==
  \/ sleep_time[n] > 0 /\ sleep_time[n] = s.asked - s.ticks * TICK_INTERVAL
  \/ sleep_time[n] <= 0 /\ s.ticks * TICK_INTERVAL >= s.asked

\* When they have, they leave no more than its turn to wait for.
Near(n, s) ==
  LET ahead == IF n = current_task THEN 0 ELSE Turns(n) IN
  sleep_time[n] <= 0 =>
    (s.ticks + ahead - 1) * TICK_INTERVAL < s.asked + MAX_TASKS * TICK_INTERVAL

\* One byte of the argument is stored, and no tick has come.
HalfStored(n, s) ==
  /\ n = current_task /\ s.ticks = 0 /\ s.cut = {} /\ Ctx(n).n = s.asked
  /\ Ctx(n).pc = "low"  => Hi(sleep_time[n]) = Hi(s.asked)
  /\ Ctx(n).pc = "high" => Lo(sleep_time[n]) = Lo(s.asked)

Napping(n, s) ==
  LET pc == Ctx(n).pc IN
  /\ pc \in Inside \cup {"run"}
  /\ s.cut \cap InSleep = {} => IF pc \in InSleep THEN HalfStored(n, s) ELSE Counting(n, s)
  /\ s.cut = {} /\ pc = "switch" => n = current_task /\ s.ticks = 0
  /\ s.cut = {} /\ pc = "run" => Near(n, s)
  /\ n = current_task /\ pc = "run" => sleep_time[n] <= 0

Asleep(n, j) == running[n] /\ Ctx(n).job = j /\ nap[j].asked > 0

NapInv ==
  /\ nap \in [Jobs -> Naps]
  /\ \A j \in Jobs : NapOK(j)
  /\ \A n \in Slots, j \in Jobs : Asleep(n, j) => Napping(n, nap[j])
  /\ current_task < task_count

-----------------------------------------------------------------------------
(* The bytes of an int.                                                     *)

\* Quotient and remainder are what they are by one equation.
LEMMA DivMod ==
  ASSUME NEW d \in Nat \ {0}, NEW q \in Int, NEW r \in 0 .. d - 1
  PROVE  (q * d + r) \div d = q /\ (q * d + r) % d = r
<1> DEFINE x == q * d + r
<1>1. x \in Int
  OBVIOUS
<1>2. x = d * (x \div d) + (x % d) /\ x % d \in 0 .. d - 1 /\ x \div d \in Int
  BY <1>1
<1> DEFINE y == x \div d
           z == x % d
<1>3. d * (q - y) = z - r
  BY <1>2
<1>4. q - y = 0
  <2>1. z - r < d /\ z - r > -d
    BY <1>2
  <2>2. ASSUME q - y >= 1 PROVE FALSE
    <3>1. d * (q - y) >= d
      BY <1>2, <2>2
    <3> QED
      BY <1>2, <1>3, <2>1, <3>1
  <2>3. ASSUME q - y <= -1 PROVE FALSE
    <3>1. d * (q - y) <= -d
      BY <1>2, <2>3
    <3> QED
      BY <1>2, <1>3, <2>1, <3>1
  <2> QED
    BY <1>2, <2>2, <2>3
<1> QED
  BY <1>2, <1>3, <1>4

\* A byte of an int is a byte.
LEMMA ByteRange == \A v \in Int : Hi(v) \in 0 .. BYTE - 1 /\ Lo(v) \in 0 .. BYTE - 1
BY KernelAssumption DEF Hi, Lo

\* An int has the bytes it was made of.
LEMMA BytesOfWord ==
  ASSUME NEW h \in 0 .. BYTE - 1, NEW l \in 0 .. BYTE - 1
  PROVE  Word(h, l) \in Int /\ Hi(Word(h, l)) = h /\ Lo(Word(h, l)) = l
<1>1. BYTE \in Nat \ {0} /\ h \in Int /\ l \in Int
  BY KernelAssumption
<1>2. ASSUME NEW c \in {0, 1}
      PROVE  /\ h * BYTE + l - c * (BYTE * BYTE) \in Int
             /\ Hi(h * BYTE + l - c * (BYTE * BYTE)) = h
             /\ Lo(h * BYTE + l - c * (BYTE * BYTE)) = l
  <2>1. h * BYTE + l - c * (BYTE * BYTE) = (h - c * BYTE) * BYTE + l /\ h - c * BYTE \in Int
    BY <1>1
  <2> DEFINE q == h - c * BYTE
  <2>2. (q * BYTE + l) \div BYTE = q /\ (q * BYTE + l) % BYTE = l
    BY <1>1, <2>1, DivMod
  <2>3. q % BYTE = h
    <3>1. ((0 - c) * BYTE + h) % BYTE = h
      BY <1>1, DivMod
    <3> QED
      BY <1>1, <3>1
  <2> QED
    BY <1>1, <2>1, <2>2, <2>3 DEF Hi, Lo
<1>3. Word(h, l) = h * BYTE + l - 0 * (BYTE * BYTE) \/ Word(h, l) = h * BYTE + l - 1 * (BYTE * BYTE)
  BY <1>1 DEF Word
<1> QED
  BY <1>2, <1>3

\* An int that is small enough is made of its bytes.
LEMMA WordOfBytes ==
  ASSUME NEW t \in Int, t >= 0, 2 * t < BYTE * BYTE
  PROVE  Word(Hi(t), Lo(t)) = t
<1>1. BYTE \in Nat \ {0} /\ BYTE * BYTE \in Nat
  BY KernelAssumption
<1>2. PICK q \in Int, r \in 0 .. BYTE - 1 : t = BYTE * q + r
  <2>1. t = BYTE * (t \div BYTE) + (t % BYTE) /\ t % BYTE \in 0 .. BYTE - 1 /\ t \div BYTE \in Int
    BY <1>1
  <2> QED
    BY <2>1
<1>3. q >= 0
  <2>1. ASSUME q <= -1 PROVE FALSE
    <3>1. BYTE * q <= -BYTE
      BY <1>1, <2>1
    <3> QED
      BY <1>1, <1>2, <3>1
  <2> QED
    BY <2>1
<1>4. q < BYTE
  <2>1. ASSUME q >= BYTE PROVE FALSE
    <3>1. BYTE * q >= BYTE * BYTE /\ BYTE * q \in Int
      BY <1>1, <2>1
    <3> QED
      BY <1>1, <1>2, <3>1
  <2> QED
    BY <1>1, <2>1
<1>5. t \div BYTE = q /\ t % BYTE = r
  BY <1>1, <1>2, DivMod
<1>6. q % BYTE = q
  <2>1. q \in 0 .. BYTE - 1 /\ 0 \in Int
    BY <1>1, <1>3, <1>4
  <2>2. (0 * BYTE + q) % BYTE = q
    BY <1>1, <2>1, DivMod
  <2>3. 0 * BYTE + q = q
    BY <1>1
  <2> QED
    BY <2>2, <2>3
<1>7. Hi(t) = q /\ Lo(t) = r
  BY <1>5, <1>6 DEF Hi, Lo
<1> DEFINE v == q * BYTE + r
<1>8. Word(Hi(t), Lo(t)) = IF 2 * v < BYTE * BYTE THEN v ELSE v - BYTE * BYTE
  BY <1>7 DEF Word
<1> QED
  BY <1>1, <1>2, <1>8

-----------------------------------------------------------------------------
(* Whose turn it is.                                                        *)

\* The slot k turns after the current one, for the first round.
LEMMA Round ==
  ASSUME NEW c \in Int, NEW n \in Nat, c < n, -1 <= c, NEW k \in 1 .. n
  PROVE  (c + k) % n = IF c + k < n THEN c + k ELSE c + k - n
<1>1. n \in Nat \ {0} /\ k \in Int
  OBVIOUS
<1>2. CASE c + k < n
  <2>1. (0 * n + (c + k)) % n = c + k
    BY <1>1, <1>2, DivMod
  <2> QED
    BY <1>1, <1>2, <2>1
<1>3. CASE c + k >= n
  <2>1. (1 * n + (c + k - n)) % n = c + k - n
    BY <1>1, <1>3, DivMod
  <2> QED
    BY <1>1, <1>3, <2>1
<1> QED
  BY <1>1, <1>2, <1>3

\* A slot that may run is chosen, or one that comes before it.
LEMMA NextTurn ==
  ASSUME task_count \in Nat, task_count <= MAX_TASKS, MAX_TASKS \in Nat,
         current_task \in Int, -1 <= current_task, current_task < task_count,
         NEW sleep, NEW next, ChooseNextTask(sleep, next),
         NEW n \in 0 .. task_count - 1, Runnable(running, sleep, n)
  PROVE  /\ next \in 0 .. task_count - 1
         /\ next = n \/ Turns(n)' < Turns(n) \/ current_task' # next
<1> DEFINE nth(k) == (current_task + k) % task_count
<1>1. \A k \in 1 .. task_count : nth(k) = IF current_task + k < task_count
                                          THEN current_task + k ELSE current_task + k - task_count
  BY Round
<1> DEFINE kn == IF n > current_task THEN n - current_task ELSE n - current_task + task_count
<1>2. kn \in 1 .. task_count /\ nth(kn) = n
  BY <1>1
<1> HIDE DEF nth
<1>3. PICK k \in 1 .. task_count : next = nth(k) /\ \A i \in 1 .. k - 1 : ~Runnable(running, sleep, nth(i))
  BY <1>2 DEF ChooseNextTask, nth
<1>4. k <= kn
  BY <1>2, <1>3
<1>5. next \in 0 .. task_count - 1
  BY <1>1, <1>3
<1>6. next # n => k < kn
  BY <1>2, <1>3, <1>4
<1>7. ASSUME next # n, current_task' = next PROVE Turns(n)' < Turns(n)
  BY <1>1, <1>3, <1>5, <1>6, <1>7 DEF Turns
<1> QED
  BY <1>5, <1>7

-----------------------------------------------------------------------------
(* Steps that switch to no other slot.                                      *)

\* What NapInv and Inv say of the sleeper that a slot hosts.
LEMMA Sleeper ==
  ASSUME Inv, NapInv, NEW n \in Slots, NEW j \in Jobs, Asleep(n, j)
  PROVE  /\ running[n] /\ Ctx(n).job = j /\ phase[j] = "live" /\ Napping(n, nap[j])
         /\ nap[j] \in Naps /\ nap[j].asked \in Nat /\ nap[j].asked > 0 /\ nap[j].ticks \in Nat
         /\ sleep_time[n] \in Int /\ TICK_INTERVAL \in Nat \ {0}
         /\ cpu.job = j => n = current_task
<1>1. cpu.job = j => n = current_task
  <2>1. ASSUME cpu.job = j PROVE n = current_task
    <3>1. current_task \in Slots /\ Ctx(current_task).job = j
      BY <2>1, Executing, Place, KernelAssumption DEF Ctx
    <3>2. running[current_task]
      <4>1. CASE ~running[current_task]
        BY <3>1, <4>1, <2>1 DEF Inv, Leaving, NapInv, NapOK, Asleep
      <4> QED
        BY <4>1
    <3> QED
      BY <3>1, <3>2 DEF Inv, OneSlotPerJob, Asleep
  <2> QED
    BY <2>1
<1> QED
  BY <1>1, KernelAssumption DEF Inv, TypeOK, NapInv, NapOK, Naps, Asleep

\* A sleeper that nothing happens to sleeps on.
LEMMA Undisturbed ==
  ASSUME NEW n, NEW j, Asleep(n, j), Napping(n, nap[j]),
         current_task' = current_task, Ctx(n)' = Ctx(n),
         sleep_time'[n] = sleep_time[n], nap'[j] = nap[j]
  PROVE  Napping(n, nap[j])'
BY DEF Napping, HalfStored, Counting, Near, Turns

\* The job that executes has done something else since its sleep.
Awakes == nap' = [j \in Jobs |-> IF cpu.job = j THEN Awaken ELSE nap[j]]

\* A step of the executing code outside sleep(): its job is awake, the others
\* are not disturbed, and a slot that is taken is taken by a job that is new.
LEMMA Quiet ==
  ASSUME Inv, NapInv,
         Awakes,
         current_task' = current_task, cpu'.job = cpu.job,
         task_count' \in Int, task_count' >= task_count,
         \A j \in Jobs : phase[j] = "live" /\ j # cpu.job => phase'[j] = "live",
         \A n \in Slots : n # current_task /\ running'[n] =>
            \/ running[n] /\ stack'[n] = stack[n] /\ sleep_time'[n] = sleep_time[n]
            \/ stack'[n].job \in Jobs /\ phase[stack'[n].job] # "live"
  PROVE  NapInv'
<1>1. /\ nap \in [Jobs -> Naps]
      /\ \A j \in Jobs : NapOK(j)
      /\ \A n \in Slots, j \in Jobs : Asleep(n, j) => Napping(n, nap[j])
      /\ current_task < task_count
  BY DEF NapInv
<1>2. \A j \in Jobs : nap'[j] = IF cpu.job = j THEN Awaken ELSE nap[j]
  BY DEF Awakes
<1>3. Awaken \in Naps /\ Awaken.asked = 0 /\ Awaken.ticks = 0
  BY DEF Awaken, Naps
<1>4. nap' \in [Jobs -> Naps]
  BY <1>1, <1>3 DEF Awakes
<1>5. ASSUME NEW j \in Jobs PROVE NapOK(j)'
  <2>1. CASE cpu.job = j
    <3>1. nap'[j] = Awaken /\ TICK_BOUND \in Nat /\ TICK_INTERVAL \in Nat /\ BYTE \in Nat \ {0}
      BY <1>2, <2>1, SleepAssumption, KernelAssumption
    <3>2. 0 <= TICK_BOUND * TICK_INTERVAL /\ 0 < BYTE * BYTE
      BY <3>1
    <3> QED
      BY <1>3, <3>1, <3>2 DEF NapOK
  <2>2. CASE cpu.job # j
    BY <1>1, <1>2, <2>2 DEF NapOK
  <2> QED
    BY <2>1, <2>2
<1>6. ASSUME NEW n \in Slots, NEW j \in Jobs, Asleep(n, j)' PROVE Napping(n, nap[j])'
  <2>1. cpu.job # j /\ nap'[j] = nap[j] /\ nap[j].asked > 0
    BY <1>2, <1>3, <1>6 DEF Asleep
  <2>2. n # current_task /\ Ctx(n)' = stack'[n] /\ running'[n] /\ stack'[n].job = j
    BY <1>6, <2>1 DEF Asleep, Ctx
  <2>3. phase[j] = "live"
    BY <1>1, <2>1 DEF NapOK
  <2>4. running[n] /\ stack'[n] = stack[n] /\ sleep_time'[n] = sleep_time[n]
    BY <2>2, <2>3
  <2>5. Ctx(n)' = Ctx(n) /\ Asleep(n, j)
    BY <2>1, <2>2, <2>4 DEF Ctx, Asleep
  <2> QED
    BY <1>1, <2>1, <2>4, <2>5, Undisturbed
<1>7. current_task' < task_count'
  <2>1. current_task \in Int /\ task_count \in Int
    BY KernelAssumption DEF Inv, TypeOK, Places, Slots, Idle
  <2> QED
    BY <1>1, <2>1
<1> QED
  BY <1>4, <1>5, <1>6, <1>7 DEF NapInv

\* When the program starts nobody sleeps.
LEMMA InitNap == SInit => NapInv
<1> SUFFICES ASSUME SInit PROVE NapInv
  OBVIOUS
<1>1. nap = [j \in Jobs |-> Awaken] /\ current_task = -1 /\ task_count = 0
  BY DEF SInit, Init, Idle
<1>2. Awaken \in Naps /\ Awaken.asked = 0 /\ Awaken.ticks = 0
  BY DEF Awaken, Naps
<1>3. 0 <= TICK_BOUND * TICK_INTERVAL /\ 0 < BYTE * BYTE /\ TICK_BOUND \in Nat
  <2>1. TICK_BOUND \in Nat /\ TICK_INTERVAL \in Nat /\ BYTE \in Nat \ {0}
    BY SleepAssumption, KernelAssumption
  <2> QED
    BY <2>1
<1>4. \A j \in Jobs : NapOK(j)
  BY <1>1, <1>2, <1>3 DEF NapOK
<1>5. \A n \in Slots, j \in Jobs : ~Asleep(n, j)
  BY <1>1, <1>2 DEF Asleep
<1> QED
  BY <1>1, <1>2, <1>4, <1>5 DEF NapInv

\* run() turns main() into the idle loop.
LEMMA RunNap == Inv /\ NapInv /\ Awakes /\ Run => NapInv'
<1> SUFFICES ASSUME Inv, NapInv, Awakes, Run PROVE NapInv'
  OBVIOUS
<1>1. cpu'.job = cpu.job /\ task_count \in Int
  BY Executing, KernelAssumption DEF Run, Goto, Context, Inv, TypeOK
<1> QED
  BY <1>1, Quiet DEF Run, table, Awakes

\* The call of schedule_task().
LEMMA ScheduleCallNap ==
  Inv /\ NapInv /\ Awakes /\ (\E y \in Jobs : ScheduleCall(y)) => NapInv'
<1> SUFFICES ASSUME Inv, NapInv, Awakes, NEW y \in Jobs, ScheduleCall(y) PROVE NapInv'
  OBVIOUS
<1>1. cpu'.job = cpu.job /\ task_count \in Int
  BY Executing, KernelAssumption DEF ScheduleCall, Context, Inv, TypeOK
<1>2. \A j \in Jobs : phase[j] = "live" => phase'[j] = "live"
  BY DEF ScheduleCall, Inv, TypeOK
<1> QED
  BY <1>1, <1>2, Quiet DEF ScheduleCall, table, Awakes

\* Its test of the full table.
LEMMA ScheduleTestNap == Inv /\ NapInv /\ Awakes /\ ScheduleTest => NapInv'
<1> SUFFICES ASSUME Inv, NapInv, Awakes, ScheduleTest PROVE NapInv'
  OBVIOUS
<1>1. cpu'.job = cpu.job /\ task_count \in Int
  BY Executing, KernelAssumption DEF ScheduleTest, Context, Inv, TypeOK
<1> QED
  BY <1>1, Quiet DEF ScheduleTest, table, Awakes

\* Its search for the slot of a task that exited.
LEMMA ScheduleScanNap == Inv /\ NapInv /\ Awakes /\ ScheduleScan => NapInv'
<1> SUFFICES ASSUME Inv, NapInv, Awakes, ScheduleScan PROVE NapInv'
  OBVIOUS
<1>1. Scheduling(cpu) /\ cpu.pc = "scan"
  BY Executing DEF ScheduleScan, InSchedule
<1>2. cpu'.job = cpu.job /\ task_count \in Int
  BY Executing, KernelAssumption DEF ScheduleScan, Goto, Return, At, Context, Inv, TypeOK
<1>3. \A j \in Jobs : phase[j] = "live" => phase'[j] = "live"
  BY <1>1 DEF ScheduleScan, Inv, TypeOK, Scheduling
<1> QED
  BY <1>2, <1>3, Quiet DEF ScheduleScan, table, Awakes

\* Its count of the slots.
LEMMA ScheduleCountNap == Inv /\ NapInv /\ Awakes /\ ScheduleCount => NapInv'
<1> SUFFICES ASSUME Inv, NapInv, Awakes, ScheduleCount PROVE NapInv'
  OBVIOUS
<1>1. Scheduling(cpu) /\ cpu.pc = "count"
  BY Executing DEF ScheduleCount, InSchedule
<1>2. cpu'.job = cpu.job /\ task_count \in Int
  BY Executing, KernelAssumption DEF ScheduleCount, Goto, Context, Inv, TypeOK
<1>3. task_count' = task_count + 1
  BY <1>1 DEF ScheduleCount, Scheduling
<1> QED
  BY <1>2, <1>3, Quiet DEF ScheduleCount, Awakes

\* The frame that it lays out on the stack of a slot that is nobody's.
LEMMA ScheduleStackNap == Inv /\ NapInv /\ Awakes /\ ScheduleStack => NapInv'
<1> SUFFICES ASSUME Inv, NapInv, Awakes, ScheduleStack PROVE NapInv'
  OBVIOUS
<1>1. Scheduling(cpu) /\ cpu.pc = "stack" /\ cpu.n \in Slots /\ ~running[cpu.n]
  BY Executing DEF ScheduleStack, InSchedule, Scheduling
<1>2. cpu'.job = cpu.job /\ task_count \in Int
  BY Executing, KernelAssumption DEF ScheduleStack, Goto, Context, Inv, TypeOK
<1>3. \A n \in Slots : running[n] => stack'[n] = stack[n]
  BY <1>1, Place DEF ScheduleStack, Inv, TypeOK
<1> QED
  BY <1>2, <1>3, Quiet DEF ScheduleStack, table, Awakes

\* The slot it publishes hosts a job that has not slept yet.
LEMMA SchedulePublishNap == Inv /\ NapInv /\ Awakes /\ SchedulePublish => NapInv'
<1> SUFFICES ASSUME Inv, NapInv, Awakes, SchedulePublish PROVE NapInv'
  OBVIOUS
<1>1. /\ Scheduling(cpu) /\ cpu.pc = "publish" /\ cpu.n \in Slots /\ ~running[cpu.n]
      /\ cpu.arg \in Jobs /\ phase[cpu.arg] = "submitted" /\ stack[cpu.n] = At(cpu.arg, "run")
  BY Executing DEF SchedulePublish, InSchedule, Scheduling
<1>2. cpu'.job = cpu.job /\ task_count \in Int
  BY Executing, KernelAssumption DEF SchedulePublish, Return, At, Inv, TypeOK
<1>3. \A j \in Jobs : phase[j] = "live" => phase'[j] = "live"
  BY DEF SchedulePublish, Inv, TypeOK
<1>4. stack'[cpu.n].job \in Jobs /\ phase[stack'[cpu.n].job] # "live"
  BY <1>1 DEF SchedulePublish, At
<1>5. \A n \in Slots : n # cpu.n => running'[n] = running[n] /\ sleep_time'[n] = sleep_time[n]
  BY <1>1 DEF SchedulePublish, Inv, TypeOK
<1> QED
  BY <1>2, <1>3, <1>4, <1>5, Quiet DEF SchedulePublish, Awakes

\* exit_task() gives up the slot of the job that executes.
LEMMA ExitTaskNap == Inv /\ NapInv /\ Awakes /\ ExitTask => NapInv'
<1> SUFFICES ASSUME Inv, NapInv, Awakes, ExitTask PROVE NapInv'
  OBVIOUS
<1>1. cpu'.job = cpu.job /\ task_count \in Int
  BY Executing, KernelAssumption DEF ExitTask, Goto, Context, Inv, TypeOK
<1>2. \A j \in Jobs : phase[j] = "live" /\ j # cpu.job => phase'[j] = "live"
  BY DEF ExitTask, Inv, TypeOK
<1>3. \A n \in Slots : n # current_task => running'[n] = running[n]
  BY DEF ExitTask, Inv, TypeOK
<1> QED
  BY <1>1, <1>2, <1>3, Quiet DEF ExitTask, Awakes

-----------------------------------------------------------------------------
(* The two halves of the store in sleep().                                  *)

\* The first byte that sleep() stores is right, whichever it is.
LEMMA SleepNap == ASSUME Inv, NapInv, NEW t \in SleepTimes, SSleep(t) PROVE NapInv'
<1> DEFINE c == current_task
           s == [asked |-> t, ticks |-> 0, cut |-> {}]
<1>0. [Awaken EXCEPT !.asked = t] = s
  BY DEF Awaken
<1>1. /\ cpu.pc = "run" /\ t \in Int /\ SleepCall(t)
      /\ nap' = [nap EXCEPT ![cpu.job] = s]
      /\ UNCHANGED <<task_count, current_task, running, sp, stack, timerOn, phase>>
  <2>1. cpu.pc = "run" /\ t \in Int /\ SleepCall(t)
    BY KernelAssumption DEF SSleep, SleepCall
  <2>2. nap' = [nap EXCEPT ![cpu.job] = s]
    BY <1>0, Zenon DEF SSleep
  <2> QED
    BY <2>1, <2>2 DEF SleepCall
<1>2. c \in Slots /\ cpu.job \in Jobs /\ running[c] /\ phase[cpu.job] = "live"
  BY <1>1, Executing, Place DEF MainPC, InSchedule
<1>3. /\ nap \in [Jobs -> Naps]
      /\ \A j \in Jobs : NapOK(j)
      /\ \A n \in Slots, j \in Jobs : Asleep(n, j) => Napping(n, nap[j])
      /\ current_task < task_count
  BY DEF NapInv
<1>4. s \in Naps
  BY <1>1 DEF Naps
<1>5. \A j \in Jobs : nap'[j] = IF j = cpu.job THEN s ELSE nap[j]
  BY <1>1, <1>3
<1>6. nap' \in [Jobs -> Naps]
  BY <1>1, <1>2, <1>3, <1>4
<1>7. ASSUME NEW j \in Jobs PROVE NapOK(j)'
  <2>1. CASE j = cpu.job
    <3>1. nap'[j] = s /\ s.asked = t /\ s.ticks = 0 /\ TICK_BOUND \in Nat
      BY <1>5, <2>1, SleepAssumption
    <3>2. t <= TICK_BOUND * TICK_INTERVAL /\ 2 * t < BYTE * BYTE
      BY SleepAssumption
    <3> QED
      BY <1>1, <1>2, <1>4, <2>1, <3>1, <3>2 DEF NapOK
  <2>2. CASE j # cpu.job
    BY <1>1, <1>3, <1>5, <2>2 DEF NapOK
  <2> QED
    BY <2>1, <2>2
<1>8. \A n \in Slots : n # c => sleep_time'[n] = sleep_time[n] /\ Ctx(n)' = Ctx(n)
  BY <1>1 DEF SleepCall, StoreHi, StoreLo, Inv, TypeOK, Ctx
<1>9. /\ cpu'.job = cpu.job /\ cpu'.n = t /\ cpu'.pc \in InSleep
      /\ cpu'.pc = "low"  => Hi(sleep_time'[c]) = Hi(t)
      /\ cpu'.pc = "high" => Lo(sleep_time'[c]) = Lo(t)
  <2>1. sleep_time \in [Slots -> Int] /\ sleep_time[c] \in Int
    BY <1>2 DEF Inv, TypeOK
  <2>2. /\ Hi(t) \in 0 .. BYTE - 1 /\ Lo(t) \in 0 .. BYTE - 1
        /\ Hi(sleep_time[c]) \in 0 .. BYTE - 1 /\ Lo(sleep_time[c]) \in 0 .. BYTE - 1
    BY <1>1, <2>1, ByteRange
  <2>3. CASE StoreHi(t) /\ cpu' = [cpu EXCEPT !.pc = "low", !.n = t]
    <3>1. sleep_time'[c] = Word(Hi(t), Lo(sleep_time[c]))
      BY <1>2, <2>1, <2>3 DEF StoreHi
    <3>2. Hi(sleep_time'[c]) = Hi(t)
      BY <2>2, <3>1, BytesOfWord
    <3>3. cpu'.job = cpu.job /\ cpu'.n = t /\ cpu'.pc = "low"
      BY <2>3, Executing DEF Context
    <3> QED
      BY <3>2, <3>3 DEF InSleep
  <2>4. CASE StoreLo(t) /\ cpu' = [cpu EXCEPT !.pc = "high", !.n = t]
    <3>1. sleep_time'[c] = Word(Hi(sleep_time[c]), Lo(t))
      BY <1>2, <2>1, <2>4 DEF StoreLo
    <3>2. Lo(sleep_time'[c]) = Lo(t)
      BY <2>2, <3>1, BytesOfWord
    <3>3. cpu'.job = cpu.job /\ cpu'.n = t /\ cpu'.pc = "high"
      BY <2>4, Executing DEF Context
    <3> QED
      BY <3>2, <3>3 DEF InSleep
  <2> QED
    BY <1>1, <2>3, <2>4 DEF SleepCall
<1>10. ASSUME NEW n \in Slots, NEW j \in Jobs, Asleep(n, j)' PROVE Napping(n, nap[j])'
  <2>1. CASE n = c
    <3>1. Ctx(n)' = cpu' /\ n = current_task' /\ j = cpu.job /\ nap'[j] = s
      BY <1>1, <1>5, <1>9, <1>10, <2>1 DEF Ctx, Asleep
    <3>2. s.asked = t /\ s.ticks = 0 /\ s.cut = {}
      OBVIOUS
    <3>3. HalfStored(n, nap[j])'
      BY <1>9, <2>1, <3>1, <3>2 DEF HalfStored
    <3>4. cpu'.pc \in Inside /\ cpu'.pc # "switch" /\ cpu'.pc # "run"
      BY <1>9 DEF Inside, InSleep
    <3> QED
      BY <1>9, <3>1, <3>3, <3>4 DEF Napping
  <2>2. CASE n # c
    <3>1. Ctx(n)' = Ctx(n) /\ sleep_time'[n] = sleep_time[n] /\ running[n] /\ Ctx(n).job = j
      BY <1>1, <1>8, <1>10, <2>2 DEF Asleep
    <3>2. j # cpu.job
      BY <1>2, <2>2, <3>1 DEF Inv, OneSlotPerJob, Ctx
    <3>3. nap'[j] = nap[j] /\ Asleep(n, j)
      BY <1>5, <1>10, <3>1, <3>2 DEF Asleep
    <3> QED
      BY <1>1, <1>3, <3>1, <3>3, Undisturbed
  <2> QED
    BY <2>1, <2>2
<1> QED
  BY <1>1, <1>3, <1>6, <1>7, <1>10 DEF NapInv

\* With the second one sleep_time is the argument.
LEMMA SleepStoreNap == Inv /\ NapInv /\ SleepStore /\ UNCHANGED nap => NapInv'
<1> SUFFICES ASSUME Inv, NapInv, SleepStore, UNCHANGED nap PROVE NapInv'
  OBVIOUS
<1> DEFINE c == current_task
<1>1. /\ cpu.pc \in {"low", "high"} /\ cpu' = At(cpu.job, "switch")
      /\ UNCHANGED <<task_count, current_task, running, sp, stack, timerOn, phase, nap>>
  BY DEF SleepStore
<1>2. c \in Slots /\ cpu.job \in Jobs /\ running[c]
  BY <1>1, Executing, Place DEF MainPC, InSchedule
<1>3. cpu'.job = cpu.job /\ cpu'.pc = "switch"
  BY <1>1 DEF At
<1>4. \A n \in Slots : n # c => sleep_time'[n] = sleep_time[n] /\ Ctx(n)' = Ctx(n)
  BY <1>1 DEF SleepStore, StoreHi, StoreLo, Inv, TypeOK, Ctx
<1>5. ASSUME NEW n \in Slots, NEW j \in Jobs, Asleep(n, j)' PROVE Napping(n, nap[j])'
  <2>1. Asleep(n, j)
    <3>1. Ctx(n)'.job = Ctx(n).job
      BY <1>1, <1>3 DEF Ctx
    <3> QED
      BY <1>1, <1>5, <3>1 DEF Asleep
  <2>2. CASE n # c
    BY <1>1, <1>4, <2>1, <2>2, Undisturbed, Sleeper
  <2>3. CASE n = c
    <3> DEFINE s == nap[j]
    <3>1. /\ nap'[j] = s /\ s \in Naps /\ Ctx(n)' = cpu' /\ Ctx(n) = cpu /\ n = current_task'
          /\ sleep_time \in [Slots -> Int] /\ sleep_time[c] \in Int /\ NapOK(j)
          /\ s.asked \in Nat /\ s.asked > 0 /\ Napping(n, s) /\ TICK_INTERVAL \in Nat
      BY <1>1, <1>2, <2>1, <2>3, Sleeper DEF Ctx, Inv, TypeOK, NapInv
    <3>2. ASSUME s.cut \cap InSleep = {}
          PROVE  Counting(n, s)' /\ s.ticks = 0
      <4>1. HalfStored(n, s)
        BY <1>1, <3>1, <3>2 DEF Napping, InSleep
      <4>2. s.ticks = 0 /\ cpu.n = s.asked
        BY <3>1, <4>1 DEF HalfStored
      <4>3. sleep_time'[n] = Word(Hi(s.asked), Lo(s.asked))
        <5>1. CASE cpu.pc = "low"
          <6>1. sleep_time'[c] = Word(Hi(sleep_time[c]), Lo(s.asked))
            BY <1>2, <3>1, <4>2, <5>1 DEF SleepStore, StoreLo
          <6> QED
            BY <2>3, <3>1, <4>1, <5>1, <6>1 DEF HalfStored
        <5>2. CASE cpu.pc = "high"
          <6>1. sleep_time'[c] = Word(Hi(s.asked), Lo(sleep_time[c]))
            BY <1>2, <3>1, <4>2, <5>2 DEF SleepStore, StoreHi
          <6> QED
            BY <2>3, <3>1, <4>1, <5>2, <6>1 DEF HalfStored
        <5> QED
          BY <1>1, <5>1, <5>2
      <4>4. sleep_time'[n] = s.asked
        BY <3>1, <4>3, WordOfBytes DEF NapOK
      <4>5. s.asked = s.asked - 0 * TICK_INTERVAL
        BY <3>1
      <4> QED
        BY <3>1, <4>2, <4>4, <4>5 DEF Counting
    <3>3. Ctx(n)'.pc = "switch" /\ "switch" \notin InSleep /\ "switch" \in Inside
      BY <1>3, <3>1 DEF Inside, InSleep
    <3> QED
      BY <1>1, <3>1, <3>2, <3>3 DEF Napping
  <2> QED
    BY <2>2, <2>3
<1>6. \A j \in Jobs : NapOK(j)'
  BY <1>1 DEF NapInv, NapOK
<1> QED
  BY <1>1, <1>5, <1>6 DEF NapInv

-----------------------------------------------------------------------------
(* Steps that switch.                                                       *)

\* What a switch that leaves the code of the current place at pc does to a
\* sleeper: its slot and its code stay, and it executes only if it may run;
\* one that may run is next, or has fewer turns to wait for.
LEMMA Switched ==
  ASSUME Inv, NapInv, NEW pc \in PC, NEW sleep, NEW next,
         ChooseNextTask(sleep, next), SwitchTo(next, pc),
         NEW n \in Slots, running[n]
  PROVE  /\ Ctx(n)' = IF n = current_task THEN [cpu EXCEPT !.pc = pc] ELSE Ctx(n)
         /\ n = current_task' => sleep[n] <= 0
         /\ sleep[n] <= 0 => n = current_task' \/ Turns(n)' < Turns(n)
         /\ Turns(n) \in 1 .. MAX_TASKS /\ Turns(n)' \in 1 .. MAX_TASKS
         /\ current_task' < task_count
<1>1. next \in Places /\ Resumable(next) /\ cpu.job # NoJob
  BY Chosen, Executing DEF Inv
<1>2. /\ current_task' = next
      /\ \A p \in Places : Ctx(p)' = IF p = current_task THEN [cpu EXCEPT !.pc = pc] ELSE Ctx(p)
  BY <1>1, SwitchCtx DEF Inv
<1>3. /\ task_count \in Nat /\ task_count <= MAX_TASKS /\ MAX_TASKS \in Nat
      /\ current_task \in Int /\ -1 <= current_task /\ current_task < task_count
      /\ n \in 0 .. task_count - 1
  BY KernelAssumption DEF Inv, TypeOK, NapInv, Places, Slots, Idle, CountCoversRunning
<1>4. next \in Int /\ -1 <= next /\ next < task_count
  BY <1>1, <1>3 DEF Inv, CountCoversRunning, Resumable, Places, Slots, Idle
<1>5. Turns(n) \in 1 .. MAX_TASKS /\ Turns(n)' \in 1 .. MAX_TASKS
  BY <1>2, <1>3, <1>4 DEF Turns
<1>6. n = current_task' => sleep[n] <= 0
  BY <1>2, <1>3 DEF ChooseNextTask, Runnable, Idle
<1>7. sleep[n] <= 0 => n = current_task' \/ Turns(n)' < Turns(n)
  <2> HAVE sleep[n] <= 0
  <2>1. Runnable(running, sleep, n)
    BY DEF Runnable
  <2>2. next = n \/ Turns(n)' < Turns(n) \/ current_task' # next
    BY <1>3, <2>1, NextTurn
  <2> QED
    BY <1>2, <2>2
<1> QED
  BY <1>2, <1>4, <1>5, <1>6, <1>7, Place

\* A sleep that has passed is not kept waiting by a switch.
LEMMA StillNear ==
  ASSUME NEW n, NEW j,
         TICK_INTERVAL \in Nat, MAX_TASKS \in Nat, nap[j] \in Naps, nap'[j] \in Naps,
         nap'[j].asked = nap[j].asked,
         Turns(n) \in Int, Turns(n)' \in Int, Turns(n) >= 1, Turns(n)' >= 1,
         n # current_task, nap'[j].ticks \in {nap[j].ticks, nap[j].ticks + 1},
         n = current_task' \/ Turns(n)' < Turns(n),
         sleep_time[n] <= 0, Near(n, nap[j])
  PROVE  Near(n, nap[j])'
<1> DEFINE x == nap[j].ticks + Turns(n) - 1
           y == nap'[j].ticks + (IF n = current_task' THEN 0 ELSE Turns(n)') - 1
           limit == nap[j].asked + MAX_TASKS * TICK_INTERVAL
<1>1. x \in Int /\ y \in Int /\ y <= x /\ limit \in Int
  BY DEF Naps
<1>2. x * TICK_INTERVAL < limit
  BY DEF Near
<1>3. y * TICK_INTERVAL <= x * TICK_INTERVAL /\ y * TICK_INTERVAL \in Int /\ x * TICK_INTERVAL \in Int
  <2>1. \A u, v \in Int : u <= v => u * TICK_INTERVAL <= v * TICK_INTERVAL
    OBVIOUS
  <2> HIDE DEF x, y
  <2> QED
    BY <1>1, <2>1
<1>4. y * TICK_INTERVAL < limit
  <2> HIDE DEF x, y, limit
  <2> QED
    BY <1>1, <1>2, <1>3
<1> QED
  BY <1>4 DEF Near

\* yield(), and the switches that end sleep() and exit_task().
LEMMA SwitchNap ==
  ASSUME Inv, NapInv, NEW pc \in PC,
         \E next \in Places : ChooseNextTask(sleep_time, next) /\ SwitchTo(next, pc),
         UNCHANGED <<task_count, running, sleep_time, timerOn, phase>>,
         \/ Awakes
         \/ cpu.pc = "switch" /\ pc = "run" /\ UNCHANGED nap
  PROVE  NapInv'
<1>1. /\ nap \in [Jobs -> Naps]
      /\ \A j \in Jobs : NapOK(j)
      /\ \A n \in Slots, j \in Jobs : Asleep(n, j) => Napping(n, nap[j])
  BY DEF NapInv
<1>2. PICK next \in Places : ChooseNextTask(sleep_time, next) /\ SwitchTo(next, pc)
  OBVIOUS
<1>3. Awaken \in Naps /\ Awaken.asked = 0 /\ Awaken.ticks = 0
  BY DEF Awaken, Naps
<1>4. nap' \in [Jobs -> Naps]
  BY <1>1, <1>3 DEF Awakes
<1>5. \A j \in Jobs : nap'[j] = nap[j] \/ nap'[j] = Awaken
  BY DEF Awakes
<1>6. ASSUME NEW j \in Jobs PROVE NapOK(j)'
  <2>1. CASE nap'[j] = Awaken
    <3>1. TICK_BOUND \in Nat /\ TICK_INTERVAL \in Nat /\ BYTE \in Nat \ {0}
      BY SleepAssumption, KernelAssumption
    <3>2. 0 <= TICK_BOUND * TICK_INTERVAL /\ 0 < BYTE * BYTE
      BY <3>1
    <3> QED
      BY <1>3, <2>1, <3>1, <3>2 DEF NapOK
  <2>2. CASE nap'[j] = nap[j]
    BY <1>1, <2>2 DEF NapOK
  <2> QED
    BY <1>5, <2>1, <2>2
<1>7. current_task' < task_count'
  <2>1. next \in Int /\ next < task_count /\ current_task' = next
    <3>1. next = Idle \/ (next \in Slots /\ running[next])
      BY <1>2, Chosen, Place DEF Inv, Resumable
    <3>2. task_count \in Nat
      BY KernelAssumption DEF Inv, TypeOK
    <3> QED
      BY <1>2, <3>1, <3>2 DEF Inv, CountCoversRunning, SwitchTo, Idle, Slots
  <2> QED
    BY <2>1
<1>8. ASSUME NEW n \in Slots, NEW j \in Jobs, Asleep(n, j)' PROVE Napping(n, nap[j])'
  <2>1. running[n] /\ nap'[j] = nap[j] /\ nap[j].asked > 0
    BY <1>3, <1>5, <1>8 DEF Asleep
  <2>2. /\ Ctx(n)' = IF n = current_task THEN [cpu EXCEPT !.pc = pc] ELSE Ctx(n)
        /\ n = current_task' => sleep_time[n] <= 0
        /\ sleep_time[n] <= 0 => n = current_task' \/ Turns(n)' < Turns(n)
        /\ Turns(n) \in 1 .. MAX_TASKS /\ Turns(n)' \in 1 .. MAX_TASKS
    BY <1>2, <2>1, Switched
  <2>3. Ctx(n)'.job = Ctx(n).job /\ Asleep(n, j)
    <3>1. Ctx(n)'.job = Ctx(n).job
      BY <2>2, Executing DEF Ctx, Context
    <3> QED
      BY <1>8, <2>1, <3>1 DEF Asleep
  <2> DEFINE s == nap[j]
  <2>4. Napping(n, s) /\ s \in Naps /\ s.asked \in Nat /\ s.asked > 0 /\ s.ticks \in Nat
        /\ sleep_time[n] \in Int /\ TICK_INTERVAL \in Nat \ {0} /\ MAX_TASKS \in Nat
    BY <2>3, Sleeper, KernelAssumption
  <2>5. CASE n = current_task
    <3>1. cpu.job = j /\ Ctx(n) = cpu
      BY <2>3, <2>5 DEF Asleep, Ctx
    <3>2. cpu.pc = "switch" /\ pc = "run"
      <4>1. Awakes => nap'[j] = Awaken
        BY <3>1 DEF Awakes
      <4> QED
        BY <1>3, <2>1, <4>1
    <3>3. Ctx(n)'.pc = "run" /\ "run" \notin Inside /\ "run" \notin InSleep
          /\ "switch" \notin InSleep
      BY <2>2, <2>5, <3>2, Executing DEF Context, Inside, InSleep
    <3>4. s.cut \cap InSleep = {} => Counting(n, s)
      BY <2>4, <3>1, <3>2, <3>3 DEF Napping
    <3>5. s.cut = {} => sleep_time[n] > 0
      <4> HAVE s.cut = {}
      <4>1. s.ticks = 0 /\ Counting(n, s)
        BY <2>4, <3>1, <3>2, <3>4 DEF Napping
      <4>2. 0 * TICK_INTERVAL = 0
        BY <2>4
      <4> QED
        BY <2>4, <4>1, <4>2 DEF Counting
    <3>6. s.cut = {} => Near(n, s)'
      BY <2>1, <2>4, <3>5 DEF Near
    <3>7. s.cut \cap InSleep = {} => Counting(n, s)'
      BY <2>1, <3>4 DEF Counting
    <3> QED
      BY <2>1, <2>2, <3>3, <3>6, <3>7 DEF Napping
  <2>6. CASE n # current_task
    <3>1. Ctx(n)' = Ctx(n)
      BY <2>2, <2>6
    <3>2. Ctx(n).pc \in Inside \cup {"run"}
      BY <2>4 DEF Napping
    <3>3. s.cut \cap InSleep = {} => Ctx(n).pc \notin InSleep /\ Counting(n, s)
      BY <2>4, <2>6 DEF Napping, HalfStored
    <3>4. s.cut = {} => Ctx(n).pc # "switch"
      BY <2>4, <2>6 DEF Napping
    <3>5. s.cut = {} /\ Ctx(n).pc = "run" => Near(n, s)'
      <4> HAVE s.cut = {} /\ Ctx(n).pc = "run"
      <4>1. Near(n, s)
        BY <2>4 DEF Napping
      <4>2. CASE sleep_time[n] <= 0
        <5>1. /\ nap'[j] \in Naps /\ nap'[j].asked = nap[j].asked
              /\ nap'[j].ticks \in {nap[j].ticks, nap[j].ticks + 1}
          BY <2>1, <2>4
        <5>2. /\ TICK_INTERVAL \in Nat /\ MAX_TASKS \in Nat
              /\ Turns(n) \in Int /\ Turns(n)' \in Int /\ Turns(n) >= 1 /\ Turns(n)' >= 1
              /\ (n = current_task' \/ Turns(n)' < Turns(n))
          BY <2>2, <2>4, <4>2
        <5> QED
          BY <2>4, <2>6, <4>1, <4>2, <5>1, <5>2, StillNear
      <4>3. CASE sleep_time[n] > 0
        BY <2>4, <4>3 DEF Near
      <4> QED
        BY <2>4, <4>2, <4>3
    <3>6. Counting(n, s) => Counting(n, s)'
      BY <2>1 DEF Counting
    <3> QED
      BY <2>1, <2>2, <3>1, <3>2, <3>3, <3>4, <3>5, <3>6 DEF Napping
  <2> QED
    BY <2>5, <2>6
<1> QED
  BY <1>4, <1>6, <1>7, <1>8 DEF NapInv

-----------------------------------------------------------------------------
(* The timer interrupt.                                                     *)

\* One more interrupt, counted in the history of a sleep.
Ticked(j) ==
  IF BackFromSleep(j) THEN Awaken
  ELSE IF nap[j].asked > 0 /\ nap[j].ticks < TICK_BOUND THEN
       [nap[j] EXCEPT !.ticks = @ + 1,
                      !.cut = IF cpu.job = j THEN @ \cup ({cpu.pc} \cap Inside) ELSE @]
  ELSE nap[j]

\* A history with k interrupts, that fell in c.
Counted(s, k, c) == [s EXCEPT !.ticks = k, !.cut = c]

\* Only the interrupts of a sleep, and those that cut it, change.
LEMMA NapUpdate ==
  ASSUME NEW s \in Naps, NEW k \in Nat, NEW c \in SUBSET Inside
  PROVE  /\ Counted(s, k, c) \in Naps /\ Counted(s, k, c).asked = s.asked
         /\ Counted(s, k, c).ticks = k /\ Counted(s, k, c).cut = c
BY DEF Naps, Counted

\* What an interrupt does to the history of a job.
LEMMA TickedNap ==
  ASSUME Inv, NapInv, nap' = [j \in Jobs |-> Ticked(j)], UNCHANGED phase, NEW j \in Jobs
  PROVE  /\ nap'[j] \in Naps /\ NapOK(j)'
         /\ nap'[j].asked > 0 =>
              /\ nap'[j].asked = nap[j].asked /\ ~BackFromSleep(j)
              /\ \/ /\ nap[j].ticks < TICK_BOUND /\ nap'[j].ticks = nap[j].ticks + 1
                    /\ nap'[j].cut = IF cpu.job = j THEN nap[j].cut \cup ({cpu.pc} \cap Inside)
                                     ELSE nap[j].cut
                 \/ nap[j].ticks = TICK_BOUND /\ nap'[j] = nap[j]
<1>1. nap'[j] = Ticked(j) /\ nap[j] \in Naps /\ NapOK(j)
  BY DEF NapInv
<1>2. TICK_BOUND \in Nat /\ TICK_INTERVAL \in Nat /\ BYTE \in Nat \ {0}
  BY SleepAssumption, KernelAssumption
<1>3. CASE BackFromSleep(j)
  <2>0. nap'[j] = Awaken
    BY <1>1, <1>3, Zenon DEF Ticked
  <2>1. nap'[j] = Awaken /\ Awaken \in Naps /\ Awaken.asked = 0 /\ Awaken.ticks = 0
    BY <2>0 DEF Awaken, Naps
  <2>2. 0 <= TICK_BOUND * TICK_INTERVAL /\ 0 < BYTE * BYTE
    BY <1>2
  <2> QED
    BY <1>2, <2>1, <2>2 DEF NapOK
<1>4. CASE ~BackFromSleep(j) /\ nap[j].asked > 0 /\ nap[j].ticks < TICK_BOUND
  <2> DEFINE cut == IF cpu.job = j THEN nap[j].cut \cup ({cpu.pc} \cap Inside) ELSE nap[j].cut
  <2>1. nap'[j] = [nap[j] EXCEPT !.ticks = nap[j].ticks + 1, !.cut = cut]
    BY <1>1, <1>4 DEF Ticked
  <2>2. cut \in SUBSET Inside
    BY <1>1 DEF Naps
  <2>3. nap'[j].ticks = nap[j].ticks + 1 /\ nap'[j].cut = cut /\ nap'[j].asked = nap[j].asked
        /\ nap'[j] \in Naps
    <3>1. nap[j].ticks + 1 \in Nat
      BY <1>1 DEF Naps
    <3> HIDE DEF cut
    <3>2. nap'[j] = Counted(nap[j], nap[j].ticks + 1, cut)
      BY <2>1 DEF Counted
    <3> QED
      BY <1>1, <2>2, <3>1, <3>2, NapUpdate
  <2>4. nap[j].ticks + 1 <= TICK_BOUND
    BY <1>1, <1>2, <1>4 DEF Naps
  <2> QED
    BY <1>1, <1>4, <2>3, <2>4 DEF NapOK
<1>5. CASE ~BackFromSleep(j) /\ ~(nap[j].asked > 0 /\ nap[j].ticks < TICK_BOUND)
  <2>1. nap'[j] = nap[j]
    BY <1>1, <1>5 DEF Ticked
  <2>2. nap[j].asked > 0 => nap[j].ticks = TICK_BOUND
    BY <1>1, <1>2, <1>5 DEF NapOK, Naps
  <2> QED
    BY <1>1, <1>5, <2>1, <2>2 DEF NapOK
<1> QED
  BY <1>3, <1>4, <1>5

\* An interrupt counts the sleep down, and the sleep that it ends waits for no
\* more than a turn of each slot.
LEMMA Countdown ==
  ASSUME NEW x \in Int, NEW k \in Nat, NEW t \in Nat, NEW T \in Nat \ {0},
         \/ x > 0 /\ x = t - k * T
         \/ x <= 0 /\ k * T >= t,
         NEW y, y = IF x > 0 THEN x - T ELSE x
  PROVE  /\ \/ y > 0 /\ y = t - (k + 1) * T
            \/ y <= 0 /\ (k + 1) * T >= t
         /\ x > 0 => \A u, m \in Nat : u <= m => (k + 1 + u - 1) * T < t + m * T
<1>1. (k + 1) * T = k * T + T /\ k * T \in Int
  OBVIOUS
<1>2. ASSUME x > 0, NEW u \in Nat, NEW m \in Nat, u <= m
      PROVE  (k + 1 + u - 1) * T < t + m * T
  <2>1. k * T < t
    BY <1>1, <1>2
  <2>2. (k + 1 + u - 1) * T = k * T + u * T /\ u * T \in Int /\ m * T \in Int
    OBVIOUS
  <2>3. u * T <= m * T
    BY <1>2
  <2> QED
    BY <1>1, <2>1, <2>2, <2>3
<1> QED
  BY <1>1, <1>2

\* Until they are no longer counted.
LEMMA Saturated ==
  ASSUME NEW x \in Int, NEW k \in Nat, NEW t \in Nat, NEW T \in Nat \ {0}, t <= k * T,
         \/ x > 0 /\ x = t - k * T
         \/ x <= 0 /\ k * T >= t
  PROVE  x <= 0
<1>1. k * T \in Int
  OBVIOUS
<1> QED
  BY <1>1

\* An interrupt counts the sleeps down and switches.
LEMMA TickNap == Inv /\ NapInv /\ TimerISR /\ nap' = [j \in Jobs |-> Ticked(j)] => NapInv'
<1> SUFFICES ASSUME Inv, NapInv, TimerISR, nap' = [j \in Jobs |-> Ticked(j)] PROVE NapInv'
  OBVIOUS
<1>1. PICK next \in Places : ChooseNextTask(sleep_time', next) /\ SwitchTo(next, cpu.pc)
  BY DEF TimerISR
<1>2. UNCHANGED <<task_count, running, timerOn, phase>> /\ sleep_time' = UpdateSleepTime
      /\ cpu.pc \in PC
  BY Executing, ContextFields DEF TimerISR
<1>3. \A j \in Jobs : nap'[j] \in Naps /\ NapOK(j)'
  BY <1>2, TickedNap
<1>4. nap' \in [Jobs -> Naps]
  <2>1. \A j \in Jobs : Ticked(j) \in Naps
    BY <1>3
  <2> QED
    BY <2>1
<1>5. current_task' < task_count'
  <2>1. next \in Int /\ next < task_count /\ current_task' = next
    <3>1. next = Idle \/ (next \in Slots /\ running[next])
      BY <1>1, Chosen, Place DEF Inv, Resumable
    <3>2. task_count \in Nat
      BY KernelAssumption DEF Inv, TypeOK
    <3> QED
      BY <1>1, <3>1, <3>2 DEF Inv, CountCoversRunning, SwitchTo, Idle, Slots
  <2> QED
    BY <1>2, <2>1
<1>6. ASSUME NEW n \in Slots, NEW j \in Jobs, Asleep(n, j)' PROVE Napping(n, nap[j])'
  <2> DEFINE s == nap[j]
             r == nap'[j]
  <2>1. running[n] /\ r.asked > 0
    BY <1>2, <1>6 DEF Asleep
  <2>2. /\ Ctx(n)' = IF n = current_task THEN [cpu EXCEPT !.pc = cpu.pc] ELSE Ctx(n)
        /\ n = current_task' => sleep_time'[n] <= 0
        /\ sleep_time'[n] <= 0 => (n = current_task' \/ Turns(n)' < Turns(n))
        /\ Turns(n) \in 1 .. MAX_TASKS /\ Turns(n)' \in 1 .. MAX_TASKS
    BY <1>1, <1>2, <2>1, Switched
  <2>3. Ctx(n)' = Ctx(n)
    BY <2>2, Executing DEF Ctx, Context
  <2>4. /\ r.asked = s.asked /\ ~BackFromSleep(j)
        /\ \/ /\ s.ticks < TICK_BOUND /\ r.ticks = s.ticks + 1
              /\ r.cut = IF cpu.job = j THEN s.cut \cup ({cpu.pc} \cap Inside) ELSE s.cut
           \/ s.ticks = TICK_BOUND /\ r = s
    BY <1>2, <2>1, TickedNap
  <2>5. Asleep(n, j)
    BY <1>6, <2>1, <2>3, <2>4 DEF Asleep
  <2>6. Napping(n, s) /\ s \in Naps /\ s.asked \in Nat /\ s.asked > 0 /\ s.ticks \in Nat
        /\ sleep_time[n] \in Int /\ TICK_INTERVAL \in Nat \ {0} /\ MAX_TASKS \in Nat
        /\ (cpu.job = j => n = current_task) /\ r \in Naps
        /\ s.asked <= TICK_BOUND * TICK_INTERVAL
    BY <1>3, <2>5, Sleeper, KernelAssumption DEF NapInv, NapOK
  <2>7. sleep_time'[n] = IF sleep_time[n] > 0 THEN sleep_time[n] - TICK_INTERVAL ELSE sleep_time[n]
    BY <1>2, <2>1 DEF UpdateSleepTime, Inv, CountCoversRunning
  <2>8. n = current_task => cpu.job = j /\ Ctx(n) = cpu /\ cpu.pc # "run"
    BY <2>4, <2>5, <2>6 DEF Asleep, Ctx, BackFromSleep
  <2>9. ~(s.ticks = 0 /\ s.ticks = TICK_BOUND)
    <3>1. 0 * TICK_INTERVAL = 0
      BY <2>6
    <3> QED
      BY <2>6, <3>1
  <2>10. s.cut \subseteq r.cut
    BY <2>4
  <2>11. n = current_task /\ s.ticks = 0 /\ cpu.pc \in Inside => cpu.pc \in r.cut
    BY <2>4, <2>8, <2>9
  <2>12. r.cut \cap InSleep = {} => Ctx(n).pc \notin InSleep /\ Counting(n, s)
    <3> HAVE r.cut \cap InSleep = {}
    <3>1. IF Ctx(n).pc \in InSleep THEN HalfStored(n, s) ELSE Counting(n, s)
      BY <2>6, <2>10 DEF Napping
    <3>2. ASSUME Ctx(n).pc \in InSleep PROVE FALSE
      <4>1. n = current_task /\ s.ticks = 0
        BY <3>1, <3>2 DEF HalfStored
      <4>2. cpu.pc \in InSleep /\ cpu.pc \in Inside
        BY <2>8, <3>2, <4>1 DEF Inside
      <4> QED
        BY <2>11, <4>1, <4>2
    <3> QED
      BY <3>1, <3>2
  <2>13. Counting(n, s) => Counting(n, s)'
    <3> HAVE Counting(n, s)
    <3>1. CASE r.ticks = s.ticks + 1
      BY <2>4, <2>6, <2>7, <3>1, Countdown DEF Counting
    <3>2. CASE s.ticks = TICK_BOUND /\ r = s
      <4>1. sleep_time[n] <= 0
        BY <2>6, <3>2, Saturated DEF Counting
      <4> QED
        BY <2>6, <2>7, <3>2, <4>1 DEF Counting
    <3> QED
      BY <2>4, <3>1, <3>2
  <2>14. r.cut = {} => Ctx(n).pc # "switch"
    <3> HAVE r.cut = {}
    <3>1. ASSUME Ctx(n).pc = "switch" PROVE FALSE
      <4>1. n = current_task /\ s.ticks = 0
        BY <2>6, <2>10, <3>1 DEF Napping
      <4> QED
        BY <2>8, <2>11, <3>1, <4>1 DEF Inside
    <3> QED
      BY <3>1
  <2>15. r.cut = {} /\ Ctx(n).pc = "run" => Near(n, s)'
    <3> HAVE r.cut = {} /\ Ctx(n).pc = "run"
    <3>1. n # current_task /\ s.cut = {} /\ Near(n, s) /\ Counting(n, s)
      BY <2>6, <2>8, <2>10, <2>12 DEF Napping
    <3>2. CASE sleep_time'[n] > 0
      <4>1. sleep_time'[n] \in Int
        BY <2>6, <2>7
      <4> QED
        BY <3>2, <4>1 DEF Near
    <3>3. CASE sleep_time'[n] <= 0 /\ sleep_time[n] <= 0
      <4>1. /\ nap'[j] \in Naps /\ nap[j] \in Naps /\ nap'[j].asked = nap[j].asked
            /\ nap'[j].ticks \in {nap[j].ticks, nap[j].ticks + 1}
        BY <2>4, <2>6
      <4>2. /\ TICK_INTERVAL \in Nat /\ MAX_TASKS \in Nat
            /\ Turns(n) \in Int /\ Turns(n)' \in Int /\ Turns(n) >= 1 /\ Turns(n)' >= 1
            /\ (n = current_task' \/ Turns(n)' < Turns(n))
        BY <2>2, <2>6, <3>3
      <4> QED
        BY <3>1, <3>3, <4>1, <4>2, StillNear
    <3>4. CASE sleep_time[n] > 0
      <4>1. s.ticks # TICK_BOUND
        BY <2>6, <3>1, <3>4, Saturated DEF Counting
      <4> DEFINE u == IF n = current_task' THEN 0 ELSE Turns(n)'
      <4>2. u \in Nat /\ u <= MAX_TASKS /\ r.ticks = s.ticks + 1
        BY <2>2, <2>4, <2>6, <4>1
      <4>3. (s.ticks + 1 + u - 1) * TICK_INTERVAL < s.asked + MAX_TASKS * TICK_INTERVAL
        <5> HIDE DEF u
        <5> QED
          BY <2>6, <3>1, <3>4, <4>2, Countdown DEF Counting
      <4> QED
        BY <2>4, <4>2, <4>3 DEF Near
    <3> QED
      BY <2>6, <2>7, <3>2, <3>3, <3>4
  <2>16. Ctx(n).pc \in Inside \cup {"run"}
    BY <2>6 DEF Napping
  <2> QED
    BY <2>2, <2>3, <2>12, <2>13, <2>14, <2>15, <2>16 DEF Napping
<1> QED
  BY <1>3, <1>4, <1>5, <1>6 DEF NapInv

-----------------------------------------------------------------------------
(* The theorems.                                                            *)

\* The three calls that switch.
LEMMA SwitchesNap ==
  Inv /\ NapInv /\ ((Awakes /\ (Yield \/ ExitSwitch)) \/ (SleepSwitch /\ UNCHANGED nap)) => NapInv'
<1> SUFFICES ASSUME Inv, NapInv,
                    (Awakes /\ (Yield \/ ExitSwitch)) \/ (SleepSwitch /\ UNCHANGED nap)
             PROVE  NapInv'
  OBVIOUS
<1>1. "run" \in PC /\ "exited" \in PC
  BY DEF PC
<1>2. CASE Awakes /\ Yield
  BY <1>1, <1>2, SwitchNap DEF Yield, DoSomethingElse, table
<1>3. CASE Awakes /\ ExitSwitch
  BY <1>1, <1>3, SwitchNap DEF ExitSwitch, DoSomethingElse, table
<1>4. CASE SleepSwitch /\ UNCHANGED nap
  BY <1>1, <1>4, SwitchNap DEF SleepSwitch, DoSomethingElse, table
<1> QED
  BY <1>2, <1>3, <1>4

\* Every step keeps NapInv, in the states of the kernel's own invariant.
LEMMA NextNap == Inv /\ NapInv /\ [SNext]_svars => NapInv'
<1> SUFFICES ASSUME Inv, NapInv, [SNext]_svars PROVE NapInv'
  OBVIOUS
<1>1. CASE UNCHANGED svars
  BY <1>1 DEF svars, vars, NapInv, NapOK, Asleep, Napping, HalfStored, Counting, Near, Turns, Ctx
<1>2. CASE STick
  <2>1. nap' = [j \in Jobs |-> Ticked(j)]
    BY <1>2, Zenon DEF STick, Ticked
  <2> QED
    BY <1>2, <2>1, TickNap DEF STick
<1>3. CASE SGoing
  BY <1>3, SleepStoreNap, SwitchesNap DEF SGoing
<1>4. CASE SOther
  BY <1>4, RunNap, ScheduleCallNap, ScheduleTestNap, ScheduleScanNap, ScheduleCountNap,
     ScheduleStackNap, SchedulePublishNap, ExitTaskNap, SwitchesNap
  DEF SOther, ScheduleTask, Awakes
<1>5. CASE \E t \in SleepTimes : SSleep(t)
  BY <1>5, SleepNap
<1> QED
  BY <1>1, <1>2, <1>3, <1>4, <1>5 DEF SNext

\* A step of the model with its history is a step of the kernel.
LEMMA StepOfKernel == [SNext]_svars => [Next]_vars
BY DEF SNext, svars, STick, SGoing, SOther, SSleep, Next, Continue

\* The invariant of the kernel and that of the sleeps hold of every behaviour.
THEOREM Sleeps == ASSUME Overlap = FALSE PROVE SSpec => [](Inv /\ NapInv)
<1>1. SInit => Inv /\ NapInv
  BY InitInv, InitNap DEF SInit
<1>2. Inv /\ NapInv /\ [SNext]_svars => Inv' /\ NapInv'
  BY NextInv, NextNap, StepOfKernel
<1> QED
  BY <1>1, <1>2, PTL DEF SSpec

\* A job that is back from its sleep executes from the slot that counted it.
LEMMA Woken ==
  ASSUME Inv, NapInv, NEW j \in Jobs, BackFromSleep(j)
  PROVE  /\ current_task \in Slots /\ Asleep(current_task, j)
         /\ nap[j].asked \in Nat /\ nap[j].ticks \in Nat /\ sleep_time[current_task] \in Int
         /\ nap[j].cut \cap InSleep = {} =>
              Counting(current_task, nap[j]) /\ sleep_time[current_task] <= 0
         /\ nap[j].cut = {} => Near(current_task, nap[j])
<1>1. current_task \in Slots /\ running[current_task] /\ Ctx(current_task) = cpu /\ cpu.pc = "run"
  BY Executing, Place, KernelAssumption DEF BackFromSleep, Ctx
<1>2. Asleep(current_task, j)
  BY <1>1 DEF Asleep, BackFromSleep
<1> QED
  BY <1>1, <1>2, Sleeper DEF Napping, InSleep

\* The slot counted the sleep down before the job was chosen.
LEMMA LongEnough == Inv /\ NapInv => NoShortSleep
<1> SUFFICES ASSUME Inv, NapInv, NEW j \in Jobs, BackFromSleep(j), nap[j].cut \cap InSleep = {}
             PROVE  nap[j].ticks * TICK_INTERVAL >= nap[j].asked
  BY DEF NoShortSleep
<1> QED
  BY Woken DEF Counting

\* It did not wait for more turns than there are other slots.
LEMMA NotTooLong == Inv /\ NapInv => UncutSleepWithinTick
<1> SUFFICES ASSUME Inv, NapInv, NEW j \in Jobs, BackFromSleep(j), nap[j].cut = {}
             PROVE  WithinTick(nap[j], MAX_TASKS - 1)
  BY DEF UncutSleepWithinTick
<1> DEFINE k == nap[j].ticks
           t == nap[j].asked
<1>1. k \in Nat /\ t \in Nat /\ TICK_INTERVAL \in Nat \ {0} /\ MAX_TASKS \in Nat \ {0}
  BY Woken, KernelAssumption
<1>2. k * TICK_INTERVAL >= t /\ (k + 0 - 1) * TICK_INTERVAL < t + MAX_TASKS * TICK_INTERVAL
  BY Woken DEF Counting, Near
<1>3. 1 + (MAX_TASKS - 1) = MAX_TASKS /\ k + 0 - 1 = k - 1
  BY <1>1
<1>4. k * TICK_INTERVAL \in Int
  BY <1>1
<1> QED
  BY <1>1, <1>2, <1>3, <1>4 DEF WithinTick

\* A sleep whose bytes were stored between two interrupts never ends before its
\* argument has been counted down: for any table, any jobs, any interval, and
\* sleeps that an int can hold.
THEOREM SleepsLongEnough == ASSUME Overlap = FALSE PROVE SSpec => []NoShortSleep
BY Sleeps, LongEnough, PTL

\* And one that no interrupt fell inside is within an interval of its argument,
\* besides one turn of each of the other slots.
THEOREM SleepsWithinTick == ASSUME Overlap = FALSE PROVE SSpec => []UncutSleepWithinTick
BY Sleeps, NotTooLong, PTL

-----------------------------------------------------------------------------
(* The clock: GetMilliseconds() tells a true time, for bytes of any size and *)
(* counters of any width.                                                    *)

\* While the bytes are loaded the interrupts are off, so that those loaded are
\* those of the counter; and the counter never leaves the values it has had.
Loading == reader \in {"load", "restore"}

ClockInv ==
  /\ I \in BOOLEAN /\ oldSREG \in BOOLEAN
  /\ reader \in {"out", "cli", "load", "restore", "return"}
  /\ loaded \in 0 .. CLOCK_WIDTH
  /\ bytes \in [C!Places -> Int]
  /\ m_unTimerMilliseconds \in [C!Places -> Int]
  /\ m_unTimerMilliseconds \in seen
  /\ Loading => ~I /\ \A i \in 1 .. loaded : bytes[i] = m_unTimerMilliseconds[i]
  /\ reader = "load" => loaded < CLOCK_WIDTH
  /\ reader = "restore" => loaded = CLOCK_WIDTH
  /\ reader = "return" => bytes \in seen

\* The clock starts at zero, and nobody reads it.
LEMMA InitClock == C!Init => ClockInv
BY ClockAssumption DEF C!Init, ClockInv, Loading, C!Zero, C!Places

\* The interrupt and every statement of the reader keep ClockInv.
LEMMA NextClock == ClockInv /\ [C!Next]_(C!vars) => ClockInv'
<1> SUFFICES ASSUME ClockInv, [C!Next]_(C!vars) PROVE ClockInv'
  OBVIOUS
<1> USE ClockAssumption DEF ClockInv, Loading
<1>1. CASE C!ISR
  <2>1. C!Increment(m_unTimerMilliseconds) \in [C!Places -> Int]
    BY DEF C!Increment, C!Places
  <2> QED
    BY <1>1, <2>1 DEF C!ISR
<1>2. CASE C!SaveSREG
  BY <1>2 DEF C!SaveSREG
<1>3. CASE C!Cli
  <2>1. loaded' = 0 /\ 0 \in 0 .. CLOCK_WIDTH /\ 0 < CLOCK_WIDTH /\ 1 .. 0 = {}
    BY <1>3 DEF C!Cli
  <2>2. /\ reader' = "load" /\ ~I' /\ I' \in BOOLEAN
        /\ UNCHANGED <<m_unTimerMilliseconds, oldSREG, bytes, seen>>
    BY <1>3 DEF C!Cli
  <2> QED
    BY <2>1, <2>2
\* the last byte makes m the counter
<1>4. CASE C!Load
  <2>1. loaded + 1 \in C!Places /\ loaded + 1 \in 0 .. CLOCK_WIDTH
    BY <1>4 DEF C!Load, C!Places
  <2>2. /\ loaded' = loaded + 1
        /\ bytes' = [bytes EXCEPT ![loaded + 1] = m_unTimerMilliseconds[loaded + 1]]
        /\ reader' = IF loaded + 1 = CLOCK_WIDTH THEN "restore" ELSE "load"
        /\ UNCHANGED <<m_unTimerMilliseconds, I, oldSREG, seen>>
    BY <1>4 DEF C!Load
  <2>3. bytes' \in [C!Places -> Int]
    BY <2>1, <2>2 DEF C!Places
  <2>4. \A i \in 1 .. loaded' : bytes'[i] = m_unTimerMilliseconds'[i]
    <3>1. \A i \in 1 .. loaded : bytes[i] = m_unTimerMilliseconds[i]
      BY <1>4 DEF C!Load
    <3> QED
      BY <2>1, <2>2, <3>1 DEF C!Places
  <2> QED
    BY <1>4, <2>1, <2>2, <2>3, <2>4 DEF C!Load
<1>5. CASE C!RestoreSREG
  <2>1. \A i \in C!Places : bytes[i] = m_unTimerMilliseconds[i]
    BY <1>5 DEF C!RestoreSREG, C!Places
  <2>2. bytes = m_unTimerMilliseconds
    BY <2>1
  <2> QED
    BY <1>5, <2>2 DEF C!RestoreSREG
<1>6. CASE C!Return
  BY <1>6 DEF C!Return
<1>7. CASE UNCHANGED C!vars
  BY <1>7 DEF C!vars
<1> QED
  BY <1>1, <1>2, <1>3, <1>4, <1>5, <1>6, <1>7 DEF C!Next, C!GetMilliseconds

\* GetMilliseconds() returns a value the counter had during the call, for any
\* width: it is as right on the 32 bits of the code as on the bits of the runs.
THEOREM TrueTime == C!Spec => []TimeIsTrue
<1>1. ClockInv => TimeIsTrue
  BY DEF ClockInv, TimeIsTrue, C!TimeIsTrue
<1> QED
  BY <1>1, InitClock, NextClock, PTL DEF C!Spec

-----------------------------------------------------------------------------
(* The tasks that NFCtask() starts: how long a program takes.               *)

\* The steps of the tasks that NFCtask() starts.
Steps ==
  [op : {"wait", "busy"}, ticks : Nat] \cup [op : {"probe", "light", "attempt"}, index : U!Ports]
    \cup [op : {"append"}, port : U!Ports] \cup [op : {"try"}, left : 1 .. 3]
    \cup [op : {"exit"}]

\* The ticks of a step, those of the steps that take its place included; a chip
\* answers at the first attempt, or fails at all that are left.
Cost(x) ==
  IF x.op \in {"wait", "busy"} THEN x.ticks
  ELSE IF x.op = "probe" THEN 2 * U!Ticks(10)
  ELSE IF x.op = "light" THEN LIGHTING
  ELSE IF x.op = "attempt" THEN U!Answer
  ELSE IF x.op = "try" THEN IF x.left = 3 THEN U!Answer ELSE x.left * U!Failure
  ELSE 0

\* The program s has steps of the kinds ops, and takes c ticks at most: left
\* tells how many are left when it comes to each step.
Takes(s, ops, c) ==
  /\ s \in Seq(Steps) /\ \A i \in 1 .. Len(s) : s[i].op \in ops
  /\ \E left \in [1 .. Len(s) + 1 -> Nat] :
       left[1] <= c /\ \A i \in 1 .. Len(s) : Cost(s[i]) + left[i + 1] <= left[i]

\* A sleep has a number of ticks.
LEMMA TicksIsNat == \A ms \in Nat : U!Ticks(ms) \in Nat
<1> SUFFICES ASSUME NEW ms \in Nat PROVE U!Ticks(ms) \in Nat
  OBVIOUS
<1> DEFINE x == ms + INTERVAL - 1
<1>1. INTERVAL \in Nat \ {0} /\ x \in Nat
  BY StartupAssumption
<1>2. x = INTERVAL * (x \div INTERVAL) + (x % INTERVAL) /\ x % INTERVAL \in 0 .. INTERVAL - 1
      /\ x \div INTERVAL \in Int
  BY <1>1
<1> DEFINE q == x \div INTERVAL
<1>3. ASSUME q <= -1 PROVE FALSE
  <2>1. INTERVAL * q <= -INTERVAL
    BY <1>1, <1>2, <1>3
  <2> QED
    BY <1>1, <1>2, <2>1
<1>4. q >= 0
  BY <1>2, <1>3
<1> QED
  BY <1>2, <1>4 DEF U!Ticks

\* So has what a face takes.
LEMMA CostIsNat ==
  /\ U!Answer \in Nat /\ U!Failure \in Nat /\ U!Trouble \in Nat
  /\ U!Answer <= U!Failure /\ U!Failure + 2 * U!Failure = U!Answer + U!Trouble
  /\ \A x \in Steps : Cost(x) \in Nat
<1>1. 2 \in Nat /\ 10 \in Nat /\ 100 \in Nat
  OBVIOUS
<1>2. U!Ticks(2) \in Nat /\ U!Ticks(10) \in Nat /\ U!Ticks(100) \in Nat
  BY <1>1, TicksIsNat
<1>3. POLLS \in Nat /\ 25 - POLLS \in Nat
  BY StartupAssumption
<1>4. U!Answer \in Nat
  <2>1. 2 * POLLS * U!Ticks(10) \in Nat
    BY <1>2, <1>3
  <2> QED
    BY <1>2, <2>1 DEF U!Answer
<1>5. U!Failure \in Nat /\ U!Answer <= U!Failure
  <2> DEFINE w == (25 - POLLS) * U!Ticks(10)
             y == U!Answer
             h == U!Ticks(100)
  <2>1. w \in Nat /\ y \in Nat /\ h \in Nat
    BY <1>2, <1>3, <1>4
  <2>2. U!Failure = y + h + w
    BY DEF U!Failure
  <2> HIDE DEF w, y, h
  <2>3. y + h + w \in Nat /\ y <= y + h + w
    BY <2>1
  <2> QED
    BY <2>2, <2>3 DEF y
<1>6. U!Trouble \in Nat /\ U!Failure + 2 * U!Failure = U!Answer + U!Trouble
  <2> DEFINE y == U!Answer
             f == U!Failure
  <2>1. U!Trouble = 3 * f - y
    BY DEF U!Trouble
  <2>2. y \in Nat /\ f \in Nat /\ y <= f
    BY <1>4, <1>5
  <2> HIDE DEF y, f
  <2>3. 3 * f - y \in Nat /\ f + 2 * f = y + (3 * f - y)
    BY <2>2
  <2> QED
    BY <2>1, <2>3 DEF y, f
<1>7. ASSUME NEW x \in Steps PROVE Cost(x) \in Nat
  <2>1. CASE x.op # "try"
    BY <1>2, <1>4, <2>1, StartupAssumption DEF Steps, Cost
  <2>2. CASE x.op = "try"
    <3> DEFINE f == U!Failure
               y == U!Answer
    <3>1. x.left \in Nat /\ f \in Nat /\ y \in Nat
      BY <1>4, <1>5, <2>2 DEF Steps
    <3>2. Cost(x) = IF x.left = 3 THEN y ELSE x.left * f
      BY <2>2 DEF Cost
    <3> HIDE DEF f, y
    <3>3. x.left * f \in Nat
      BY <3>1
    <3> QED
      BY <3>1, <3>2, <3>3
  <2> QED
    BY <2>1, <2>2
<1> QED
  BY <1>4, <1>5, <1>6, <1>7

\* The empty program.
LEMMA TakesNone == ASSUME NEW ops, NEW c \in Nat PROVE Takes(<<>>, ops, c)
<1> DEFINE left == [i \in 1 .. 1 |-> 0]
<1>1. <<>> \in Seq(Steps) /\ Len(<<>>) = 0 /\ 1 .. Len(<<>>) = {}
  OBVIOUS
<1>2. left \in [1 .. Len(<<>>) + 1 -> Nat] /\ left[1] <= c
  BY <1>1
<1> HIDE DEF left
<1> QED
  BY <1>1, <1>2 DEF Takes

\* A single step.
LEMMA TakesOne ==
  ASSUME NEW ops, NEW x \in Steps, x.op \in ops
  PROVE  Takes(<<x>>, ops, Cost(x))
<1> DEFINE left == [i \in 1 .. 2 |-> IF i = 1 THEN Cost(x) ELSE 0]
<1>1. left \in [1 .. Len(<<x>>) + 1 -> Nat]
  BY CostIsNat
<1>2. left[1] = Cost(x) /\ left[2] = 0 /\ Cost(x) \in Nat
  BY CostIsNat
<1>3. <<x>> \in Seq(Steps) /\ Len(<<x>>) = 1 /\ <<x>>[1] = x
  OBVIOUS
<1>4. \A i \in 1 .. 1 : Cost(<<x>>[i]) + left[i + 1] <= left[i]
  BY <1>2, <1>3
<1> HIDE DEF left
<1> QED
  BY <1>1, <1>2, <1>3, <1>4 DEF Takes

\* More time, and more kinds of steps.
LEMMA TakesLess ==
  ASSUME NEW s, NEW ops, NEW all, ops \subseteq all, NEW c \in Nat, NEW d \in Nat, c <= d,
         Takes(s, ops, c)
  PROVE  Takes(s, all, d)
<1>1. PICK left \in [1 .. Len(s) + 1 -> Nat] :
        left[1] <= c /\ \A i \in 1 .. Len(s) : Cost(s[i]) + left[i + 1] <= left[i]
  BY DEF Takes
<1>2. s \in Seq(Steps) /\ 1 \in 1 .. Len(s) + 1 /\ left[1] \in Nat /\ left[1] <= d
  BY <1>1 DEF Takes
<1> QED
  BY <1>1, <1>2 DEF Takes

\* One program after another.
LEMMA TakesBoth ==
  ASSUME NEW s, NEW t, NEW ops, NEW c \in Nat, NEW d \in Nat, Takes(s, ops, c), Takes(t, ops, d)
  PROVE  Takes(s \o t, ops, c + d)
<1>1. PICK f \in [1 .. Len(s) + 1 -> Nat] :
        f[1] <= c /\ \A i \in 1 .. Len(s) : Cost(s[i]) + f[i + 1] <= f[i]
  BY DEF Takes
<1>2. PICK g \in [1 .. Len(t) + 1 -> Nat] :
        g[1] <= d /\ \A i \in 1 .. Len(t) : Cost(t[i]) + g[i + 1] <= g[i]
  BY DEF Takes
<1> DEFINE m == Len(s)
           k == Len(t)
           r == s \o t
           left == [i \in 1 .. Len(r) + 1 |-> IF i <= m THEN f[i] + d ELSE g[i - m]]
<1>3. /\ s \in Seq(Steps) /\ t \in Seq(Steps) /\ r \in Seq(Steps)
      /\ m \in Nat /\ k \in Nat /\ Len(r) = m + k
      /\ \A i \in 1 .. m + k : r[i] = IF i <= m THEN s[i] ELSE t[i - m]
  BY DEF Takes
<1>4. left \in [1 .. Len(r) + 1 -> Nat]
  BY <1>1, <1>2, <1>3
<1>5. \A i \in 1 .. Len(r) : r[i].op \in ops
  BY <1>3 DEF Takes
<1>6. left[1] <= c + d
  <2>1. CASE m = 0
    BY <1>2, <1>3, <2>1
  <2>2. CASE m # 0
    <3>1. 1 \in 1 .. Len(r) + 1 /\ 1 <= m
      BY <1>3, <2>2
    <3>2. left[1] = f[1] + d
      BY <3>1
    <3>3. f[1] \in Nat /\ f[1] <= c
      BY <1>1, <1>3
    <3> HIDE DEF left
    <3> QED
      BY <3>2, <3>3
  <2> QED
    BY <2>1, <2>2
<1>7. ASSUME NEW i \in 1 .. Len(r) PROVE Cost(r[i]) + left[i + 1] <= left[i]
  <2>1. i \in 1 .. m + k /\ left[i + 1] = (IF i + 1 <= m THEN f[i + 1] + d ELSE g[i + 1 - m])
        /\ left[i] = (IF i <= m THEN f[i] + d ELSE g[i - m]) /\ r[i] \in Steps
    BY <1>3
  <2>2. Cost(r[i]) \in Nat
    BY <2>1, CostIsNat
  <2>3. CASE i < m
    <3> HIDE DEF left, r
    <3>1. r[i] = s[i] /\ i \in 1 .. m /\ i \in 1 .. m + 1 /\ i + 1 \in 1 .. m + 1
      BY <1>3, <2>1, <2>3
    <3>2. Cost(s[i]) + f[i + 1] <= f[i] /\ f[i + 1] \in Nat /\ f[i] \in Nat
      BY <1>1, <3>1
    <3> QED
      BY <1>3, <2>1, <2>2, <2>3, <3>1, <3>2
  <2>4. CASE i = m
    <3>1. Cost(s[i]) + f[i + 1] <= f[i] /\ r[i] = s[i] /\ f[i + 1] \in Nat /\ f[i] \in Nat
      BY <1>1, <1>3, <2>4
    <3>2. g[1] <= d /\ g[1] \in Nat /\ i + 1 - m = 1
      BY <1>2, <1>3, <2>4
    <3> HIDE DEF left, r
    <3> QED
      BY <1>3, <2>1, <2>2, <2>4, <3>1, <3>2
  <2>5. CASE i > m
    <3>1. i - m \in 1 .. k /\ (i - m) + 1 = i + 1 - m /\ r[i] = t[i - m]
      BY <1>3, <2>1, <2>5
    <3>2. Cost(t[i - m]) + g[(i - m) + 1] <= g[i - m]
      BY <1>2, <3>1
    <3> HIDE DEF left, r
    <3> QED
      BY <1>3, <2>1, <2>5, <3>1, <3>2
  <2> HIDE DEF left, r
  <2> QED
    BY <1>3, <2>1, <2>3, <2>4, <2>5
<1> HIDE DEF left, r
<1>8. Takes(r, ops, c + d)
  BY <1>3, <1>4, <1>5, <1>6, <1>7 DEF Takes
<1> QED
  BY <1>8 DEF r

\* The rest of a program.
LEMMA TakesRest ==
  ASSUME NEW s, NEW ops, NEW c \in Nat, Takes(s, ops, c), s # <<>>
  PROVE  /\ Head(s) \in Steps /\ Head(s).op \in ops
         /\ \E d \in Nat : Takes(Tail(s), ops, d) /\ Cost(Head(s)) + d <= c
<1>1. PICK f \in [1 .. Len(s) + 1 -> Nat] :
        f[1] <= c /\ \A i \in 1 .. Len(s) : Cost(s[i]) + f[i + 1] <= f[i]
  BY DEF Takes
<1> DEFINE left == [i \in 1 .. Len(s) |-> f[i + 1]]
           t == Tail(s)
<1>2. /\ s \in Seq(Steps) /\ Len(s) \in Nat /\ Len(s) >= 1 /\ Head(s) = s[1] /\ s[1] \in Steps
      /\ t \in Seq(Steps) /\ Len(t) = Len(s) - 1 /\ Len(t) + 1 = Len(s)
      /\ \A i \in 1 .. Len(s) - 1 : t[i] = s[i + 1]
  BY DEF Takes
<1>3. Head(s).op \in ops
  BY <1>2 DEF Takes
<1>4. left \in [1 .. Len(t) + 1 -> Nat]
  BY <1>2
<1>5. f[2] \in Nat /\ Cost(s[1]) + f[2] <= f[1] /\ f[1] \in Nat /\ left[1] = f[2]
  BY <1>1, <1>2
<1>6. \A i \in 1 .. Len(t) : Cost(t[i]) + left[i + 1] <= left[i]
  BY <1>1, <1>2
<1>7. \A i \in 1 .. Len(t) : t[i].op \in ops
  BY <1>2 DEF Takes
<1>8. Takes(t, ops, f[2])
  <2> HIDE DEF left, t
  <2>1. left[1] <= f[2]
    BY <1>5
  <2>2. \E h \in [1 .. Len(t) + 1 -> Nat] :
          h[1] <= f[2] /\ \A i \in 1 .. Len(t) : Cost(t[i]) + h[i + 1] <= h[i]
    BY <1>4, <1>6, <2>1
  <2> QED
    BY <1>2, <1>7, <2>2 DEF Takes
<1>9. Cost(Head(s)) + f[2] <= c
  BY <1>1, <1>2, <1>5, CostIsNat
<1> QED
  BY <1>2, <1>3, <1>5, <1>8, <1>9

\* The place of a step in a program that is repeated: q times the program lie
\* before it, and r steps of the program.
LEMMA PlaceInRepeat ==
  ASSUME NEW n \in Nat, NEW m \in Nat \ {0}
  PROVE  /\ \A i \in 1 .. n * m : \E q \in 0 .. n - 1, r \in 0 .. m - 1 : i - 1 = q * m + r
         /\ \A q \in 0 .. n - 1, r \in 0 .. m - 1 :
              /\ (q * m + r) \div m = q /\ (q * m + r) % m = r
              /\ q * m + r + 1 \in 1 .. n * m
              /\ q * m + r + 1 = n * m <=> q = n - 1 /\ r = m - 1
<1>1. ASSUME NEW q \in 0 .. n - 1, NEW r \in 0 .. m - 1
      PROVE  /\ (q * m + r) \div m = q /\ (q * m + r) % m = r
             /\ q * m + r + 1 \in 1 .. n * m
             /\ q * m + r + 1 = n * m <=> q = n - 1 /\ r = m - 1
  <2>1. (q * m + r) \div m = q /\ (q * m + r) % m = r
    BY DivMod
  <2>2. n * m = q * m + (n - q) * m /\ (n - q) * m = m + (n - q - 1) * m
        /\ q * m \in Nat /\ n * m \in Nat /\ (n - q - 1) * m \in Nat
    OBVIOUS
  <2>3. q # n - 1 => (n - q - 1) * m >= m
    <3> SUFFICES ASSUME q # n - 1 PROVE (n - q - 1) * m >= m
      OBVIOUS
    <3>1. n - q - 1 \in Nat /\ n - q - 1 >= 1
      OBVIOUS
    <3> QED
      BY <3>1
  <2>4. q = n - 1 => (n - q - 1) * m = 0
    OBVIOUS
  <2> QED
    BY <2>1, <2>2, <2>3, <2>4
<1>2. ASSUME NEW i \in 1 .. n * m
      PROVE  \E q \in 0 .. n - 1, r \in 0 .. m - 1 : i - 1 = q * m + r
  <2> DEFINE q == (i - 1) \div m
             r == (i - 1) % m
  <2>1. i - 1 = m * q + r /\ r \in 0 .. m - 1 /\ q \in Int /\ n * m \in Int /\ i - 1 \in Int
    OBVIOUS
  <2> HIDE DEF q, r
  <2>2. q >= 0
    <3>1. ASSUME q <= -1 PROVE FALSE
      <4>1. m * q <= -m
        BY <2>1, <3>1
      <4> QED
        BY <2>1, <4>1
    <3> QED
      BY <2>1, <3>1
  <2>3. q < n
    <3>1. ASSUME q >= n PROVE FALSE
      <4>1. m * q >= n * m
        BY <2>1, <3>1
      <4> QED
        BY <2>1, <4>1
    <3> QED
      BY <2>1, <3>1
  <2>4. q \in 0 .. n - 1 /\ i - 1 = q * m + r
    BY <2>1, <2>2, <2>3
  <2> QED
    BY <2>1, <2>4
<1> QED
  BY <1>1, <1>2

\* A program several times.
LEMMA TakesRepeat ==
  ASSUME NEW s, NEW ops, NEW c \in Nat, Takes(s, ops, c), NEW n \in Nat
  PROVE  Takes(U!Repeat(s, n), ops, n * c)
<1> DEFINE m == Len(s)
           t == U!Repeat(s, n)
<1>1. s \in Seq(Steps) /\ m \in Nat /\ \A i \in 1 .. m : s[i] \in Steps /\ s[i].op \in ops
  BY DEF Takes
<1>2. n * c \in Nat
  OBVIOUS
<1>3. CASE m = 0
  <2>1. n * m = 0 /\ 1 .. n * m = {}
    BY <1>3
  <2>2. t = <<>>
    BY <2>1 DEF U!Repeat
  <2> QED
    BY <1>2, <2>2, TakesNone
<1>4. CASE m # 0
  <2>1. PICK f \in [1 .. m + 1 -> Nat] :
          f[1] <= c /\ \A i \in 1 .. m : Cost(s[i]) + f[i + 1] <= f[i]
    BY DEF Takes
  <2>2. m \in Nat \ {0} /\ n * m \in Nat
    BY <1>1, <1>4
  <2> HIDE DEF m
  <2>3. /\ \A i \in 1 .. n * m : \E q \in 0 .. n - 1, r \in 0 .. m - 1 : i - 1 = q * m + r
        /\ \A q \in 0 .. n - 1, r \in 0 .. m - 1 :
             /\ (q * m + r) \div m = q /\ (q * m + r) % m = r
             /\ q * m + r + 1 \in 1 .. n * m
             /\ q * m + r + 1 = n * m <=> q = n - 1 /\ r = m - 1
    BY <2>2, PlaceInRepeat
  <2> DEFINE place(q, r) == q * m + r + 1
             left == [i \in 1 .. n * m + 1 |->
               IF i = n * m + 1 THEN 0
               ELSE (n - 1 - ((i - 1) \div m)) * c + f[((i - 1) % m) + 1]]
  <2>4. t = [i \in 1 .. n * m |-> s[((i - 1) % m) + 1]]
    BY DEF U!Repeat, m
  <2>5. ASSUME NEW q \in 0 .. n - 1, NEW r \in 0 .. m - 1
        PROVE  /\ place(q, r) \in 1 .. n * m
               /\ t[place(q, r)] = s[r + 1] /\ left[place(q, r)] = (n - 1 - q) * c + f[r + 1]
    <3>1. place(q, r) \in 1 .. n * m /\ place(q, r) # n * m + 1 /\ place(q, r) - 1 = q * m + r
      BY <2>2, <2>3
    <3>2. (place(q, r) - 1) \div m = q /\ (place(q, r) - 1) % m = r
      BY <2>3, <3>1
    <3> HIDE DEF place, t
    <3>3. t[place(q, r)] = s[r + 1]
      BY <2>4, <3>1, <3>2
    <3>4. place(q, r) \in 1 .. n * m + 1
      BY <2>2, <3>1
    <3>5. left[place(q, r)] = (n - 1 - q) * c + f[r + 1]
      BY <3>1, <3>2, <3>4
    <3> QED
      BY <3>1, <3>3, <3>5
  <2>6. left[n * m + 1] = 0 /\ left = [i \in 1 .. n * m + 1 |-> left[i]]
    BY <2>2
  <2> HIDE DEF left, t
  <2>7. ASSUME NEW i \in 1 .. n * m
        PROVE  \E q \in 0 .. n - 1, r \in 0 .. m - 1 : i = place(q, r)
    <3>1. PICK q \in 0 .. n - 1, r \in 0 .. m - 1 : i - 1 = q * m + r
      BY <2>3
    <3>2. q * m \in Int
      BY <2>2
    <3> QED
      BY <3>1, <3>2
  <2>8. \A q \in 0 .. n - 1, r \in 0 .. m - 1 :
          /\ r + 1 \in 1 .. m /\ f[r + 1] \in Nat /\ f[r + 2] \in Nat
          /\ Cost(s[r + 1]) \in Nat /\ Cost(s[r + 1]) + f[r + 2] <= f[r + 1]
          /\ (n - 1 - q) * c \in Nat
    <3> TAKE q \in 0 .. n - 1, r \in 0 .. m - 1
    <3>1. r + 1 \in 1 .. m /\ r + 1 \in 1 .. m + 1 /\ r + 2 \in 1 .. m + 1 /\ (r + 1) + 1 = r + 2
      BY <2>2
    <3>2. Cost(s[r + 1]) + f[r + 2] <= f[r + 1] /\ f[r + 1] \in Nat /\ f[r + 2] \in Nat
      BY <2>1, <3>1
    <3>3. s[r + 1] \in Steps
      BY <1>1, <3>1 DEF m
    <3>4. (n - 1 - q) * c \in Nat
      <4>1. n - 1 - q \in Nat
        OBVIOUS
      <4> QED
        BY <4>1
    <3> QED
      BY <3>1, <3>2, <3>3, <3>4, CostIsNat
  <2>9. t \in Seq(Steps) /\ Len(t) = n * m /\ \A i \in 1 .. n * m : t[i].op \in ops
    <3>1. ASSUME NEW i \in 1 .. n * m PROVE t[i] \in Steps /\ t[i].op \in ops
      <4>1. PICK q \in 0 .. n - 1, r \in 0 .. m - 1 : i = place(q, r)
        BY <2>7
      <4>2. t[i] = s[r + 1] /\ r + 1 \in 1 .. m
        BY <2>5, <2>8, <4>1
      <4> QED
        BY <1>1, <4>2 DEF m
    <3> QED
      BY <2>2, <2>4, <3>1
  <2>10. left \in [1 .. n * m + 1 -> Nat]
    <3>1. ASSUME NEW i \in 1 .. n * m + 1 PROVE left[i] \in Nat
      <4>1. CASE i = n * m + 1
        BY <2>6, <4>1
      <4>2. CASE i # n * m + 1
        <5>1. i \in 1 .. n * m
          BY <2>2, <4>2
        <5>2. PICK q \in 0 .. n - 1, r \in 0 .. m - 1 : i = place(q, r)
          BY <2>7, <5>1
        <5>3. left[i] = (n - 1 - q) * c + f[r + 1]
          BY <2>5, <5>2
        <5>4. (n - 1 - q) * c \in Nat /\ f[r + 1] \in Nat
          BY <2>8
        <5> DEFINE w == (n - 1 - q) * c
        <5> HIDE DEF w
        <5> QED
          BY <5>3, <5>4 DEF w
      <4> QED
        BY <4>1, <4>2
    <3> QED
      BY <2>6, <3>1
  <2>11. left[1] <= n * c
    <3>1. CASE n = 0
      <4>1. n * m + 1 = 1 /\ n * c = 0
        BY <2>2, <3>1
      <4> QED
        BY <2>6, <4>1
    <3>2. CASE n # 0
      <4>1. 0 \in 0 .. n - 1 /\ 0 \in 0 .. m - 1 /\ place(0, 0) = 1
        BY <2>2, <3>2
      <4>2. left[1] = (n - 1 - 0) * c + f[0 + 1]
        BY <2>5, <4>1
      <4>3. (n - 1 - 0) * c = n * c - c /\ 0 + 1 = 1 /\ f[1] \in Nat
        BY <2>1, <2>2
      <4> QED
        BY <1>2, <2>1, <4>2, <4>3
    <3> QED
      BY <3>1, <3>2
  <2>12. ASSUME NEW i \in 1 .. n * m PROVE Cost(t[i]) + left[i + 1] <= left[i]
    <3>1. PICK q \in 0 .. n - 1, r \in 0 .. m - 1 : i = place(q, r)
      BY <2>7
    <3> DEFINE w == (n - 1 - q) * c
    <3>2. t[i] = s[r + 1] /\ left[i] = w + f[r + 1]
      BY <2>5, <3>1
    <3>6. /\ f[r + 1] \in Nat /\ f[r + 2] \in Nat /\ w \in Nat
          /\ Cost(s[r + 1]) \in Nat /\ Cost(s[r + 1]) + f[r + 2] <= f[r + 1]
      BY <2>8
    <3>3. CASE r + 1 < m
      <4>1. r + 1 \in 0 .. m - 1 /\ i + 1 = place(q, r + 1) /\ (r + 1) + 1 = r + 2
        BY <2>2, <3>1, <3>3
      <4>2. left[i + 1] = w + f[r + 2]
        BY <2>5, <4>1
      <4> HIDE DEF w, place
      <4> QED
        BY <3>2, <3>6, <4>2
    <3>4. CASE r + 1 = m /\ q + 1 < n
      <4>1. q + 1 \in 0 .. n - 1 /\ 0 \in 0 .. m - 1 /\ i + 1 = place(q + 1, 0)
        BY <2>2, <3>1, <3>4
      <4>2. left[i + 1] = (n - 1 - (q + 1)) * c + f[0 + 1]
        BY <2>5, <4>1
      <4>3. (n - 1 - (q + 1)) * c = w - c /\ f[0 + 1] = f[1] /\ f[1] \in Nat /\ f[1] <= c
        BY <2>1, <2>2
      <4>4. left[i + 1] = w - c + f[1]
        BY <4>2, <4>3
      <4> HIDE DEF w, place, t, left
      <4>5. left[i + 1] <= w /\ left[i + 1] \in Int
        BY <3>6, <4>3, <4>4
      <4>6. Cost(t[i]) \in Nat /\ Cost(t[i]) <= f[r + 1]
        BY <3>2, <3>6
      <4> QED
        BY <3>2, <3>6, <4>5, <4>6
    <3>5. CASE r + 1 = m /\ q + 1 = n
      <4>1. i = n * m
        <5>1. q = n - 1 /\ r = m - 1
          BY <2>2, <3>5
        <5> QED
          BY <2>3, <3>1, <5>1
      <4>2. left[i + 1] = 0
        BY <2>6, <4>1
      <4> HIDE DEF w, place
      <4> QED
        BY <3>2, <3>6, <4>2
    <3> QED
      BY <2>2, <3>3, <3>4, <3>5
  <2>13. \E h \in [1 .. Len(t) + 1 -> Nat] :
           h[1] <= n * c /\ \A i \in 1 .. Len(t) : Cost(t[i]) + h[i + 1] <= h[i]
    BY <2>9, <2>10, <2>11, <2>12
  <2>14. Takes(t, ops, n * c)
    BY <2>9, <2>13 DEF Takes
  <2> QED
    BY <2>14 DEF t
<1> QED
  BY <1>1, <1>3, <1>4

\* A step for each face of a list.
LEMMA TakesFaces ==
  ASSUME NEW op \in {"probe", "light", "attempt"}, NEW k \in Nat,
         \A i \in U!Ports : Cost([op |-> op, index |-> i]) = k
  PROVE  Takes(U!Face(op), {op}, NUM_PORTS * k)
<1> DEFINE t == U!Face(op)
           left == [i \in 1 .. NUM_PORTS + 1 |-> (NUM_PORTS + 1 - i) * k]
<1>1. NUM_PORTS \in Nat /\ NUM_PORTS * k \in Nat /\ U!Ports = 1 .. NUM_PORTS
  BY StartupAssumption DEF U!Ports
<1>2. t \in Seq(Steps) /\ Len(t) = NUM_PORTS
      /\ \A i \in 1 .. NUM_PORTS : t[i] = [op |-> op, index |-> i]
  <2>1. t = [i \in 1 .. NUM_PORTS |-> [op |-> op, index |-> i]]
    BY <1>1 DEF U!Face
  <2>2. \A i \in 1 .. NUM_PORTS : [op |-> op, index |-> i] \in Steps
    BY <1>1 DEF Steps
  <2> QED
    BY <1>1, <2>1, <2>2
<1>3. left \in [1 .. NUM_PORTS + 1 -> Nat]
  <2>1. \A i \in 1 .. NUM_PORTS + 1 : NUM_PORTS + 1 - i \in Nat
    BY <1>1
  <2>2. \A i \in 1 .. NUM_PORTS + 1 : (NUM_PORTS + 1 - i) * k \in Nat
    BY <2>1
  <2> QED
    BY <2>2
<1>4. left[1] = NUM_PORTS * k
  <2>1. 1 \in 1 .. NUM_PORTS + 1 /\ NUM_PORTS + 1 - 1 = NUM_PORTS
    BY <1>1
  <2> QED
    BY <2>1
<1>5. ASSUME NEW i \in 1 .. NUM_PORTS PROVE Cost(t[i]) + left[i + 1] <= left[i]
  <2>1. Cost(t[i]) = k
    BY <1>1, <1>2
  <2>2. left[i] = (NUM_PORTS + 1 - i) * k /\ left[i + 1] = (NUM_PORTS + 1 - (i + 1)) * k
    BY <1>1
  <2>3. (NUM_PORTS + 1 - i) * k = (NUM_PORTS + 1 - (i + 1)) * k + k
        /\ (NUM_PORTS + 1 - (i + 1)) * k \in Int
    BY <1>1
  <2> QED
    BY <2>1, <2>2, <2>3
<1>6. left[1] <= NUM_PORTS * k
  BY <1>1, <1>4
<1> HIDE DEF left, t
<1>7. \A i \in 1 .. Len(t) : t[i].op \in {op}
  BY <1>2
<1> DEFINE all == NUM_PORTS * k
<1> HIDE DEF all
<1>8. \E h \in [1 .. Len(t) + 1 -> Nat] :
        h[1] <= all /\ \A i \in 1 .. Len(t) : Cost(t[i]) + h[i + 1] <= h[i]
  BY <1>2, <1>3, <1>5, <1>6 DEF all
<1>9. Takes(t, {op}, all)
  BY <1>2, <1>7, <1>8 DEF Takes
<1> QED
  BY <1>9 DEF t, all

-----------------------------------------------------------------------------
(* How long the tasks that NFCtask() starts take.                           *)

\* One sleep.
LEMMA TakesSleep ==
  ASSUME NEW ms \in Nat, NEW ops, "wait" \in ops
  PROVE  Takes(U!Sleep(ms), ops, U!Ticks(ms))
<1> DEFINE x == [op |-> "wait", ticks |-> U!Ticks(ms)]
<1>1. x \in Steps /\ x.op \in ops /\ Cost(x) = U!Ticks(ms) /\ U!Sleep(ms) = <<x>>
  BY TicksIsNat DEF Steps, Cost, U!Sleep
<1> QED
  BY <1>1, TakesOne

\* One busy stretch.
LEMMA TakesBusy ==
  ASSUME NEW t \in Nat, NEW ops, "busy" \in ops
  PROVE  Takes(U!Busy(t), ops, t)
<1> DEFINE x == [op |-> "busy", ticks |-> t]
<1>1. x \in Steps /\ x.op \in ops /\ Cost(x) = t /\ U!Busy(t) = <<x>>
  BY DEF Steps, Cost, U!Busy
<1> QED
  BY <1>1, TakesOne

\* One call of the driver of the chip.
LEMMA TakesCommand ==
  LET T(ms) == U!Ticks(ms) IN
  /\ T(2) \in Nat /\ T(10) \in Nat /\ T(100) \in Nat /\ T(1000) \in Nat /\ T(5000) \in Nat
  /\ Takes(U!WriteCmd, {"wait"}, T(2) + T(100))
  /\ \A n \in Nat : n * T(10) \in Nat /\ Takes(U!ReadDt(n), {"wait"}, n * T(10))
<1>1. 2 \in Nat /\ 10 \in Nat /\ 100 \in Nat /\ 1000 \in Nat /\ 5000 \in Nat /\ "wait" \in {"wait"}
  OBVIOUS
<1>2. \A ms \in {2, 10, 100, 1000, 5000} : U!Ticks(ms) \in Nat
  BY TicksIsNat
<1>3. Takes(U!WriteCmd, {"wait"}, U!Ticks(2) + U!Ticks(100))
  BY <1>1, <1>2, TakesSleep, TakesBoth DEF U!WriteCmd
<1>4. ASSUME NEW n \in Nat
      PROVE  n * U!Ticks(10) \in Nat /\ Takes(U!ReadDt(n), {"wait"}, n * U!Ticks(10))
  <2>1. n * U!Ticks(10) \in Nat
    BY <1>2
  <2>2. Takes(U!Sleep(10), {"wait"}, U!Ticks(10))
    BY <1>1, TakesSleep
  <2> QED
    BY <1>2, <2>1, <2>2, TakesRepeat DEF U!ReadDt
<1> QED
  BY <1>2, <1>3, <1>4

\* CNFCController::Init() on a chip that answers.
LEMMA TakesAnswering ==
  ASSUME NEW n \in 0 .. POLLS
  PROVE  Takes(U!Answering(n), {"wait"}, U!Answer)
<1> DEFINE w == U!Ticks(2) + U!Ticks(100)
           p == n * U!Ticks(10)
           k == POLLS * U!Ticks(10)
<1>1. n \in Nat /\ POLLS \in Nat
  BY StartupAssumption
<1>2. w \in Nat /\ p \in Nat /\ k \in Nat /\ Takes(U!WriteCmd, {"wait"}, w)
      /\ Takes(U!ReadDt(n), {"wait"}, p)
  BY <1>1, TakesCommand
<1>3. p <= k
  <2>1. k = p + (POLLS - n) * U!Ticks(10)
    BY <1>1, TakesCommand
  <2>2. (POLLS - n) * U!Ticks(10) \in Nat
    <3>1. POLLS - n \in Nat
      BY <1>1
    <3> QED
      BY <3>1, TakesCommand
  <2> QED
    BY <1>2, <2>1, <2>2
<1>4. U!Answer = 3 * (w + 2 * k)
  <2>1. 2 * POLLS * U!Ticks(10) = 2 * k
    BY <1>1, TakesCommand
  <2> QED
    BY <2>1, TakesCommand DEF U!Answer
<1> HIDE DEF w, p, k
<1>5. Takes(U!Command(n), {"wait"}, w + p + p)
  BY <1>2, TakesBoth DEF U!Command
<1>6. Takes(U!Answering(n), {"wait"}, (w + p + p) + (w + p + p) + (w + p + p))
  <2> DEFINE c == w + p + p
  <2>1. c \in Nat /\ Takes(U!Command(n), {"wait"}, c)
    BY <1>2, <1>5
  <2> HIDE DEF c
  <2>2. Takes(U!Command(n) \o U!Command(n), {"wait"}, c + c) /\ c + c \in Nat
    BY <2>1, TakesBoth
  <2>3. Takes(U!Command(n) \o U!Command(n) \o U!Command(n), {"wait"}, c + c + c)
    BY <2>1, <2>2, TakesBoth
  <2> QED
    BY <2>3 DEF U!Answering, c
<1>7. (w + p + p) + (w + p + p) + (w + p + p) <= U!Answer
      /\ (w + p + p) + (w + p + p) + (w + p + p) \in Nat
  BY <1>2, <1>3, <1>4
<1> QED
  BY <1>6, <1>7, CostIsNat, TakesLess

\* The attempts that are left.
LEMMA TakesTry ==
  ASSUME NEW left \in 1 .. 3, NEW ops, "try" \in ops
  PROVE  Takes(U!Try(left), ops, Cost([op |-> "try", left |-> left]))
<1> DEFINE x == [op |-> "try", left |-> left]
<1>1. x \in Steps /\ x.op \in ops /\ U!Try(left) = <<x>>
  BY DEF Steps, U!Try
<1> HIDE DEF x
<1> QED
  BY <1>1, TakesOne DEF x

\* One that fails.
LEMMA TakesFailing ==
  ASSUME NEW n \in 0 .. POLLS, NEW t \in U!Failing(n)
  PROVE  Takes(t, {"wait"}, U!Failure)
<1> DEFINE w == U!Ticks(2) + U!Ticks(100)
           h == U!Ticks(100)
           p == n * U!Ticks(10)
           k == POLLS * U!Ticks(10)
           e == 25 * U!Ticks(10)
           c == w + p + p
           f == w + k + e
<1>1. n \in Nat /\ POLLS \in Nat /\ n <= POLLS /\ POLLS <= 25 /\ 25 \in Nat /\ 100 \in Nat
  BY StartupAssumption
<1>2. /\ w \in Nat /\ h \in Nat /\ p \in Nat /\ k \in Nat /\ e \in Nat
      /\ Takes(U!WriteCmd, {"wait"}, w) /\ Takes(U!Sleep(100), {"wait"}, h)
      /\ Takes(U!ReadDt(n), {"wait"}, p) /\ Takes(U!ReadDt(25), {"wait"}, e)
  <2>1. Takes(U!Sleep(100), {"wait"}, h)
    BY <1>1, TakesSleep
  <2> QED
    BY <1>1, <2>1, TakesCommand
<1>3. p <= k /\ k <= e
  <2>1. k = p + (POLLS - n) * U!Ticks(10) /\ e = k + (25 - POLLS) * U!Ticks(10)
    BY <1>1, TakesCommand
  <2>2. POLLS - n \in Nat /\ 25 - POLLS \in Nat
    BY <1>1
  <2>3. (POLLS - n) * U!Ticks(10) \in Nat /\ (25 - POLLS) * U!Ticks(10) \in Nat
    BY <2>2, TakesCommand
  <2> QED
    BY <1>2, <2>1, <2>3
<1>4. U!Failure = w + 2 * k + w + 2 * k + f + h
  <2>1. 2 * POLLS * U!Ticks(10) = 2 * k
    BY <1>1, TakesCommand
  <2>2. (25 - POLLS) * U!Ticks(10) = e - k
    BY <1>1, TakesCommand
  <2>3. U!Answer = 3 * (w + 2 * k)
    BY <2>1, TakesCommand DEF U!Answer
  <2>4. U!Failure = 3 * (w + 2 * k) + h + (e - k)
    BY <2>2, <2>3 DEF U!Failure
  <2> HIDE DEF w, h, k, e
  <2> QED
    BY <1>2, <2>4
<1> HIDE DEF w, h, p, k, e
<1>5. Takes(U!Command(n), {"wait"}, c) /\ c \in Nat
  BY <1>2, TakesBoth DEF U!Command
<1>6. f \in Nat /\ c + c \in Nat /\ c <= c + c /\ 0 <= c + c
      /\ w + e <= f /\ w + p <= f /\ w + p + e <= f /\ c <= f
      /\ w + e \in Nat /\ w + p \in Nat /\ w + p + e \in Nat
  BY <1>2, <1>3
<1>7. U!Failure = (c + c) + f + h + 4 * (k - p) /\ 4 * (k - p) \in Nat
  BY <1>2, <1>3, <1>4
<1> HIDE DEF c, f
<1>8. ASSUME NEW before \in {<<>>, U!Command(n), U!Command(n) \o U!Command(n)}
      PROVE  Takes(before, {"wait"}, c + c)
  <2>1. Takes(<<>>, {"wait"}, c + c)
    BY <1>6, TakesNone
  <2>2. Takes(U!Command(n), {"wait"}, c + c)
    BY <1>5, <1>6, TakesLess
  <2>3. Takes(U!Command(n) \o U!Command(n), {"wait"}, c + c)
    BY <1>5, TakesBoth
  <2> QED
    BY <2>1, <2>2, <2>3
<1>9. ASSUME NEW command \in U!Failed(n) PROVE Takes(command, {"wait"}, f)
  <2>1. Takes(U!WriteCmd \o U!ReadDt(25), {"wait"}, f)
    <3>1. Takes(U!WriteCmd \o U!ReadDt(25), {"wait"}, w + e)
      BY <1>2, TakesBoth
    <3> QED
      BY <1>6, <3>1, TakesLess
  <2>2. Takes(U!WriteCmd \o U!ReadDt(n), {"wait"}, w + p)
    BY <1>2, TakesBoth
  <2>3. Takes(U!WriteCmd \o U!ReadDt(n), {"wait"}, f)
    BY <1>6, <2>2, TakesLess
  <2>4. Takes(U!WriteCmd \o U!ReadDt(n) \o U!ReadDt(25), {"wait"}, f)
    <3>1. Takes(U!WriteCmd \o U!ReadDt(n) \o U!ReadDt(25), {"wait"}, w + p + e)
      BY <1>2, <1>6, <2>2, TakesBoth
    <3> QED
      BY <1>6, <3>1, TakesLess
  <2>5. Takes(U!Command(n), {"wait"}, f)
    BY <1>5, <1>6, TakesLess
  <2> QED
    BY <2>1, <2>3, <2>4, <2>5 DEF U!Failed
<1>10. PICK before \in {<<>>, U!Command(n), U!Command(n) \o U!Command(n)}, command \in U!Failed(n) :
         t = before \o command \o U!Sleep(100)
  <2> DEFINE B == {<<>>, U!Command(n), U!Command(n) \o U!Command(n)}
             F == U!Failed(n)
             Z == U!Sleep(100)
  <2>1. U!Failing(n) = {before \o command \o Z : before \in B, command \in F}
    BY DEF U!Failing
  <2> HIDE DEF B, F, Z
  <2>2. t \in {before \o command \o Z : before \in B, command \in F}
    BY <2>1
  <2>3. \E before \in B, command \in F : t = before \o command \o Z
    BY <2>2, SMT
  <2> QED
    BY <2>3, Zenon DEF B, F, Z
<1>11. Takes(before \o command, {"wait"}, (c + c) + f) /\ (c + c) + f \in Nat
  <2> DEFINE d == c + c
  <2>1. Takes(before, {"wait"}, d) /\ Takes(command, {"wait"}, f) /\ d \in Nat /\ f \in Nat
    BY <1>6, <1>8, <1>9, <1>10
  <2> HIDE DEF d
  <2>2. Takes(before \o command, {"wait"}, d + f) /\ d + f \in Nat
    BY <2>1, TakesBoth
  <2> QED
    BY <2>2 DEF d
<1>12. Takes(t, {"wait"}, (c + c) + f + h)
  BY <1>2, <1>10, <1>11, TakesBoth
<1>13. (c + c) + f + h \in Nat /\ (c + c) + f + h <= U!Failure
  BY <1>2, <1>7, <1>11
<1> QED
  BY <1>12, <1>13, CostIsNat, TakesLess

-----------------------------------------------------------------------------

\* The tasks that end, what they may do, and how long they take if every chip
\* answers at the first attempt.
Early == {"InitPortController", "InitLEDs", "InitNFC"}

Ops(n) ==
  IF n = "InitPortController" THEN {"wait", "busy", "exit", "probe", "append"}
  ELSE IF n = "InitLEDs" THEN {"wait", "busy", "exit", "light"}
  ELSE {"wait", "busy", "exit", "attempt", "try"}

Longest(n) ==
  IF n = "InitPortController" THEN U!Ticks(10) + NUM_PORTS * (2 * U!Ticks(10)) + PRINTING
  ELSE IF n = "InitLEDs" THEN NUM_PORTS * LIGHTING + PRINTING + U!Ticks(10)
  ELSE NUM_PORTS * U!Answer + PRINTING + U!Ticks(10)

\* exit_task() is the last step.
Ends(s) == s # <<>> /\ \A i \in 1 .. Len(s) : s[i].op = "exit" <=> i = Len(s)

\* exit_task() after a program that has none.
LEMMA EndsWithExit ==
  ASSUME NEW s, NEW ops, NEW c \in Nat, Takes(s, ops, c), "exit" \notin ops
  PROVE  Ends(s \o U!Exit) /\ Takes(s \o U!Exit, ops \cup {"exit"}, c)
<1> DEFINE x == [op |-> "exit"]
<1>1. U!Exit = <<x>> /\ x \in Steps /\ Cost(x) = 0 /\ x.op = "exit"
  BY DEF U!Exit, Steps, Cost
<1>2. s \in Seq(Steps) /\ \A i \in 1 .. Len(s) : s[i].op \in ops
  BY DEF Takes
<1>3. Ends(s \o <<x>>)
  <2> DEFINE t == s \o <<x>>
  <2>1. t # <<>> /\ Len(s) \in Nat /\ Len(t) = Len(s) + 1 /\ t[Len(s) + 1] = x
        /\ \A i \in 1 .. Len(s) : t[i] = s[i]
    BY <1>2
  <2> HIDE DEF t, x
  <2>2. Ends(t)
    BY <1>1, <1>2, <2>1 DEF Ends
  <2> QED
    BY <2>2 DEF t
<1>4. Takes(<<x>>, ops \cup {"exit"}, 0)
  BY <1>1, TakesOne
<1>5. Takes(s, ops \cup {"exit"}, c)
  BY TakesLess
<1>6. Takes(s \o <<x>>, ops \cup {"exit"}, c + 0)
  BY <1>4, <1>5, TakesBoth
<1> QED
  BY <1>1, <1>3, <1>6

\* Each of them ends, and in its time.
LEMMA ProgramsTake ==
  ASSUME NEW n \in Early
  PROVE  /\ Longest(n) \in Nat /\ Ends(U!Program(n))
         /\ Takes(U!Program(n), Ops(n), Longest(n))
<1>1. /\ NUM_PORTS \in Nat /\ PRINTING \in Nat /\ LIGHTING \in Nat /\ U!Answer \in Nat
      /\ U!Ticks(10) \in Nat /\ 2 * U!Ticks(10) \in Nat /\ 10 \in Nat
      /\ NUM_PORTS * (2 * U!Ticks(10)) \in Nat /\ NUM_PORTS * LIGHTING \in Nat
      /\ NUM_PORTS * U!Answer \in Nat
  <2>1. U!Ticks(10) \in Nat
    BY TicksIsNat
  <2>2. \A k \in Nat : NUM_PORTS * k \in Nat
    BY StartupAssumption
  <2> QED
    BY <2>1, <2>2, CostIsNat, StartupAssumption
<1> DEFINE T == U!Ticks(10)
           body == IF n = "InitPortController" THEN U!Sleep(10) \o U!Face("probe") \o U!Busy(PRINTING)
                   ELSE IF n = "InitLEDs" THEN U!Face("light") \o U!Busy(PRINTING) \o U!Sleep(10)
                   ELSE U!Face("attempt") \o U!Busy(PRINTING) \o U!Sleep(10)
           ops == Ops(n) \ {"exit"}
<1>2. U!Program(n) = body \o U!Exit
  BY DEF Early, U!Program, U!InitPortController, U!InitLEDs, U!InitNFC
<1>3. Takes(U!Sleep(10), ops, T) /\ Takes(U!Busy(PRINTING), ops, PRINTING)
  <2>1. "wait" \in ops /\ "busy" \in ops
    BY DEF Ops
  <2> QED
    BY <1>1, <2>1, TakesSleep, TakesBusy
<1>4. ASSUME NEW op \in {"probe", "light", "attempt"}, op \in ops, NEW k \in Nat, NUM_PORTS * k \in Nat,
             \A i \in U!Ports : Cost([op |-> op, index |-> i]) = k
      PROVE  Takes(U!Face(op), ops, NUM_PORTS * k)
  <2>1. Takes(U!Face(op), {op}, NUM_PORTS * k) /\ {op} \subseteq ops
    BY <1>4, TakesFaces
  <2> QED
    BY <1>4, <2>1, TakesLess
<1>5. Takes(body, ops, Longest(n)) /\ Longest(n) \in Nat
  <2>1. CASE n = "InitPortController"
    <3>1. Takes(U!Face("probe"), ops, NUM_PORTS * (2 * T))
      <4>1. "probe" \in ops /\ \A i \in U!Ports : Cost([op |-> "probe", index |-> i]) = 2 * T
        BY <2>1 DEF Ops, Cost
      <4> QED
        BY <1>1, <1>4, <4>1
    <3> DEFINE k == NUM_PORTS * (2 * T)
    <3>2. k \in Nat /\ T \in Nat /\ T + k \in Nat
      BY <1>1
    <3> HIDE DEF k, T, ops
    <3>3. Takes(U!Sleep(10) \o U!Face("probe"), ops, T + k)
      BY <1>3, <3>1, <3>2, TakesBoth DEF k
    <3>4. Takes(U!Sleep(10) \o U!Face("probe") \o U!Busy(PRINTING), ops, T + k + PRINTING)
      BY <1>1, <1>3, <3>2, <3>3, TakesBoth
    <3> QED
      BY <1>1, <2>1, <3>2, <3>4 DEF Longest, k, T
  <2>2. CASE n # "InitPortController"
    <3> DEFINE op == IF n = "InitLEDs" THEN "light" ELSE "attempt"
               k  == IF n = "InitLEDs" THEN LIGHTING ELSE U!Answer
    <3>1. op \in ops /\ \A i \in U!Ports : Cost([op |-> op, index |-> i]) = k
      BY <2>2 DEF Ops, Cost
    <3>2. NUM_PORTS * k \in Nat /\ k \in Nat
      BY <1>1
    <3>3. Takes(U!Face(op), ops, NUM_PORTS * k)
      BY <1>4, <3>1, <3>2
    <3> DEFINE l == NUM_PORTS * k
    <3>4. l \in Nat /\ T \in Nat /\ l + PRINTING \in Nat
      BY <1>1, <3>2
    <3> HIDE DEF l, T, ops
    <3>5. Takes(U!Face(op) \o U!Busy(PRINTING), ops, l + PRINTING)
      BY <1>1, <1>3, <3>3, <3>4, TakesBoth DEF l
    <3>6. Takes(U!Face(op) \o U!Busy(PRINTING) \o U!Sleep(10), ops, l + PRINTING + T)
      BY <1>3, <3>4, <3>5, TakesBoth
    <3>7. body = U!Face(op) \o U!Busy(PRINTING) \o U!Sleep(10)
      BY <2>2
    <3>8. Longest(n) = l + PRINTING + T
      BY <2>2 DEF Longest, l, T
    <3>9. l + PRINTING + T \in Nat
      BY <1>1, <3>4
    <3> HIDE DEF body, op
    <3> QED
      BY <3>6, <3>7, <3>8, <3>9
  <2> QED
    BY <2>1, <2>2
<1>6. ops \cup {"exit"} = Ops(n) /\ "exit" \notin ops
  BY DEF Ops
<1> HIDE DEF body, ops
<1> QED
  BY <1>2, <1>5, <1>6, EndsWithExit

-----------------------------------------------------------------------------
(* The invariant.                                                           *)

\* What a program of InitPortController() has to append to the list: the faces
\* after the k-th, in their order; next tells after which at each step.
Lists(s, k) ==
  \E next \in [1 .. Len(s) + 1 -> 0 .. NUM_PORTS] :
    /\ next[1] = k /\ next[Len(s) + 1] = NUM_PORTS
    /\ \A i \in 1 .. Len(s) :
         /\ next[i + 1] = IF s[i].op \in {"probe", "append"} THEN next[i] + 1 ELSE next[i]
         /\ s[i].op = "probe"  => s[i].index = next[i] + 1
         /\ s[i].op = "append" => s[i].port = next[i] + 1

\* The list has the faces that the task has come to and that are connected, and
\* places left for those it has not come to.
ListInv ==
  /\ connected \subseteq U!Ports /\ m_peConnectedPorts \in [U!Ports -> U!Ports \cup {0}]
  /\ stage["InitPortController"] \in {"new", "live"} =>
       \E k \in 0 .. NUM_PORTS :
         /\ Lists(todo["InitPortController"], k)
         /\ U!Listed = connected \cap 1 .. k
         /\ \A i \in U!Ports : i > k => m_peConnectedPorts[i] = 0
  /\ stage["InitPortController"] = "done" => U!Listed = connected

\* The steps that NFCtask() has before it; those of odd number are sleeps, but
\* for the last.
Ahead == Len(todo["NFCtask"])

MainInv ==
  /\ Ahead \in 0 .. 8 /\ todo["NFCtask"] = [i \in 1 .. Ahead |-> U!NFCtask[8 - Ahead + i]]
  /\ stage["NFCtask"] = IF Ahead = 0 THEN "done" ELSE "live"
  /\ stage["InteractiveMode"] = IF Ahead <= 1 THEN "live" ELSE "new"
  /\ todo["InteractiveMode"] = <<>>

\* The ticks until it starts the next task.
ToNext == pause["NFCtask"] + IF Ahead \in {3, 5, 7} THEN todo["NFCtask"][1].ticks ELSE 0

\* The ticks that faulty chips may still cost.
Allowed(n) == IF n = "InitNFC" THEN (TOLERATED - faulty) * U!Trouble ELSE 0

\* Too many chips are faulty.
Late(n) == n = "InitNFC" /\ faulty > TOLERATED

\* The task has less time left than NFCtask() sleeps.
InTime(n) ==
  \E c \in Nat : /\ Takes(todo[n], Ops(n), c)
                 /\ ~Late(n) => pause[n] + c + Allowed(n) < ToNext

Nth(n) == IF n = "InitPortController" THEN 1 ELSE IF n = "InitLEDs" THEN 2 ELSE 3

StageInv(n) ==
  /\ stage[n] \in {"new", "live", "done"}
  /\ stage[n] = "new" <=> Ahead > 9 - 2 * Nth(n)
  /\ stage[n] = "new" => todo[n] = U!Program(n) /\ pause[n] = 0
  /\ stage[n] = "live" => Ends(todo[n]) /\ InTime(n)
  /\ Ahead <= 7 - 2 * Nth(n) => stage[n] = "done" \/ Late(n)

StartTypes ==
  /\ DOMAIN stage = U!Names
  /\ DOMAIN todo = U!Names
  /\ pause \in [U!Names -> Nat]
  /\ faulty \in Nat

StartInv == StartTypes /\ MainInv /\ ListInv /\ \A n \in Early : StageInv(n)

-----------------------------------------------------------------------------

\* The tasks, and the steps of the first of them.
LEMMA TheTasks ==
  /\ U!Stages = <<"InitPortController", "InitLEDs", "InitNFC", "InteractiveMode">>
  /\ DOMAIN U!Stages = 1 .. 4
  /\ U!Names = Early \cup {"NFCtask", "InteractiveMode"}
<1>1. U!Stages = <<"InitPortController", "InitLEDs", "InitNFC", "InteractiveMode">>
      /\ DOMAIN U!Stages = 1 .. 4
  BY DEF U!Stages
<1>2. {U!Stages[i] : i \in 1 .. 4} = Early \cup {"InteractiveMode"}
  BY <1>1 DEF Early
<1> QED
  BY <1>1, <1>2 DEF U!Names

\* One program after another.
LEMMA Joined ==
  ASSUME NEW S, NEW s \in Seq(S), NEW t \in Seq(S)
  PROVE  /\ s \o t \in Seq(S) /\ Len(s \o t) = Len(s) + Len(t) /\ Len(s) \in Nat /\ Len(t) \in Nat
         /\ \A i \in 1 .. Len(s) : (s \o t)[i] = s[i]
         /\ \A i \in 1 .. Len(t) : (s \o t)[Len(s) + i] = t[i]
  OBVIOUS

\* One step more.
LEMMA OneMore ==
  ASSUME NEW S, NEW s \in Seq(S), NEW x \in S
  PROVE  /\ s \o <<x>> \in Seq(S) /\ Len(s \o <<x>>) = Len(s) + 1 /\ (s \o <<x>>)[Len(s) + 1] = x
         /\ \A i \in 1 .. Len(s) : (s \o <<x>>)[i] = s[i]
<1>1. <<x>> \in Seq(S) /\ Len(<<x>>) = 1 /\ <<x>>[1] = x /\ Len(s) \in Nat
  OBVIOUS
<1> DEFINE t == <<x>>
<1> HIDE DEF t
<1>2. s \o t \in Seq(S) /\ Len(s \o t) = Len(s) + 1 /\ (s \o t)[Len(s) + 1] = t[1]
      /\ \A i \in 1 .. Len(s) : (s \o t)[i] = s[i]
  BY <1>1 DEF t
<1> QED
  BY <1>1, <1>2 DEF t

\* The program of NFCtask(), step by step.
LEMMA NFCtaskIs ==
  LET step(k) == IF k = 8 THEN [op |-> "exit"]
                 ELSE IF k \in {1, 3, 5, 7} THEN [op |-> "start", name |-> U!Stages[(k + 1) \div 2]]
                 ELSE [op |-> "wait", ticks |-> U!Ticks(IF k = 6 THEN 5000 ELSE 1000)]
  IN  U!NFCtask = [k \in 1 .. 8 |-> step(k)]
<1> DEFINE p == [op |-> "start", name |-> "InitPortController"]
           q == [op |-> "wait", ticks |-> U!Ticks(1000)]
           c == [op |-> "start", name |-> "InitLEDs"]
           d == [op |-> "start", name |-> "InitNFC"]
           e == [op |-> "wait", ticks |-> U!Ticks(5000)]
           f == [op |-> "start", name |-> "InteractiveMode"]
           g == [op |-> "exit"]
<1>1. U!NFCtask = <<p>> \o <<q>> \o <<c>> \o <<q>> \o <<d>> \o <<e>> \o <<f>> \o <<g>>
  BY DEF U!NFCtask, U!Start, U!Sleep, U!Exit
<1>2. /\ U!Stages[(1 + 1) \div 2] = "InitPortController" /\ U!Stages[(3 + 1) \div 2] = "InitLEDs"
      /\ U!Stages[(5 + 1) \div 2] = "InitNFC" /\ U!Stages[(7 + 1) \div 2] = "InteractiveMode"
  BY TheTasks
<1> HIDE DEF p, q, c, d, e, f, g
<1> DEFINE S  == {p, q, c, d, e, f, g}
           s1 == <<p>>
           s2 == s1 \o <<q>>
           s3 == s2 \o <<c>>
           s4 == s3 \o <<q>>
           s5 == s4 \o <<d>>
           s6 == s5 \o <<e>>
           s7 == s6 \o <<f>>
           s8 == s7 \o <<g>>
<1>3. s1 \in Seq(S) /\ Len(s1) = 1 /\ s1[1] = p
  OBVIOUS
<1>4. p \in S /\ q \in S /\ c \in S /\ d \in S /\ e \in S /\ f \in S /\ g \in S
  OBVIOUS
<1> HIDE DEF S, s1, s2, s3, s4, s5, s6, s7, s8
<1>5. s2 \in Seq(S) /\ Len(s2) = 2 /\ s2[1] = p /\ s2[2] = q
  <2>1. s1 \in Seq(S) /\ q \in S
    BY <1>3, <1>4
  <2>2. s2 \in Seq(S) /\ Len(s2) = Len(s1) + 1 /\ s2[Len(s1) + 1] = q
        /\ \A i \in 1 .. Len(s1) : s2[i] = s1[i]
    BY <2>1, OneMore DEF s2
  <2> QED
    BY <1>3, <2>2
<1>6. s3 \in Seq(S) /\ Len(s3) = 3 /\ s3[1] = p /\ s3[2] = q /\ s3[3] = c
  <2>1. s2 \in Seq(S) /\ c \in S
    BY <1>5, <1>4
  <2>2. s3 \in Seq(S) /\ Len(s3) = Len(s2) + 1 /\ s3[Len(s2) + 1] = c
        /\ \A i \in 1 .. Len(s2) : s3[i] = s2[i]
    BY <2>1, OneMore DEF s3
  <2> QED
    BY <1>5, <2>2
<1>7. s4 \in Seq(S) /\ Len(s4) = 4 /\ s4[1] = p /\ s4[2] = q /\ s4[3] = c /\ s4[4] = q
  <2>1. s3 \in Seq(S) /\ q \in S
    BY <1>6, <1>4
  <2>2. s4 \in Seq(S) /\ Len(s4) = Len(s3) + 1 /\ s4[Len(s3) + 1] = q
        /\ \A i \in 1 .. Len(s3) : s4[i] = s3[i]
    BY <2>1, OneMore DEF s4
  <2> QED
    BY <1>6, <2>2
<1>8. s5 \in Seq(S) /\ Len(s5) = 5 /\ s5[1] = p /\ s5[2] = q /\ s5[3] = c /\ s5[4] = q /\ s5[5] = d
  <2>1. s4 \in Seq(S) /\ d \in S
    BY <1>7, <1>4
  <2>2. s5 \in Seq(S) /\ Len(s5) = Len(s4) + 1 /\ s5[Len(s4) + 1] = d
        /\ \A i \in 1 .. Len(s4) : s5[i] = s4[i]
    BY <2>1, OneMore DEF s5
  <2> QED
    BY <1>7, <2>2
<1>9. s6 \in Seq(S) /\ Len(s6) = 6 /\ s6[1] = p /\ s6[2] = q /\ s6[3] = c /\ s6[4] = q /\ s6[5] = d
      /\ s6[6] = e
  <2>1. s5 \in Seq(S) /\ e \in S
    BY <1>8, <1>4
  <2>2. s6 \in Seq(S) /\ Len(s6) = Len(s5) + 1 /\ s6[Len(s5) + 1] = e
        /\ \A i \in 1 .. Len(s5) : s6[i] = s5[i]
    BY <2>1, OneMore DEF s6
  <2> QED
    BY <1>8, <2>2
<1>10. s7 \in Seq(S) /\ Len(s7) = 7 /\ s7[1] = p /\ s7[2] = q /\ s7[3] = c /\ s7[4] = q /\ s7[5] = d
       /\ s7[6] = e /\ s7[7] = f
  <2>1. s6 \in Seq(S) /\ f \in S
    BY <1>9, <1>4
  <2>2. s7 \in Seq(S) /\ Len(s7) = Len(s6) + 1 /\ s7[Len(s6) + 1] = f
        /\ \A i \in 1 .. Len(s6) : s7[i] = s6[i]
    BY <2>1, OneMore DEF s7
  <2> QED
    BY <1>9, <2>2
<1>11. s8 \in Seq(S) /\ Len(s8) = 8 /\ s8[1] = p /\ s8[2] = q /\ s8[3] = c /\ s8[4] = q /\ s8[5] = d
       /\ s8[6] = e /\ s8[7] = f /\ s8[8] = g
  <2>1. s7 \in Seq(S) /\ g \in S
    BY <1>10, <1>4
  <2>2. s8 \in Seq(S) /\ Len(s8) = Len(s7) + 1 /\ s8[Len(s7) + 1] = g
        /\ \A i \in 1 .. Len(s7) : s8[i] = s7[i]
    BY <2>1, OneMore DEF s8
  <2> QED
    BY <1>10, <2>2
<1>12. U!NFCtask = s8
  BY <1>1, Zenon DEF s1, s2, s3, s4, s5, s6, s7, s8
<1> DEFINE step(k) == IF k = 8 THEN [op |-> "exit"]
                 ELSE IF k \in {1, 3, 5, 7} THEN [op |-> "start", name |-> U!Stages[(k + 1) \div 2]]
                 ELSE [op |-> "wait", ticks |-> U!Ticks(IF k = 6 THEN 5000 ELSE 1000)]
<1>13. step(1) = p /\ step(2) = q /\ step(3) = c /\ step(4) = q /\ step(5) = d /\ step(6) = e
      /\ step(7) = f /\ step(8) = g
  BY <1>2 DEF p, q, c, d, e, f, g
<1> HIDE DEF step
<1>14. s8 = [k \in 1 .. 8 |-> s8[k]]
  BY <1>11
<1>15. \A k \in 1 .. 8 : s8[k] = step(k)
  BY <1>11, <1>13
<1>16. s8 = [k \in 1 .. 8 |-> step(k)]
  BY <1>14, <1>15
<1> QED
  BY <1>12, <1>16 DEF step

\* The program of NFCtask() after its next step.
LEMMA MainRest ==
  ASSUME MainInv, todo["NFCtask"] # <<>>
  PROVE  /\ Ahead \in 1 .. 8
         /\ Head(todo["NFCtask"]) = U!NFCtask[9 - Ahead] /\ todo["NFCtask"][1] = U!NFCtask[9 - Ahead]
         /\ Len(Tail(todo["NFCtask"])) = Ahead - 1
         /\ Tail(todo["NFCtask"]) = [i \in 1 .. Ahead - 1 |-> U!NFCtask[8 - (Ahead - 1) + i]]
<1> DEFINE n == Ahead
           s == todo["NFCtask"]
<1>1. n \in 0 .. 8 /\ s = [i \in 1 .. n |-> U!NFCtask[8 - n + i]]
  BY DEF MainInv
<1>2. n # 0
  BY <1>1
<1> HIDE DEF n
<1>3. s[1] = U!NFCtask[9 - n] /\ Head(s) = s[1]
  BY <1>1, <1>2
<1>4. Tail(s) = [i \in 1 .. n - 1 |-> s[i + 1]] /\ Len(Tail(s)) = n - 1
  BY <1>1, <1>2
<1>5. Tail(s) = [i \in 1 .. n - 1 |-> U!NFCtask[8 - (n - 1) + i]]
  BY <1>1, <1>2, <1>4
<1> QED
  BY <1>1, <1>2, <1>3, <1>4, <1>5 DEF n

\* What InitPortController() is to append.
LEMMA ListsProgram == Lists(U!InitPortController, 0)
<1> DEFINE N == NUM_PORTS
           w == [op |-> "wait", ticks |-> U!Ticks(10)]
           u == [op |-> "busy", ticks |-> PRINTING]
           x == [op |-> "exit"]
           t == U!Face("probe")
           s == <<w>> \o t \o <<u>> \o <<x>>
           next == [i \in 1 .. N + 4 |-> IF i <= 2 THEN 0 ELSE IF i <= N + 2 THEN i - 2 ELSE N]
<1>1. N \in Nat /\ t = [i \in 1 .. N |-> [op |-> "probe", index |-> i]]
  BY StartupAssumption DEF U!Face, U!Ports
<1>2. U!InitPortController = s
  BY DEF U!InitPortController, U!Sleep, U!Busy, U!Exit
<1> HIDE DEF N
<1> HIDE DEF t
<1> DEFINE F == [op : {"probe"}, index : Int]
<1>3. t \in Seq(F) /\ Len(t) = N
      /\ \A i \in 1 .. N : t[i].op = "probe" /\ t[i].index = i
  <2>1. \A i \in 1 .. N : [op |-> "probe", index |-> i] \in F
    OBVIOUS
  <2> HIDE DEF F
  <2>2. [i \in 1 .. N |-> [op |-> "probe", index |-> i]] \in Seq(F)
    BY <1>1, <2>1
  <2>3. Len([i \in 1 .. N |-> [op |-> "probe", index |-> i]]) = N
    BY <1>1, <2>1
  <2> QED
    BY <1>1, <2>2, <2>3
<1>4. Len(s) = N + 3 /\ s[1] = w /\ s[N + 2] = u /\ s[N + 3] = x /\ \A i \in 1 .. N : s[i + 1] = t[i]
  <2> DEFINE G == F \cup {w, u, x}
             s1 == <<w>> \o t
             s2 == s1 \o <<u>>
  <2>1. t \in Seq(G) /\ <<w>> \in Seq(G) /\ <<u>> \in Seq(G) /\ <<x>> \in Seq(G) /\ Len(t) = N
        /\ Len(<<w>>) = 1 /\ Len(<<u>>) = 1 /\ Len(<<x>>) = 1
    <3> HIDE DEF F, w, u, x
    <3> QED
      BY <1>3
  <2> HIDE DEF G, w, u, x
  <2>2. s1 \in Seq(G) /\ Len(s1) = N + 1 /\ s1[1] = w /\ \A i \in 1 .. N : s1[i + 1] = t[i]
    BY <1>1, <2>1
  <2> HIDE DEF s1
  <2>3. s2 \in Seq(G) /\ Len(s2) = N + 2 /\ s2[N + 2] = u /\ \A i \in 1 .. N + 1 : s2[i] = s1[i]
    BY <1>1, <2>1, <2>2
  <2> HIDE DEF s2
  <2>4. Len(s2 \o <<x>>) = N + 3 /\ (s2 \o <<x>>)[N + 3] = x
        /\ \A i \in 1 .. N + 2 : (s2 \o <<x>>)[i] = s2[i]
    BY <1>1, <2>1, <2>3
  <2>5. s = s2 \o <<x>>
    BY DEF s1, s2
  <2> HIDE DEF s
  <2>6. \A i \in 1 .. N : i + 1 \in 1 .. N + 1 /\ i + 1 \in 1 .. N + 2
    BY <1>1
  <2> QED
    BY <1>1, <2>2, <2>3, <2>4, <2>5, <2>6
<1>5. next \in [1 .. N + 4 -> 0 .. N] /\ next[1] = 0 /\ next[N + 4] = N
  BY <1>1
<1>6. ASSUME NEW i \in 1 .. N + 3
      PROVE  /\ next[i + 1] = IF s[i].op \in {"probe", "append"} THEN next[i] + 1 ELSE next[i]
             /\ s[i].op = "probe"  => s[i].index = next[i] + 1
             /\ s[i].op = "append" => s[i].port = next[i] + 1
  <2>1. next[i] = (IF i <= 2 THEN 0 ELSE IF i <= N + 2 THEN i - 2 ELSE N)
        /\ next[i + 1] = (IF i + 1 <= 2 THEN 0 ELSE IF i + 1 <= N + 2 THEN (i + 1) - 2 ELSE N)
    BY <1>1
  <2> HIDE DEF next, s
  <2>2. CASE i = 1 \/ i = N + 2 \/ i = N + 3
    <3>1. s[i].op \in {"wait", "busy", "exit"}
      BY <1>4, <2>2
    <3> QED
      BY <1>1, <2>1, <2>2, <3>1
  <2>3. CASE i \in 2 .. N + 1
    <3>1. i - 1 \in 1 .. N /\ (i - 1) + 1 = i
      BY <1>1, <2>3
    <3>2. s[i] = t[i - 1]
      BY <1>4, <3>1
    <3>3. s[i].op = "probe" /\ s[i].index = i - 1
      BY <1>3, <3>1, <3>2
    <3> QED
      BY <1>1, <2>1, <2>3, <3>3
  <2> QED
    BY <1>1, <2>2, <2>3
<1> HIDE DEF next, s
<1>7. Lists(s, 0)
  <2>1. Len(s) + 1 = N + 4 /\ N = NUM_PORTS /\ Len(s) = N + 3
    BY <1>1, <1>4 DEF N
  <2>2. next \in [1 .. Len(s) + 1 -> 0 .. NUM_PORTS] /\ next[1] = 0 /\ next[Len(s) + 1] = NUM_PORTS
    BY <1>5, <2>1
  <2>3. \A i \in 1 .. Len(s) :
          /\ next[i + 1] = IF s[i].op \in {"probe", "append"} THEN next[i] + 1 ELSE next[i]
          /\ s[i].op = "probe"  => s[i].index = next[i] + 1
          /\ s[i].op = "append" => s[i].port = next[i] + 1
    BY <1>6, <2>1, Zenon
  <2> QED
    BY <2>2, <2>3, Zenon DEF Lists
<1> QED
  BY <1>2, <1>7

\* After its next step it is to append the rest.
LEMMA ListsRest ==
  ASSUME NEW s \in Seq(Steps), NEW k \in 0 .. NUM_PORTS, Lists(s, k), s # <<>>
  PROVE  /\ Head(s).op \notin {"probe", "append"} => Lists(Tail(s), k)
         /\ Head(s).op \in {"probe", "append"} => k + 1 \in 0 .. NUM_PORTS /\ Lists(Tail(s), k + 1)
         /\ Head(s).op = "probe"  => Head(s).index = k + 1
         /\ Head(s).op = "append" => Head(s).port = k + 1
         /\ Len(s) = 1 /\ Head(s).op = "exit" => k = NUM_PORTS
<1>1. PICK next \in [1 .. Len(s) + 1 -> 0 .. NUM_PORTS] :
        /\ next[1] = k /\ next[Len(s) + 1] = NUM_PORTS
        /\ \A i \in 1 .. Len(s) :
             /\ next[i + 1] = IF s[i].op \in {"probe", "append"} THEN next[i] + 1 ELSE next[i]
             /\ s[i].op = "probe"  => s[i].index = next[i] + 1
             /\ s[i].op = "append" => s[i].port = next[i] + 1
  BY DEF Lists
<1> DEFINE t == Tail(s)
           f == [i \in 1 .. Len(s) |-> next[i + 1]]
<1>2. /\ Len(s) \in Nat /\ Len(s) >= 1 /\ Head(s) = s[1] /\ NUM_PORTS \in Nat
      /\ Len(t) = Len(s) - 1 /\ Len(t) + 1 = Len(s)
      /\ \A i \in 1 .. Len(s) - 1 : t[i] = s[i + 1]
  BY StartupAssumption
<1>3. f \in [1 .. Len(t) + 1 -> 0 .. NUM_PORTS] /\ f[1] = next[2] /\ f[Len(t) + 1] = NUM_PORTS
      /\ next[2] \in 0 .. NUM_PORTS
  BY <1>1, <1>2
<1>4. /\ next[2] = IF Head(s).op \in {"probe", "append"} THEN k + 1 ELSE k
      /\ Head(s).op = "probe"  => Head(s).index = k + 1
      /\ Head(s).op = "append" => Head(s).port = k + 1
      /\ Len(s) = 1 => next[2] = NUM_PORTS
  BY <1>1, <1>2
<1>5. ASSUME NEW i \in 1 .. Len(t)
      PROVE  /\ f[i + 1] = IF t[i].op \in {"probe", "append"} THEN f[i] + 1 ELSE f[i]
             /\ t[i].op = "probe"  => t[i].index = f[i] + 1
             /\ t[i].op = "append" => t[i].port = f[i] + 1
  <2>1. t[i] = s[i + 1] /\ i + 1 \in 1 .. Len(s) /\ f[i] = next[i + 1] /\ f[i + 1] = next[(i + 1) + 1]
    BY <1>2
  <2> HIDE DEF f, t
  <2> QED
    BY <1>1, <2>1
<1> HIDE DEF f, t
<1>6. Lists(t, next[2])
  BY <1>3, <1>5 DEF Lists
<1> QED
  BY <1>2, <1>3, <1>4, <1>6 DEF t

\* The steps that probe a face append it.
LEMMA ListsProbe ==
  ASSUME NEW s \in Seq(Steps), NEW k \in 0 .. NUM_PORTS, Lists(s, k), s # <<>>, Head(s).op = "probe"
  PROVE  Lists(U!Sleep(10) \o U!Sleep(10) \o U!Append1(Head(s).index) \o Tail(s), k)
<1> DEFINE t == Tail(s)
           w == [op |-> "wait", ticks |-> U!Ticks(10)]
           y == [op |-> "append", port |-> k + 1]
           r == <<w>> \o <<w>> \o <<y>> \o t
<1>1. k + 1 \in 0 .. NUM_PORTS /\ Lists(t, k + 1) /\ Head(s).index = k + 1
  BY ListsRest
<1>2. PICK next \in [1 .. Len(t) + 1 -> 0 .. NUM_PORTS] :
        /\ next[1] = k + 1 /\ next[Len(t) + 1] = NUM_PORTS
        /\ \A i \in 1 .. Len(t) :
             /\ next[i + 1] = IF t[i].op \in {"probe", "append"} THEN next[i] + 1 ELSE next[i]
             /\ t[i].op = "probe"  => t[i].index = next[i] + 1
             /\ t[i].op = "append" => t[i].port = next[i] + 1
  BY <1>1 DEF Lists
<1> DEFINE f == [i \in 1 .. Len(t) + 4 |-> IF i <= 3 THEN k ELSE next[i - 3]]
<1>3. t \in Seq(Steps) /\ Len(t) \in Nat /\ NUM_PORTS \in Nat
  BY StartupAssumption
<1>4. U!Sleep(10) \o U!Sleep(10) \o U!Append1(Head(s).index) \o Tail(s) = r
  BY <1>1 DEF U!Sleep, U!Append1
<1> HIDE DEF t
<1>5. Len(r) = Len(t) + 3 /\ r[1] = w /\ r[2] = w /\ r[3] = y
      /\ \A i \in 1 .. Len(t) : r[i + 3] = t[i]
  <2> HIDE DEF w, y
  <2> DEFINE G == Steps \cup {w, y}
             z == <<w>> \o <<w>> \o <<y>>
  <2>1. w \in G /\ y \in G /\ <<w>> \in Seq(G) /\ Len(<<w>>) = 1 /\ <<w>>[1] = w /\ t \in Seq(G)
    BY <1>3
  <2> HIDE DEF G
  <2>2. <<w>> \o <<w>> \in Seq(G) /\ Len(<<w>> \o <<w>>) = 2 /\ (<<w>> \o <<w>>)[1] = w
        /\ (<<w>> \o <<w>>)[2] = w
    BY <2>1, OneMore
  <2>3. z \in Seq(G) /\ Len(z) = 3 /\ z[1] = w /\ z[2] = w /\ z[3] = y
    BY <2>1, <2>2, OneMore
  <2>4. r = z \o t
    BY Zenon
  <2> HIDE DEF z, r
  <2>5. /\ Len(r) = Len(z) + Len(t)
        /\ \A i \in 1 .. Len(z) : r[i] = z[i]
        /\ \A i \in 1 .. Len(t) : r[Len(z) + i] = t[i]
    <3>1. z \in Seq(G) /\ t \in Seq(G)
      BY <2>1, <2>3
    <3> QED
      BY <3>1, <2>4, Joined
  <2>6. Len(r) = 3 + Len(t) /\ (\A i \in 1 .. 3 : r[i] = z[i]) /\ \A i \in 1 .. Len(t) : r[3 + i] = t[i]
    BY <2>3, <2>5
  <2>7. \A i \in 1 .. Len(t) : 3 + i = i + 3
    BY <1>3
  <2> QED
    BY <1>3, <2>3, <2>6, <2>7
<1>6. f \in [1 .. Len(t) + 4 -> 0 .. NUM_PORTS] /\ f[1] = k /\ f[Len(t) + 4] = NUM_PORTS
      /\ f[2] = k /\ f[3] = k /\ f[4] = k + 1
      /\ \A i \in 1 .. Len(t) + 1 : f[i + 3] = next[i]
  BY <1>2, <1>3
<1>7. ASSUME NEW i \in 1 .. Len(t) + 3
      PROVE  /\ f[i + 1] = IF r[i].op \in {"probe", "append"} THEN f[i] + 1 ELSE f[i]
             /\ r[i].op = "probe"  => r[i].index = f[i] + 1
             /\ r[i].op = "append" => r[i].port = f[i] + 1
  <2> HIDE DEF f, r
  <2>1. CASE i \in {1, 2, 3}
    BY <1>5, <1>6, <2>1
  <2>2. CASE i \in 4 .. Len(t) + 3
    <3> DEFINE j == i - 3
    <3>1. j \in 1 .. Len(t) /\ j + 3 = i /\ (j + 1) + 3 = i + 1 /\ j \in 1 .. Len(t) + 1
          /\ j + 1 \in 1 .. Len(t) + 1
      BY <1>3, <2>2
    <3> HIDE DEF j
    <3>2. r[i] = t[j] /\ f[i] = next[j] /\ f[i + 1] = next[j + 1]
      BY <1>5, <1>6, <3>1
    <3> QED
      BY <1>2, <3>1, <3>2
  <2> QED
    BY <1>3, <2>1, <2>2
<1> HIDE DEF f, r
<1>8. Lists(r, k)
  <2>1. Len(r) + 1 = Len(t) + 4 /\ Len(r) = Len(t) + 3
    BY <1>3, <1>5
  <2>2. f \in [1 .. Len(r) + 1 -> 0 .. NUM_PORTS] /\ f[1] = k /\ f[Len(r) + 1] = NUM_PORTS
    BY <1>6, <2>1
  <2>3. \A i \in 1 .. Len(r) :
          /\ f[i + 1] = IF r[i].op \in {"probe", "append"} THEN f[i] + 1 ELSE f[i]
          /\ r[i].op = "probe"  => r[i].index = f[i] + 1
          /\ r[i].op = "append" => r[i].port = f[i] + 1
    BY <1>7, <2>1, Zenon
  <2> QED
    BY <2>2, <2>3, Zenon DEF Lists
<1> QED
  BY <1>4, <1>8

-----------------------------------------------------------------------------
(* One step of a task.                                                      *)

\* exit_task() stays the last step.
LEMMA EndsRest ==
  ASSUME NEW s \in Seq(Steps), Ends(s)
  PROVE  /\ Head(s).op = "exit" <=> Len(s) = 1
         /\ Head(s).op # "exit" => Ends(Tail(s))
<1>1. s # <<>> /\ Len(s) \in Nat /\ Len(s) >= 1 /\ Head(s) = s[1]
  BY DEF Ends
<1>2. \A i \in 1 .. Len(s) : s[i].op = "exit" <=> i = Len(s)
  BY DEF Ends
<1>3. Head(s).op = "exit" <=> Len(s) = 1
  <2>1. 1 \in 1 .. Len(s)
    BY <1>1
  <2>2. s[1].op = "exit" <=> 1 = Len(s)
    BY <1>2, <2>1
  <2> QED
    BY <1>1, <2>2
<1>4. ASSUME Len(s) # 1 PROVE Ends(Tail(s))
  <2> DEFINE t == Tail(s)
  <2>1. t \in Seq(Steps) /\ Len(t) = Len(s) - 1 /\ \A i \in 1 .. Len(t) : t[i] = s[i + 1]
    BY <1>1
  <2>2. t # <<>>
    BY <1>1, <1>4, <2>1
  <2> HIDE DEF t
  <2>3. ASSUME NEW i \in 1 .. Len(t) PROVE t[i].op = "exit" <=> i = Len(t)
    <3>1. i + 1 \in 1 .. Len(s) /\ t[i] = s[i + 1] /\ (i + 1 = Len(s) <=> i = Len(t))
      BY <1>1, <2>1
    <3> QED
      BY <1>2, <3>1
  <2> QED
    BY <2>2, <2>3, Zenon DEF Ends, t
<1> QED
  BY <1>3, <1>4

\* Whatever is done before.
LEMMA EndsBoth ==
  ASSUME NEW s \in Seq(Steps), Ends(s), NEW t, NEW ops, "exit" \notin ops, NEW c, Takes(t, ops, c)
  PROVE  Ends(t \o s)
<1>1. s # <<>> /\ Len(s) \in Nat /\ Len(s) >= 1
      /\ \A i \in 1 .. Len(s) : s[i].op = "exit" <=> i = Len(s)
  BY DEF Ends
<1>2. t \in Seq(Steps) /\ Len(t) \in Nat /\ \A i \in 1 .. Len(t) : t[i].op # "exit"
  BY DEF Takes
<1> DEFINE r == t \o s
<1>3. r \in Seq(Steps) /\ Len(r) = Len(t) + Len(s)
      /\ (\A i \in 1 .. Len(t) : r[i] = t[i]) /\ \A i \in 1 .. Len(s) : r[Len(t) + i] = s[i]
  BY <1>2, Joined
<1>4. r # <<>>
  BY <1>1, <1>2, <1>3
<1> HIDE DEF r
<1>5. ASSUME NEW i \in 1 .. Len(r) PROVE r[i].op = "exit" <=> i = Len(r)
  <2>1. CASE i <= Len(t)
    <3>1. i \in 1 .. Len(t) /\ i # Len(r)
      BY <1>1, <1>2, <1>3, <2>1
    <3> QED
      BY <1>2, <1>3, <3>1
  <2>2. CASE i > Len(t)
    <3> DEFINE j == i - Len(t)
    <3>1. j \in 1 .. Len(s) /\ Len(t) + j = i /\ (j = Len(s) <=> i = Len(r))
      BY <1>1, <1>2, <1>3, <2>2
    <3> HIDE DEF j
    <3>2. r[i] = s[j]
      BY <1>3, <3>1
    <3> QED
      BY <1>1, <3>1, <3>2
  <2> QED
    BY <1>1, <1>2, <1>3, <2>1, <2>2
<1> QED
  BY <1>4, <1>5, Zenon DEF Ends, r

\* A step is done, or others take its place.
LEMMA Replaced ==
  ASSUME NEW n \in Early, NEW s, Ends(s), NEW c \in Nat, Takes(s, Ops(n), c), Head(s).op # "exit"
  PROVE  /\ s \in Seq(Steps) /\ s # <<>> /\ Head(s) \in Steps /\ Head(s).op \in Ops(n)
         /\ \E e \in Nat :
              /\ Cost(Head(s)) \in Nat /\ Cost(Head(s)) + e <= c
              /\ Ends(Tail(s)) /\ Takes(Tail(s), Ops(n), e)
              /\ \A t : \A d \in Nat : Takes(t, Ops(n) \ {"exit"}, d) =>
                   Ends(t \o Tail(s)) /\ Takes(t \o Tail(s), Ops(n), d + e)
<1>1. s \in Seq(Steps) /\ s # <<>>
  BY DEF Takes, Ends
<1>2. PICK e \in Nat : Takes(Tail(s), Ops(n), e) /\ Cost(Head(s)) + e <= c
  BY <1>1, TakesRest
<1>3. Head(s) \in Steps /\ Head(s).op \in Ops(n)
  BY <1>1, TakesRest
<1>4. Ends(Tail(s)) /\ Tail(s) \in Seq(Steps)
  BY <1>1, EndsRest
<1>5. ASSUME NEW t, NEW d \in Nat, Takes(t, Ops(n) \ {"exit"}, d)
      PROVE  Ends(t \o Tail(s)) /\ Takes(t \o Tail(s), Ops(n), d + e)
  <2>1. Takes(t, Ops(n), d)
    BY <1>5, TakesLess
  <2>2. "exit" \notin Ops(n) \ {"exit"}
    OBVIOUS
  <2>3. Ends(t \o Tail(s))
    BY <1>4, <1>5, <2>2, EndsBoth, Zenon
  <2> QED
    BY <1>2, <2>1, <2>3, TakesBoth
<1>6. Cost(Head(s)) \in Nat
  BY <1>3, CostIsNat
<1> QED
  BY <1>1, <1>2, <1>3, <1>4, <1>5, <1>6

\* The frame of a task that does not step.
LEMMA StageSame ==
  ASSUME NEW n \in Early, StageInv(n), stage'[n] = stage[n], todo'[n] = todo[n],
         pause'[n] = pause[n], Ahead' = Ahead, ToNext' = ToNext, n = "InitNFC" => faulty' = faulty
  PROVE  StageInv(n)'
<1>1. Allowed(n)' = Allowed(n) /\ (Late(n)' <=> Late(n))
  BY DEF Allowed, Late
<1>2. InTime(n) => InTime(n)'
  BY <1>1 DEF InTime
<1> QED
  BY <1>1, <1>2 DEF StageInv

\* A live task steps, and the time of its steps gets no longer.
LEMMA Proceeds ==
  ASSUME StartTypes, MainInv, \A m \in Early : StageInv(m),
         NEW n \in Early, stage[n] = "live", stage' = stage,
         NEW r, Ends(r), todo' = [todo EXCEPT ![n] = r],
         NEW x \in Nat, pause' = [pause EXCEPT ![n] = x],
         NEW e \in Nat, Takes(r, Ops(n), e),
         faulty' \in Nat, n # "InitNFC" => faulty' = faulty, Late(n) => Late(n)',
         ~Late(n)' => x + e + Allowed(n)' < ToNext
  PROVE  StartTypes' /\ MainInv' /\ \A m \in Early : StageInv(m)'
<1>1. n \in U!Names /\ n # "NFCtask" /\ n # "InteractiveMode" /\ DOMAIN todo = U!Names
      /\ "NFCtask" \in U!Names /\ "InteractiveMode" \in U!Names
  BY TheTasks DEF Early, StartTypes
<1>2. StartTypes'
  BY <1>1 DEF StartTypes
<1>3. todo'[n] = r /\ pause'[n] = x /\ \A m \in U!Names : m # n => todo'[m] = todo[m] /\ pause'[m] = pause[m]
  BY <1>1 DEF StartTypes
<1>4. Ahead' = Ahead /\ ToNext' = ToNext
  BY <1>1, <1>3 DEF Ahead, ToNext
<1>5. MainInv'
  <2>1. todo'["NFCtask"] = todo["NFCtask"] /\ todo'["InteractiveMode"] = todo["InteractiveMode"]
    BY <1>1, <1>3
  <2> QED
    BY <1>4, <2>1 DEF MainInv
<1>6. StageInv(n)'
  <2>1. InTime(n)'
    BY <1>3, <1>4 DEF InTime
  <2>2. StageInv(n) /\ stage'[n] = "live" /\ stage[n] = "live"
    OBVIOUS
  <2> QED
    BY <1>3, <1>4, <2>1, <2>2 DEF StageInv
<1>7. ASSUME NEW m \in Early, m # n PROVE StageInv(m)'
  <2>1. m \in U!Names /\ todo'[m] = todo[m] /\ pause'[m] = pause[m] /\ stage'[m] = stage[m]
    BY <1>3, <1>7, TheTasks
  <2>2. StageInv(m) /\ (m = "InitNFC" => faulty' = faulty)
    BY <1>7
  <2> QED
    BY <1>4, <2>1, <2>2, StageSame
<1> QED
  BY <1>2, <1>5, <1>6, <1>7

\* A set of numbers has a least one.
LEMMA LeastOf ==
  ASSUME NEW S, S \subseteq Nat, S # {}
  PROVE  \E i \in S : \A k \in S : i <= k
<1> DEFINE Less == {ss \in Nat \X Nat : ss[1] < ss[2]}
<1>1. IsWellFoundedOn(Less, Nat)
  BY NatLessThanWellFounded DEF OpToRel
<1>2. \A x, y \in Nat : <<x, y>> \in Less <=> x < y
  OBVIOUS
<1> HIDE DEF Less
<1>3. PICK i \in S : \A k \in S : ~ (<<k, i>> \in Less)
  BY <1>1, WFMin
<1>4. \A k \in S : ~ (k < i) /\ k \in Nat /\ i \in Nat
  BY <1>2, <1>3
<1>5. \A k \in S : i <= k
  BY <1>4
<1> QED
  BY <1>3, <1>5

\* How long NFCtask() sleeps yet.
LEMMA NextIs ==
  ASSUME StartTypes, MainInv
  PROVE  /\ ToNext \in Nat /\ Ahead \in 0 .. 8 /\ pause["NFCtask"] \in Nat
         /\ ToNext = pause["NFCtask"]
              + IF Ahead \in {5, 7} THEN U!Ticks(1000) ELSE IF Ahead = 3 THEN U!Ticks(5000) ELSE 0
<1>1. pause["NFCtask"] \in Nat
  BY TheTasks DEF StartTypes
<1>2. Ahead \in 0 .. 8
  BY DEF MainInv
<1>3. U!Ticks(1000) \in Nat /\ U!Ticks(5000) \in Nat
  BY TicksIsNat
<1>4. ASSUME Ahead \in {3, 5, 7}
      PROVE  todo["NFCtask"][1].ticks = IF Ahead = 3 THEN U!Ticks(5000) ELSE U!Ticks(1000)
  <2>1. todo["NFCtask"] # <<>>
    <3>1. Len(<<>>) = 0
      OBVIOUS
    <3>2. Ahead # 0
      BY <1>4
    <3> QED
      BY <3>1, <3>2 DEF Ahead
  <2>2. todo["NFCtask"][1] = U!NFCtask[9 - Ahead]
    BY <2>1, MainRest
  <2>3. U!NFCtask[9 - Ahead] = [op |-> "wait", ticks |-> U!Ticks(IF 9 - Ahead = 6 THEN 5000 ELSE 1000)]
    <3>1. 9 - Ahead \in 1 .. 8 /\ 9 - Ahead \notin {1, 3, 5, 7, 8}
      BY <1>4
    <3> DEFINE k == 9 - Ahead
    <3> HIDE DEF k
    <3>2. k \in 1 .. 8 /\ k \notin {1, 3, 5, 7, 8}
      BY <3>1 DEF k
    <3>3. U!NFCtask[k] = [op |-> "wait", ticks |-> U!Ticks(IF k = 6 THEN 5000 ELSE 1000)]
      BY <3>2, NFCtaskIs
    <3> QED
      BY <3>3 DEF k
  <2>4. todo["NFCtask"][1].ticks = U!Ticks(IF 9 - Ahead = 6 THEN 5000 ELSE 1000)
    BY <2>2, <2>3
  <2> QED
    BY <1>4, <2>4
<1> QED
  BY <1>1, <1>2, <1>3, <1>4 DEF ToNext

\* A live task has the time that its steps take.
LEMMA Lively ==
  ASSUME StartInv, NEW n \in Early, stage[n] = "live"
  PROVE  /\ n \in U!Names /\ pause[n] \in Nat /\ Ends(todo[n]) /\ Allowed(n) \in Int
         /\ \E c \in Nat : /\ Takes(todo[n], Ops(n), c)
                           /\ ~Late(n) => pause[n] + c + Allowed(n) < ToNext
<1>1. n \in U!Names /\ pause[n] \in Nat
  BY TheTasks DEF StartInv, StartTypes
<1>2. StageInv(n)
  BY DEF StartInv
<1>3. TOLERATED \in Nat /\ faulty \in Nat /\ U!Trouble \in Nat
  BY StartupAssumption, CostIsNat DEF StartInv, StartTypes
<1>4. Allowed(n) \in Int
  BY <1>3 DEF Allowed
<1> QED
  BY <1>1, <1>2, <1>4 DEF StageInv, InTime

\* The list of faces is none of the other tasks' concern.
LEMMA ListSame ==
  ASSUME ListInv, UNCHANGED <<m_peConnectedPorts, connected>>,
         stage'["InitPortController"] = stage["InitPortController"],
         \A k \in 0 .. NUM_PORTS :
           Lists(todo["InitPortController"], k) => Lists(todo'["InitPortController"], k)
  PROVE  ListInv'
<1> DEFINE p == "InitPortController"
<1>1. U!Listed' = U!Listed
  BY DEF U!Listed
<1>2. ASSUME stage'[p] \in {"new", "live"}
      PROVE  \E k \in 0 .. NUM_PORTS :
               /\ Lists(todo'[p], k) /\ U!Listed' = connected' \cap 1 .. k
               /\ \A i \in U!Ports : i > k => m_peConnectedPorts'[i] = 0
  BY <1>1, <1>2 DEF ListInv
<1> QED
  BY <1>1, <1>2 DEF ListInv

\* A step that other steps take the place of.
LEMMA Move ==
  ASSUME StartInv, NEW n \in Early, stage[n] = "live", stage' = stage,
         UNCHANGED <<m_peConnectedPorts, connected>>,
         NEW r, Ends(r), todo' = [todo EXCEPT ![n] = r],
         n = "InitPortController" => \A k \in 0 .. NUM_PORTS : Lists(todo[n], k) => Lists(r, k),
         NEW x \in Nat, pause' = [pause EXCEPT ![n] = x],
         NEW e \in Nat, Takes(r, Ops(n), e),
         faulty' \in Nat, n # "InitNFC" => faulty' = faulty, Late(n) => Late(n)',
         ~Late(n)' => x + e + Allowed(n)' < ToNext
  PROVE  StartInv'
<1>1. StartTypes /\ MainInv /\ ListInv /\ \A m \in Early : StageInv(m)
  BY DEF StartInv
<1>2. StartTypes' /\ MainInv' /\ \A m \in Early : StageInv(m)'
  BY <1>1, Proceeds
<1>3. ListInv'
  <2>1. DOMAIN todo = U!Names /\ n \in U!Names /\ "InitPortController" \in U!Names
    BY <1>1, TheTasks DEF StartTypes, Early
  <2>2. todo'["InitPortController"] = IF n = "InitPortController" THEN r ELSE todo["InitPortController"]
    BY <2>1
  <2>3. \A k \in 0 .. NUM_PORTS :
          Lists(todo["InitPortController"], k) => Lists(todo'["InitPortController"], k)
    BY <2>2
  <2> QED
    BY <1>1, <2>3, ListSame
<1> QED
  BY <1>2, <1>3, Zenon DEF StartInv

\* What a live task that is awake does of its program.
LEMMA Awake ==
  ASSUME StartInv, NEW n \in Early, NEW op, U!At(n, op), op # "exit"
  PROVE  /\ stage[n] = "live" /\ pause[n] = 0 /\ todo[n] # <<>> /\ op = Head(todo[n]).op
         /\ todo[n] \in Seq(Steps) /\ Head(todo[n]) \in Steps /\ op \in Ops(n)
         /\ Allowed(n) \in Int /\ ToNext \in Nat
         /\ pause = [pause EXCEPT ![n] = 0] /\ faulty \in Nat
         /\ \E e \in Nat :
              /\ Cost(Head(todo[n])) \in Nat
              /\ ~Late(n) => Cost(Head(todo[n])) + e + Allowed(n) < ToNext
              /\ Ends(Tail(todo[n])) /\ Takes(Tail(todo[n]), Ops(n), e)
              /\ \A t : \A d \in Nat : Takes(t, Ops(n) \ {"exit"}, d) =>
                   Ends(t \o Tail(todo[n])) /\ Takes(t \o Tail(todo[n]), Ops(n), d + e)
<1> DEFINE s == todo[n]
<1>1. stage[n] = "live" /\ pause[n] = 0 /\ s # <<>> /\ Head(s).op = op
  BY DEF U!At
<1>2. PICK c \in Nat : Takes(s, Ops(n), c) /\ (~Late(n) => pause[n] + c + Allowed(n) < ToNext)
  BY <1>1, Lively
<1>3. Ends(s) /\ Allowed(n) \in Int /\ n \in U!Names
  BY <1>1, Lively
<1>4. ToNext \in Nat
  BY NextIs DEF StartInv
<1>5. pause = [pause EXCEPT ![n] = 0] /\ faulty \in Nat
  BY <1>1, <1>3 DEF StartInv, StartTypes
<1>6. /\ s \in Seq(Steps) /\ s # <<>> /\ Head(s) \in Steps /\ Head(s).op \in Ops(n)
      /\ \E e \in Nat :
           /\ Cost(Head(s)) \in Nat /\ Cost(Head(s)) + e <= c
           /\ Ends(Tail(s)) /\ Takes(Tail(s), Ops(n), e)
           /\ \A t : \A d \in Nat : Takes(t, Ops(n) \ {"exit"}, d) =>
                Ends(t \o Tail(s)) /\ Takes(t \o Tail(s), Ops(n), d + e)
  <2>1. Head(s).op # "exit"
    BY <1>1
  <2> HIDE DEF s
  <2> QED
    BY <1>2, <1>3, <2>1, Replaced
<1>7. PICK e \in Nat :
           /\ Cost(Head(s)) \in Nat /\ Cost(Head(s)) + e <= c
           /\ Ends(Tail(s)) /\ Takes(Tail(s), Ops(n), e)
           /\ \A t : \A d \in Nat : Takes(t, Ops(n) \ {"exit"}, d) =>
                Ends(t \o Tail(s)) /\ Takes(t \o Tail(s), Ops(n), d + e)
  BY <1>6
<1>8. ~Late(n) => Cost(Head(s)) + e + Allowed(n) < ToNext
  <2> DEFINE y == Cost(Head(s))
             z == Allowed(n)
             w == ToNext
  <2>1. y \in Nat /\ y + e <= c /\ z \in Int /\ w \in Nat /\ pause[n] = 0 /\ c \in Nat
    BY <1>1, <1>2, <1>3, <1>4, <1>7
  <2>2. ~Late(n) => pause[n] + c + z < w
    BY <1>2
  <2> HIDE DEF y, z, w
  <2>3. ~Late(n) => y + e + z < w
    BY <2>1, <2>2
  <2> QED
    BY <2>3 DEF y, z, w
<1> HIDE DEF s
<1>9. /\ s \in Seq(Steps) /\ Head(s) \in Steps /\ op \in Ops(n)
  BY <1>1, <1>6
<1> QED
  BY <1>1, <1>3, <1>4, <1>5, <1>7, <1>8, <1>9, Zenon DEF s

\* A sleep, or a busy stretch.
LEMMA WaitOrWork ==
  ASSUME StartInv, NEW n \in Early, U!Wait(n) \/ U!Work(n)
  PROVE  StartInv'
<1> DEFINE s == todo[n]
           r == Tail(s)
<1>1. PICK op \in {"wait", "busy"} : U!At(n, op)
  BY DEF U!Wait, U!Work
<1>2. /\ stage[n] = "live" /\ pause[n] = 0 /\ s # <<>> /\ op = Head(s).op
      /\ s \in Seq(Steps) /\ Head(s) \in Steps /\ Allowed(n) \in Int /\ ToNext \in Nat /\ faulty \in Nat
  BY <1>1, Awake
<1>3. PICK e \in Nat :
              /\ Cost(Head(s)) \in Nat
              /\ ~Late(n) => Cost(Head(s)) + e + Allowed(n) < ToNext
              /\ Ends(Tail(s)) /\ Takes(Tail(s), Ops(n), e)
  BY <1>1, Awake
<1>4. stage' = stage /\ m_peConnectedPorts' = m_peConnectedPorts /\ connected' = connected
      /\ faulty' = faulty /\ todo' = [todo EXCEPT ![n] = r]
  BY DEF U!Wait, U!Work, U!Becomes
<1>5. Cost(Head(s)) = Head(s).ticks
  BY <1>1, <1>2 DEF Cost
<1>6. PICK x \in 0 .. Head(s).ticks : pause' = [pause EXCEPT ![n] = x]
  <2>1. Head(s).ticks \in 0 .. Head(s).ticks
    BY <1>3, <1>5
  <2> QED
    BY <2>1 DEF U!Wait, U!Work
<1>7. n = "InitPortController" => \A k \in 0 .. NUM_PORTS : Lists(s, k) => Lists(r, k)
  <2>1. Head(s).op \notin {"probe", "append"}
    BY <1>1, <1>2
  <2> HIDE DEF s
  <2> QED
    BY <1>2, <2>1, ListsRest
<1>8. Allowed(n)' = Allowed(n) /\ (Late(n)' <=> Late(n))
  BY <1>4 DEF Allowed, Late
<1>9. ~Late(n)' => x + e + Allowed(n)' < ToNext
  <2> DEFINE y == Head(s).ticks
             z == Allowed(n)
             w == ToNext
  <2>1. y \in Nat /\ z \in Int /\ w \in Nat /\ x \in 0 .. y /\ Allowed(n)' = z
        /\ (~Late(n)' => y + e + z < w)
    BY <1>2, <1>3, <1>5, <1>6, <1>8
  <2> HIDE DEF y, z, w
  <2>2. ~Late(n)' => x + e + z < w
    BY <2>1
  <2> QED
    BY <2>1, <2>2 DEF w
<1>10. x \in Nat
  BY <1>3, <1>5, <1>6
<1> HIDE DEF r
<1>11. Ends(r) /\ Takes(r, Ops(n), e)
  BY <1>3 DEF r
<1> QED
  BY <1>2, <1>4, <1>6, <1>7, <1>8, <1>9, <1>10, <1>11, Move

\* A face is probed.
LEMMA ProbeSteps ==
  ASSUME StartInv, NEW n \in Early, U!ProbeFace(n)
  PROVE  StartInv'
<1> DEFINE s == todo[n]
           t == U!Sleep(10) \o U!Sleep(10) \o U!Append1(Head(s).index)
           r == t \o Tail(s)
           T == U!Ticks(10)
<1>1. U!At(n, "probe")
  BY DEF U!ProbeFace
<1>2. /\ stage[n] = "live" /\ pause[n] = 0 /\ s # <<>> /\ Head(s).op = "probe"
      /\ s \in Seq(Steps) /\ Head(s) \in Steps /\ "probe" \in Ops(n) /\ Allowed(n) \in Int
      /\ ToNext \in Nat /\ faulty \in Nat /\ pause = [pause EXCEPT ![n] = 0]
  BY <1>1, Awake
<1>3. PICK e \in Nat :
              /\ Cost(Head(s)) \in Nat
              /\ ~Late(n) => Cost(Head(s)) + e + Allowed(n) < ToNext
              /\ \A u : \A d \in Nat : Takes(u, Ops(n) \ {"exit"}, d) =>
                   Ends(u \o Tail(s)) /\ Takes(u \o Tail(s), Ops(n), d + e)
  BY <1>1, Awake
<1>4. stage' = stage /\ m_peConnectedPorts' = m_peConnectedPorts /\ connected' = connected
      /\ faulty' = faulty /\ todo' = [todo EXCEPT ![n] = r] /\ pause' = [pause EXCEPT ![n] = 0]
  BY <1>2 DEF U!ProbeFace, U!Becomes
<1>5. n = "InitPortController" /\ Ops(n) = {"wait", "busy", "exit", "probe", "append"}
  BY <1>2 DEF Ops
<1>6. Head(s).index \in U!Ports
  BY <1>2 DEF Steps
<1>7. Cost(Head(s)) = 2 * T /\ T \in Nat
  BY <1>2, TicksIsNat DEF Cost
<1>8. Takes(t, Ops(n) \ {"exit"}, 2 * T)
  <2> DEFINE ops == Ops(n) \ {"exit"}
             p == [op |-> "append", port |-> Head(s).index]
  <2>1. "wait" \in ops /\ "append" \in ops /\ 10 \in Nat
    BY <1>5
  <2>2. Takes(U!Sleep(10), ops, T)
    BY <2>1, TakesSleep
  <2>3. p \in Steps /\ p.op \in ops /\ Cost(p) = 0
    BY <1>6, <2>1 DEF Steps, Cost
  <2> HIDE DEF p, ops, T
  <2>4. Takes(<<p>>, ops, 0)
    BY <2>3, TakesOne
  <2>5. Takes(U!Sleep(10) \o U!Sleep(10), ops, T + T)
    BY <1>7, <2>2, TakesBoth
  <2>6. Takes(U!Sleep(10) \o U!Sleep(10) \o <<p>>, ops, (T + T) + 0)
    BY <1>7, <2>4, <2>5, TakesBoth
  <2>7. (T + T) + 0 = 2 * T
    BY <1>7
  <2>8. U!Append1(Head(s).index) = <<p>>
    BY DEF U!Append1, p
  <2> QED
    BY <2>6, <2>7, <2>8 DEF ops
<1>9. 2 * T \in Nat
  BY <1>7
<1>10. \A k \in 0 .. NUM_PORTS : Lists(s, k) => Lists(r, k)
  <2> HIDE DEF s
  <2> QED
    BY <1>2, ListsProbe
<1> HIDE DEF t, T
<1>11. Ends(r) /\ Takes(r, Ops(n), 2 * T + e)
  BY <1>3, <1>8, <1>9
<1>12. Allowed(n)' = Allowed(n) /\ (Late(n)' <=> Late(n))
  BY <1>4 DEF Allowed, Late
<1>13. ~Late(n)' => 0 + (2 * T + e) + Allowed(n)' < ToNext
  <2> DEFINE z == Allowed(n)
             w == ToNext
  <2>1. z \in Int /\ w \in Nat /\ Allowed(n)' = z /\ T \in Nat /\ (~Late(n)' => 2 * T + e + z < w)
    BY <1>2, <1>3, <1>7, <1>12
  <2> HIDE DEF z, w
  <2>2. ~Late(n)' => 0 + (2 * T + e) + z < w
    BY <2>1
  <2> QED
    BY <2>1, <2>2 DEF w
<1>14. 2 * T + e \in Nat
  BY <1>9
<1> HIDE DEF r
<1>15. faulty' \in Nat /\ (n # "InitNFC" => faulty' = faulty) /\ (Late(n) => Late(n)') /\ 0 \in Nat
  BY <1>2, <1>4, <1>12
<1> DEFINE e2 == 2 * T + e
<1>16. e2 \in Nat /\ Takes(r, Ops(n), e2) /\ (~Late(n)' => 0 + e2 + Allowed(n)' < ToNext)
  BY <1>11, <1>13, <1>14
<1> HIDE DEF e2
<1> QED
  BY <1>2, <1>4, <1>10, <1>11, <1>15, <1>16, Move

\* exit_task().
LEMMA ExitSteps ==
  ASSUME StartInv, NEW n \in Early, U!ExitTask(n)
  PROVE  StartInv'
<1> DEFINE s == todo[n]
<1>1. stage[n] = "live" /\ pause[n] = 0 /\ s # <<>> /\ Head(s).op = "exit"
  BY DEF U!ExitTask, U!At
<1>2. stage' = [stage EXCEPT ![n] = "done"] /\ todo' = [todo EXCEPT ![n] = <<>>]
      /\ pause' = pause /\ faulty' = faulty /\ m_peConnectedPorts' = m_peConnectedPorts /\ connected' = connected
  BY DEF U!ExitTask, U!Becomes
<1>3. StartTypes /\ MainInv /\ ListInv /\ \A m \in Early : StageInv(m)
  BY DEF StartInv
<1>4. n \in U!Names /\ n # "NFCtask" /\ n # "InteractiveMode" /\ DOMAIN todo = U!Names /\ DOMAIN stage = U!Names
      /\ "NFCtask" \in U!Names /\ "InteractiveMode" \in U!Names /\ "InitPortController" \in U!Names
  BY <1>3, TheTasks DEF Early, StartTypes
<1>5. stage'[n] = "done"
      /\ \A m \in U!Names : m # n => stage'[m] = stage[m] /\ todo'[m] = todo[m]
  BY <1>2, <1>4
<1>6. StartTypes'
  BY <1>2, <1>3 DEF StartTypes
<1>7. todo'["NFCtask"] = todo["NFCtask"] /\ todo'["InteractiveMode"] = todo["InteractiveMode"]
      /\ stage'["NFCtask"] = stage["NFCtask"] /\ stage'["InteractiveMode"] = stage["InteractiveMode"]
  BY <1>4, <1>5
<1>8. Ahead' = Ahead /\ ToNext' = ToNext
  BY <1>2, <1>7 DEF Ahead, ToNext
<1>9. MainInv'
  BY <1>3, <1>7, <1>8 DEF MainInv
<1>10. StageInv(n)'
  <2>1. StageInv(n)
    BY <1>3
  <2> QED
    BY <1>1, <1>5, <1>8, <2>1 DEF StageInv
<1>11. ASSUME NEW m \in Early, m # n PROVE StageInv(m)'
  <2>1. m \in U!Names /\ todo'[m] = todo[m] /\ pause'[m] = pause[m] /\ stage'[m] = stage[m]
    BY <1>2, <1>5, <1>11, TheTasks
  <2>2. StageInv(m)
    BY <1>3
  <2> QED
    BY <1>2, <1>8, <2>1, <2>2, StageSame
<1>12. ListInv'
  <2>1. CASE n # "InitPortController"
    <3>1. todo'["InitPortController"] = todo["InitPortController"]
          /\ stage'["InitPortController"] = stage["InitPortController"]
      BY <1>4, <1>5, <2>1
    <3> QED
      BY <1>2, <1>3, <3>1, ListSame
  <2>2. CASE n = "InitPortController"
    <3>1. PICK k \in 0 .. NUM_PORTS : Lists(s, k) /\ U!Listed = connected \cap 1 .. k
      BY <1>1, <1>3, <2>2 DEF ListInv
    <3>2. Ends(s) /\ \E c \in Nat : Takes(s, Ops(n), c)
      BY <1>1, Lively
    <3>3. s \in Seq(Steps)
      BY <3>2 DEF Takes
    <3> HIDE DEF s
    <3>4. Len(s) = 1
      BY <1>1, <3>2, <3>3, EndsRest
    <3>5. k = NUM_PORTS
      BY <1>1, <3>1, <3>3, <3>4, ListsRest
    <3>6. connected \subseteq U!Ports /\ U!Ports = 1 .. NUM_PORTS
          /\ m_peConnectedPorts \in [U!Ports -> U!Ports \cup {0}]
      BY <1>3 DEF ListInv, U!Ports
    <3>7. U!Listed = connected
      BY <3>1, <3>5, <3>6
    <3>8. U!Listed' = connected'
      BY <1>2, <3>7 DEF U!Listed
    <3> QED
      BY <1>2, <1>5, <2>2, <3>6, <3>8 DEF ListInv
  <2> QED
    BY <2>1, <2>2
<1> QED
  BY <1>6, <1>9, <1>10, <1>11, <1>12 DEF StartInv

\* A face is entered in the list.
LEMMA Entered ==
  ASSUME NEW k \in 0 .. NUM_PORTS, k + 1 \in 0 .. NUM_PORTS,
         connected \subseteq U!Ports, m_peConnectedPorts \in [U!Ports -> U!Ports \cup {0}],
         U!Listed = connected \cap 1 .. k, \A i \in U!Ports : i > k => m_peConnectedPorts[i] = 0,
         connected' = connected,
         m_peConnectedPorts' =
           LET Free == {i \in U!Ports : m_peConnectedPorts[i] = 0}
           IN  IF k + 1 \notin connected THEN m_peConnectedPorts
               ELSE [m_peConnectedPorts EXCEPT ![CHOOSE i \in Free : \A j \in Free : i <= j] = k + 1]
  PROVE  /\ m_peConnectedPorts' \in [U!Ports -> U!Ports \cup {0}]
         /\ U!Listed' = connected' \cap 1 .. k + 1
         /\ \A i \in U!Ports : i > k + 1 => m_peConnectedPorts'[i] = 0
<1> DEFINE m == m_peConnectedPorts
           Free == {i \in U!Ports : m[i] = 0}
           q == CHOOSE i \in Free : \A j \in Free : i <= j
<1>1. NUM_PORTS \in Nat /\ U!Ports = 1 .. NUM_PORTS /\ k \in Nat /\ k + 1 \in U!Ports /\ k + 1 \in Nat
  BY StartupAssumption DEF U!Ports
<1>2. k + 1 \in Free
  BY <1>1
<1>3. Free \subseteq Nat /\ Free \subseteq U!Ports
  BY <1>1
<1>4. q \in Free /\ \A j \in Free : q <= j
  <2>1. \E i \in Free : \A j \in Free : i <= j
    BY <1>2, <1>3, LeastOf
  <2> HIDE DEF Free
  <2> QED
    BY <2>1
<1>5. q \in U!Ports /\ q <= k + 1 /\ m[q] = 0
  BY <1>2, <1>4
<1> HIDE DEF q
<1>6. CASE k + 1 \notin connected
  <2>1. m_peConnectedPorts' = m_peConnectedPorts
    BY <1>6
  <2>2. U!Listed = {m_peConnectedPorts[i] : i \in U!Ports} \ {0}
        /\ U!Listed' = {m_peConnectedPorts'[i] : i \in U!Ports} \ {0}
    BY DEF U!Listed
  <2>3. U!Listed' = U!Listed
    <3>1. ASSUME NEW x PROVE x \in U!Listed' <=> x \in U!Listed
      <4>1. \A i \in U!Ports : m_peConnectedPorts'[i] = m_peConnectedPorts[i]
        BY <2>1
      <4>2. x \in U!Listed <=> x # 0 /\ \E i \in U!Ports : x = m_peConnectedPorts[i]
        BY <2>2
      <4>3. x \in U!Listed' <=> x # 0 /\ \E i \in U!Ports : x = m_peConnectedPorts'[i]
        BY <2>2
      <4> QED
        BY <4>1, <4>2, <4>3
    <3> QED
      BY <3>1
  <2>4. connected \cap 1 .. k + 1 = connected \cap 1 .. k
    BY <1>1, <1>6
  <2>5. U!Listed' = connected' \cap 1 .. k + 1
    BY <2>3, <2>4, Zenon
  <2>6. m_peConnectedPorts' \in [U!Ports -> U!Ports \cup {0}]
    BY <2>1
  <2>7. \A i \in U!Ports : i > k + 1 => i > k
    BY <1>1
  <2>8. \A i \in U!Ports : i > k + 1 => m_peConnectedPorts'[i] = 0
    BY <2>1, <2>7
  <2> QED
    BY <2>5, <2>6, <2>8
<1>7. CASE k + 1 \in connected
  <2>1. m_peConnectedPorts' = [m EXCEPT ![q] = k + 1]
    BY <1>7 DEF q
  <2>2. m_peConnectedPorts'[q] = k + 1 /\ \A i \in U!Ports : i # q => m_peConnectedPorts'[i] = m[i]
    BY <1>5, <2>1
  <2>3. m_peConnectedPorts' \in [U!Ports -> U!Ports \cup {0}]
    BY <1>1, <2>1
  <2>4. \A i \in U!Ports : i > k + 1 => m_peConnectedPorts'[i] = 0
    BY <1>1, <1>5, <2>2
  <2>5. U!Listed' = U!Listed \cup {k + 1}
    <3>1. U!Listed = {m[i] : i \in U!Ports} \ {0}
      BY DEF U!Listed
    <3>2. U!Listed' = {m_peConnectedPorts'[i] : i \in U!Ports} \ {0}
      BY DEF U!Listed
    <3>3. k + 1 # 0
      BY <1>1
    <3>4. ASSUME NEW x \in U!Listed' PROVE x \in U!Listed \cup {k + 1}
      <4>1. PICK i \in U!Ports : x = m_peConnectedPorts'[i] /\ x # 0
        BY <3>2, <3>4
      <4> QED
        BY <2>2, <3>1, <4>1
    <3>5. ASSUME NEW x \in U!Listed PROVE x \in U!Listed'
      <4>1. PICK i \in U!Ports : x = m[i] /\ x # 0
        BY <3>1, <3>5
      <4>2. i # q
        BY <1>5, <4>1
      <4> QED
        BY <2>2, <3>2, <4>1, <4>2
    <3>6. k + 1 \in U!Listed'
      BY <1>5, <2>2, <3>2, <3>3
    <3> QED
      BY <3>4, <3>5, <3>6
  <2>6. connected \cap 1 .. k + 1 = (connected \cap 1 .. k) \cup {k + 1}
    BY <1>1, <1>7
  <2> QED
    BY <2>3, <2>4, <2>5, <2>6
<1> QED
  BY <1>6, <1>7

\* It is entered by the step that appends it.
LEMMA AppendSteps ==
  ASSUME StartInv, NEW n \in Early, U!AppendPort(n)
  PROVE  StartInv'
<1> DEFINE s == todo[n]
           r == Tail(s)
           p == "InitPortController"
<1>1. U!At(n, "append")
  BY DEF U!AppendPort
<1>2. /\ stage[n] = "live" /\ pause[n] = 0 /\ s # <<>> /\ Head(s).op = "append"
      /\ s \in Seq(Steps) /\ "append" \in Ops(n) /\ Allowed(n) \in Int
      /\ ToNext \in Nat /\ faulty \in Nat /\ pause = [pause EXCEPT ![n] = 0]
  BY <1>1, Awake
<1>3. PICK e \in Nat :
              /\ Cost(Head(s)) \in Nat
              /\ ~Late(n) => Cost(Head(s)) + e + Allowed(n) < ToNext
              /\ Ends(Tail(s)) /\ Takes(Tail(s), Ops(n), e)
  BY <1>1, Awake
<1>4. stage' = stage /\ connected' = connected
      /\ faulty' = faulty /\ todo' = [todo EXCEPT ![n] = r] /\ pause' = [pause EXCEPT ![n] = 0]
  BY <1>2 DEF U!AppendPort, U!Becomes
<1>5. n = p
  BY <1>2 DEF Ops, Early
<1>6. StartTypes /\ MainInv /\ ListInv /\ \A m \in Early : StageInv(m)
  BY DEF StartInv
<1>7. PICK k \in 0 .. NUM_PORTS :
         /\ Lists(s, k) /\ U!Listed = connected \cap 1 .. k
         /\ \A i \in U!Ports : i > k => m_peConnectedPorts[i] = 0
  BY <1>2, <1>5, <1>6 DEF ListInv
<1>8. k + 1 \in 0 .. NUM_PORTS /\ Lists(r, k + 1) /\ Head(s).port = k + 1
  <2> HIDE DEF s
  <2> QED
    BY <1>2, <1>7, ListsRest
<1>9. m_peConnectedPorts' =
        LET Free == {i \in U!Ports : m_peConnectedPorts[i] = 0}
        IN  IF k + 1 \notin connected THEN m_peConnectedPorts
            ELSE [m_peConnectedPorts EXCEPT ![CHOOSE i \in Free : \A j \in Free : i <= j] = k + 1]
  BY <1>8, Zenon DEF U!AppendPort
<1>10. connected \subseteq U!Ports /\ m_peConnectedPorts \in [U!Ports -> U!Ports \cup {0}]
  BY <1>6 DEF ListInv
<1>11. /\ m_peConnectedPorts' \in [U!Ports -> U!Ports \cup {0}]
       /\ U!Listed' = connected' \cap 1 .. k + 1
       /\ \A i \in U!Ports : i > k + 1 => m_peConnectedPorts'[i] = 0
  BY <1>4, <1>7, <1>8, <1>9, <1>10, Entered, Zenon
<1>12. Allowed(n)' = Allowed(n) /\ (Late(n)' <=> Late(n))
  BY <1>4 DEF Allowed, Late
<1>13. Cost(Head(s)) = 0
  BY <1>2 DEF Cost
<1>14. ~Late(n)' => 0 + e + Allowed(n)' < ToNext
  <2> DEFINE z == Allowed(n)
             w == ToNext
  <2>1. z \in Int /\ w \in Nat /\ Allowed(n)' = z /\ (~Late(n)' => 0 + e + z < w)
    BY <1>2, <1>3, <1>12, <1>13
  <2> QED
    BY <2>1
<1>15. faulty' \in Nat /\ (n # "InitNFC" => faulty' = faulty) /\ (Late(n) => Late(n)') /\ 0 \in Nat
  BY <1>2, <1>4, <1>12
<1>16. todo'[p] = r /\ stage'[p] = "live"
  <2>1. DOMAIN todo = U!Names /\ p \in U!Names
    BY <1>6, TheTasks DEF StartTypes, Early
  <2> QED
    BY <1>2, <1>4, <1>5, <2>1
<1> HIDE DEF r
<1>17. Ends(r) /\ Takes(r, Ops(n), e)
  BY <1>3 DEF r
<1>18. StartTypes' /\ MainInv' /\ \A m \in Early : StageInv(m)'
  BY <1>2, <1>4, <1>6, <1>14, <1>15, <1>17, Proceeds
<1>19. ListInv'
  BY <1>4, <1>8, <1>10, <1>11, <1>16 DEF ListInv
<1> QED
  BY <1>18, <1>19, Zenon DEF StartInv

\* A place of the list that is empty.
LEMMA SkipSteps ==
  ASSUME StartInv, NEW n \in Early, NEW op \in {"light", "attempt"}, U!At(n, op),
         U!Becomes(n, Tail(todo[n])), UNCHANGED <<stage, pause, m_peConnectedPorts, connected, faulty>>
  PROVE  StartInv'
<1> DEFINE s == todo[n]
           r == Tail(s)
<1>1. /\ stage[n] = "live" /\ pause[n] = 0 /\ s # <<>> /\ Head(s).op = op /\ op \in Ops(n)
      /\ s \in Seq(Steps) /\ Allowed(n) \in Int
      /\ ToNext \in Nat /\ faulty \in Nat /\ pause = [pause EXCEPT ![n] = 0]
  BY Awake
<1>2. PICK e \in Nat :
              /\ Cost(Head(s)) \in Nat
              /\ ~Late(n) => Cost(Head(s)) + e + Allowed(n) < ToNext
              /\ Ends(Tail(s)) /\ Takes(Tail(s), Ops(n), e)
  BY Awake
<1>3. n # "InitPortController"
  BY <1>1 DEF Ops
<1>4. Allowed(n)' = Allowed(n) /\ (Late(n)' <=> Late(n))
  BY DEF Allowed, Late
<1>5. ~Late(n)' => 0 + e + Allowed(n)' < ToNext
  <2> DEFINE y == Cost(Head(s))
             z == Allowed(n)
             w == ToNext
  <2>1. y \in Nat /\ z \in Int /\ w \in Nat /\ Allowed(n)' = z /\ (~Late(n)' => y + e + z < w)
    BY <1>1, <1>2, <1>4
  <2> HIDE DEF y, z, w
  <2>2. ~Late(n)' => 0 + e + z < w
    BY <2>1
  <2> QED
    BY <2>1, <2>2 DEF w
<1>6. todo' = [todo EXCEPT ![n] = r] /\ pause' = [pause EXCEPT ![n] = 0] /\ stage' = stage
  BY <1>1 DEF U!Becomes
<1>7. faulty' \in Nat /\ (n # "InitNFC" => faulty' = faulty) /\ (Late(n) => Late(n)') /\ 0 \in Nat
  BY <1>1, <1>4
<1> HIDE DEF r
<1>8. Ends(r) /\ Takes(r, Ops(n), e)
  BY <1>2 DEF r
<1> QED
  BY <1>1, <1>3, <1>5, <1>6, <1>7, <1>8, Move

\* A face that is lit, or an attempt that succeeds or is not the first: the steps
\* t take its place.
LEMMA FaceSteps ==
  ASSUME StartInv, NEW n \in Early, NEW op \in {"light", "attempt", "try"}, U!At(n, op),
         NEW t, Takes(t, Ops(n) \ {"exit"}, Cost(Head(todo[n]))),
         U!Becomes(n, t \o Tail(todo[n])),
         UNCHANGED <<stage, pause, m_peConnectedPorts, connected, faulty>>
  PROVE  StartInv'
<1> DEFINE s == todo[n]
           r == t \o Tail(s)
           y == Cost(Head(s))
<1>1. /\ stage[n] = "live" /\ pause[n] = 0 /\ s # <<>> /\ Head(s).op = op /\ op \in Ops(n)
      /\ s \in Seq(Steps) /\ Allowed(n) \in Int
      /\ ToNext \in Nat /\ faulty \in Nat /\ pause = [pause EXCEPT ![n] = 0]
  BY Awake
<1>2. PICK e \in Nat :
              /\ y \in Nat
              /\ ~Late(n) => y + e + Allowed(n) < ToNext
              /\ \A u : \A d \in Nat : Takes(u, Ops(n) \ {"exit"}, d) =>
                   Ends(u \o Tail(s)) /\ Takes(u \o Tail(s), Ops(n), d + e)
  BY Awake
<1>3. n # "InitPortController"
  BY <1>1 DEF Ops
<1>4. Allowed(n)' = Allowed(n) /\ (Late(n)' <=> Late(n))
  BY DEF Allowed, Late
<1>6. todo' = [todo EXCEPT ![n] = r] /\ pause' = [pause EXCEPT ![n] = 0] /\ stage' = stage
  BY <1>1 DEF U!Becomes
<1>7. faulty' \in Nat /\ (n # "InitNFC" => faulty' = faulty) /\ (Late(n) => Late(n)') /\ 0 \in Nat
  BY <1>1, <1>4
<1> HIDE DEF y
<1>8. Takes(t, Ops(n) \ {"exit"}, y)
  BY DEF y
<1>9. Ends(r) /\ Takes(r, Ops(n), y + e)
  BY <1>2, <1>8
<1>10. y + e \in Nat
  BY <1>2
<1>11. ~Late(n)' => 0 + (y + e) + Allowed(n)' < ToNext
  <2> DEFINE z == Allowed(n)
             w == ToNext
  <2>1. z \in Int /\ w \in Nat /\ y \in Nat /\ Allowed(n)' = z /\ (~Late(n)' => y + e + z < w)
    BY <1>1, <1>2, <1>4
  <2> HIDE DEF z, w
  <2>2. ~Late(n)' => 0 + (y + e) + z < w
    BY <2>1
  <2> QED
    BY <2>1, <2>2 DEF w
<1> HIDE DEF r
<1> DEFINE e2 == y + e
<1>12. e2 \in Nat /\ Takes(r, Ops(n), e2) /\ (~Late(n)' => 0 + e2 + Allowed(n)' < ToNext)
  BY <1>9, <1>10, <1>11
<1> HIDE DEF e2
<1> QED
  BY <1>1, <1>3, <1>6, <1>7, <1>9, <1>12, Move

\* The first attempt at a chip, when it fails.
LEMMA FaultySteps ==
  ASSUME StartInv, NEW n \in Early, U!At(n, "try"), Head(todo[n]).left = 3,
         NEW t, Takes(t, Ops(n) \ {"exit"}, U!Answer + U!Trouble),
         U!Becomes(n, t \o Tail(todo[n])), faulty' = faulty + 1,
         UNCHANGED <<stage, pause, m_peConnectedPorts, connected>>
  PROVE  StartInv'
<1> DEFINE s == todo[n]
           r == t \o Tail(s)
           y == U!Answer
           w == U!Trouble
<1>1. /\ stage[n] = "live" /\ pause[n] = 0 /\ s # <<>> /\ Head(s).op = "try" /\ "try" \in Ops(n)
      /\ s \in Seq(Steps) /\ Allowed(n) \in Int
      /\ ToNext \in Nat /\ faulty \in Nat /\ pause = [pause EXCEPT ![n] = 0]
  BY Awake
<1>2. Cost(Head(s)) = y /\ y \in Nat /\ w \in Nat
  BY <1>1, CostIsNat DEF Cost
<1>3. PICK e \in Nat :
              /\ ~Late(n) => y + e + Allowed(n) < ToNext
              /\ \A u : \A d \in Nat : Takes(u, Ops(n) \ {"exit"}, d) =>
                   Ends(u \o Tail(s)) /\ Takes(u \o Tail(s), Ops(n), d + e)
  BY <1>2, Awake
<1>4. n = "InitNFC"
  BY <1>1 DEF Ops, Early
<1>6. todo' = [todo EXCEPT ![n] = r] /\ pause' = [pause EXCEPT ![n] = 0] /\ stage' = stage
  BY <1>1 DEF U!Becomes
<1> HIDE DEF y, w
<1>7. y + w \in Nat
  BY <1>2
<1>8. Takes(t, Ops(n) \ {"exit"}, y + w)
  BY DEF y, w
<1>9. Ends(r) /\ Takes(r, Ops(n), y + w + e)
  BY <1>3, <1>7, <1>8
<1>10. TOLERATED \in Nat /\ faulty' \in Nat
  BY <1>1, StartupAssumption
<1>11. Late(n) => Late(n)'
  BY <1>1, <1>10 DEF Late
<1>12. Allowed(n)' = Allowed(n) - w
  <2>1. Allowed(n) = (TOLERATED - faulty) * w /\ Allowed(n)' = (TOLERATED - (faulty + 1)) * w
    BY <1>4 DEF Allowed, w
  <2> QED
    BY <1>1, <1>2, <1>10, <2>1
<1>13. ~Late(n)' => 0 + (y + w + e) + Allowed(n)' < ToNext
  <2> DEFINE z == Allowed(n)
             l == ToNext
  <2>1. z \in Int /\ l \in Nat /\ y \in Nat /\ w \in Nat /\ Allowed(n)' = z - w
        /\ (~Late(n)' => y + e + z < l)
    BY <1>1, <1>2, <1>3, <1>11, <1>12
  <2> HIDE DEF z, l
  <2>2. ~Late(n)' => 0 + (y + w + e) + (z - w) < l
    BY <2>1
  <2> QED
    BY <2>1, <2>2 DEF l
<1> HIDE DEF r
<1> DEFINE e2 == y + w + e
<1>14. e2 \in Nat /\ Takes(r, Ops(n), e2) /\ (~Late(n)' => 0 + e2 + Allowed(n)' < ToNext) /\ 0 \in Nat
  BY <1>7, <1>9, <1>13
<1> HIDE DEF e2
<1>15. n # "InitPortController"
  BY <1>4
<1> QED
  BY <1>1, <1>4, <1>6, <1>9, <1>10, <1>11, <1>14, <1>15, Move

\* A face of InitLEDs() or InitNFC().
LEMMA DoFaceSteps ==
  ASSUME StartInv, NEW n \in Early, U!DoFace(n)
  PROVE  StartInv'
<1> DEFINE s == todo[n]
<1>1. PICK op \in {"light", "attempt"} : U!At(n, op)
  BY DEF U!DoFace
<1>2. Head(s).op = op /\ op \in Ops(n)
  BY <1>1, Awake
<1>3. stage' = stage /\ pause' = pause /\ m_peConnectedPorts' = m_peConnectedPorts /\ connected' = connected
  BY DEF U!DoFace
<1>4. faulty' = faulty
  BY DEF U!DoFace
<1>5. CASE U!Becomes(n, Tail(s))
  BY <1>1, <1>3, <1>4, <1>5, SkipSteps
<1>6. CASE U!At(n, "light") /\ U!Becomes(n, U!Busy(LIGHTING) \o Tail(s))
  <2>1. Head(s).op = "light" /\ LIGHTING \in Nat
    BY <1>6, StartupAssumption DEF U!At
  <2>2. Cost(Head(s)) = LIGHTING
    BY <2>1 DEF Cost
  <2>3. "busy" \in Ops(n) \ {"exit"}
    BY DEF Ops
  <2>4. Takes(U!Busy(LIGHTING), Ops(n) \ {"exit"}, Cost(Head(s)))
    BY <2>1, <2>2, <2>3, TakesBusy
  <2> QED
    BY <1>3, <1>4, <1>6, <2>4, FaceSteps
<1>7. CASE U!At(n, "attempt") /\ U!Becomes(n, U!Try(3) \o Tail(s))
  <2>1. Head(s).op = "attempt" /\ "attempt" \in Ops(n)
    BY <1>7, Awake
  <2>2. "try" \in Ops(n) \ {"exit"} /\ 3 \in 1 .. 3
    BY <2>1 DEF Ops
  <2>3. Cost(Head(s)) = U!Answer /\ Cost([op |-> "try", left |-> 3]) = U!Answer
    BY <2>1 DEF Cost
  <2>4. Takes(U!Try(3), Ops(n) \ {"exit"}, Cost(Head(s)))
    BY <2>2, <2>3, TakesTry
  <2> QED
    BY <1>3, <1>4, <1>7, <2>4, FaceSteps
<1> QED
  BY <1>5, <1>6, <1>7 DEF U!DoFace

\* An attempt at a chip.
LEMMA TrySteps ==
  ASSUME StartInv, NEW n \in Early, U!TryInit(n)
  PROVE  StartInv'
<1> DEFINE s == todo[n]
           left == Head(s).left
           y == U!Answer
           w == U!Trouble
           z == U!Failure
           ops == Ops(n) \ {"exit"}
<1>1. U!At(n, "try")
  BY DEF U!TryInit
<1>2. Head(s).op = "try" /\ Head(s) \in Steps /\ "try" \in Ops(n)
  BY <1>1, Awake
<1>3. left \in 1 .. 3
  BY <1>2 DEF Steps
<1>4. stage' = stage /\ pause' = pause /\ m_peConnectedPorts' = m_peConnectedPorts /\ connected' = connected
  BY DEF U!TryInit
<1>5. {"wait"} \subseteq ops /\ "try" \in ops
  BY <1>2 DEF Ops
<1>6. y \in Nat /\ w \in Nat /\ z \in Nat /\ y <= z /\ z + 2 * z = y + w
  BY CostIsNat
<1>7. Cost(Head(s)) = IF left = 3 THEN y ELSE left * z
  BY <1>2 DEF Cost
<1>8. PICK polls \in {0, POLLS} :
        \/ U!Becomes(n, U!Answering(polls) \o Tail(s)) /\ faulty' = faulty
        \/ \E steps \in U!Failing(polls) :
             /\ \/ left = 1 /\ U!Becomes(n, steps \o Tail(s))
                \/ left > 1 /\ U!Becomes(n, steps \o U!Try(left - 1) \o Tail(s))
             /\ faulty' = IF left = 3 THEN faulty + 1 ELSE faulty
  BY DEF U!TryInit
<1>9. polls \in 0 .. POLLS
  BY StartupAssumption
<1>10. CASE U!Becomes(n, U!Answering(polls) \o Tail(s)) /\ faulty' = faulty
  <2> DEFINE c == Cost(Head(s))
  <2>1. Takes(U!Answering(polls), {"wait"}, y)
    BY <1>9, TakesAnswering
  <2>2. y \in Nat /\ c \in Nat /\ y <= c
    <3> HIDE DEF y, z
    <3>1. left # 3 => left * z \in Nat /\ z <= left * z
      BY <1>3, <1>6
    <3> QED
      BY <1>6, <1>7, <3>1
  <2> HIDE DEF y, c, ops
  <2>3. Takes(U!Answering(polls), ops, c)
    BY <1>5, <2>1, <2>2, TakesLess
  <2> QED
    BY <1>1, <1>4, <1>10, <2>3, FaceSteps DEF c, ops
<1>11. ASSUME NEW steps \in U!Failing(polls), faulty' = IF left = 3 THEN faulty + 1 ELSE faulty,
              NEW t, U!Becomes(n, t \o Tail(s)),
              \/ left = 1 /\ t = steps
              \/ left > 1 /\ t = steps \o U!Try(left - 1)
       PROVE  StartInv'
  <2> HIDE DEF y, w, z, ops, left
  <2>1. Takes(steps, ops, z)
    <3>1. Takes(steps, {"wait"}, z)
      BY <1>9, TakesFailing DEF z
    <3> QED
      BY <1>5, <1>6, <3>1, TakesLess
  <2>2. left > 1 => Takes(U!Try(left - 1), ops, (left - 1) * z)
    <3>1. SUFFICES ASSUME left > 1 PROVE Takes(U!Try(left - 1), ops, (left - 1) * z)
      OBVIOUS
    <3> DEFINE k == left - 1
    <3>2. k \in 1 .. 3 /\ k # 3
      BY <1>3, <3>1
    <3>3. Cost([op |-> "try", left |-> k]) = k * z
      BY <3>2 DEF Cost, z
    <3> HIDE DEF k
    <3>4. Takes(U!Try(k), ops, k * z)
      BY <1>5, <3>2, <3>3, TakesTry
    <3> QED
      BY <3>4 DEF k
  <2>3. Takes(t, ops, left * z)
    <3>1. CASE left = 1 /\ t = steps
      <4>1. left * z = z
        BY <1>6, <3>1
      <4> QED
        BY <2>1, <3>1, <4>1
    <3>2. CASE left > 1 /\ t = steps \o U!Try(left - 1)
      <4> DEFINE d == (left - 1) * z
      <4>1. d \in Nat /\ z + d = left * z
        BY <1>3, <1>6
      <4>2. Takes(U!Try(left - 1), ops, d)
        BY <2>2, <3>2
      <4> HIDE DEF d
      <4>3. Takes(steps \o U!Try(left - 1), ops, z + d)
        BY <1>6, <2>1, <4>1, <4>2, TakesBoth
      <4> QED
        BY <3>2, <4>1, <4>3
    <3> QED
      BY <1>11, <3>1, <3>2
  <2>4. CASE left = 3
    <3>1. left * z = y + w
      BY <1>6, <2>4
    <3>2. Takes(t, ops, y + w)
      BY <2>3, <3>1
    <3> QED
      BY <1>1, <1>4, <1>11, <2>4, <3>2, FaultySteps DEF y, w, ops, left
  <2>5. CASE left # 3
    <3>1. Takes(t, ops, Cost(Head(s)))
      BY <1>7, <2>3, <2>5
    <3> QED
      BY <1>1, <1>4, <1>11, <2>5, <3>1, FaceSteps DEF ops, left
  <2> QED
    BY <2>4, <2>5
<1>12. ASSUME NEW steps \in U!Failing(polls), faulty' = IF left = 3 THEN faulty + 1 ELSE faulty,
              \/ left = 1 /\ U!Becomes(n, steps \o Tail(s))
              \/ left > 1 /\ U!Becomes(n, steps \o U!Try(left - 1) \o Tail(s))
       PROVE  StartInv'
  <2>1. CASE left = 1 /\ U!Becomes(n, steps \o Tail(s))
    BY <1>11, <1>12, <2>1
  <2>2. CASE left > 1 /\ U!Becomes(n, steps \o U!Try(left - 1) \o Tail(s))
    <3> DEFINE t == steps \o U!Try(left - 1)
    <3>1. U!Becomes(n, t \o Tail(s))
      BY <2>2
    <3> HIDE DEF t, left, s
    <3>2. left > 1 /\ t = steps \o U!Try(left - 1)
      BY <2>2 DEF t
    <3> QED
      BY <1>11, <1>12, <3>1, <3>2
  <2> QED
    BY <1>12, <2>1, <2>2
<1> QED
  BY <1>8, <1>10, <1>12

-----------------------------------------------------------------------------
(* The steps of NFCtask(), and the tick.                                    *)

\* The next step of NFCtask().
LEMMA MainStep ==
  ASSUME StartInv, NEW op, U!At("NFCtask", op)
  PROVE  /\ Ahead \in 1 .. 8 /\ pause["NFCtask"] = 0 /\ stage["NFCtask"] = "live"
         /\ op = "exit"  => Ahead = 1
         /\ op = "wait"  => Ahead \in {3, 5, 7} /\ Head(todo["NFCtask"]).ticks
                              = IF Ahead = 3 THEN U!Ticks(5000) ELSE U!Ticks(1000)
         /\ op = "start" => /\ Ahead \in {2, 4, 6, 8}
                            /\ Head(todo["NFCtask"]).name =
                                 IF Ahead = 8 THEN "InitPortController"
                                 ELSE IF Ahead = 6 THEN "InitLEDs"
                                 ELSE IF Ahead = 4 THEN "InitNFC" ELSE "InteractiveMode"
         /\ op \in {"exit", "wait", "start"}
<1> DEFINE k == 9 - Ahead
           h == Head(todo["NFCtask"])
<1>1. todo["NFCtask"] # <<>> /\ h.op = op /\ pause["NFCtask"] = 0 /\ stage["NFCtask"] = "live"
  BY DEF U!At
<1>2. Ahead \in 1 .. 8 /\ h = U!NFCtask[k]
  BY <1>1, MainRest DEF StartInv
<1>3. k \in 1 .. 8
  BY <1>2
<1> HIDE DEF h
<1>4. CASE k = 8
  <2>1. h = [op |-> "exit"]
    BY <1>2, <1>4, NFCtaskIs
  <2> QED
    BY <1>1, <1>2, <1>4, <2>1 DEF h
<1>5. CASE k \in {2, 4, 6}
  <2>1. h = [op |-> "wait", ticks |-> U!Ticks(IF k = 6 THEN 5000 ELSE 1000)]
    <3> HIDE DEF k
    <3> QED
      BY <1>2, <1>5, NFCtaskIs
  <2>2. op = "wait" /\ h.ticks = U!Ticks(IF k = 6 THEN 5000 ELSE 1000)
    BY <1>1, <2>1
  <2>3. Ahead \in {3, 5, 7} /\ (k = 6 <=> Ahead = 3)
    BY <1>2, <1>5
  <2>4. h.ticks = IF Ahead = 3 THEN U!Ticks(5000) ELSE U!Ticks(1000)
    BY <2>2, <2>3
  <2> QED
    BY <1>1, <1>2, <2>2, <2>3, <2>4 DEF h
<1>6. CASE k \in {1, 3, 5, 7}
  <2>1. h = [op |-> "start", name |-> U!Stages[(k + 1) \div 2]]
    <3> HIDE DEF k
    <3> QED
      BY <1>2, <1>6, NFCtaskIs
  <2>2. op = "start" /\ h.name = U!Stages[(k + 1) \div 2]
    BY <1>1, <2>1
  <2>3. U!Stages[1] = "InitPortController" /\ U!Stages[2] = "InitLEDs" /\ U!Stages[3] = "InitNFC"
        /\ U!Stages[4] = "InteractiveMode"
    BY TheTasks
  <2>4. /\ k = 1 => (k + 1) \div 2 = 1 /\ Ahead = 8
        /\ k = 3 => (k + 1) \div 2 = 2 /\ Ahead = 6
        /\ k = 5 => (k + 1) \div 2 = 3 /\ Ahead = 4
        /\ k = 7 => (k + 1) \div 2 = 4 /\ Ahead = 2
    BY <1>2
  <2> HIDE DEF k
  <2>5. h.name = IF Ahead = 8 THEN "InitPortController" ELSE IF Ahead = 6 THEN "InitLEDs"
                 ELSE IF Ahead = 4 THEN "InitNFC" ELSE "InteractiveMode"
    BY <1>6, <2>2, <2>3, <2>4
  <2>6. Ahead \in {2, 4, 6, 8}
    BY <1>6, <2>4
  <2> QED
    BY <1>1, <1>2, <2>2, <2>5, <2>6 DEF h
<1> QED
  BY <1>3, <1>4, <1>5, <1>6

\* What is left of its program.
LEMMA MainTail ==
  ASSUME StartInv, todo["NFCtask"] # <<>>, U!Becomes("NFCtask", Tail(todo["NFCtask"]))
  PROVE  /\ Ahead' = Ahead - 1
         /\ todo'["NFCtask"] = [i \in 1 .. Ahead' |-> U!NFCtask[8 - Ahead' + i]]
         /\ \A m \in U!Names : m # "NFCtask" => todo'[m] = todo[m]
         /\ DOMAIN todo' = U!Names
<1>1. DOMAIN todo = U!Names /\ "NFCtask" \in U!Names
  BY TheTasks DEF StartInv, StartTypes
<1>2. todo'["NFCtask"] = Tail(todo["NFCtask"])
      /\ (\A m \in U!Names : m # "NFCtask" => todo'[m] = todo[m]) /\ DOMAIN todo' = U!Names
  BY <1>1 DEF U!Becomes
<1>3. Len(Tail(todo["NFCtask"])) = Ahead - 1
      /\ Tail(todo["NFCtask"]) = [i \in 1 .. Ahead - 1 |-> U!NFCtask[8 - (Ahead - 1) + i]]
  BY MainRest DEF StartInv
<1>4. Ahead' = Ahead - 1
  BY <1>2, <1>3 DEF Ahead
<1> QED
  BY <1>2, <1>3, <1>4

\* A sleep of NFCtask().
LEMMA MainWaits ==
  ASSUME StartInv, U!Wait("NFCtask")
  PROVE  StartInv'
<1> DEFINE M == "NFCtask"
           w == Head(todo[M]).ticks
<1>1. U!At(M, "wait") /\ todo[M] # <<>>
  BY DEF U!Wait, U!At
<1>2. /\ Ahead \in {3, 5, 7} /\ pause[M] = 0 /\ stage[M] = "live"
      /\ w = IF Ahead = 3 THEN U!Ticks(5000) ELSE U!Ticks(1000)
  BY <1>1, MainStep
<1>3. /\ Ahead' = Ahead - 1
      /\ todo'[M] = [i \in 1 .. Ahead' |-> U!NFCtask[8 - Ahead' + i]]
      /\ (\A m \in U!Names : m # M => todo'[m] = todo[m]) /\ DOMAIN todo' = U!Names
  BY <1>1, MainTail DEF U!Wait
<1>4. stage' = stage /\ pause' = [pause EXCEPT ![M] = w] /\ faulty' = faulty
      /\ m_peConnectedPorts' = m_peConnectedPorts /\ connected' = connected
  BY DEF U!Wait
<1>5. StartTypes /\ MainInv /\ ListInv /\ \A m \in Early : StageInv(m)
  BY DEF StartInv
<1>6. w \in Nat
  BY <1>2, TicksIsNat
<1> HIDE DEF w
<1>7. M \in U!Names /\ "InteractiveMode" \in U!Names /\ "InitPortController" \in U!Names
      /\ \A m \in Early : m \in U!Names /\ m # M
  BY TheTasks DEF Early
<1>8. StartTypes'
  BY <1>3, <1>4, <1>5, <1>6, <1>7 DEF StartTypes
<1>9. pause'[M] = w /\ \A m \in U!Names : m # M => pause'[m] = pause[m]
  BY <1>4, <1>5, <1>7 DEF StartTypes
<1>10. MainInv'
  BY <1>2, <1>3, <1>4, <1>5, <1>7 DEF MainInv
<1>11. ToNext' = ToNext
  <2>1. ToNext = pause[M] + IF Ahead \in {5, 7} THEN U!Ticks(1000) ELSE IF Ahead = 3 THEN U!Ticks(5000) ELSE 0
    BY <1>5, NextIs
  <2>2. ToNext = w
    BY <1>2, <1>6, <2>1
  <2>3. Ahead' \notin {3, 5, 7} /\ pause'[M] + 0 = w
    BY <1>2, <1>3, <1>6, <1>9
  <2>4. ToNext' = pause'[M] + 0
    BY <2>3 DEF ToNext
  <2> QED
    BY <2>2, <2>3, <2>4
<1>12. ASSUME NEW m \in Early PROVE StageInv(m)'
  <2>1. stage'[m] = stage[m] /\ todo'[m] = todo[m] /\ pause'[m] = pause[m] /\ StageInv(m)
    BY <1>3, <1>4, <1>5, <1>7, <1>9
  <2>2. Allowed(m)' = Allowed(m) /\ (Late(m)' <=> Late(m))
    BY <1>4 DEF Allowed, Late
  <2>3. InTime(m) => InTime(m)'
    BY <1>11, <2>1, <2>2 DEF InTime
  <2>4. Nth(m) \in 1 .. 3
    BY DEF Nth
  <2>5. (Ahead' > 9 - 2 * Nth(m) <=> Ahead > 9 - 2 * Nth(m))
        /\ (Ahead' <= 7 - 2 * Nth(m) <=> Ahead <= 7 - 2 * Nth(m))
    BY <1>2, <1>3, <2>4
  <2> HIDE DEF M
  <2> QED
    BY <2>1, <2>2, <2>3, <2>5 DEF StageInv
<1>13. ListInv'
  BY <1>3, <1>4, <1>5, <1>7, ListSame
<1> QED
  BY <1>8, <1>10, <1>12, <1>13 DEF StartInv

\* Its exit.
LEMMA MainExits ==
  ASSUME StartInv, U!ExitTask("NFCtask")
  PROVE  StartInv'
<1> DEFINE M == "NFCtask"
<1>1. U!At(M, "exit")
  BY DEF U!ExitTask
<1>2. Ahead = 1 /\ pause[M] = 0 /\ stage[M] = "live"
  BY <1>1, MainStep
<1>3. StartTypes /\ MainInv /\ ListInv /\ \A m \in Early : StageInv(m)
  BY DEF StartInv
<1>4. M \in U!Names /\ "InteractiveMode" \in U!Names /\ "InitPortController" \in U!Names
      /\ DOMAIN todo = U!Names /\ DOMAIN stage = U!Names
      /\ \A m \in Early : m \in U!Names /\ m # M
  BY <1>3, TheTasks DEF Early, StartTypes
<1>5. stage' = [stage EXCEPT ![M] = "done"] /\ todo' = [todo EXCEPT ![M] = <<>>] /\ pause' = pause
      /\ faulty' = faulty /\ m_peConnectedPorts' = m_peConnectedPorts /\ connected' = connected
  BY DEF U!ExitTask, U!Becomes
<1>6. stage'[M] = "done" /\ todo'[M] = <<>>
      /\ \A m \in U!Names : m # M => stage'[m] = stage[m] /\ todo'[m] = todo[m]
  BY <1>4, <1>5
<1>7. Ahead' = 0
  <2>1. Len(<<>>) = 0
    OBVIOUS
  <2>2. Ahead' = Len(todo'[M])
    BY DEF Ahead
  <2> QED
    BY <1>6, <2>1, <2>2
<1>8. StartTypes'
  BY <1>3, <1>4, <1>5 DEF StartTypes
<1>9. MainInv'
  <2>1. todo'[M] = [i \in 1 .. 0 |-> U!NFCtask[8 - 0 + i]]
    BY <1>6
  <2>2. stage'["InteractiveMode"] = "live" /\ todo'["InteractiveMode"] = <<>>
    BY <1>2, <1>3, <1>4, <1>6 DEF MainInv
  <2> QED
    BY <1>6, <1>7, <2>1, <2>2 DEF MainInv
<1>10. ToNext' = ToNext
  <2>1. ToNext = pause[M] + 0
    BY <1>2 DEF ToNext
  <2>2. ToNext' = pause'[M] + 0
    BY <1>7 DEF ToNext
  <2> QED
    BY <1>5, <2>1, <2>2
<1>11. ASSUME NEW m \in Early PROVE StageInv(m)'
  <2>1. stage'[m] = stage[m] /\ todo'[m] = todo[m] /\ pause'[m] = pause[m] /\ StageInv(m)
    BY <1>3, <1>4, <1>5, <1>6
  <2>2. Allowed(m)' = Allowed(m) /\ (Late(m)' <=> Late(m))
    BY <1>5 DEF Allowed, Late
  <2>3. InTime(m) => InTime(m)'
    BY <1>10, <2>1, <2>2 DEF InTime
  <2>4. Nth(m) \in 1 .. 3
    BY DEF Nth
  <2>5. (Ahead' > 9 - 2 * Nth(m) <=> Ahead > 9 - 2 * Nth(m))
        /\ (Ahead' <= 7 - 2 * Nth(m) <=> Ahead <= 7 - 2 * Nth(m))
    BY <1>2, <1>7, <2>4
  <2> QED
    BY <2>1, <2>2, <2>3, <2>5 DEF StageInv
<1>12. ListInv'
  BY <1>4, <1>5, <1>6, <1>3, ListSame
<1> QED
  BY <1>8, <1>9, <1>11, <1>12 DEF StartInv

\* A tick.
LEMMA TickSteps ==
  ASSUME StartInv, U!Tick
  PROVE  StartInv'
<1> DEFINE M == "NFCtask"
<1>1. StartTypes /\ MainInv /\ ListInv /\ \A m \in Early : StageInv(m)
  BY DEF StartInv
<1>2. stage' = stage /\ todo' = todo /\ faulty' = faulty
      /\ m_peConnectedPorts' = m_peConnectedPorts /\ connected' = connected
      /\ pause' = [n \in U!Names |-> IF pause[n] > 0 THEN pause[n] - 1 ELSE 0]
      /\ \A n \in U!Names : stage[n] = "live" => pause[n] > 0 \/ todo[n] = <<>>
  BY DEF U!Tick, U!Live
<1>3. pause \in [U!Names -> Nat]
  BY <1>1 DEF StartTypes
<1>4. pause' \in [U!Names -> Nat] /\ \A n \in U!Names : pause'[n] = IF pause[n] > 0 THEN pause[n] - 1 ELSE 0
  BY <1>2, <1>3
<1>5. M \in U!Names /\ \A m \in Early : m \in U!Names
  BY TheTasks DEF Early
<1>6. StartTypes'
  BY <1>1, <1>2, <1>4 DEF StartTypes
<1>7. Ahead' = Ahead
  BY <1>2 DEF Ahead
<1>8. MainInv'
  BY <1>1, <1>2, <1>7 DEF MainInv
<1>9. ListInv'
  BY <1>1, <1>2, ListSame
<1>10. ASSUME Ahead # 0 PROVE ToNext' = ToNext - 1
  <2>1. stage[M] = "live"
    BY <1>1, <1>10 DEF MainInv
  <2>2. todo[M] # <<>>
    <3>1. Len(<<>>) = 0
      OBVIOUS
    <3> QED
      BY <1>10, <3>1 DEF Ahead
  <2>3. pause[M] > 0 /\ pause[M] \in Nat /\ pause'[M] = pause[M] - 1
    BY <1>2, <1>3, <1>4, <1>5, <2>1, <2>2
  <2>4. ToNext = pause[M] + IF Ahead \in {5, 7} THEN U!Ticks(1000) ELSE IF Ahead = 3 THEN U!Ticks(5000) ELSE 0
    BY <1>1, NextIs
  <2>5. ToNext' = pause'[M] + IF Ahead \in {5, 7} THEN U!Ticks(1000) ELSE IF Ahead = 3 THEN U!Ticks(5000) ELSE 0
    <3>1. (ToNext = pause[M] + IF Ahead \in {5, 7} THEN U!Ticks(1000) ELSE IF Ahead = 3 THEN U!Ticks(5000) ELSE 0)'
      BY <1>6, <1>8, NextIs, PTL
    <3> QED
      BY <1>7, <3>1
  <2>6. U!Ticks(1000) \in Nat /\ U!Ticks(5000) \in Nat
    BY TicksIsNat
  <2> QED
    BY <2>3, <2>4, <2>5, <2>6
<1>11. ASSUME NEW m \in Early PROVE StageInv(m)'
  <2>1. StageInv(m) /\ m \in U!Names
    BY <1>1, <1>5
  <2>2. Allowed(m)' = Allowed(m) /\ (Late(m)' <=> Late(m))
    BY <1>2 DEF Allowed, Late
  <2>3. stage[m] = "new" => pause[m] = 0 /\ pause'[m] = 0
    BY <1>4, <2>1 DEF StageInv
  <2>4. ASSUME stage[m] = "live" PROVE InTime(m)'
    <3>1. pause[m] > 0 /\ pause[m] \in Nat /\ pause'[m] = pause[m] - 1 /\ Allowed(m) \in Int
      <4>1. todo[m] # <<>> /\ Allowed(m) \in Int
        BY <2>4, Lively DEF Ends
      <4> QED
        BY <1>2, <1>3, <1>4, <2>1, <2>4, <4>1
    <3>2. PICK c \in Nat : Takes(todo[m], Ops(m), c) /\ (~Late(m) => pause[m] + c + Allowed(m) < ToNext)
      BY <2>4, Lively
    <3>3. ~Late(m) => pause'[m] + c + Allowed(m) < ToNext'
      <4>1. Ahead = 0 => Late(m)
        <5>1. Nth(m) \in 1 .. 3
          BY DEF Nth
        <5>2. Ahead = 0 => Ahead <= 7 - 2 * Nth(m)
          BY <5>1
        <5> QED
          BY <2>1, <2>4, <5>2 DEF StageInv
      <4>2. ToNext \in Nat
        BY <1>1, NextIs
      <4> QED
        BY <1>10, <3>1, <3>2, <4>1, <4>2
    <3> QED
      BY <1>2, <2>2, <3>2, <3>3 DEF InTime
  <2> QED
    BY <1>2, <1>7, <2>1, <2>2, <2>3, <2>4 DEF StageInv
<1> QED
  BY <1>6, <1>8, <1>9, <1>11 DEF StartInv

\* Startup counts as this module does.
LEMMA SameSize == \A S : U!Cardinality(S) = Cardinality(S)
  BY DEF U!Cardinality, Cardinality, U!IsFiniteSet, IsFiniteSet

\* The next task is started when those before it have ended, or are late, and
\* it has the time that NFCtask() sleeps now.
LEMMA MainStarts ==
  ASSUME StartInv, U!ScheduleTask("NFCtask")
  PROVE  StartInv'
<1> DEFINE M == "NFCtask"
           t == Head(todo[M]).name
<1>1. U!At(M, "start") /\ todo[M] # <<>>
  BY DEF U!ScheduleTask, U!At
<1>2. /\ Ahead \in {2, 4, 6, 8} /\ pause[M] = 0 /\ stage[M] = "live"
      /\ t = IF Ahead = 8 THEN "InitPortController"
             ELSE IF Ahead = 6 THEN "InitLEDs"
             ELSE IF Ahead = 4 THEN "InitNFC" ELSE "InteractiveMode"
  BY <1>1, MainStep
<1>3. /\ Ahead' = Ahead - 1
      /\ todo'[M] = [i \in 1 .. Ahead' |-> U!NFCtask[8 - Ahead' + i]]
      /\ (\A m \in U!Names : m # M => todo'[m] = todo[m]) /\ DOMAIN todo' = U!Names
  BY <1>1, MainTail DEF U!ScheduleTask
<1>4. stage' = [stage EXCEPT ![t] = IF Cardinality(U!Live) < SLOTS THEN "live" ELSE "refused"]
      /\ pause' = pause /\ faulty' = faulty
      /\ m_peConnectedPorts' = m_peConnectedPorts /\ connected' = connected
  <2>1. stage' = [stage EXCEPT ![t] = IF Cardinality(U!Live) < SLOTS THEN "live" ELSE "refused"]
    <3>1. stage' = [stage EXCEPT ![t] = IF U!Cardinality(U!Live) < SLOTS THEN "live" ELSE "refused"]
      BY DEF U!ScheduleTask
    <3>2. U!Cardinality(U!Live) = Cardinality(U!Live)
      BY SameSize
    <3> QED
      BY <3>1, <3>2
  <2>2. pause' = pause /\ faulty' = faulty
        /\ m_peConnectedPorts' = m_peConnectedPorts /\ connected' = connected
    BY DEF U!ScheduleTask
  <2> QED
    BY <2>1, <2>2, Zenon
<1> HIDE DEF t
<1>5. StartTypes /\ MainInv /\ ListInv /\ \A m \in Early : StageInv(m)
  BY DEF StartInv
<1>6. M \in U!Names /\ "InteractiveMode" \in U!Names /\ "InitPortController" \in U!Names
      /\ DOMAIN stage = U!Names /\ t \in U!Names /\ t # M
      /\ \A m \in Early : m \in U!Names /\ m # M /\ m # "InteractiveMode"
  BY <1>2, <1>5, TheTasks DEF Early, StartTypes
<1>7. ToNext = 0
  BY <1>2 DEF ToNext
<1>8. ASSUME NEW m \in Early, stage[m] = "live" PROVE Late(m)
  <2>1. PICK c \in Nat : ~Late(m) => pause[m] + c + Allowed(m) < ToNext
    BY <1>8, Lively
  <2>2. pause[m] \in Nat
    BY <1>8, Lively
  <2>3. ~Late(m) => Allowed(m) \in Nat
    <3>1. TOLERATED \in Nat /\ faulty \in Nat /\ U!Trouble \in Nat
      BY <1>5, StartupAssumption, CostIsNat DEF StartTypes
    <3>2. faulty <= TOLERATED => (TOLERATED - faulty) * U!Trouble \in Nat
      <4> DEFINE y == TOLERATED - faulty
                 z == U!Trouble
      <4>1. faulty <= TOLERATED => y \in Nat /\ z \in Nat
        BY <3>1
      <4> HIDE DEF y, z
      <4>2. faulty <= TOLERATED => y * z \in Nat
        BY <4>1
      <4> QED
        BY <4>2 DEF y, z
    <3> QED
      BY <3>1, <3>2 DEF Allowed, Late
  <2> DEFINE z == Allowed(m)
  <2>4. ~Late(m) => z \in Nat /\ pause[m] + c + z < 0
    BY <1>7, <2>1, <2>3
  <2> HIDE DEF z
  <2> QED
    BY <2>2, <2>4
<1>9. Cardinality(U!Live) < SLOTS
  <2>1. U!Live \subseteq {M, "InitNFC"}
    <3>1. ASSUME NEW m \in U!Names, stage[m] = "live" PROVE m \in {M, "InitNFC"}
      <4>1. CASE m \in Early
        BY <1>8, <3>1, <4>1 DEF Late
      <4>2. CASE m = "InteractiveMode"
        BY <1>2, <1>5, <3>1, <4>2 DEF MainInv
      <4> QED
        BY <4>1, <4>2, TheTasks
    <3> QED
      BY <3>1 DEF U!Live
  <2>2. IsFiniteSet({M, "InitNFC"}) /\ Cardinality({M, "InitNFC"}) <= 2
    <3>1. IsFiniteSet({M}) /\ Cardinality({M}) = 1
      BY FS_Singleton
    <3>2. {M, "InitNFC"} = {M} \cup {"InitNFC"}
      OBVIOUS
    <3>3. IsFiniteSet({M} \cup {"InitNFC"}) /\ Cardinality({M} \cup {"InitNFC"}) \in {1, 2}
      BY <3>1, FS_AddElement
    <3> QED
      BY <3>2, <3>3
  <2>3. Cardinality(U!Live) <= Cardinality({M, "InitNFC"})
    BY <2>1, <2>2, FS_Subset
  <2>4. Cardinality(U!Live) \in Nat /\ Cardinality({M, "InitNFC"}) \in Nat
    BY <2>1, <2>2, FS_Subset, FS_CardinalityType
  <2> QED
    BY <2>2, <2>3, <2>4, StartupAssumption
<1>10. stage'[t] = "live" /\ \A m \in U!Names : m # t => stage'[m] = stage[m]
  BY <1>4, <1>6, <1>9
<1>11. StartTypes'
  BY <1>3, <1>4, <1>5, <1>6 DEF StartTypes
<1>12. MainInv'
  <2>1. stage'[M] = "live" /\ Ahead' # 0 /\ Ahead' \in 0 .. 8
    BY <1>2, <1>3, <1>6, <1>10
  <2>2. todo'["InteractiveMode"] = <<>>
    BY <1>3, <1>5, <1>6 DEF MainInv
  <2>3. stage'["InteractiveMode"] = IF Ahead' <= 1 THEN "live" ELSE "new"
    <3>1. CASE Ahead = 2
      BY <1>2, <1>3, <1>10, <3>1
    <3>2. CASE Ahead # 2
      <4>1. t # "InteractiveMode" /\ ~(Ahead <= 1) /\ ~(Ahead' <= 1)
        BY <1>2, <1>3, <3>2
      <4>2. stage["InteractiveMode"] = "new"
        BY <1>5, <4>1 DEF MainInv
      <4> QED
        BY <1>6, <1>10, <4>1, <4>2
    <3> QED
      BY <3>1, <3>2
  <2> QED
    BY <1>3, <2>1, <2>2, <2>3 DEF MainInv
<1>13. ToNext' = IF Ahead' \in {5, 7} THEN U!Ticks(1000) ELSE IF Ahead' = 3 THEN U!Ticks(5000) ELSE 0
  <2>1. (ToNext = pause[M] + IF Ahead \in {5, 7} THEN U!Ticks(1000) ELSE IF Ahead = 3 THEN U!Ticks(5000) ELSE 0)'
    BY <1>11, <1>12, NextIs, PTL
  <2>2. pause'[M] = 0 /\ U!Ticks(1000) \in Nat /\ U!Ticks(5000) \in Nat
    BY <1>2, <1>4, TicksIsNat
  <2> QED
    BY <2>1, <2>2
<1>14. ListInv'
  <2>1. U!Listed' = U!Listed
    BY <1>4 DEF U!Listed
  <2>2. todo'["InitPortController"] = todo["InitPortController"]
    BY <1>3, <1>6
  <2>3. CASE t = "InitPortController"
    <3>1. Ahead = 8
      BY <1>2, <2>3
    <3>2. stage["InitPortController"] = "new"
      <4>1. StageInv("InitPortController")
        BY <1>5 DEF Early
      <4>2. Nth("InitPortController") = 1
        BY DEF Nth
      <4> QED
        BY <3>1, <4>1, <4>2 DEF StageInv
    <3>3. stage'["InitPortController"] = "live"
      BY <1>10, <2>3
    <3> QED
      BY <1>4, <1>5, <2>1, <2>2, <3>2, <3>3 DEF ListInv
  <2>4. CASE t # "InitPortController"
    <3>1. stage'["InitPortController"] = stage["InitPortController"]
      BY <1>6, <1>10, <2>4
    <3> QED
      BY <1>4, <1>5, <2>2, <3>1, ListSame
  <2> QED
    BY <2>3, <2>4
<1>15. ASSUME NEW m \in Early PROVE StageInv(m)'
  <2>1. StageInv(m) /\ m \in U!Names /\ todo'[m] = todo[m] /\ pause'[m] = pause[m]
    BY <1>3, <1>4, <1>5, <1>6
  <2>2. Allowed(m)' = Allowed(m) /\ (Late(m)' <=> Late(m))
    BY <1>4 DEF Allowed, Late
  <2>3. Nth(m) \in 1 .. 3 /\ (t = m <=> Ahead = 10 - 2 * Nth(m))
    BY <1>2 DEF Nth, Early
  <2>4. CASE t = m
    <3>1. Ahead = 10 - 2 * Nth(m) /\ Ahead' = 9 - 2 * Nth(m)
      BY <1>2, <1>3, <2>3, <2>4
    <3>2. stage[m] = "new" /\ stage'[m] = "live" /\ todo[m] = U!Program(m) /\ pause[m] = 0
      <4>1. Ahead > 9 - 2 * Nth(m)
        BY <2>3, <3>1
      <4> QED
        BY <1>10, <2>1, <2>4, <4>1 DEF StageInv
    <3>3. Longest(m) \in Nat /\ Ends(U!Program(m)) /\ Takes(U!Program(m), Ops(m), Longest(m))
      BY ProgramsTake
    <3>4. ~Late(m) => pause'[m] + Longest(m) + Allowed(m) < ToNext'
      <4>1. m # "InitNFC" => Ahead' \in {5, 7} /\ Allowed(m) = 0
        BY <1>2, <1>3, <2>3, <3>1 DEF Nth, Allowed, Early
      <4>2. m # "InitNFC" => Longest(m) < U!Ticks(1000)
        BY StartupAssumption DEF Longest, U!SleepsSuffice, Early
      <4>3. m = "InitNFC" => Ahead' = 3
        BY <3>1 DEF Nth
      <4>4. CASE m # "InitNFC"
        BY <1>13, <2>1, <3>2, <3>3, <4>1, <4>2, <4>4
      <4>5. CASE m = "InitNFC"
        <5> DEFINE z == U!Trouble
                   y == NUM_PORTS * U!Answer
                   T == U!Ticks(10)
        <5>1. TOLERATED \in Nat /\ faulty \in Nat /\ z \in Nat
          BY <1>5, StartupAssumption, CostIsNat DEF StartTypes
        <5>2. Allowed(m) = (TOLERATED - faulty) * z
          BY <4>5 DEF Allowed
        <5>3. y + TOLERATED * z + PRINTING + T < U!Ticks(5000)
          BY StartupAssumption DEF U!SleepsSuffice
        <5>4. Longest(m) = y + PRINTING + T
          BY <4>5 DEF Longest
        <5>5. y \in Nat /\ T \in Nat /\ PRINTING \in Nat /\ U!Ticks(5000) \in Nat
          <6>1. NUM_PORTS \in Nat /\ U!Answer \in Nat /\ PRINTING \in Nat
            BY StartupAssumption, CostIsNat
          <6> DEFINE w == U!Answer
          <6>2. w \in Nat
            BY <6>1
          <6> HIDE DEF w
          <6>3. NUM_PORTS * w \in Nat
            BY <6>1, <6>2
          <6> QED
            BY <6>1, <6>3, TicksIsNat DEF w
        <5> HIDE DEF z, y, T
        <5>6. (TOLERATED - faulty) * z <= TOLERATED * z /\ TOLERATED * z \in Nat
              /\ (TOLERATED - faulty) * z \in Int
          <6>1. faulty * z \in Nat /\ TOLERATED * z \in Nat
            BY <5>1
          <6>2. (TOLERATED - faulty) * z = TOLERATED * z - faulty * z
            BY <5>1
          <6> QED
            BY <6>1, <6>2
        <5> DEFINE v == (TOLERATED - faulty) * z
                   u == TOLERATED * z
        <5>7. v <= u /\ u \in Nat /\ v \in Int /\ y + u + PRINTING + T < U!Ticks(5000)
          BY <5>3, <5>6
        <5>8. Allowed(m) = v
          BY <5>2
        <5> HIDE DEF v, u
        <5>9. 0 + (y + PRINTING + T) + v < U!Ticks(5000)
          BY <5>5, <5>7
        <5>10. ToNext' = U!Ticks(5000)
          BY <1>13, <4>3, <4>5
        <5>11. pause'[m] = 0
          BY <2>1, <3>2
        <5> QED
          BY <5>4, <5>8, <5>9, <5>10, <5>11
      <4> QED
        BY <4>4, <4>5
    <3>5. InTime(m)'
      BY <2>1, <2>2, <3>2, <3>3, <3>4 DEF InTime
    <3>6. ~(Ahead' > 9 - 2 * Nth(m)) /\ ~(Ahead' <= 7 - 2 * Nth(m))
      BY <2>3, <3>1
    <3> QED
      BY <2>1, <3>2, <3>3, <3>5, <3>6 DEF StageInv
  <2>5. CASE t # m
    <3>1. stage'[m] = stage[m]
      BY <1>10, <2>1, <2>5
    <3>2. Ahead' > 9 - 2 * Nth(m) <=> Ahead > 9 - 2 * Nth(m)
      BY <1>2, <1>3, <2>3, <2>5
    <3>3. Ahead' <= 7 - 2 * Nth(m) => ~(Ahead > 9 - 2 * Nth(m))
      BY <1>2, <1>3, <2>3
    <3>4. Ahead' <= 7 - 2 * Nth(m) => stage'[m] = "done" \/ Late(m)
      BY <1>8, <2>1, <3>1, <3>3 DEF StageInv
    <3>5. stage[m] = "live" => InTime(m)'
      <4>1. stage[m] = "live" => Late(m) /\ \E c \in Nat : Takes(todo[m], Ops(m), c)
        BY <1>8, Lively
      <4> QED
        BY <2>1, <2>2, <4>1 DEF InTime
    <3> QED
      BY <2>1, <2>2, <3>1, <3>2, <3>4, <3>5 DEF StageInv
  <2> QED
    BY <2>4, <2>5
<1> QED
  BY <1>11, <1>12, <1>14, <1>15 DEF StartInv

-----------------------------------------------------------------------------
(* The theorem.                                                             *)

\* It holds at first.
LEMMA InitStart == U!Init => StartInv
<1> SUFFICES ASSUME U!Init PROVE StartInv
  OBVIOUS
<1> DEFINE M == "NFCtask"
           P == "InitPortController"
<1>1. /\ stage = [n \in U!Names |-> IF n = M THEN "live" ELSE "new"]
      /\ todo = [n \in U!Names |-> U!Program(n)]
      /\ pause = [n \in U!Names |-> 0]
      /\ m_peConnectedPorts = [i \in U!Ports |-> 0]
      /\ connected \in SUBSET U!Ports /\ faulty = 0
  BY DEF U!Init
<1>2. M \in U!Names /\ "InteractiveMode" \in U!Names /\ P \in U!Names
      /\ \A m \in Early : m \in U!Names /\ m # M
  BY TheTasks DEF Early
<1>3. StartTypes
  BY <1>1 DEF StartTypes
<1>4. todo[M] = U!NFCtask /\ todo["InteractiveMode"] = <<>> /\ todo[P] = U!InitPortController
  BY <1>1, <1>2 DEF U!Program
<1>5. Ahead = 8
  <2>1. Len(U!NFCtask) = 8
    BY NFCtaskIs
  <2> QED
    BY <1>4, <2>1 DEF Ahead
<1>6. MainInv
  <2>1. todo[M] = [i \in 1 .. 8 |-> U!NFCtask[8 - 8 + i]]
    <3>1. U!NFCtask = [i \in 1 .. 8 |-> U!NFCtask[i]]
      BY NFCtaskIs
    <3>2. \A i \in 1 .. 8 : 8 - 8 + i = i
      OBVIOUS
    <3> QED
      BY <1>4, <3>1, <3>2
  <2>2. stage[M] = "live" /\ stage["InteractiveMode"] = "new"
    BY <1>1, <1>2
  <2> QED
    BY <1>4, <1>5, <2>1, <2>2 DEF MainInv
<1>7. ListInv
  <2>1. 0 \in 0 .. NUM_PORTS /\ U!Ports = 1 .. NUM_PORTS
    BY StartupAssumption DEF U!Ports
  <2>2. Lists(todo[P], 0)
    BY <1>4, ListsProgram
  <2>3. U!Listed = {}
    <3>1. \A i \in U!Ports : m_peConnectedPorts[i] = 0
      BY <1>1
    <3> QED
      BY <3>1 DEF U!Listed
  <2>4. connected \cap 1 .. 0 = {}
    OBVIOUS
  <2>5. stage[P] = "new"
    BY <1>1, <1>2
  <2>6. m_peConnectedPorts \in [U!Ports -> U!Ports \cup {0}] /\ \A i \in U!Ports : m_peConnectedPorts[i] = 0
    BY <1>1
  <2> QED
    BY <1>1, <2>1, <2>2, <2>3, <2>4, <2>5, <2>6 DEF ListInv
<1>8. ASSUME NEW m \in Early PROVE StageInv(m)
  <2>1. stage[m] = "new" /\ todo[m] = U!Program(m) /\ pause[m] = 0
    BY <1>1, <1>2
  <2>2. Nth(m) \in 1 .. 3
    BY DEF Nth
  <2>3. Ahead > 9 - 2 * Nth(m) /\ ~(Ahead <= 7 - 2 * Nth(m))
    BY <1>5, <2>2
  <2> QED
    BY <2>1, <2>3 DEF StageInv
<1> QED
  BY <1>3, <1>6, <1>7, <1>8 DEF StartInv

\* It survives every step: InteractiveMode() takes none here.
LEMMA NextStart == StartInv /\ [U!Next]_(U!vars) => StartInv'
<1> SUFFICES ASSUME StartInv, [U!Next]_(U!vars) PROVE StartInv'
  OBVIOUS
<1>1. CASE UNCHANGED U!vars
  <2>1. stage' = stage /\ todo' = todo /\ pause' = pause /\ faulty' = faulty
        /\ m_peConnectedPorts' = m_peConnectedPorts /\ connected' = connected
    BY <1>1 DEF U!vars
  <2>2. StartTypes /\ MainInv /\ ListInv /\ \A m \in Early : StageInv(m)
    BY DEF StartInv
  <2>3. Ahead' = Ahead
    BY <2>1 DEF Ahead
  <2>4. ToNext' = ToNext
    BY <2>1, <2>3 DEF ToNext
  <2>5. StartTypes' /\ MainInv'
    BY <2>1, <2>2, <2>3 DEF StartTypes, MainInv
  <2>6. ListInv'
    BY <2>1, <2>2, ListSame
  <2>7. \A m \in Early : StageInv(m)'
    BY <2>1, <2>2, <2>3, <2>4, StageSame
  <2> QED
    BY <2>5, <2>6, <2>7 DEF StartInv
<1>2. CASE U!Tick
  BY <1>2, TickSteps
<1>3. ASSUME NEW n \in U!Names, U!Step(n) PROVE StartInv'
  <2>1. CASE n \in Early
    <3>1. ~U!ScheduleTask(n)
      <4>1. SUFFICES ASSUME U!At(n, "start") PROVE FALSE
        BY DEF U!ScheduleTask
      <4>2. "start" \in Ops(n)
        BY <2>1, <4>1, Awake
      <4> QED
        BY <4>2 DEF Ops
    <3> QED
      BY <1>3, <2>1, <3>1, WaitOrWork, ExitSteps, ProbeSteps, AppendSteps, DoFaceSteps, TrySteps, Zenon DEF U!Step
  <2>2. CASE n = "NFCtask"
    <3>1. \A op : U!At("NFCtask", op) => op \in {"exit", "wait", "start"}
      BY MainStep
    <3>2. /\ ~U!Work("NFCtask") /\ ~U!ProbeFace("NFCtask") /\ ~U!AppendPort("NFCtask")
          /\ ~U!DoFace("NFCtask") /\ ~U!TryInit("NFCtask")
      BY <3>1 DEF U!Work, U!ProbeFace, U!AppendPort, U!DoFace, U!TryInit
    <3> QED
      BY <1>3, <2>2, <3>2, MainWaits, MainStarts, MainExits, Zenon DEF U!Step
  <2>3. CASE n = "InteractiveMode"
    <3>1. todo[n] = <<>>
      BY <2>3 DEF StartInv, MainInv
    <3>2. \A op : ~U!At(n, op)
      BY <3>1 DEF U!At
    <3> QED
      BY <1>3, <3>2 DEF U!Step, U!Wait, U!Work, U!ScheduleTask, U!ExitTask, U!ProbeFace, U!AppendPort, U!DoFace, U!TryInit
  <2> QED
    BY <2>1, <2>2, <2>3, TheTasks
<1> QED
  BY <1>1, <1>2, <1>3 DEF U!Next

\* It says that the stages keep their order.
LEMMA StartInOrder == StartInv => StagesInOrder
<1> SUFFICES ASSUME StartInv PROVE StagesInOrder
  OBVIOUS
<1>1. StartTypes /\ MainInv /\ ListInv /\ \A m \in Early : StageInv(m)
  BY DEF StartInv
<1>2. Ahead \in 0 .. 8
  BY <1>1 DEF MainInv
<1>3. ASSUME NEW i \in DOMAIN U!Stages, NEW k \in DOMAIN U!Stages, i < k, stage[U!Stages[k]] # "new"
      PROVE  \/ stage[U!Stages[i]] = "done"
             \/ U!Stages[i] = "InitNFC" /\ faulty > TOLERATED
  <2>1. i \in 1 .. 3 /\ k \in 2 .. 4 /\ i + 1 <= k
    BY <1>3, TheTasks
  <2>2. U!Stages[i] \in Early /\ Nth(U!Stages[i]) = i
    BY <2>1, TheTasks DEF Early, Nth
  <2>3. Ahead <= 9 - 2 * k
    <3>1. CASE k = 4
      <4>1. U!Stages[k] = "InteractiveMode"
        BY <3>1, TheTasks
      <4>2. Ahead <= 1
        BY <1>1, <1>3, <4>1 DEF MainInv
      <4> QED
        BY <1>2, <3>1, <4>2
    <3>2. CASE k # 4
      <4>1. U!Stages[k] \in Early /\ Nth(U!Stages[k]) = k
        BY <2>1, <3>2, TheTasks DEF Early, Nth
      <4>2. ~(Ahead > 9 - 2 * Nth(U!Stages[k]))
        BY <1>1, <1>3, <4>1 DEF StageInv
      <4> QED
        BY <1>2, <2>1, <4>1, <4>2
    <3> QED
      BY <3>1, <3>2
  <2>4. Ahead <= 7 - 2 * Nth(U!Stages[i])
    BY <1>2, <2>1, <2>2, <2>3
  <2>5. stage[U!Stages[i]] = "done" \/ Late(U!Stages[i])
    BY <1>1, <2>2, <2>4 DEF StageInv
  <2> QED
    BY <2>5 DEF Late
<1>4. ASSUME NEW n \in U!Names PROVE stage[n] # "refused"
  <2>1. CASE n \in Early
    BY <1>1, <2>1 DEF StageInv
  <2>2. CASE n \in {"NFCtask", "InteractiveMode"}
    BY <1>1, <2>2 DEF MainInv
  <2> QED
    BY <2>1, <2>2, TheTasks
<1>5. stage["InitLEDs"] # "new" => U!Listed = connected
  <2>1. U!Stages[1] = "InitPortController" /\ U!Stages[2] = "InitLEDs" /\ 1 \in DOMAIN U!Stages
        /\ 2 \in DOMAIN U!Stages /\ 1 < 2
    BY TheTasks
  <2>2. stage["InitLEDs"] # "new" => stage["InitPortController"] = "done"
    BY <1>3, <2>1
  <2> QED
    BY <1>1, <2>2 DEF ListInv
<1> QED
  BY <1>3, <1>4, <1>5 DEF StagesInOrder, U!StagesInOrder

\* main.cpp:480-490, for any number of faces, whichever of them are connected
\* and whichever attempts at their chips fail: if the sleeps suffice, the tasks
\* that NFCtask() starts keep their order and the list is complete when it is
\* read, as long as no more than TOLERATED of the chips are faulty.
THEOREM StagesKeepTheirOrder == U!Spec => []StagesInOrder
  BY InitStart, NextStart, StartInOrder, PTL DEF U!Spec

-----------------------------------------------------------------------------

\* What the run explores are behaviours of the kernel with its sleeps, of the
\* clock and of the tasks that NFCtask() starts, two of the three standing still:
\* the theorems are about the same models.
THEOREM TheParts == MCSpec => SSpec /\ C!Spec /\ U!Spec
<1>1. MCInit => SInit /\ C!Init /\ U!Init
  BY DEF MCInit
<1>2. [MCNext]_<<part, svars, cvars, uvars>>
        => [SNext]_svars /\ [C!Next]_(C!vars) /\ [U!Next]_(U!vars)
  BY DEF MCNext, svars, cvars, uvars, C!vars, U!vars
<1> QED
  BY <1>1, <1>2, PTL DEF MCSpec, SSpec, C!Spec, U!Spec

=============================================================================
