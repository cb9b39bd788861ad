# smartblocks-os in TLA+

A verification of the program in `source/`: the firmware of a robotic block with an
ATmega microcontroller, six faces, leds and an NFC chip on each of them. It contains a small
preemptive kernel, spinlocks, interrupt driven drivers for the serial port and the two-wire
bus, drivers for the devices behind the bus, and the tasks that use them.

Paths and line numbers are those of `source/`. `PROJECT.json` maps each definition to the
lines it models, and lists runs, mutants, findings, hazards and theorems.

## 1. The system

| Component | State | Operations | Interacts by |
|---|---|---|---|
| **Kernel** `system.cpp`, `system.h`, `context.h` | `tasks[]` (`sp`, `running`, `sleep_time`), `task_count`, `current_task`, a stack per slot | `schedule_task`, `run`, `yield`, `sleep`, `exit_task`; the timer interrupt every 10 ms | switches contexts by the timer and by calls; all other components run on it |
| **Lock** `resource.h` | `locked` | `lock` (spins, yielding), `unlock` | calls `yield`; base class of three drivers |
| **Serial port** `huart_controller.cpp` | a transmit and a receive ring, registers of the UART | `Write`, `Flush`, `Available`, `Read`; RX and UDRE interrupts | a task and an interrupt share each ring without a lock |
| **Two-wire (TW) controller** `tw_controller.cpp` | `unState`, buffers, error, repeated START flag | `BeginTransmission`, `Write`, `EndTransmission`, `Read(address, n)`, `Read()`; TWI interrupt | the task spins until the interrupt has finished the transaction |
| **Port controller** `port_controller.cpp` | multiplexer, reset register of the faces, interrupts seen | `instance`, `SelectPort`, `EnablePort`, `DisablePort`, `IsPortConnected`, `SynchronizeInterrupts`, ... | its lock protects the multiplexer; takes the TW lock inside it |
| **LED controller** `led_controller.cpp` | registers of the light drivers | `Init`, `SetMode`, `SetBrightness`, `SetColor`, ... on a face | port lock, then TW lock, for each transaction |
| **NFC controller** `nfc_controller.cpp` | one packet buffer per object | `Init`, `Send`, `Receive` and the commands they consist of | several locked transactions per command; peer to peer with the chip of another block |
| **Application** `main.cpp` | list of the connected faces | `NFCtask` schedules `InitPortController`, `InitLEDs`, `InitNFC`, `InteractiveMode` one after the other; the keys of `InteractiveMode` schedule more | everything above |
| **Timer** `timer.cpp` | a counter of four bytes | `GetMilliseconds`; the interrupt every ms | tasks read what the interrupt increments, byte by byte |
| **Dispatch** `interrupt.cpp` | an owner per vector | `Register`, the handlers | one owner, the port controller, set by a static constructor |

What is hard, and what makes each part correct:

* **Kernel.** The timer interrupt falls between any two instructions of `schedule_task`, `sleep`
  and `exit_task`, most of which run with the interrupts enabled. *Correct if* a switch always
  restores the frame that was saved for it, an accepted task has a slot of its own until it exits,
  a refusal means a full table, nobody starves, and a sleep lasts what it should.
* **Lock.** The flag is read with the interrupts enabled and taken later; tasks nest locks, sleep
  inside them and spin by yielding. *Correct if* two tasks are never inside and all get in.
* **Serial port.** Ring indexes wrap, are full or empty, and each side sees the other's index
  change at any moment; `TXC0` is cleared by one and awaited by another. *Correct if* each
  direction is a FIFO, `Flush` returns, and only when all has left.
* **TW controller.** A state machine driven by what slaves answer, with errors and a repeated START
  across calls. *Correct if* the value of each call is the truth and each call returns.
* **Port, LED, NFC controllers.** Sequences of locked sections with other tasks in between; a shared
  multiplexer; registers read in one section and written back in another; replies that do not come,
  or come late, into a buffer that still holds older ones. *Correct if* transactions reach the face
  they are meant for, no update is lost, and `true` means the message was exchanged.
* **Application.** Steps are ordered by sleeping for a second or five; refusals of `schedule_task` are ignored; the
  tasks that the keys start never end and compete for slots and locks with the one that reads the keys.
  *Correct if* each step has ended before the next one starts, and the keys are read for ever.
* **Timer.** Four loads of a counter that an interrupt changes. *Correct if* the value is one the counter had.

## 2. The modules

```
Multitask <--implements-- SystemPromise --extends--> System <--extends-- SystemSleep
    ^          (SystemPromiseProofs)                    ^  ^-- SystemInvariant <-- SystemProofs
    | runs over (INSTANCE)                              |
Resource <-- ResourceProofs                         TaskStacks (the bytes of the stacks)
    ^ assumed by
    |-- Interactive (its tasks and keys)                Startup (its order in time)
Faces --extends--> LEDController --extends--> PortController
    ^ assumed by    ^-- FacesOutline <-- FacesProofs
NFCController, PortInterrupts <-- NFCProofs             SystemSleep, Timer, Startup <-- TimeProofs

SerialPipe <--implements-- HUARTTransmit, HUARTReceive --extends--> HUART
    (HUARTProofs)
TWController <-- TWControllerProofs  (assumed by Faces: a transaction is a start and an end)
```

The `MC` modules are instances for TLC. Three of them put together what has no state in common, one part at a
time, so that one run answers the questions of a subsystem: `MCTime` (`Timer`, `SystemSleep`, `Startup`), `MCSerial` (both halves of the
port, and `Interactive`, which reads it), `MCNFC` (`PortInterrupts` and `NFCController`). The proofs about these parts extend the same modules, so that a
theorem and the run speak of one definition.

Components are composed by assumption and guarantee, one layer at a time: `System` is shown to
implement the promise `Multitask`; `Resource` runs over `Multitask`, not over slots and stacks;
`Interactive` and `Startup` take their slots, locks and sleeps from what `System`, `Resource` and `SystemSleep` establish;
`Faces` takes its locks to be what `Resource` establishes, and its transactions to be what
`TWController` establishes; `NFCController` takes a transaction to be one step, since `Faces`
establishes that it is alone on the bus and reaches its chip.

### System, SystemInvariant, SystemPromise, SystemSleep, Multitask

One variable for each global of `system.cpp`. A *job* is one activation of a task function, i.e. one
call of `schedule_task`. `cpu` is the context that executes (`pc` says where in which call), `stack[n]`
the frame last saved on the stack of slot `n`, and `sp[n]` names the job whose frame the stack
pointer designates: pointer and bytes can disagree, and then a restore gives `Garbage`. `phase` is
history.

| Action | Code |
|---|---|
| `ScheduleCall`, `ScheduleTest`, `ScheduleScan`, `ScheduleCount`, `ScheduleStack`, `SchedulePublish` | `schedule_task` statement by statement; the last is its `cli()`..`sei()` section |
| `Yield`, `SleepCall`/`SleepStore`/`SleepSwitch`, `ExitTask`/`ExitSwitch` | the other calls; `sleep_time` is stored a byte at a time, in either order |
| `TimerISR`, `DoSomethingElse` | `SAVE_CONTEXT`, choice, `RESTORE_CONTEXT`, with interrupts disabled: one step |

`Multitask` is the abstract specification, without slots, stacks or interrupts: at most `MAX_TASKS`
live jobs, a refusal only if all places were taken at the call, a turn only for a live job that is
awake, and none has two turns while another one waits. `SystemPromise` adds the history this needs
and states `KeepsPromise == Promise!Spec`. It also records the `slot` each job was scheduled into, for `ExecutingTaskIsCurrent`:
`exit_task` and `sleep` write to the slot of `current_task`, which must be that of the job that calls them, after `exit_task` has given it up too. `SystemSleep` counts timer interrupts during a sleep.

### Startup

`NFCtask` and the four tasks it starts, as programs of sleeps, busy stretches, `schedule_task` and what they prepare for each other:
`InitPortController` fills `m_peConnectedPorts` (`ProbeFace`, `AppendPort`), `InitLEDs` and `InitNFC` walk through it (`DoFace`), and nothing but the sleeps makes one wait for the other. Time is
counted in timer interrupts; a `Tick` comes when nobody has a step left that fits before it. The faces that are connected are open, and so is each attempt to
initialise a chip (`TryInit`): `CNFCController::Init` makes up to three, and any may fail at any of its three commands, without an acknowledgement, without a reply, or
with a wrong one. `faulty` counts the chips whose first attempt failed. `SleepsSuffice` is the arithmetic that the sleeps of `NFCtask` rely on: each is longer than what the task started before
it takes at most. `MCTime` assumes it of its constants.

### Interactive

`InteractiveMode` and what its keys start: `dummy5` (`u`), `VariateLEDsOnPort` on a fixed face (`n`, `e`), `InitNFC` (`i`), `NFCTransmit` (`t`); without a key, `NFCReact`. The
tasks are loops over steps (take a lock, one transaction, give it back, sleep, ...) in the slots of the kernel, which serves them in turn (`NextTask`). `Take`/`Spin` are
`lock()`, `ScheduleTask` is `schedule_task` with its ignored refusal. A transaction with a face that is not connected never ends (`Stalled`).

### Timer

The counter as bytes, incremented with its carries by `ISR`; `GetMilliseconds` as the statements `SaveSREG`, `Cli`, one `Load` per byte, `RestoreSREG`.

### TaskStacks

Bytes and addresses: `memset`, the layout of the first frame (return address at `top` and `top - 1`,
argument in the bytes of r24 and r25, `sp = top - 35`), what a context switch and the task push. It
leaves out which task is chosen.

### Resource

`Peek` reads the flag with the interrupts enabled, `Claim` is the section that reads it again and takes
it, `LockYield` the call of `yield()`. Callers nest as in the code (TW inside PORT) and may sleep with a lock; `ROUNDS` says how often each calls `lock()` in its life,
and one that may call it twice can do so inside its first lock or after it.

### HUART, HUARTTransmit, HUARTReceive, SerialPipe

`Write` statement by statement, `Flush`, the UDRE interrupt, and the two registers of the transmitter;
`Available` and `Read`, the RX interrupt and the two-byte receiver. Both are checked, and proved, to implement
`SerialPipe`, a FIFO of bounded capacity. `SERIAL_BUFFER_SIZE` is a parameter.

### TWController

The calls, one action of the interrupt for each group of `case` labels (`Started`, `TransmitNext`,
`Refused`, `ArbitrationLost`, `ReceiveNext`, `ReceiveLast`, `ReceiveRefused`), and the hardware: it
executes what was last written to `TWCR` and reports. Slaves refuse or accept addresses and bytes
as they like; a bounded number of bus errors and lost arbitrations may happen.

After a repeated START the code writes the address to `TWDR` and then `TWCR`, with the interrupts enabled and without asking whether the START has ended ("we hope"). These are
two steps, `LoadAddress` and `SendLoaded`. If the START ends before both, or after both, all is well: in the second case the interrupt, enabled by `TWCR`, sends the address. If it ends between
them the address was written in vain, and what `TWDR` held before goes over the bus in its place, which may be any address (`blind`). The values of such a call say nothing
about the slave it was meant for. A slave that was meant to be read may then be written to, and one byte beyond the length of the call is taken from the buffer or put into it; the bytes of the model's buffer
that no call has filled are arbitrary, and `TypeOK` lets the index leave the buffer by one in this case only.

### PortController, LEDController, Faces, PortInterrupts

The drivers of the faces have no state to speak of but what is in the devices; what matters is where
another task may come in between. So `PortController` and `LEDController` define each call as the
*sequence of its steps* (lock, unlock, select, start and end of a transaction with its effect, pulse on the
clock line), `Faces` defines the tasks of `main.cpp` as sequences of calls and executes them,
interleaved between any two steps. `instance()` expands at run time, since whether it initialises the
controller depends on `bInitRequired`. A transaction of a driver of the face may fail (`failures`): nobody looks at the value of
`EndTransmission`, `Read` answers a byte all the same, and `EnablePort` and `SetMode` write it back.

`PortInterrupts` has the port expander, its INT output, the external interrupt (`Handler01`, `ServiceRoutine`) and
`SynchronizeInterrupts`/`NFCReact`, from the construction on: faces may call before `Init()` enables the interrupt (`EnableInterrupt`), which
is why `bSynchronizeRequired` starts as true. A reading may fail (`failures`): nobody looks at the value of `EndTransmission`, and `Read()` answers 0xFF, which says that no face is
low, and is kept as the last state of the register.

### NFCController

A call is a sequence of commands; each is written (`WriteCmd`), acknowledged (`ReadAck`) and answered
(`ReadReply`), or not (`TimedOut`). The buffer keeps the bytes that are looked at: first byte,
direction, id, status, data; a command overwrites those its parameters reach (`Parameters`), so that
the rest is what an earlier command read. `Accepts` are the tests of each command. The chips (PN532) are
external, modelled from how the code uses them: they acknowledge, obey, fail or keep silent.

## 3. The runs

| Run | Question | Instance |
|---|---|---|
| `kernel` | Do switches restore what was saved? Is an accepted job hosted, served for ever, and alone in its slot? Does the kernel keep the promise of `Multitask`? Does `schedule_task` return? | 2 slots, 4 jobs of which 2 schedule, a sleep of 2 ticks, `BYTE = 3` |
| `kernel_overlap` | The same, if two calls of `schedule_task` overlap: **violated** | 3 slots, 4 jobs |
| `sleep` | Is a sleep that the timer did not cut in the middle of its store right to one tick, and never short? Are the sleeps of `NFCtask` long enough? Is the time that is read true? | 2 jobs, ticks of 2 ms, sleeps of 1, 4, 5 ms (not multiples of a tick); the real faces, slots, interval and sleeps; no face connected, two or all six, chips that answer at once or at the second poll and of which two may fail (`FAULTS`), one more than the sleeps allow for (`TOLERATED`); a clock of 4 binary digits that wraps |
| `sleep_error` | Is every sleep within the error the README announces? **violated** | 1 job, real tick (10 ms) and bytes (256) |
| `locks` | Mutual exclusion, flag raised iff held, everybody finishes | 3 jobs, 2 locks: two jobs lock twice, one inside the other or one after the other, the third takes either; sleeping inside |
| `serial` | FIFO in both directions, no byte stuck, `Flush` honest, `Available` honest; does `InteractiveMode` come round to its keys for ever? | ring of 3 places, 5 bytes each way: it wraps and is full; 3 slots, 2 keys, one connected face of the two that have a key: the table fills and a key meets a refusal |
| `serial_flush` | Does `Flush` always return? **violated** | 3 bytes |
| `twowire` | Are the values of the calls true, but for one whose address was written too early; is the interrupt quiet in between, do calls return? | buffer of 2, a slave and an address without one, 3 transactions, 1 disturbance |
| `faces` | Right face, bus alone, no update lost, and a failed transaction spoils no other register than its own | 2 faces of 8 leds, tasks as in `main.cpp`, plus `DisablePort`: three tasks, or two and one transaction that fails |
| `irq_lost` | Is a face that calls noticed? **violated** | 2 faces, 3 changes of a line, no failed reading |
| `nfc` | Old frames never accepted, `Send`/`Receive` tell the truth, calls return; and a call stays unnoticed only by the way of `irq_lost` or by a failed reading, until one succeeds | two exchanges in turn; one with `InitNFC` behind it; a chip initialised twice with 3 attempts; 3 changes of a line and a failed reading, before or after the interrupt is enabled |
| `stacks` | Is the stack of a task its own? **violated** | 3 slots, 38 byte stacks (a frame and three bytes) |

Each property of a passing run has a mutant of the code, a plausible mistake, under which it fails.

### What the runs showed

Five disagreements of the code with what its comments or README say (`findings`):

1. *Two calls of `schedule_task` at once* take the same slot (`system.cpp:76`); both return 0, one task never runs.
2. *`sleep`* stores two bytes with the interrupts enabled (`:129`): a tick in between makes `sleep(10)` last about 250 ms.
3. *`memset`* in `schedule_task` (`:82`) clears the top byte of the next slot's stack. With the range moved up by one
   byte the same model satisfies `StackReserved` (159 235 states).
4. *`Write`* clears `TXC0` after it has enabled the interrupt (`huart_controller.cpp:216`): a task preempted there for longer than a byte clears
   the flag of its own byte, and `Flush` spins until more is written.
5. *`SynchronizeInterrupts`* resets its flag after the reading (`port_controller.cpp:88`): a call in between is forgotten.
   A reading that fails has the same effect, since the flag is reset after it all the same. `LostOnlyUnread` shows that these are the only two ways for a
   line that has fallen and stays low to remain unnoticed for ever, in the model's bounds, and only if no reading succeeds afterwards. A line that rises and falls again between two
   readings is not visible to the code at all. A failed reading can also make up a call: a face still low seems to fall again at the next one (`NoPhantomCall` allows
   one such answer for each failed reading, and no other).
   `ClearInterrupts()` in `NFCTransmit` ("why clear interrupts?") is harmless: between two rounds of
   `InteractiveMode` the vector is empty.

And some things hold that are not obvious from the code. `Probe()` means to check the firmware version, but `strncmp` stops at the
zero that starts both frames; yet this one byte is what keeps a stale frame from being taken for a reply of
`GETFIRMWAREVERSION` (the mutant of `OwnReply` drops it). With two tasks on one chip the last
`PowerDown()` of an exchange can accept an old frame; nobody looks at its value. When `Send`
returns true the message is in the other task's buffer, but that task's `Receive` may return
false, since its own confirmation may be lost.

The sleeps of `NFCtask` are long enough for any faces that are connected, though nothing but time orders its tasks, as long as
the first attempt fails at one of the chips at most. An attempt may fail at its last poll of its last command, and three such take so long that with a second chip like that
`InitNFC` can outlast the 5 s and run beside `InteractiveMode` (`StagesInOrder`, `TOLERATED`), with the consequences that `nfc` checks.

After a repeated START the two-wire controller writes the address before it knows that the START has ended ("we hope", `tw_controller.cpp:250`, `:347`).
If it ends just after that write, another slave may answer the call, and 0 may be returned for bytes that went elsewhere. `TransmitHonest` and `ReadFaithful`
have this one exception (`blind`): in every other interleaving the values are true.

`InteractiveMode` is never starved by the tasks that its keys start, although they never end, fill the table and hold the locks it
spins on. It stalls with a key for a face that is not connected, which the code does not ask about and of which
`port_controller.cpp:40` says that it "results in stalling the tw bus": `ComesRound` states this as its one exception.

### Why the bounds are enough

Slots, faces, ring places and buffer bytes are few, but enough for each boundary to be met: a full table
with slots to reuse, a ring that wraps and fills, a transaction longer than one byte, a face that is
number 0 (which a cleared multiplexer selects) and one that is not. `BYTE` is the base of the two
bytes of `sleep_time`: small, so that torn values occur in the counts, and 256 where the size of the error is the question;
in `Timer` it is the base of the `WIDTH` digits of the clock. Jobs, bytes, transactions, disturbances, calls, keys, failures and line changes are bounded by named constants
(`Jobs`, `ROUNDS`, `LIMIT`, `CALLS`, `ERRORS`, `KEYS`, `Settings`, `CHANGES`, `FAILURES`, `Budgets`, `Attempts`, `DEPTH`, `TICK_BOUND`), and so is what `Startup` takes
from outside: ticks spent on leds and on printing (`LIGHTING`, `PRINTING`), readings until a chip answers (`POLLS`), faulty chips (`FAULTS`) and the sets of connected faces that are tried (`CONNECTED`);
the longest counterexamples found have about ten steps after set-up, well inside. The theorems of section 4 do away with the bounds
for all safety properties.

Deadlock is checked, except where the system may come to rest because the environment has no more
to offer: the serial port when all bytes are through, the bus after the last transaction, the exchanges after the last call, the stacks after the last
task. The clock and the tasks of `Startup` go on for ever, and deadlock is checked. In `faces` the end of all tasks is an explicit step, so a deadlock of the locks would be found.

### Fairness

* *Kernel:* the timer ticks for ever (hardware); `main()` reaches `run()`; a job that executes again and again gets through the call it is
  in (strong fairness per job: its steps are few and a slice is 10 ms). That jobs do execute again and again is not assumed but checked (`LiveJobsRun`).
* *Locks:* sleeps end, and a job that executes again and again goes on (`GoOn`, strong fairness per job), in `lock()` or in its own code, which ends its critical sections since its
  calls of `lock()` are bounded. That jobs are given turns is what `kernel` checks. The strength excludes only that every turn of a job is cut exactly where the lock it spins on is free.
* *Serial port, TW controller:* the hardware goes on, interrupts are taken, and the task inside a call is given turns.
  No slave is obliged to acknowledge. `CallsReturn` of `TWController` has one exception, stated in it (`Stuck`): a
  disturbance of a repeated START, whose interrupt is masked ("we hope", `tw_controller.cpp:250`).
* *NFC:* tasks are given turns and locks; the chips owe nothing.
* *PortInterrupts:* the controller is initialised, `InteractiveMode` comes round to `NFCReact`, and the interrupt is taken. No reading is obliged to succeed; in the run one fails at most (`FAILURES`).
* *Interactive:* the timer ticks, sleeps end, and a slot that is served for ever takes its next step. Strong fairness of `Take` excludes only a resonance:
  that every turn a task ever gets is cut exactly where the lock it spins on is free.

## 4. The theorems

All hold for any values of the constants that their assumptions allow: any number of slots, jobs, sleeps, any tick, any byte.

### The kernel

`SystemProofs`, from `KernelAssumption` (what the constants are) and `Overlap = FALSE`:

* `KernelInvariant`: `Spec => []Inv`;
* `ContextSafety`: `Spec => []ContextIntegrity`;
* `JobsAreHosted`: `Spec => []AcceptedHosted`;
* `TypeCorrect`: `Spec => []TypeOK`.

`Overlap = FALSE` says that one call of `schedule_task` is in progress at a time, as while
`NFCtask` starts the others. The theorems, and the run `kernel`, say nothing of two calls that overlap: that is what `kernel_overlap` is for, which shows `AcceptedHosted` violated.

`ContextIntegrity` is not inductive: that a restore finds its frame depends on every slot that
may be chosen. `Inv` (in `SystemInvariant`) says it for all places: a stack pointer that may be restored names the frame
saved for it (`SavedFrames`); whose code each place holds (`MainAtIdle`, `JobsInSlots`); a job past its
last statement still executes from a slot it no longer owns (`Leaving`), which is why the slot must be free *and not current* to be chosen;
no two slots hold one job, and each live job has one; and a call in progress has chosen a free slot, which is nobody's
(`Scheduling`). The proof has one lemma for each action, most of them through three about the
switch. The invariant is also checked by TLC (`kernel`).

### The kernel keeps its promise

`SystemPromiseProofs!KernelKeepsPromise`: `PSpec => KeepsPromise`, the safety of the refinement `System => Multitask`, from the same
assumptions. Every step of the kernel is a step of `Multitask` or a stutter (`SubmitStep` to `TurnStep`), by `PromiseInv`, which adds to `Inv`:

* `Passing`: whoever has been passed is awake and waits, and the rotation comes to its slot before it comes again
  to that of a job that has passed it. Together with `First` (the code's index arithmetic modulo `task_count` returns the first runnable slot of the
  rotation) this is why no job has two turns while another waits. It survives that slots are freed and given to
  new jobs, because a job passes only once it has been accepted, and is never accepted again.
* `Searching`: if a slot was free at the call of `schedule_task`, one is free that the search has not come to, since no other call takes it: so
  a refusal means that every slot was taken at the call.
* `LiveCount` (live jobs are as many as slots that run, by a bijection) turns "every slot runs" into the "`MAX_TASKS` jobs live" of `Multitask`.

`SystemPromiseProofs!CurrentExecutes`: `PSpec => []ExecutingTaskIsCurrent`. `current_task` designates the slot that the executing job was scheduled into, also between the two statements of
`exit_task`, when another call may already have chosen that slot for a job of its own. The invariant (`Placed`) says of each place, free or not, that the job whose frame it keeps, or
which executes from it, was scheduled there.

### How long a sleep lasts

`TimeProofs`, from `Overlap = FALSE`, `KernelAssumption` and `SleepAssumption` (a positive argument of `sleep()` is one that an `int` holds, and
`TICK_BOUND`, where the history stops counting, is beyond each): `SleepsLongEnough`, `SSpec => []NoShortSleep`, and
`SleepsWithinTick`, `SSpec => []UncutSleepWithinTick`. `TheParts` shows that `MCTime` explores behaviours of `SSpec`, of `Timer` and of `Startup`.

Neither is inductive: they speak of the moment when a job is back, and say nothing of the slot that counts for it. `NapInv` follows each sleep from its call.
Between the two stores the byte stored is right (`HalfStored`), so that the second one makes `sleep_time` the argument, by the arithmetic of the two
bytes and the sign (`BytesOfWord`, `WordOfBytes`). From then on `sleep_time` is the argument less the interrupts so far, until it has passed
(`Counting`): hence no job is back early. Once it has passed, the rotation has at most `MAX_TASKS` turns to go
(`Near`), and each interrupt or `yield()` brings it at least one nearer, because `chooseNextTask()` passes no slot that may run (`NextTurn`): hence no job is back late.
The slots change hands meanwhile, and it is the kernel's own `Inv` that tells whose slot is counted down.

### What NFCtask makes of its sleeps

`TimeProofs!StagesKeepTheirOrder`: `U!Spec => []StagesInOrder`, where `U` is `Startup` in `MCTime`, from `StartupAssumption`: at least three slots, a chip that works answers before `read_dt()` gives up (`POLLS <= 24`), and
`SleepsSuffice`. With the numbers of the run these sums are 15 ticks before a sleep of 100 (`InitPortController`), 33 before 100 (`InitLEDs`), and 462 before 500 (`InitNFC`: 45 for each of
six chips, 189 more for one that is faulty, 3 to print and sleep; with two faulty chips it is 651). The theorem is for any number of faces, whichever of them are connected, any number of faulty chips, any tick, and any order in which the tasks get on.

`StagesInOrder` says nothing of time, so it is not inductive. The invariant `StartInv` says that the time left to a live task, its pause and the steps of its program, is less than what is left to
`NFCtask` until it starts the next one (`InTime`); hence, when that comes to nothing, the task is done. The sum over a program is not
computed but bounded: `Takes(s, ops, c)` says that there is a function which tells at each step how many ticks are left, starts at `c` at most, and falls by the cost of each step. Such functions
are joined, cut and repeated with their programs (`TakesBoth`, `TakesRest`, `TakesRepeat`), so that no induction over programs is needed. A step that others take the place of,
a face that is probed, lit or attempted, costs what they do. A chip whose first attempt fails costs up to three failures (`TakesTry`, `TakesFailing`), which it pays with what `TOLERATED` allows for (`Allowed`); once that is spent the task
may be late (`Late`), and it is the only one. That no task is refused follows: none but `NFCtask` and a late `InitNFC` is live when the next is started.
`ListInv` is about the list: what is yet to be appended (`Lists`) are the faces after the `k`-th in their order, those up to it that are connected are in the list, and its places from the next one on are free.

### The faces

`FacesProofs` is about any faces, any number of tasks, any interleaving, any transactions that fail, and any programs that keep the *discipline* of `FacesOutline`.
This is stated as a proof outline in the manner of Owicki and Gries: a `Point` says what a task relies on between two steps (the locks it holds, the face it has selected,
the register it has read and not yet written back), `Leads` which step takes it from one point to the next, and code is `Disciplined` if it has an
outline, from nothing held to nothing held. The invariant `FacesInv` says that what each task relies on is true; that no other task's step disturbs it is the proof.

* `OnTheRightFace` (`RightFace`), `AloneOnTheBus` (`BusAlone`), `OutputsKept` (`OutputsAsAsked`), `TypeCorrect` (`TypeOK`) assume `Disciplined`.
* `ModesKept` (`ModesAsSet`) assumes also `ModesOwned`, that the modes of a face are set by one task, because `SetMode` reads and writes in two sections of the
  controller: without it an update is lost.
* `NoDeadlock`: some task that has not finished is not waiting, since the bus is only locked inside the controller.
* `CallsKeepTheDiscipline` shows that the hypothesis is the code's: every call of `main.cpp`, with any list of faces, keeps the discipline, and so does one call
  after another. `TheInstance` shows it of the programs of the run.

The loops over faces are proved by induction over their number, which is possible here although the library's induction theorems cannot be instantiated: the least number for which
a claim fails exists by `WFMin` of `WellFoundedInduction`, and the claim is of a set.

### NFC

`NFCProofs`, for any tasks, calls, attempts and messages on two faces in contact (`NFCAssumption`; `CallsAssumption` says what the calls are made of):

* `OwnReplies`: `Spec => []OwnReply`, and `TypeCorrect`. The code does not look at the value of `read_dt()`, so what it tests may be an old frame. The invariant `Stale`
  says which: what is in the buffer when a reply fails to come is the reply to the command *before* this one, with this command over its first byte if the parameters reach
  no further. Each test of `Accepts` then refuses it, by the id of the command or, in `Probe()`, by that first byte.
* `SendTellsTheTruth` and `ReceiveTellsTheTruth`: `Spec => SendHonest` and `Spec => ReceiveHonest`, if at most one task talks through each face (`OneVoice`), as in `main.cpp`, where only
  `InteractiveMode` does; any others may initialise the same chip in between, at any step. The invariant `Honest` follows a message from the buffer of its sender
  through both chips and back: what the chips hold is the task's own (`OwnWords`), what is between them is the message or its answer (`Exchange`), what the target's chip
  has heard is what its task has or is about to read (`Heard`). `TheInstance`: the tasks of the run are such.
* `NoFalseCall`: `MCSpec => []NoPhantomCall`, for any faces and any number of line changes and failed readings. The invariant counts where a call may be on its way to being answered:
  on the line, in the byte that was read, in the vector, each at most once; a failed reading, after which a low line counts as unread again, is paid for by `failures`.

### The others

* `ResourceProofs`: `Exclusion`, `Spec => [](TypeOK /\ MutualExclusion /\ LockedIffHeld)`, and `FlagsTellTheTruth`, with the
  invariant that a flag is raised if and only if some job holds the resource, and that at most one does.
* `HUARTProofs`: `TransmitKeepsOrder` and `BytesInOrder`, `InOrder` and `ReceiveInOrder`, the refinements
  of `SerialPipe`, for any ring of at least two places. The invariant of each half says that the ring holds, from `tail` on, the bytes accepted and
  not yet delivered, one place at least being free; the lemmas `Wraps` and `EmptyOrFull` are the code's arithmetic modulo
  `SERIAL_BUFFER_SIZE`. In the transmitter the registers come before the ring: `line`, shift register, `UDR0` and ring,
  one after the other, are `written`. From the same invariants, `TypesCorrect`, `AskedAndFound` (`ToldTheTruth`) and, with `Quiet` (the interrupt is off
  only when the ring is empty, or `Write` is about to enable it), `FlushIsHonest` (`Spec => FlushMeansSent`).
* `TWControllerProofs!QuietBetween`: `Spec => []BetweenTransactions`. The invariant says what is pending when: the controller becomes ready only when the interrupt is disabled
  or nothing is commanded of the bus (`Quiet`), and until then `unState` is that of the transaction (`Busy`).
* `TWControllerProofs!TransmissionIsHonest` and `ReadingIsFaithful`: `Spec => TransmitHonest` and `Spec => ReadFaithful`. The invariant `Honest` follows a
  transaction through the hardware and the interrupt: what the slave has taken or given is in step with `unMasterBufferIndex`, for each
  command under way (`Executing`) and each report that waits to be served (`Reported`), so that `unError` tells the truth
  when it is over (`Told`). All this holds of a call that is not `blind`; of one that is, the invariant only says that the index has left the buffer by no more than a byte.
  Whether a call is blind is settled before its first interrupt. `TypeCorrect`, that the indexes stay in the buffers but for that byte, needs it too.
* `TimeProofs!TrueTime`: `C!Spec => []TimeIsTrue`, where `C` is `Timer` in `MCTime`, for bytes of any size and counters of any width, thus for the four bytes of the code
  (`ClockAssumption`). The invariant: the bytes loaded so far are those of the counter, and the interrupts are off.

### Only model-checked

* Liveness, since TLAPS has no `ENABLED`: `LiveJobsRun`, `ScheduleReturns`, `AllFinish`, `EverythingSent`, `ReceiverDrained`, `ComesRound`, both `CallsReturn`, `LostOnlyUnread`.
* What is violated; `Interactive`, whose one property is liveness; `TaskStacks`, which has a finding.

## 5. What is assumed and not modelled

* Hardware as its data sheets say, where the code relies on it: a byte of the UART takes longer than an
  interrupt routine; a PCA9554 holds INT low while an input differs from what was last read; an aborted PN532 command sends no
  reply.
* `Faces`: one task sets the modes of a face (`ModesOwned`: `InitLEDs`; the tasks of the keys `n` and `e` only set colours, so no two update one register), and
  `InitPortController` has filled its list when the others read it, as `StagesInOrder` establishes. A failed transaction takes no effect; the
  write of the configuration register in `Init()` does not fail. The list of faces and the tasks of a run are those of the instance, not what `Startup` computes.
* `Interactive`: between the steps of a task and the kernel stands what `System` and `Resource` establish; a transaction is one step; the TW lock, which none of these tasks
  takes outside the section of the port controller, is left out.
* `Startup`: what a task does between two sleeps fits in a tick, or in the ticks given by `LIGHTING` and `PRINTING`.
* `NFCController`: frames arrive whole or not at all; the answers of the chips to each other may be lost, not corrupted. `HasExternalField()` has no caller. The longest
  command of the code has 46 bytes, and the buffer of the TW controller 64.
* Not modelled: brightness, colours and blink rates, which are only written; formatting (`printf`, `printRAMUsage`,
  `GetPortString`); `LEDtask` and `LEDoff`, which nobody schedules, and the accelerometer demo, which `main` has commented out (it takes the lock of the bus
  but not that of the faces, unlike the others); handlers other than `Handler01`, which have no owner; `End()` of the serial port, which has no caller; the
  linker script, the Makefile and the toolchain in `toolchain/`, which is neither built nor changed here and makes up nearly all lines of the repository.

## 6. Plan

Done, in this order: kernel, locks, serial port, two-wire controller, faces, NFC, stacks; application (`Startup`, `Interactive`), timer, failing
transactions, calls before the initialisation; proofs of kernel, locks, clock, serial port, two-wire controller, calls of faces, and of the refinements
of `Multitask` and `SerialPipe`; proofs of faces, NFC, sleeps and the order of the start.

Proving changed the models in few places. `WriteMode` of `Faces` had a `CASE` with arms that overlapped, of which TLC takes the first and a proof may take neither: they are disjoint now.
`NFCController` says that two faces are in contact, which it had used without saying, and what its calls are made of. `SystemSleep` names the sleeps it is about.
`MCTime` extends `SystemSleep`, which it instantiated before, so that the theorems are about the definitions that run. In `Startup` the program of
`InitPortController` was spelled out for all faces by a recursive definition, of which nothing can be proved: now each face is probed by a step (`ProbeFace`), like the faces of the
other loops. Its numbers became constants of `MCTime`, so that the theorem is for all that satisfy `SleepsSuffice`.

With this every safety property that a passing run checks is a theorem. What is left to TLC is named above.
