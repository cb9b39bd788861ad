---------------------------- MODULE Interactive ----------------------------
(* InteractiveMode() of source/main.cpp and the tasks its keys start, which  *)
(* never end, or take long: they share the locks of the serial port and of   *)
(* the port controller, and the slots that the kernel serves in turn.        *)
(* Startup is what comes before.                                             *)
(*                                                                           *)
(* The kernel is taken to be what System establishes (a switch restores what *)
(* was saved), with its order of service; a lock what Resource establishes.  *)
EXTENDS Integers, Sequences

CONSTANTS
  MAX_TASKS,
  Connected,  (* the faces that are, of the two that have a key *)
  KEYS,       (* keys that are typed (a bound)                  *)
  Nobody      (* no task in a slot, no holder of a lock, no key *)

Slots == 0 .. MAX_TASKS - 1
Idle  == -1

-----------------------------------------------------------------------------
(* What the tasks do, as sequences of steps.                                *)

Lock(r)   == <<[op |-> "lock", res |-> r]>>
Unlock(r) == <<[op |-> "unlock", res |-> r]>>
Sleep     == <<[op |-> "sleep"]>>
Start(n)  == <<[op |-> "start", name |-> n]>>
Exit      == <<[op |-> "exit"]>>

\* What CLEDController, CNFCController (p is a face) or SynchronizeInterrupts()
\* do on the bus, once or more.  The TW lock, which none of these tasks takes
\* but inside this section, is left out.
Section(p) == Lock("PORT") \o <<[op |-> "bus", port |-> p]>> \o Unlock("PORT")

Printf == Lock("HUART") \o Unlock("HUART")

\* Send() or Receive(): sections with sleeps between them, then setFaceColor():
\* more of the same, that the loop of InteractiveMode() repeats anyway.
Exchange(p) == Section(p) \o Sleep

NFCTransmit(p) == Printf \o Exchange(p)

\* SynchronizeInterrupts(); the faces that called are received from.
NFCReact(p, called) ==
  Section("board") \o (IF called THEN Printf \o Exchange(p) ELSE <<>>)

\* What a key makes InteractiveMode() do: keys n and e do not ask which faces
\* are connected, the others use m_peConnectedPorts.
Answers(k) ==
  CASE k = "t" -> {NFCTransmit(p) : p \in Connected}
    [] k = "u" -> {Start("dummy5")}
    [] k = "n" -> {Start("NORTH")}
    [] k = "e" -> {Start("EAST")}
    [] k = "i" -> {Start("InitNFC")}
    [] k = Nobody -> {NFCReact(p, called) : p \in Connected, called \in BOOLEAN}

Keys == {"t", "u", "n", "e", "i"}

\* The loops of the tasks, and all of InitNFC().
InteractiveMode      == Lock("HUART") \o <<[op |-> "key"]>> \o Unlock("HUART")
dummy5               == Printf \o Sleep
VariateLEDsOnPort(p) == Section(p) \o Sleep
InitNFC              == Section("NORTH") \o Sleep \o Printf \o Exit

Body(n) ==
  CASE n = "InteractiveMode"    -> InteractiveMode
    [] n = "dummy5"             -> dummy5
    [] n \in {"NORTH", "EAST"}  -> VariateLEDsOnPort(n)
    [] n = "InitNFC"            -> InitNFC

-----------------------------------------------------------------------------

VARIABLES
  table,    \* the task in each slot, Nobody if it has finished
  todo,     \* the steps left of what it does
  asleep,   \* the slots that sleep
  current_task,
  holder,   \* of each lock: a slot, or Nobody
  typed,    \* the key that Available() tells of
  keys

vars == <<table, todo, asleep, current_task, holder, typed, keys>>

Locks == {"HUART", "PORT"}

\* NFCtask() has slot 0 and leaves it; the tasks it started had slots 1, 2 and 1
\* again, and InteractiveMode() has the third time, or 2 if InitNFC() is late.
Init ==
  /\ \E late \in BOOLEAN :
       table = [s \in Slots |-> CASE s = 1 -> IF late THEN "InitNFC" ELSE "InteractiveMode"
                                 [] s = 2 -> IF late THEN "InteractiveMode" ELSE Nobody
                                 [] OTHER -> Nobody]
  /\ current_task = 1
  /\ todo = [s \in Slots |-> <<>>]
  /\ asleep = {}
  /\ holder = [r \in Locks |-> Nobody]
  /\ typed = Nobody /\ keys = KEYS

\* chooseNextTask(), mistaken: it begins with the same slot every time
Next_First(runnable) ==
  IF runnable = {} THEN Idle ELSE CHOOSE s \in runnable : \A t \in runnable : s <= t

\* chooseNextTask(): the first slot after the current one that can run.
NextTask(runnable) ==
  LET Distance(s) == (s - current_task - 1) % MAX_TASKS
  IN  IF runnable = {} THEN Idle
      ELSE CHOOSE s \in runnable : \A t \in runnable : Distance(s) <= Distance(t)

Runnable == {s \in Slots : table[s] # Nobody} \ asleep

\* The timer interrupt; the sleeps of the slots in woken are over.
Timer(woken) ==
  /\ woken \subseteq asleep
  /\ asleep' = asleep \ woken
  /\ current_task' = NextTask(Runnable \cup woken)
  /\ UNCHANGED <<table, todo, holder, typed, keys>>

Type(k) ==
  /\ typed = Nobody /\ keys > 0
  /\ typed' = k /\ keys' = keys - 1
  /\ UNCHANGED <<table, todo, asleep, current_task, holder>>

\* Slot s executes, and its next step is op.
At(s, op) == current_task = s /\ todo[s] # <<>> /\ Head(todo[s]).op = op

Advance(s) == todo' = [todo EXCEPT ![s] = Tail(@)]

Again(s) ==
  /\ current_task = s /\ todo[s] = <<>>
  /\ todo' = [todo EXCEPT ![s] = Body(table[s])]
  /\ UNCHANGED <<table, asleep, current_task, holder, typed, keys>>

Take(s) ==
  /\ At(s, "lock") /\ Advance(s)
  /\ holder[Head(todo[s]).res] = Nobody
  /\ holder' = [holder EXCEPT ![Head(todo[s]).res] = s]
  /\ UNCHANGED <<table, asleep, current_task, typed, keys>>

\* lock() yields while the lock is taken.
Spin(s) ==
  /\ At(s, "lock")
  /\ holder[Head(todo[s]).res] # Nobody
  /\ current_task' = NextTask(Runnable)
  /\ UNCHANGED <<table, todo, asleep, holder, typed, keys>>

Give(s) ==
  /\ At(s, "unlock") /\ Advance(s)
  /\ holder' = [holder EXCEPT ![Head(todo[s]).res] = Nobody]
  /\ UNCHANGED <<table, asleep, current_task, typed, keys>>

\* A transaction; with a face that is not connected it never ends.
Transact(s) ==
  /\ At(s, "bus") /\ Advance(s)
  /\ Head(todo[s]).port \in Connected \cup {"board"}
  /\ UNCHANGED <<table, asleep, current_task, holder, typed, keys>>

ReadKey(s) ==
  /\ At(s, "key")
  /\ \E answer \in Answers(typed) : todo' = [todo EXCEPT ![s] = Tail(@) \o answer]
  /\ typed' = Nobody
  /\ UNCHANGED <<table, asleep, current_task, holder, keys>>

\* schedule_task(): the first free slot, or a refusal nobody looks at.
ScheduleTask(s) ==
  /\ At(s, "start")
  /\ LET Finished == {t \in Slots : table[t] = Nobody}
         slot == CHOOSE t \in Finished : \A u \in Finished : t <= u
     IN  IF Finished = {}
         THEN Advance(s) /\ UNCHANGED table
         ELSE /\ table' = [table EXCEPT ![slot] = Head(todo[s]).name]
              /\ todo' = [todo EXCEPT ![s] = Tail(@), ![slot] = <<>>]
  /\ UNCHANGED <<asleep, current_task, holder, typed, keys>>

Doze(s) ==
  /\ At(s, "sleep") /\ Advance(s)
  /\ asleep' = asleep \cup {s}
  /\ current_task' = NextTask(Runnable \ {s})
  /\ UNCHANGED <<table, holder, typed, keys>>

ExitTask(s) ==
  /\ At(s, "exit") /\ Advance(s)
  /\ table' = [table EXCEPT ![s] = Nobody]
  /\ current_task' = NextTask(Runnable \ {s})
  /\ UNCHANGED <<asleep, holder, typed, keys>>

Step(s) ==
  Again(s) \/ Give(s) \/ Transact(s) \/ ReadKey(s) \/ ScheduleTask(s) \/ Doze(s) \/ ExitTask(s)

Next ==
  \/ \E woken \in SUBSET asleep : Timer(woken)
  \/ \E k \in Keys : Type(k)
  \/ \E s \in Slots : Take(s) \/ Spin(s) \/ Step(s)

Spec == Init /\ [][Next]_vars

\* The timer ticks, sleeps end, and a slot that is served for ever goes on, and
\* takes a lock that it finds free for ever again.
Fairness ==
  /\ WF_vars(Timer({}))
  /\ \A s \in Slots :
       /\ WF_vars(\E woken \in SUBSET asleep : s \in woken /\ Timer(woken))
       /\ SF_vars(Take(s))
       /\ SF_vars(Step(s))

FairSpec == Spec /\ Fairness

-----------------------------------------------------------------------------

\* A task waits for a face that is not there, with the locks held.
Stalled ==
  \E s \in Slots : /\ todo[s] # <<>> /\ Head(todo[s]).op = "bus"
                   /\ Head(todo[s]).port \notin Connected \cup {"board"}

AtLoop == \E s \in Slots : table[s] = "InteractiveMode" /\ todo[s] = <<>>

\* InteractiveMode() comes round for ever, to read keys and notice faces that
\* call, however its tasks fill the table and take the locks it spins on: no
\* task starves it.  The one exception is a key for a face not connected, which
\* "results in stalling the tw bus" (port_controller.cpp:40).
ComesRound == []<>(AtLoop \/ Stalled)

=============================================================================
