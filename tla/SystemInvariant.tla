-------------------------- MODULE SystemInvariant --------------------------
(* Why the context switch is safe: the inductive invariant of System when    *)
(* calls of schedule_task() do not overlap.                                  *)
EXTENDS System

\* The context of the code whose place is p, executing or saved.
Ctx(p) == IF p = current_task THEN cpu ELSE stack[p]

MainPC == {"main", "idle"} \cup InSchedule
JobPC  == {"run", "switch"} \cup InSleep \cup InSchedule

\* places whose code may be given the processor again
Resumable(p) == p = Idle \/ running[p]

\* A stack pointer that may be restored designates the frame saved for it.
SavedFrames ==
  \A p \in Places \ {current_task} : Resumable(p) =>
    sp[p] = stack[p].job /\ sp[p] # NoJob

\* Whose code each place is.
MainAtIdle == Ctx(Idle).job = Main /\ Ctx(Idle).pc \in MainPC

JobsInSlots ==
  \A n \in Slots : running[n] =>
    Ctx(n).job \in Jobs /\ Ctx(n).pc \in JobPC /\ phase[Ctx(n).job] = "live"

\* Between its last statement and its last switch, a job still executes from
\* a slot it no longer owns.
Leaving ==
  current_task \in Slots /\ ~running[current_task] =>
    cpu.pc = "leave" /\ cpu.job \in Jobs /\ phase[cpu.job] = "done"

OneSlotPerJob ==
  \A n, m \in Slots : running[n] /\ running[m] /\ Ctx(n).job = Ctx(m).job => n = m

LiveJobsHosted ==
  \A j \in Jobs : phase[j] = "live" => \E n \in Slots : running[n] /\ Ctx(n).job = j

CountCoversRunning == \A n \in Slots : running[n] => n < task_count

\* A call of schedule_task() in progress: the slot it has chosen is free, is
\* nobody's, and holds the frame of the new job once it has been written.
Scheduling(c) ==
  /\ c.arg \in Jobs /\ phase[c.arg] = "submitted"
  /\ c.pc = "scan" => c.n \in Slots /\ task_count = MAX_TASKS
  /\ c.pc = "count" => c.n = task_count /\ c.n < MAX_TASKS
  /\ c.pc \in {"stack", "publish"} =>
       /\ c.n \in Slots /\ c.n < task_count
       /\ ~running[c.n] /\ c.n # current_task
  /\ c.pc = "publish" => stack[c.n] = At(c.arg, "run")

Calls ==
  /\ \A p \in Places : Ctx(p).pc \in InSchedule => Resumable(p) /\ Scheduling(Ctx(p))
  /\ \A p, q \in Places : Ctx(p).pc \in InSchedule /\ Ctx(q).pc \in InSchedule => p = q

\* Every switch finds what it restores, whatever the timer interrupted.
Inv ==
  /\ TypeOK /\ SavedFrames /\ MainAtIdle /\ JobsInSlots /\ Leaving
  /\ OneSlotPerJob /\ LiveJobsHosted /\ CountCoversRunning /\ Calls

=============================================================================
