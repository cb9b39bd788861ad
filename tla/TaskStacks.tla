----------------------------- MODULE TaskStacks -----------------------------
(* The bytes of the stacks of the tasks: where schedule_task() of            *)
(* source/system.cpp lays out the first frame, what SAVE_CONTEXT pushes over *)
(* it, and what the tasks push themselves.  Stacks grow downwards, so depths *)
(* are counted from the top of a stack.  Which task is switched to is any    *)
(* here; System has the rotation, and what a frame means.                    *)
EXTENDS Integers, TLC

CONSTANTS
  MAX_TASKS, TASK_STACK_SIZE,
  DEPTH,  (* bytes a task pushes between two switches (a bound)  *)
  CALLS   (* calls of schedule_task (a bound)                    *)

Slots == 0 .. MAX_TASKS - 1
Idle  == -1
FRAME == 35  \* 33 registers, and the return address

Top(n) == -(n * TASK_STACK_SIZE)  \* from tasksStackTop
Addresses == Top(MAX_TASKS) .. Top(0)

\* A byte is the number of the call that made the task it belongs to, and what
\* it is for.
Byte(owner, what) == <<owner, what>>
Cleared == Byte(0, "zero")

VARIABLES
  memory,
  task_count, running, current_task,
  owner,   \* the call of schedule_task that each slot was filled by
  depth,   \* of the stack of each slot
  pushed,  \* history: the bytes written to it
  calls

vars == <<memory, task_count, running, current_task, owner, depth, pushed, calls>>

Init ==
  /\ memory = [a \in Addresses |-> Cleared]
  /\ task_count = 0 /\ current_task = Idle
  /\ running = [n \in Slots |-> FALSE]
  /\ owner = [n \in Slots |-> 0]
  /\ depth = [n \in Slots |-> 0]
  /\ pushed = [n \in Slots |-> [d \in 0 .. TASK_STACK_SIZE - 1 |-> Cleared]]
  /\ calls = 0

\* The bytes of the first frame that are not zero: the return address, and the
\* registers r24 and r25, which hold the argument.
Laid(c) == (0 :> Byte(c, "address")) @@ (1 :> Byte(c, "address"))
             @@ (27 :> Byte(c, "args")) @@ (28 :> Byte(c, "args"))

\* The next slot, or the first one whose task has finished.
Slot ==
  IF task_count < MAX_TASKS THEN {task_count}
  ELSE {n \in Slots : ~running[n] /\ \A m \in 0 .. n - 1 : running[m]}

\* main() does this before run(), then tasks do.
MayCall == current_task = Idle => \A n \in Slots : n < task_count => running[n]

\* memset(top - TASK_STACK_SIZE, 0, TASK_STACK_SIZE), then the frame.
ScheduleTask ==
  /\ calls < CALLS /\ MayCall
  /\ calls' = calls + 1
  /\ \E n \in Slot :
       /\ LET cleared == [a \in Top(n) - TASK_STACK_SIZE .. Top(n) - 1 |-> Cleared]
              frame == [a \in {Top(n) - d : d \in DOMAIN Laid(calls')} |-> Laid(calls')[Top(n) - a]]
          IN  memory' = frame @@ cleared @@ memory
       /\ pushed' = [pushed EXCEPT ![n] = Laid(calls') @@ [d \in DOMAIN @ |-> Cleared]]
       /\ depth' = [depth EXCEPT ![n] = FRAME]
       /\ running' = [running EXCEPT ![n] = TRUE]
       /\ owner' = [owner EXCEPT ![n] = calls']
       /\ task_count' = IF task_count < MAX_TASKS THEN task_count + 1 ELSE task_count
  /\ UNCHANGED current_task

\* k bytes pushed on the stack of slot n.
Pushed(n, k, what) ==
  /\ memory' = [a \in Addresses |->
       IF Top(n) - a \in depth[n] .. depth[n] + k - 1 THEN Byte(owner[n], what) ELSE memory[a]]
  /\ pushed' = [pushed EXCEPT ![n] = [d \in DOMAIN @ |->
       IF d \in depth[n] .. depth[n] + k - 1 THEN Byte(owner[n], what) ELSE @[d]]]

Push ==
  /\ current_task # Idle /\ depth[current_task] < DEPTH
  /\ Pushed(current_task, 1, "local")
  /\ depth' = [depth EXCEPT ![current_task] = @ + 1]
  /\ UNCHANGED <<task_count, running, current_task, owner, calls>>

Pop ==
  /\ current_task # Idle /\ depth[current_task] > 0
  /\ depth' = [depth EXCEPT ![current_task] = @ - 1]
  /\ UNCHANGED <<memory, task_count, running, current_task, owner, pushed, calls>>

\* SAVE_CONTEXT and RESTORE_CONTEXT; main's stack is above tasksStackTop.
SwitchTo(next) ==
  /\ current_task' = next
  /\ IF current_task = Idle THEN UNCHANGED <<memory, pushed>>
                            ELSE Pushed(current_task, FRAME, "context")
  /\ depth' = [n \in Slots |->
       depth[n] + (IF n = current_task THEN FRAME ELSE 0) - (IF n = next THEN FRAME ELSE 0)]
  /\ UNCHANGED <<task_count, owner, calls>>

Switch == \E next \in Slots \ {current_task} : running[next] /\ SwitchTo(next) /\ UNCHANGED running

ExitTask ==
  /\ current_task # Idle
  /\ running' = [running EXCEPT ![current_task] = FALSE]
  /\ \E next \in Slots \cup {Idle} :
       /\ IF next = Idle THEN \A n \in Slots : ~running'[n] ELSE running'[next]
       /\ SwitchTo(next)

Next == ScheduleTask \/ Push \/ Pop \/ Switch \/ ExitTask

Spec == Init /\ [][Next]_vars

-----------------------------------------------------------------------------

\* "Reserving space on the stack for the task" (system.cpp:79): what is on the
\* stack of a task, its first frame, its context or what it has pushed, stays
\* there until it is popped.
StackReserved ==
  \A n \in Slots : running[n] =>
    \A d \in 0 .. depth[n] - 1 : memory[Top(n) - d] = pushed[n][d]

=============================================================================
