----------------------------- MODULE Multitask -----------------------------
(* What the kernel promises to the tasks, without slots, stacks, counters    *)
(* or interrupts: at most MAX_TASKS jobs live at a time, -1 only to a caller *)
(* that found every place taken, one job executing, only a job itself puts   *)
(* it to sleep or ends it, and no job has two turns while another one, that  *)
(* is awake, waits for its own.  System refines it (see SystemPromise).      *)
EXTENDS Integers, FiniteSets

CONSTANTS MAX_TASKS, Jobs, Main

VARIABLES
  status,    \* what became of each job
  seenFull,  \* submitted jobs whose caller found MAX_TASKS jobs live
  exec,      \* the job that executes, or Main
  awake,     \* live jobs that are not asleep
  passed     \* the jobs served since each one was, or woke up

vars == <<status, seenFull, exec, awake, passed>>

Live == {j \in Jobs : status[j] = "live"}

Init ==
  /\ status = [j \in Jobs |-> "new"]
  /\ seenFull = {}
  /\ exec = Main
  /\ awake = {}
  /\ passed = [j \in Jobs |-> {}]

Submit(j) ==
  /\ status[j] = "new"
  /\ status' = [status EXCEPT ![j] = "submitted"]
  /\ seenFull' = IF Cardinality(Live) = MAX_TASKS THEN seenFull \cup {j} ELSE seenFull
  /\ UNCHANGED <<exec, awake, passed>>

Accept(j) ==
  /\ status[j] = "submitted"
  /\ Cardinality(Live) < MAX_TASKS
  /\ status' = [status EXCEPT ![j] = "live"]
  /\ awake' = awake \cup {j}
  /\ UNCHANGED <<seenFull, exec, passed>>

Refuse(j) ==
  /\ status[j] = "submitted"
  /\ j \in seenFull
  /\ status' = [status EXCEPT ![j] = "refused"]
  /\ UNCHANGED <<seenFull, exec, awake, passed>>

\* The executing job, and no other, falls asleep, is kept awake, or ends.
Doze ==
  /\ exec \in Live
  /\ awake' \in {awake \cup {exec}, awake \ {exec}}
  /\ UNCHANGED <<status, seenFull, exec, passed>>

Exit ==
  /\ exec \in Live
  /\ status' = [status EXCEPT ![exec] = "done"]
  /\ awake' = awake \ {exec}
  /\ UNCHANGED <<seenFull, exec, passed>>

\* A turn: some sleepers may wake up, and a job that is awake executes, or
\* main() when there is none.
Turn(next) ==
  /\ \E woken \in SUBSET (Live \ awake) : awake' = awake \cup woken
  /\ \/ next \in awake'
     \/ next = Main /\ awake' = {}
  /\ \A j \in awake' \ {next} : next \notin passed[j]
  /\ exec' = next
  /\ passed' = [j \in Jobs |->
                  IF j \in awake' \ {next} THEN passed[j] \cup {next} ELSE {}]
  /\ UNCHANGED <<status, seenFull>>

Next ==
  \/ \E j \in Jobs : Submit(j) \/ Accept(j) \/ Refuse(j)
  \/ \E next \in Jobs \cup {Main} : Turn(next)
  \/ Doze \/ Exit

Spec == Init /\ [][Next]_vars

=============================================================================
