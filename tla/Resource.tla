------------------------------ MODULE Resource ------------------------------
(* source/resource.h: the spinlock that CHUARTController, CPortController   *)
(* and CTWController inherit, used by jobs that run over the kernel promised *)
(* by Multitask.  A job is preempted between any two of its steps; cli() to  *)
(* sei() is one step.                                                        *)
(*                                                                           *)
(* The callers are constrained as in the code: a job takes a resource only   *)
(* above those it holds (nfc_controller.cpp and led_controller.cpp take TW   *)
(* inside PORT, HUART is taken alone or outermost), it may sleep while it    *)
(* holds one (main.cpp:178-180), and it releases all before it exits.        *)
EXTENDS Integers, FiniteSets

CONSTANTS
  MAX_TASKS, Jobs, Main,
  Resources,  (* the lockable objects, numbered in the order of nesting      *)
  ROUNDS,     (* calls of lock() each job makes in its life (a bound)        *)
  Nothing     (* not a resource                                             *)

ASSUME ResourceAssumption ==
  /\ MAX_TASKS \in Nat \ {0}
  /\ Resources \subseteq Nat
  /\ ROUNDS \in [Jobs -> Nat]
  /\ Main \notin Jobs
  /\ Nothing \notin Resources

VARIABLES
  status, seenFull, exec, awake, passed,  \* the kernel: see Multitask
  locked,  \* Resource::locked
  pc,      \* where each job is in lock(), "out" when it is not
  wants,   \* the resource it is locking, Nothing when it is not
  holds,   \* the resources it has locked
  rounds   \* calls of lock() it may still make

kernel == <<status, seenFull, exec, awake, passed>>
client == <<locked, pc, wants, holds, rounds>>
vars == <<kernel, client>>

K == INSTANCE Multitask

Init ==
  /\ K!Init
  /\ locked = [r \in Resources |-> FALSE]
  /\ pc = [j \in Jobs |-> "out"]
  /\ wants = [j \in Jobs |-> Nothing]
  /\ holds = [j \in Jobs |-> {}]
  /\ rounds = ROUNDS

Executing(j) == exec = j /\ status[j] = "live"

\* mistake: a job may take PORT with TW held
LockCall_AnyOrder(j, r) ==
  /\ Executing(j) /\ pc[j] = "out"
  /\ rounds[j] > 0
  /\ r \notin holds[j]
  /\ rounds' = [rounds EXCEPT ![j] = @ - 1]
  /\ wants' = [wants EXCEPT ![j] = r]
  /\ pc' = [pc EXCEPT ![j] = "peek"]
  /\ UNCHANGED <<kernel, locked, holds>>

LockCall(j, r) ==
  /\ Executing(j) /\ pc[j] = "out"
  /\ rounds[j] > 0
  /\ \A held \in holds[j] : held < r
  /\ rounds' = [rounds EXCEPT ![j] = @ - 1]
  /\ wants' = [wants EXCEPT ![j] = r]
  /\ pc' = [pc EXCEPT ![j] = "peek"]
  /\ UNCHANGED <<kernel, locked, holds>>

\* if(!locked) with the interrupts enabled
Peek(j) ==
  /\ Executing(j) /\ pc[j] = "peek"
  /\ pc' = [pc EXCEPT ![j] = IF locked[wants[j]] THEN "yield" ELSE "claim"]
  /\ UNCHANGED <<kernel, locked, wants, holds, rounds>>

\* mistake: the flag is not looked at again with the interrupts disabled
Claim_Unchecked(j) ==
  /\ Executing(j) /\ pc[j] = "claim"
  /\ locked' = [locked EXCEPT ![wants[j]] = TRUE]
  /\ holds' = [holds EXCEPT ![j] = @ \cup {wants[j]}]
  /\ pc' = [pc EXCEPT ![j] = "out"]
  /\ wants' = [wants EXCEPT ![j] = Nothing]
  /\ UNCHANGED <<kernel, rounds>>

\* cli() ... sei(): look again, and take it if it is still free
Claim(j) ==
  /\ Executing(j) /\ pc[j] = "claim"
  /\ \/ /\ ~locked[wants[j]]
        /\ locked' = [locked EXCEPT ![wants[j]] = TRUE]
        /\ holds' = [holds EXCEPT ![j] = @ \cup {wants[j]}]
        /\ pc' = [pc EXCEPT ![j] = "out"]
        /\ wants' = [wants EXCEPT ![j] = Nothing]
     \/ /\ locked[wants[j]]
        /\ pc' = [pc EXCEPT ![j] = "yield"]
        /\ UNCHANGED <<locked, holds, wants>>
  /\ UNCHANGED <<kernel, rounds>>

\* System::instance().yield(), then round the loop again
LockYield(j) ==
  /\ Executing(j) /\ pc[j] = "yield"
  /\ pc' = [pc EXCEPT ![j] = "peek"]
  /\ \E next \in Jobs \cup {Main} : K!Turn(next)
  /\ UNCHANGED <<locked, wants, holds, rounds>>

\* mistake: the flag stays up
Unlock_Forgotten(j) ==
  /\ Executing(j) /\ pc[j] = "out"
  /\ \E r \in holds[j] : holds' = [holds EXCEPT ![j] = @ \ {r}]
  /\ UNCHANGED <<kernel, locked, pc, wants, rounds>>

Unlock(j) ==
  /\ Executing(j) /\ pc[j] = "out"
  /\ \E r \in holds[j] : /\ locked' = [locked EXCEPT ![r] = FALSE]
                         /\ holds' = [holds EXCEPT ![j] = @ \ {r}]
  /\ UNCHANGED <<kernel, pc, wants, rounds>>

Sleep(j) ==
  /\ Executing(j) /\ pc[j] = "out"
  /\ K!Doze
  /\ UNCHANGED client

Finish(j) ==
  /\ Executing(j) /\ pc[j] = "out"
  /\ holds[j] = {} /\ rounds[j] = 0
  /\ K!Exit
  /\ UNCHANGED client

Lock(j) == Peek(j) \/ Claim(j) \/ LockYield(j)

\* main() schedules every job, then run() starts the timer.
Boot ==
  /\ exec = Main
  /\ \E j \in Jobs : K!Submit(j) \/ K!Accept(j)
  /\ UNCHANGED client

Turn ==
  /\ \A j \in Jobs : status[j] \in {"live", "done"}
  /\ \E next \in Jobs \cup {Main} : K!Turn(next)
  /\ UNCHANGED client

Next ==
  \/ Boot \/ Turn
  \/ \E j \in Jobs : \/ \E r \in Resources : LockCall(j, r)
                     \/ Lock(j) \/ Unlock(j) \/ Sleep(j) \/ Finish(j)

Spec == Init /\ [][Next]_vars

\* Every sleep ends (System: LiveJobsRun), and a job that is given turns for
\* ever goes on, in lock() or in its own code: its rounds are bounded.
GoOn(j) == Lock(j) \/ Unlock(j) \/ Finish(j) \/ \E r \in Resources : LockCall(j, r)

Fairness ==
  /\ WF_vars(Boot)
  /\ \A j \in Jobs : WF_vars(Turn /\ j \in awake') /\ SF_vars(GoOn(j))

FairSpec == Spec /\ Fairness

-----------------------------------------------------------------------------

TypeOK ==
  /\ locked \in [Resources -> BOOLEAN]
  /\ pc \in [Jobs -> {"out", "peek", "claim", "yield"}]
  /\ wants \in [Jobs -> Resources \cup {Nothing}]
  /\ \A j \in Jobs : wants[j] = Nothing <=> pc[j] = "out"
  /\ holds \in [Jobs -> SUBSET Resources]
  /\ rounds \in [Jobs -> Nat]

\* Two jobs are never past lock() of the same resource, although lock() reads
\* the flag with the interrupts enabled and a job may sleep with it held.
MutualExclusion ==
  \A i, j \in Jobs : i # j => holds[i] \cap holds[j] = {}

\* The flag says exactly whether some job is between lock() and unlock(): a
\* resource is never left locked by nobody, nor free while somebody uses it.
LockedIffHeld ==
  \A r \in Resources : locked[r] <=> \E j \in Jobs : r \in holds[j]

\* lock() makes no deadlock and no livelock of jobs that yield to each other:
\* jobs with a bounded number of critical sections, in each other and in order
\* or one after the other, all end.
AllFinish == <>(\A j \in Jobs : status[j] = "done")

=============================================================================
