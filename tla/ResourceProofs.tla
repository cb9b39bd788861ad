--------------------------- MODULE ResourceProofs ---------------------------
(* Mutual exclusion of lock()/unlock(), for any jobs, resources and rounds.  *)
EXTENDS Resource, TLAPS

\* MutualExclusion is inductive only together with the meaning of the flag:
\* Claim sees the flag of a resource free, and needs that nobody holds it.
Inv == TypeOK /\ MutualExclusion /\ LockedIffHeld

\* At boot no resource is locked and no job holds any.
LEMMA InitInv == Init => Inv
BY ResourceAssumption DEF Init, Inv, TypeOK, MutualExclusion, LockedIffHeld

\* Claim is the only step that takes a resource: it finds the flag down, so
\* that no job holds the resource, and raises it.
LEMMA ClaimInv == Inv /\ (\E j \in Jobs : Claim(j)) => Inv'
<1> SUFFICES ASSUME Inv, NEW j \in Jobs, Claim(j) PROVE Inv'
  OBVIOUS
<1> USE DEF Inv
<1>1. CASE locked[wants[j]]
  <2>1. UNCHANGED <<locked, wants, holds, rounds>> /\ pc' = [pc EXCEPT ![j] = "yield"]
    BY <1>1 DEF Claim
  <2>2. pc[j] = "claim"
    BY DEF Claim
  <2>3. TypeOK'
    BY <2>1, <2>2 DEF TypeOK
  <2> QED
    BY <2>1, <2>3 DEF MutualExclusion, LockedIffHeld
<1>2. CASE ~locked[wants[j]]
  <2> DEFINE r == wants[j]
  <2>1. /\ locked' = [locked EXCEPT ![r] = TRUE]
        /\ holds' = [holds EXCEPT ![j] = @ \cup {r}]
        /\ pc' = [pc EXCEPT ![j] = "out"]
        /\ wants' = [wants EXCEPT ![j] = Nothing]
        /\ UNCHANGED rounds
    BY <1>2 DEF Claim
  <2>2. r \in Resources
    BY DEF TypeOK, Claim
  <2>3. \A i \in Jobs : r \notin holds[i]
    BY <1>2, <2>2 DEF LockedIffHeld
  <2>4. TypeOK'
    BY <2>1, <2>2 DEF TypeOK
  <2>5. \A i \in Jobs : holds'[i] = IF i = j THEN holds[j] \cup {r} ELSE holds[i]
    BY <2>1 DEF TypeOK
  <2>6. MutualExclusion'
    BY <2>3, <2>5 DEF MutualExclusion
  <2>7. \A s \in Resources : locked'[s] <=> (s = r \/ locked[s])
    BY <2>1, <2>2 DEF TypeOK
  <2>8. LockedIffHeld'
    BY <2>2, <2>5, <2>7 DEF LockedIffHeld
  <2> QED
    BY <2>4, <2>6, <2>8
<1> QED
  BY <1>1, <1>2

\* unlock() lowers the flag of a resource that its caller, alone, holds.
LEMMA UnlockInv == Inv /\ (\E j \in Jobs : Unlock(j)) => Inv'
<1> SUFFICES ASSUME Inv, NEW j \in Jobs, Unlock(j) PROVE Inv'
  OBVIOUS
<1> USE DEF Inv
<1>1. PICK r \in holds[j] : /\ locked' = [locked EXCEPT ![r] = FALSE]
                            /\ holds' = [holds EXCEPT ![j] = @ \ {r}]
  BY DEF Unlock
<1>2. UNCHANGED <<pc, wants, rounds>> /\ r \in Resources
  BY DEF Unlock, TypeOK
<1>3. TypeOK'
  BY <1>1, <1>2 DEF TypeOK
<1>4. \A i \in Jobs : holds'[i] = IF i = j THEN holds[j] \ {r} ELSE holds[i]
  BY <1>1 DEF TypeOK
<1>5. MutualExclusion'
  BY <1>4 DEF MutualExclusion
<1>6. \A s \in Resources : locked'[s] <=> (s # r /\ locked[s])
  BY <1>1, <1>2 DEF TypeOK
<1>7. \A i \in Jobs : i # j => r \notin holds[i]
  BY <1>1 DEF MutualExclusion
<1>8. LockedIffHeld'
  BY <1>2, <1>4, <1>6, <1>7 DEF LockedIffHeld
<1> QED
  BY <1>3, <1>5, <1>8

\* Every step of the jobs and of the kernel preserves the invariant.
LEMMA NextInv == Inv /\ [Next]_vars => Inv'
<1> SUFFICES ASSUME Inv, [Next]_vars PROVE Inv'
  OBVIOUS
<1> USE DEF Inv
<1>1. CASE UNCHANGED client
  BY <1>1 DEF client, TypeOK, MutualExclusion, LockedIffHeld
<1>2. ASSUME NEW j \in Jobs, NEW r \in Resources, LockCall(j, r) PROVE Inv'
  <2>1. rounds[j] - 1 \in Nat
    BY <1>2, ResourceAssumption DEF LockCall, TypeOK
  <2>2. TypeOK'
    BY <1>2, <2>1, ResourceAssumption DEF LockCall, TypeOK
  <2> QED
    BY <1>2, <2>2 DEF LockCall, MutualExclusion, LockedIffHeld
<1>3. ASSUME NEW j \in Jobs, Peek(j) \/ LockYield(j) PROVE Inv'
  BY <1>3 DEF Peek, LockYield, TypeOK, MutualExclusion, LockedIffHeld
<1>4. ASSUME NEW j \in Jobs, Sleep(j) \/ Finish(j) PROVE Inv'
  BY <1>1, <1>4 DEF Sleep, Finish
<1>5. CASE Boot \/ Turn
  BY <1>1, <1>5 DEF Boot, Turn
<1>6. CASE UNCHANGED vars
  BY <1>1, <1>6 DEF vars
<1> QED
  BY <1>2, <1>3, <1>4, <1>5, <1>6, ClaimInv, UnlockInv DEF Next, Lock

\* At most one job is past lock() of a resource, and its flag is raised exactly
\* while there is one, in every state of every behaviour.
THEOREM Exclusion == Spec => [](TypeOK /\ MutualExclusion /\ LockedIffHeld)
<1>1. Spec => []Inv
  BY InitInv, NextInv, PTL DEF Spec
<1> QED
  BY <1>1, PTL DEF Inv

\* A flag is raised exactly while some job is between lock() and unlock().
THEOREM FlagsTellTheTruth == Spec => []LockedIffHeld
BY Exclusion, PTL

=============================================================================
