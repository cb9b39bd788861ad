----------------------------- MODULE MCResource -----------------------------
(* A small instance of the locks for TLC: PORT (1) and TW (2), two jobs that *)
(* may take one inside the other, and a third that takes either.             *)
EXTENDS Resource

CONSTANTS a, b, c

ThreeJobs == {a, b, c}
Rounds == [j \in ThreeJobs |-> IF j = c THEN 1 ELSE 2]

=============================================================================
