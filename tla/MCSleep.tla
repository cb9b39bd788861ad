------------------------------ MODULE MCSleep ------------------------------
(* A small instance for TLC of one job that sleeps; see MCTime for more.    *)
EXTENDS SystemSleep

CONSTANTS a, main, none

OneJob  == {a}
NoJobs  == {}

=============================================================================
