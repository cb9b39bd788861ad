------------------------------ MODULE MCKernel ------------------------------
(* Small instances of the kernel for TLC.                                   *)
EXTENDS SystemPromise, SystemInvariant

CONSTANTS a, b, c, d, main, none

FourJobs == {a, b, c, d}
ThreeJobs == {a, b, c}
TwoJobs  == {a, b}

=============================================================================
