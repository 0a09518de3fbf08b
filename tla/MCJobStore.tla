----------------------------- MODULE MCJobStore -----------------------------
(* A small instance of JobStore: two workers race for two jobs, at instants  *)
(* that let a lease lapse between any two calls.                             *)
EXTENDS JobStore, TLC

CONSTANTS j1, j2, w1, w2

MCJobs == {j1, j2}
MCWorkers == {w1, w2}
MCInstants == 0 .. 1
MCLeases == {1}
MCMaxAttempts == {2}
MCSymmetry == Permutations(MCJobs) \cup Permutations(MCWorkers)

=============================================================================
