---------------------------- MODULE MCJobWorkers ----------------------------
(* Small instances of JobWorkers; the cfg files choose among these values. *)
EXTENDS JobWorkers

CONSTANTS j1, j2, w1, w2

OneJob == {j1}
TwoJobs == {j1, j2}
OneWorker == {w1}
TwoWorkers == {w1, w2}
OneQueued == <<j1>>
BothQueued == <<j1, j2>>
TwoTries == {2}
TwoOrThree == {2, 3}
Stalled(some) == [backlog |-> <<>>, lease |-> 2, drain |-> FALSE, fragile |-> some, punctual |-> FALSE]
Timely == [backlog |-> OneQueued, lease |-> 3, drain |-> FALSE, fragile |-> {}, punctual |-> TRUE]
Draining(jobs) == [backlog |-> jobs, lease |-> 2, drain |-> TRUE, fragile |-> {}, punctual |-> FALSE]
AllThree == {Stalled({w1}), Timely, Draining(OneQueued)}
OnlyDraining == {Draining(BothQueued)}
OneBack == -1 .. 0
TwoBack == -2 .. 0

=============================================================================
