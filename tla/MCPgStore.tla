----------------------------- MODULE MCPgStore ------------------------------
(* A small instance of PgStore: two workers on a connection each, two jobs. *)
EXTENDS PgStore

CONSTANTS j1, j2, w1, w2, s1, s2

TwoJobs == {j1, j2}
TwoWorkers == {w1, w2}
TwoSessions == {s1, s2}
OneEach == s1 :> w1 @@ s2 :> w2
NowOrLater == {0, 1}
OneInstant == {1}
TwoTries == {2}
OptedIn == {TRUE}
OnlyIncomplete == {[outcome |-> "incomplete", retryable |-> TRUE]}
Swaps ==
  {p @@ q : p \in {s1 :> s1 @@ s2 :> s2 @@ w1 :> w1 @@ w2 :> w2,
                   s1 :> s2 @@ s2 :> s1 @@ w1 :> w2 @@ w2 :> w1},
            q \in Permutations(TwoJobs)}

=============================================================================
