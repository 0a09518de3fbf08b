---------------------------- MODULE JobLifecycle ----------------------------
(***************************************************************************)
(* What the store promises of each job, without leases, attempts or        *)
(* clocks: the lifecycle diagram of the persistence documentation.         *)
(*                                                                         *)
(*   queued --claim--> running --finish--> complete | incomplete |         *)
(*      ^                 |                failed | cancelled              *)
(*      +---- requeue ----+                                                *)
(*                                                                         *)
(* A job is held by at most one worker at a time, is tried at most         *)
(* `allowance' times, and never leaves a terminal status.  One call of the *)
(* store may move several jobs, each along one edge, and may move a lapsed *)
(* job straight from one holder to the next.                               *)
(***************************************************************************)
EXTENDS Naturals

CONSTANTS Jobs, Workers, None

VARIABLES
  status,      \* where each job is on the diagram
  tries,       \* how often it has been claimed
  allowance,   \* how often it may be claimed
  holder       \* the worker it is leased to

lifeVars == <<status, tries, allowance, holder>>

Terminal == {"complete", "incomplete", "failed", "cancelled"}

Init ==
  /\ status = [j \in Jobs |-> "absent"]
  /\ tries = [j \in Jobs |-> 0]
  /\ allowance = [j \in Jobs |-> 1]
  /\ holder = [j \in Jobs |-> None]

Stay(j) ==
  /\ status'[j] = status[j]
  /\ tries'[j] = tries[j]
  /\ allowance'[j] = allowance[j]
  /\ holder'[j] = holder[j]

Submit(j) ==
  /\ status[j] = "absent"
  /\ status'[j] = "queued"
  /\ tries'[j] = 0
  /\ allowance'[j] > 0
  /\ holder'[j] = None

\* A queued job goes to a worker; a running one only to its next try.
Claim(j) ==
  /\ status[j] \in {"queued", "running"}
  /\ tries[j] < allowance[j]
  /\ status'[j] = "running"
  /\ tries'[j] = tries[j] + 1
  /\ allowance'[j] = allowance[j]
  /\ holder'[j] \in Workers

Requeue(j) ==
  /\ status[j] = "running"
  /\ tries[j] < allowance[j]
  /\ status'[j] = "queued"
  /\ tries'[j] = tries[j]
  /\ allowance'[j] = allowance[j]
  /\ holder'[j] = None

End(j) ==
  /\ \/ status[j] = "running" /\ status'[j] \in Terminal
     \/ status[j] = "queued" /\ status'[j] = "cancelled"
  /\ tries'[j] = tries[j]
  /\ allowance'[j] = allowance[j]
  /\ holder'[j] = None

Next == \A j \in Jobs : Stay(j) \/ Submit(j) \/ Claim(j) \/ Requeue(j) \/ End(j)

Spec == Init /\ [][Next]_lifeVars

=============================================================================
