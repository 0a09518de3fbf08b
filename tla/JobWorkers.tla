----------------------------- MODULE JobWorkers -----------------------------
(***************************************************************************)
(* The background workers of ath.persistence.worker over the store: each   *)
(* worker runs a loop (expire, claim, execute, record) and, while it       *)
(* executes, a second thread that extends the lease.  Between any two      *)
(* calls either thread may be held up, other workers may act, time may     *)
(* pass and the process may die.                                           *)
(*                                                                         *)
(* Instants are counted from the present: `now' is always 0, and Tick      *)
(* moves every recorded instant and every reading one further into the     *)
(* past.  The store only compares instants, so nothing is lost by it, and  *)
(* the state space closes without a bound on how long the system runs.     *)
(***************************************************************************)
EXTENDS JobStore

CONSTANTS
  HeartbeatEvery,  \* heartbeat_seconds
  Settings,        \* how the workers may be set up: see Setting
  MaxJobs,         \* Worker.run(max_jobs=...), or None
  MaxMissed,       \* bound: heartbeats in a row that end in a store fault
  MaxAge           \* bound: how far in the past an instant is told apart

\* The jobs queued when the workers start, oldest first; lease_seconds, the same
\* for every worker; run(drain=...); the workers that
\* may die or be told to stop; whether threads act in the instant they are due.
Setting ==
  [backlog : Seq(Jobs), lease : Leases, drain : BOOLEAN, fragile : SUBSET Workers,
   punctual : BOOLEAN]

\* What Executor.execute returns: never an exception.  A fault is final when
\* the inputs cannot be reproduced, retryable otherwise.
AttemptResult ==
  [outcome : {"complete", "incomplete"}, retryable : {TRUE}]
    \cup [outcome : {"failed"}, retryable : BOOLEAN]

ASSUME WorkersAssumption ==
  /\ Workers # {} /\ None \notin AttemptResult
  /\ Settings \subseteq Setting /\ Settings # {}
  /\ \A s \in Settings : HeartbeatEvery \in 1 .. s.lease - 1
  /\ MaxJobs \in Nat \cup {None}
  /\ MaxMissed \in Nat
  /\ MaxAge \in Nat /\ HeartbeatEvery <= MaxAge
  /\ Instants = -MaxAge .. 0

VARIABLES
  setting,    \* of the workers of this behaviour; it never changes
  pc,         \* where the worker's loop stands
  held,       \* the attempt it executes, as a place in `attempts'
  result,     \* the AttemptResult its executor returned
  beat,       \* where its heartbeat thread stands
  lost,       \* the `lost' event of its current attempt
  age,        \* time since the worker last returned from a call
  beatAge,    \* time since the heartbeat thread last moved
  missed,     \* heartbeats of this attempt that faulted since the last good one
  processed   \* run()'s local count, kept only when MaxJobs limits it

loopVars == <<pc, held, result, age, processed>>
beatVars == <<beat, lost, beatAge, missed>>
workersVars == <<storeVars, setting, loopVars, beatVars>>

LoopPlaces == {"loop", "claim", "execute", "join", "finish", "idle", "done", "dead"}

Older(n) == IF n < MaxAge THEN n + 1 ELSE n

\* The instants a clock read in the last `n' units may have returned.
Readings(n) == -n .. 0

-----------------------------------------------------------------------------
WorkersInit ==
  /\ setting \in Settings
  /\ line = setting.backlog
  /\ \E max \in [Jobs -> MaxAttempts], retryIncomplete \in [Jobs -> BOOLEAN] :
       job = [j \in Jobs |-> IF \E i \in DOMAIN setting.backlog : setting.backlog[i] = j
                             THEN FreshJob(max[j], retryIncomplete[j])
                             ELSE NoJob]
  /\ attempts = <<>>
  /\ revisions = [j \in Jobs |-> <<>>]
  /\ pc = [w \in Workers |-> "loop"]
  /\ held = [w \in Workers |-> None]
  /\ result = [w \in Workers |-> None]
  /\ beat = [w \in Workers |-> "off"]
  /\ lost = [w \in Workers |-> FALSE]
  /\ age = [w \in Workers |-> 0]
  /\ beatAge = [w \in Workers |-> 0]
  /\ missed = [w \in Workers |-> 0]
  /\ processed = [w \in Workers |-> 0]

\* The worker's call returned and its loop stands at `place'.
MoveTo(w, place) ==
  /\ pc' = [pc EXCEPT ![w] = place]
  /\ age' = [age EXCEPT ![w] = 0]

-----------------------------------------------------------------------------
(* The worker's loop. *)

MayContinue(w) == IF MaxJobs = None THEN TRUE ELSE processed[w] < MaxJobs

\* The loop ends: max_jobs reached, or the stop event found set.
Leave(w) ==
  /\ pc[w] \in {"loop", "idle"}
  /\ w \in setting.fragile \/ (pc[w] = "loop" /\ ~MayContinue(w))
  /\ MoveTo(w, "done")
  /\ UNCHANGED <<storeVars, held, result, processed, beatVars>>

PollExpire(w) ==
  /\ pc[w] = "loop"
  /\ MayContinue(w)
  /\ \E t \in Readings(age[w]) : ExpireLeases(t)
  /\ MoveTo(w, "claim")
  /\ UNCHANGED <<held, result, processed, beatVars>>

\* A claim starts the heartbeat thread with fresh events.
ClaimOne(w) ==
  /\ pc[w] = "claim"
  /\ \E t \in Readings(age[w]) : ClaimOldest(w, setting.lease, t)
  /\ held' = [held EXCEPT ![w] = Len(attempts')]
  /\ beat' = [beat EXCEPT ![w] = "waiting"]
  /\ beatAge' = [beatAge EXCEPT ![w] = 0]
  /\ lost' = [lost EXCEPT ![w] = FALSE]
  /\ missed' = [missed EXCEPT ![w] = 0]
  /\ MoveTo(w, "execute")
  /\ UNCHANGED <<result, processed>>

\* Slip: a background worker leaves when it finds nothing to do.
ClaimNoneLeaves(w) ==
  /\ pc[w] = "claim"
  /\ \E t \in Readings(age[w]) : ClaimNothing(t)
  /\ MoveTo(w, "done")
  /\ UNCHANGED <<held, result, processed, beatVars>>

ClaimNone(w) ==
  /\ pc[w] = "claim"
  /\ \E t \in Readings(age[w]) : ClaimNothing(t)
  /\ MoveTo(w, IF setting.drain THEN "done" ELSE "idle")
  /\ UNCHANGED <<held, result, processed, beatVars>>

Wake(w) ==
  /\ pc[w] = "idle"
  /\ MoveTo(w, "loop")
  /\ UNCHANGED <<storeVars, held, result, processed, beatVars>>

\* The executor returns and `stop' is set: the heartbeat thread must go.
Execute(w) ==
  /\ pc[w] = "execute"
  /\ \E r \in AttemptResult : result' = [result EXCEPT ![w] = r]
  /\ MoveTo(w, "join")
  /\ UNCHANGED <<storeVars, held, processed, beatVars>>

\* run_once returns the attempt, whatever became of its result.
RoundEnds(w) ==
  /\ MoveTo(w, "loop")
  /\ held' = [held EXCEPT ![w] = None]
  /\ result' = [result EXCEPT ![w] = None]
  /\ processed' = [processed EXCEPT ![w] = IF MaxJobs = None THEN 0 ELSE @ + 1]

\* Slip: run_once returns None for a refused result, as for an empty queue.
RefusalEndsDrain(w) ==
  /\ MoveTo(w, IF setting.drain THEN "done" ELSE "idle")
  /\ held' = [held EXCEPT ![w] = None]
  /\ result' = [result EXCEPT ![w] = None]
  /\ UNCHANGED processed

\* The heartbeat thread has been joined; a lost lease discards the result.
Join(w) ==
  /\ pc[w] = "join"
  /\ beat[w] = "off"
  /\ ~lost[w]
  /\ MoveTo(w, "finish")
  /\ UNCHANGED <<storeVars, held, result, processed, beatVars>>

Discard(w) ==
  /\ pc[w] = "join"
  /\ beat[w] = "off"
  /\ lost[w]
  /\ lost' = [lost EXCEPT ![w] = FALSE]
  /\ RoundEnds(w)
  /\ UNCHANGED <<storeVars, beat, beatAge, missed>>

\* Slip: the instant is read before the call, not under the store's lock.
FinishRecordedStale(w) ==
  /\ pc[w] = "finish"
  /\ FinishAttempt(held[w], w, result[w].outcome, result[w].retryable, -1)
  /\ RoundEnds(w)
  /\ UNCHANGED beatVars

\* With the default clock no instant is passed: the store reads its own.
FinishRecorded(w) ==
  /\ pc[w] = "finish"
  /\ FinishAttempt(held[w], w, result[w].outcome, result[w].retryable, 0)
  /\ RoundEnds(w)
  /\ UNCHANGED beatVars

\* Slip: a refused result ends a draining worker.
FinishRefusedEnds(w) ==
  /\ pc[w] = "finish"
  /\ ~LeaseIsValid(held[w], w, 0)
  /\ RefusalEndsDrain(w)
  /\ UNCHANGED <<storeVars, beatVars>>

\* LeaseLost is caught and logged.
FinishRefused(w) ==
  /\ pc[w] = "finish"
  /\ ~LeaseIsValid(held[w], w, 0)
  /\ RoundEnds(w)
  /\ UNCHANGED <<storeVars, beatVars>>

-----------------------------------------------------------------------------
(* The heartbeat thread. *)

\* stop.wait timed out before the executor returned.
BeatWakes(w) ==
  /\ pc[w] = "execute"
  /\ beat[w] = "waiting"
  /\ beatAge[w] >= HeartbeatEvery
  /\ beat' = [beat EXCEPT ![w] = "calling"]
  /\ beatAge' = [beatAge EXCEPT ![w] = 0]
  /\ UNCHANGED <<storeVars, loopVars, lost, missed>>

BeatAlive(w) ==
  /\ beat[w] = "calling"
  /\ \E t \in Readings(beatAge[w]) : Heartbeat(held[w], w, setting.lease, t)
  /\ beat' = [beat EXCEPT ![w] = "waiting"]
  /\ beatAge' = [beatAge EXCEPT ![w] = 0]
  /\ missed' = [missed EXCEPT ![w] = 0]
  /\ UNCHANGED <<loopVars, lost>>

BeatLost(w) ==
  /\ beat[w] = "calling"
  /\ \E t \in Readings(beatAge[w]) : ~LeaseIsValid(held[w], w, t)
  /\ beat' = [beat EXCEPT ![w] = "off"]
  /\ beatAge' = [beatAge EXCEPT ![w] = 0]
  /\ lost' = [lost EXCEPT ![w] = TRUE]
  /\ missed' = [missed EXCEPT ![w] = 0]
  /\ UNCHANGED <<storeVars, loopVars>>

\* Slip: a store fault is taken for a lost lease.
BeatFaultLoses(w) ==
  /\ beat[w] = "calling"
  /\ missed[w] < MaxMissed
  /\ beat' = [beat EXCEPT ![w] = "off"]
  /\ lost' = [lost EXCEPT ![w] = TRUE]
  /\ missed' = [missed EXCEPT ![w] = @ + 1]
  /\ beatAge' = [beatAge EXCEPT ![w] = 0]
  /\ UNCHANGED <<storeVars, loopVars>>

\* Slip: the thread ends on a store fault.
BeatFaultEnds(w) ==
  /\ beat[w] = "calling"
  /\ missed[w] < MaxMissed
  /\ beat' = [beat EXCEPT ![w] = "off"]
  /\ missed' = [missed EXCEPT ![w] = @ + 1]
  /\ beatAge' = [beatAge EXCEPT ![w] = 0]
  /\ UNCHANGED <<storeVars, loopVars, lost>>

\* The call raised, before its transaction committed or after: the thread
\* logs it and waits for its next turn.
BeatFault(w) ==
  /\ beat[w] = "calling"
  /\ missed[w] < MaxMissed
  /\ \/ \E t \in Readings(beatAge[w]) : Heartbeat(held[w], w, setting.lease, t)
     \/ UNCHANGED storeVars
  /\ beat' = [beat EXCEPT ![w] = "waiting"]
  /\ missed' = [missed EXCEPT ![w] = @ + 1]
  /\ beatAge' = [beatAge EXCEPT ![w] = 0]
  /\ UNCHANGED <<loopVars, lost>>

\* stop.wait returned True.
BeatStops(w) ==
  /\ pc[w] = "join"
  /\ beat[w] = "waiting"
  /\ beat' = [beat EXCEPT ![w] = "off"]
  /\ beatAge' = [beatAge EXCEPT ![w] = 0]
  /\ missed' = [missed EXCEPT ![w] = 0]
  /\ UNCHANGED <<storeVars, loopVars, lost>>

-----------------------------------------------------------------------------
(* The surroundings: submitters, analysts, processes and time. *)

Submit == Enqueue /\ UNCHANGED <<setting, loopVars, beatVars>>

CancelAny == Cancel /\ UNCHANGED <<setting, loopVars, beatVars>>

\* The process forgets everything but its worker id.
Forget(w, place) ==
  /\ pc' = [pc EXCEPT ![w] = place]
  /\ held' = [held EXCEPT ![w] = None]
  /\ result' = [result EXCEPT ![w] = None]
  /\ age' = [age EXCEPT ![w] = 0]
  /\ processed' = [processed EXCEPT ![w] = 0]
  /\ beat' = [beat EXCEPT ![w] = "off"]
  /\ lost' = [lost EXCEPT ![w] = FALSE]
  /\ beatAge' = [beatAge EXCEPT ![w] = 0]
  /\ missed' = [missed EXCEPT ![w] = 0]
  /\ UNCHANGED <<storeVars, setting>>

\* The process is killed, or a store fault outside the heartbeat ends run().
Crash(w) ==
  /\ w \in setting.fragile
  /\ pc[w] \notin {"done", "dead"}
  /\ Forget(w, "dead")

Restart(w) ==
  /\ pc[w] = "dead"
  /\ Forget(w, "loop")

\* A thread that has something to do now.
Due(w) ==
  \/ pc[w] \in {"loop", "claim", "finish"}
  \/ pc[w] = "join" /\ beat[w] # "calling"
  \/ beat[w] = "calling"
  \/ pc[w] = "execute" /\ beat[w] = "waiting" /\ beatAge[w] >= HeartbeatEvery

Aged(instant) ==
  IF instant # None /\ instant > -MaxAge THEN instant - 1 ELSE instant

Tick ==
  /\ setting.punctual => \A w \in Workers : ~Due(w)
  /\ job' = [j \in Jobs |->
               [job[j] EXCEPT !.lease_expires_at = Aged(job[j].lease_expires_at)]]
  /\ age' = [w \in Workers |->
               IF pc[w] \in {"loop", "claim"} THEN Older(age[w]) ELSE age[w]]
  /\ beatAge' = [w \in Workers |->
                   IF beat[w] # "off" THEN Older(beatAge[w]) ELSE beatAge[w]]
  /\ UNCHANGED <<line, attempts, revisions, setting, pc, held, result, processed,
                 beat, lost, missed>>

LoopStep(w) ==
  /\ \/ Leave(w)
     \/ PollExpire(w)
     \/ ClaimOne(w)
     \/ ClaimNone(w)
     \/ Wake(w)
     \/ Execute(w)
     \/ Join(w)
     \/ Discard(w)
     \/ FinishRecorded(w)
     \/ FinishRefused(w)
  /\ UNCHANGED setting

BeatStep(w) ==
  /\ \/ BeatWakes(w)
     \/ BeatAlive(w)
     \/ BeatLost(w)
     \/ BeatFault(w)
     \/ BeatStops(w)
  /\ UNCHANGED setting

WorkersNext ==
  \/ \E w \in Workers : LoopStep(w) \/ BeatStep(w) \/ Crash(w) \/ Restart(w)
  \/ Submit
  \/ CancelAny
  \/ Tick

WorkersSpec == WorkersInit /\ [][WorkersNext]_workersVars

\* The threads of a live process run and time passes; nobody promises that a
\* dead worker is restarted, that anyone submits or cancels, or that a
\* heartbeat is ever in time.
FairWorkersSpec ==
  /\ WorkersSpec
  /\ \A w \in Workers : WF_workersVars(LoopStep(w)) /\ WF_workersVars(BeatStep(w))
  /\ WF_workersVars(Tick)

-----------------------------------------------------------------------------
WorkersTypeOK ==
  /\ TypeOK
  /\ pc \in [Workers -> LoopPlaces]
  /\ held \in [Workers -> Nat \cup {None}]
  /\ \A w \in Workers : held[w] # None => held[w] \in DOMAIN attempts
  /\ result \in [Workers -> AttemptResult \cup {None}]
  /\ beat \in [Workers -> {"off", "waiting", "calling"}]
  /\ lost \in [Workers -> BOOLEAN]
  /\ age \in [Workers -> 0 .. MaxAge]
  /\ beatAge \in [Workers -> 0 .. MaxAge]
  /\ missed \in [Workers -> 0 .. MaxMissed]
  /\ processed \in [Workers -> Nat]

\* A result reaches the store only from the worker that executed the attempt
\* and only while its lease has not lapsed at the very instant it is recorded,
\* however long the worker was held up and whoever else acted meanwhile.
NoLateResult ==
  [][ \A a \in DOMAIN attempts :
        attempts[a].outcome = "running" /\ attempts'[a].outcome \in Reported =>
          /\ job[attempts[a].job].lease_expires_at > 0
          /\ held[attempts[a].worker] = a
          /\ result[attempts[a].worker].outcome = attempts'[a].outcome
    ]_workersVars

\* A worker gives its result up unasked only when the store would refuse it:
\* a store fault while heartbeating, or a reading of the clock long past,
\* never costs an attempt that is still the worker's.
LostIsFinal ==
  \A w \in Workers : lost[w] /\ held[w] # None => ~LeaseIsValid(held[w], w, 0)

\* Workers lose nothing they still hold, in any state they can be in.
WorkersSound == WorkersTypeOK /\ LostIsFinal

\* A worker whose threads run on time keeps its lease until it has recorded
\* its result, through as many store faults in a row as the heartbeat interval
\* leaves room for: only a cancellation takes the attempt from it.
TimelyKeepsLease ==
  setting.punctual =>
    \A w \in Workers :
      held[w] # None => attempts[held[w]].outcome \in {"running", "cancelled"}

\* Once every draining worker has returned by itself, none of the jobs that
\* were there when they started is left waiting or leased.
DrainedMeansFinished ==
  setting.drain /\ setting.fragile = {} /\ MaxJobs = None
  /\ (\A w \in Workers : pc[w] = "done") =>
    \A i \in DOMAIN setting.backlog : job[setting.backlog[i]].status \in Terminal

\* A fault retries while attempts remain: a process that submitted jobs and ran
\* its worker over them leaves none of them waiting for another attempt.
NoRetryLeftBehind ==
  (\A w \in Workers : pc[w] = "done") => \A j \in Jobs : job[j].status # "queued"

\* A job that was submitted ends, whatever workers die holding it, as long as
\* one worker keeps polling.
EveryJobEnds ==
  ~setting.drain =>
    \A j \in Jobs :
      job[j].status \in {"queued", "running"} ~> job[j].status \in Terminal

=============================================================================
