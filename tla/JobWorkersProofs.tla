-------------------------- MODULE JobWorkersProofs --------------------------
(***************************************************************************)
(* Proofs about JobWorkers.  Whatever a worker does to the store is one of *)
(* the store's own calls, so the store's invariant holds here too; time    *)
(* only moves the ends of leases.  On top of it stand what a worker's      *)
(* program counter says of its other variables, that a lease given up is a *)
(* lease the store no longer honours, how much of its lease a worker on    *)
(* time still has, and who answers for each job of a draining run.         *)
(***************************************************************************)
EXTENDS JobWorkers, JobStoreProofs

USE StoreAssumption, WorkersAssumption

Executing == {"execute", "join", "finish"}

\* The worker's variables agree with its place, and what it holds is its own.
\* A lease it takes for lost is one the store would refuse.
PlaceSound(w) ==
  /\ held[w] # None <=> pc[w] \in Executing
  /\ held[w] # None => held[w] \in DOMAIN attempts /\ attempts[held[w]].worker = w
  /\ result[w] # None <=> pc[w] \in {"join", "finish"}
  /\ beat[w] # "off" => pc[w] \in {"execute", "join"}
  /\ lost[w] => pc[w] \in {"execute", "join"} /\ beat[w] = "off"

LocalTypes ==
  /\ pc \in [Workers -> LoopPlaces]
  /\ held \in [Workers -> Nat \cup {None}]
  /\ result \in [Workers -> AttemptResult \cup {None}]
  /\ beat \in [Workers -> {"off", "waiting", "calling"}]
  /\ lost \in [Workers -> BOOLEAN]
  /\ age \in [Workers -> 0 .. MaxAge]
  /\ beatAge \in [Workers -> 0 .. MaxAge]
  /\ missed \in [Workers -> 0 .. MaxMissed]
  /\ processed \in [Workers -> Nat]

WInv ==
  /\ Inv
  /\ setting \in Settings
  /\ LocalTypes
  /\ \A w \in Workers : PlaceSound(w)

-----------------------------------------------------------------------------
(* Constants. *)

LEMMA Constants ==
  /\ HeartbeatEvery \in Nat \ {0}
  /\ HeartbeatEvery <= MaxAge
  /\ MaxAge \in Nat
  /\ MaxMissed \in Nat
  /\ Instants = -MaxAge .. 0
  /\ None \notin Nat /\ None \notin Int
  /\ \A s \in Settings :
       /\ s.backlog \in Seq(Jobs) /\ s.lease \in Leases /\ s.lease \in Nat \ {0}
       /\ s.drain \in BOOLEAN /\ s.punctual \in BOOLEAN /\ s.fragile \in SUBSET Workers
       /\ HeartbeatEvery < s.lease
<1>1. \A s \in Settings :
        /\ s.backlog \in Seq(Jobs) /\ s.lease \in Leases
        /\ s.drain \in BOOLEAN /\ s.punctual \in BOOLEAN /\ s.fragile \in SUBSET Workers
  BY DEF Setting
<1>2. \A s \in Settings : s.lease \in Nat \ {0}
  BY <1>1
<1>3. \A s \in Settings : HeartbeatEvery \in Nat \ {0} /\ HeartbeatEvery < s.lease
  BY <1>2
<1>4. Settings # {}
  OBVIOUS
<1> QED
  BY <1>1, <1>2, <1>3, <1>4

\* A reading of a clock is an instant, and none is in the future.
LEMMA ReadingsAreInstants ==
  ASSUME NEW n \in 0 .. MaxAge, NEW t \in Readings(n)
  PROVE  t \in Instants /\ t \in Int /\ t <= 0 /\ -n <= t
BY Constants DEF Readings

LEMMA OlderTyped ==
  ASSUME NEW n \in 0 .. MaxAge
  PROVE  Older(n) \in 0 .. MaxAge
BY Constants DEF Older

-----------------------------------------------------------------------------
(* The store's tables under the workers. *)

\* Moving the ends of leases that are held.
LEMMA MovedLeasesKeepTables ==
  ASSUME NEW jobs, NEW atts, TablesInv(jobs, atts), NEW end,
         \A j \in Jobs : end[j] \in Int \cup {None},
         \A j \in Jobs : end[j] = None <=> jobs[j].lease_expires_at = None
  PROVE  TablesInv([j \in Jobs |-> [jobs[j] EXCEPT !.lease_expires_at = end[j]]], atts)
<1> DEFINE njobs == [j \in Jobs |-> [jobs[j] EXCEPT !.lease_expires_at = end[j]]]
<1>0. TablesOK(jobs, atts) /\ \A j \in Jobs : jobs[j] \in InvestigationJob
  BY DEF TablesInv, TablesOK
<1>1. \A j \in Jobs : njobs[j] = [jobs[j] EXCEPT !.lease_expires_at = end[j]]
  OBVIOUS
<1>2. \A j \in Jobs : /\ njobs[j].status = jobs[j].status
                      /\ njobs[j].attempts_made = jobs[j].attempts_made
                      /\ njobs[j].max_attempts = jobs[j].max_attempts
                      /\ njobs[j].retry_incomplete = jobs[j].retry_incomplete
                      /\ njobs[j].lease_owner = jobs[j].lease_owner
                      /\ njobs[j].lease_expires_at = end[j]
                      /\ njobs[j] \in InvestigationJob
  BY <1>0, <1>1 DEF InvestigationJob
<1>3. \A a \in DOMAIN atts : atts[a].job \in Jobs
  BY <1>0, RowTypes
<1>4. TablesOK(njobs, atts)
  BY <1>0, <1>2 DEF TablesOK
<1> HIDE DEF njobs
<1>5. Numbered(njobs, atts)
  BY <1>2, <1>3 DEF TablesInv, Numbered
<1>6. StatusExplained(njobs, atts)
  BY <1>2, <1>3 DEF TablesInv, StatusExplained, Explains, RetryCause, Remaining
<1>7. LeaseFollowsAttempt(njobs, atts)
  BY <1>2, <1>3 DEF TablesInv, LeaseFollowsAttempt
<1>8. AllowanceKept(njobs)
  BY <1>2 DEF TablesInv, AllowanceKept, Remaining
<1> QED
  BY <1>4, <1>5, <1>6, <1>7, <1>8 DEF TablesInv, njobs

\* Before anything is claimed: some jobs wait, the others do not exist yet.
LEMMA FreshTables ==
  ASSUME NEW jobs \in [Jobs -> InvestigationJob],
         \A j \in Jobs : jobs[j] = NoJob \/
           \E max \in MaxAttempts, ri \in BOOLEAN : jobs[j] = FreshJob(max, ri)
  PROVE  TablesInv(jobs, <<>>)
<1>1. TablesOK(jobs, <<>>)
  BY DEF TablesOK
<1>2. \A j \in Jobs : /\ jobs[j].status \in {"absent", "queued"}
                      /\ jobs[j].attempts_made = 0
                      /\ jobs[j].max_attempts \in Nat \ {0}
                      /\ jobs[j].lease_owner = None
                      /\ jobs[j].lease_expires_at = None
  BY DEF NoJob, FreshJob
<1>3. Numbered(jobs, <<>>) /\ StatusExplained(jobs, <<>>)
  BY <1>2 DEF Numbered, StatusExplained
<1>4. LeaseFollowsAttempt(jobs, <<>>) /\ AllowanceKept(jobs)
  BY <1>2 DEF LeaseFollowsAttempt, AllowanceKept, Remaining
<1> QED
  BY <1>1, <1>3, <1>4 DEF TablesInv

LEMMA WorkersInitInv == WorkersInit => WInv
<1> SUFFICES ASSUME WorkersInit PROVE WInv
  OBVIOUS
<1>1. setting \in Settings /\ setting.backlog \in Seq(Jobs)
  BY Constants DEF WorkersInit
<1>2. PICK max \in [Jobs -> MaxAttempts], ri \in [Jobs -> BOOLEAN] :
        job = [j \in Jobs |-> IF \E i \in DOMAIN setting.backlog : setting.backlog[i] = j
                              THEN FreshJob(max[j], ri[j])
                              ELSE NoJob]
  BY DEF WorkersInit
<1>3. \A j \in Jobs : FreshJob(max[j], ri[j]) \in InvestigationJob /\ NoJob \in InvestigationJob
  <2> SUFFICES ASSUME NEW j \in Jobs
               PROVE  FreshJob(max[j], ri[j]) \in InvestigationJob /\ NoJob \in InvestigationJob
    OBVIOUS
  <2>1. max[j] \in Nat \ {0} /\ ri[j] \in BOOLEAN
    OBVIOUS
  <2> QED
    BY <2>1 DEF FreshJob, NoJob, InvestigationJob, JobStatus
<1>4. /\ job \in [Jobs -> InvestigationJob]
      /\ \A j \in Jobs : job[j] = NoJob \/
           \E m \in MaxAttempts, r \in BOOLEAN : job[j] = FreshJob(m, r)
  BY <1>2, <1>3
<1>5. Inv
  <2>1. TablesInv(job, attempts)
    BY <1>4, FreshTables DEF WorkersInit
  <2>2. line \in Seq(Jobs) /\ revisions \in [Jobs -> Seq(ReportRevision)]
    BY <1>1 DEF WorkersInit
  <2> QED
    BY <2>1, <2>2 DEF Inv
<1>6. LocalTypes
  BY Constants DEF WorkersInit, LocalTypes, LoopPlaces
<1>7. \A w \in Workers : PlaceSound(w)
  BY DEF WorkersInit, PlaceSound, Executing
<1> QED
  BY <1>1, <1>5, <1>6, <1>7 DEF WInv

-----------------------------------------------------------------------------
(* What the workers ask of the store. *)

\* Neither a heartbeat nor a report.
Plain == OtherThanBeat /\ OtherThanFinish

HeartbeatOf(w) ==
  /\ beat[w] = "calling"
  /\ \E t \in Readings(beatAge[w]) : Heartbeat(held[w], w, setting.lease, t)

LEMMA PlainCalls ==
  Enqueue \/ Claim \/ ClaimFindsNothing \/ Expire \/ Cancel \/ UNCHANGED storeVars => Plain
BY DEF Plain, OtherThanBeat, OtherThanFinish

\* What a worker holds while its heartbeat thread runs or it reports.
LEMMA HeldAttempt ==
  ASSUME WInv, NEW w \in Workers, pc[w] \in Executing \/ beat[w] # "off"
  PROVE  /\ held[w] \in DOMAIN attempts
         /\ held[w] # None
         /\ attempts[held[w]].worker = w
         /\ attempts[held[w]] \in JobAttempt
         /\ attempts[held[w]].job \in Jobs
         /\ job[attempts[held[w]].job] \in InvestigationJob
<1>1. held[w] \in DOMAIN attempts /\ held[w] # None /\ attempts[held[w]].worker = w
  BY DEF WInv, PlaceSound, Executing
<1> QED
  BY <1>1, RowTypes DEF WInv, Inv, TablesInv

LEMMA HeartbeatIsBeat ==
  ASSUME WInv, NEW w \in Workers, HeartbeatOf(w)
  PROVE  Beat
<1>1. PICK t \in Readings(beatAge[w]) : Heartbeat(held[w], w, setting.lease, t)
  BY DEF HeartbeatOf
<1>2. held[w] \in DOMAIN attempts
  BY HeldAttempt DEF HeartbeatOf
<1>3. beatAge[w] \in 0 .. MaxAge /\ setting \in Settings
  BY DEF WInv, LocalTypes
<1>4. t \in Instants /\ setting.lease \in Leases
  BY <1>3, Constants, ReadingsAreInstants
<1> QED
  BY <1>1, <1>2, <1>4 DEF Beat

LEMMA ReportIsFinish ==
  ASSUME WInv, NEW w \in Workers, FinishRecorded(w)
  PROVE  Finish
<1>1. pc[w] = "finish" /\ FinishAttempt(held[w], w, result[w].outcome, result[w].retryable, 0)
  BY DEF FinishRecorded
<1>2. held[w] \in DOMAIN attempts
  BY <1>1, HeldAttempt DEF Executing
<1>3. result[w] \in AttemptResult
  <2>1. result[w] # None
    BY <1>1 DEF WInv, PlaceSound
  <2>2. result[w] \in AttemptResult \cup {None}
    BY DEF WInv, LocalTypes
  <2> QED
    BY <2>1, <2>2
<1>4. /\ result[w].outcome \in Reported /\ result[w].retryable \in BOOLEAN
      /\ result[w].outcome # "failed" => result[w].retryable
  BY <1>3 DEF AttemptResult, Reported
<1>5. 0 \in Instants
  BY Constants
<1> QED
  BY <1>1, <1>2, <1>4, <1>5 DEF Finish

LEMMA PollIsExpire ==
  ASSUME WInv, NEW w \in Workers, PollExpire(w)
  PROVE  \E t \in Instants : -age[w] <= t /\ t <= 0 /\ ExpireLeases(t)
<1>1. age[w] \in 0 .. MaxAge
  BY DEF WInv, LocalTypes
<1> QED
  BY <1>1, ReadingsAreInstants DEF PollExpire

LEMMA ClaimOneIsClaim ==
  ASSUME WInv, NEW w \in Workers, ClaimOne(w)
  PROVE  \E t \in Instants : -age[w] <= t /\ t <= 0 /\ ClaimOldest(w, setting.lease, t)
<1>1. age[w] \in 0 .. MaxAge
  BY DEF WInv, LocalTypes
<1> QED
  BY <1>1, ReadingsAreInstants DEF ClaimOne

LEMMA ClaimNoneIsClaim ==
  ASSUME WInv, NEW w \in Workers, ClaimNone(w)
  PROVE  \E t \in Instants : -age[w] <= t /\ t <= 0 /\ ClaimNothing(t)
<1>1. age[w] \in 0 .. MaxAge
  BY DEF WInv, LocalTypes
<1> QED
  BY <1>1, ReadingsAreInstants DEF ClaimNone

LEMMA PlainSteps ==
  ASSUME WInv, NEW w \in Workers,
         \/ Leave(w) \/ PollExpire(w) \/ ClaimOne(w) \/ ClaimNone(w) \/ Wake(w)
         \/ Execute(w) \/ Join(w) \/ Discard(w) \/ FinishRefused(w)
         \/ BeatWakes(w) \/ BeatLost(w) \/ BeatStops(w) \/ Crash(w) \/ Restart(w)
         \/ Submit \/ CancelAny \/ UNCHANGED workersVars
  PROVE  Plain
<1>0. setting.lease \in Leases
  BY Constants DEF WInv
<1>1. CASE PollExpire(w)
  BY <1>1, PollIsExpire, PlainCalls DEF Expire
<1>2. CASE ClaimOne(w)
  BY <1>0, <1>2, ClaimOneIsClaim, PlainCalls DEF Claim
<1>3. CASE ClaimNone(w)
  BY <1>3, ClaimNoneIsClaim, PlainCalls DEF ClaimFindsNothing
<1>4. CASE Submit \/ CancelAny
  BY <1>4, PlainCalls DEF Submit, CancelAny
<1>5. CASE \/ Leave(w) \/ Wake(w) \/ Execute(w) \/ Join(w) \/ Discard(w) \/ FinishRefused(w)
           \/ BeatWakes(w) \/ BeatLost(w) \/ BeatStops(w) \/ Crash(w) \/ Restart(w)
           \/ UNCHANGED workersVars
  <2>1. UNCHANGED storeVars
    BY <1>5 DEF Leave, Wake, Execute, Join, Discard, FinishRefused, BeatWakes, BeatLost,
       BeatStops, Crash, Restart, Forget, workersVars
  <2> QED
    BY <2>1, PlainCalls
<1> QED
  BY <1>1, <1>2, <1>3, <1>4, <1>5

LEMMA BeatSteps ==
  ASSUME NEW w \in Workers, BeatAlive(w) \/ BeatFault(w)
  PROVE  HeartbeatOf(w) \/ UNCHANGED storeVars
BY DEF BeatAlive, BeatFault, HeartbeatOf

\* Every step is a heartbeat, a report, a plain call, or time passing.
LEMMA StoreSteps ==
  ASSUME WInv, [WorkersNext]_workersVars
  PROVE  \/ Plain
         \/ \E w \in Workers : HeartbeatOf(w)
         \/ \E w \in Workers : FinishRecorded(w)
         \/ Tick
<1>1. PICK w : w \in Workers
  BY WorkersAssumption
<1>2. CASE Submit \/ CancelAny \/ UNCHANGED workersVars
  BY <1>1, <1>2, PlainSteps
<1>3. ASSUME NEW v \in Workers, LoopStep(v) \/ BeatStep(v) \/ Crash(v) \/ Restart(v)
      PROVE  Plain \/ HeartbeatOf(v) \/ FinishRecorded(v)
  BY <1>3, PlainSteps, BeatSteps, PlainCalls DEF LoopStep, BeatStep
<1> QED
  BY <1>2, <1>3 DEF WorkersNext

LEMMA TickMovesLeases ==
  ASSUME Inv, Tick
  PROVE  /\ Inv'
         /\ attempts' = attempts
         /\ \A j \in Jobs :
              job'[j] = [job[j] EXCEPT !.lease_expires_at = Aged(job[j].lease_expires_at)]
<1> DEFINE end == [j \in Jobs |-> Aged(job[j].lease_expires_at)]
<1>1. \A j \in Jobs : job[j].lease_expires_at \in Int \cup {None}
  BY DEF Inv, TablesInv, TablesOK, InvestigationJob
<1>2. \A j \in Jobs : /\ end[j] \in Int \cup {None}
                      /\ end[j] = None <=> job[j].lease_expires_at = None
  BY <1>1, Constants DEF Aged
<1>3. job' = [j \in Jobs |-> [job[j] EXCEPT !.lease_expires_at = end[j]]]
  BY DEF Tick
<1> HIDE DEF end
<1>4. TablesInv(job', attempts)
  BY <1>2, <1>3, MovedLeasesKeepTables DEF Inv
<1>5. attempts' = attempts /\ line' = line /\ revisions' = revisions
  BY DEF Tick
<1> QED
  BY <1>3, <1>4, <1>5 DEF Inv, end

\* The store's invariant survives every step of the workers.
LEMMA StoreInvStep ==
  ASSUME WInv, [WorkersNext]_workersVars
  PROVE  Inv'
<1>1. CASE Tick
  BY <1>1, TickMovesLeases DEF WInv
<1>2. CASE ~Tick
  <2>1. [Next]_storeVars
    BY <1>2, StoreSteps, HeartbeatIsBeat, ReportIsFinish, OtherSteps DEF Plain, Next
  <2> QED
    BY <2>1, NextTables, NextLine, NextRevisions DEF WInv, Inv
<1> QED
  BY <1>1, <1>2

-----------------------------------------------------------------------------
(* The workers' own variables. *)

\* An attempt keeps its job, number and worker.
LEMMA AttemptsStay ==
  ASSUME WInv, [WorkersNext]_workersVars, NEW a \in DOMAIN attempts
  PROVE  /\ a \in DOMAIN attempts'
         /\ attempts'[a].worker = attempts[a].worker
         /\ attempts'[a].job = attempts[a].job
<1>1. attempts[a] \in JobAttempt
  BY RowTypes DEF WInv, Inv, TablesInv
<1>2. CASE Tick
  BY <1>2, TickMovesLeases DEF WInv
<1>3. CASE ~Tick
  <2>1. [Next]_storeVars
    BY <1>3, StoreSteps, HeartbeatIsBeat, ReportIsFinish, OtherSteps DEF Plain, Next
  <2>2. a \in DOMAIN attempts' /\ (attempts'[a] = attempts[a] \/ EndedAttempt(attempts[a], attempts'[a]))
    BY <2>1, AttemptEdges DEF WInv
  <2> QED
    BY <1>1, <2>2 DEF EndedAttempt, JobAttempt
<1> QED
  BY <1>2, <1>3

\* A claim starts the last attempt of the table, for the job it leases.
LEMMA ClaimStarts ==
  ASSUME Inv, NEW w \in Workers, NEW lease, NEW t, ClaimOldest(w, lease, t)
  PROVE  LET n == Len(attempts')
         IN  /\ n \in DOMAIN attempts' /\ n \in Nat
             /\ n \notin DOMAIN attempts
             /\ attempts'[n].worker = w
             /\ attempts'[n].outcome = "running"
             /\ attempts'[n].job \in Jobs
             /\ job'[attempts'[n].job].lease_expires_at = t + lease
             /\ DOMAIN attempts' = DOMAIN attempts \cup {n}
<1> DEFINE jobs == JobsExpired(job, t)
           atts == AttemptsExpired(job, attempts, t)
           n == Len(attempts')
<1>1. PICK i \in Waiting(jobs) :
        /\ job' = JobsClaimed(jobs, line[i], w, lease, t)
        /\ attempts' = AttemptsClaimed(jobs, atts, line[i], w)
  BY DEF ClaimOldest
<1>2. TablesInv(jobs, atts) /\ DOMAIN atts = DOMAIN attempts
  <2>1. TablesInv(jobs, atts)
    BY ExpiryKeepsTables DEF Inv
  <2> QED
    BY <2>1 DEF AttemptsExpired, EndAttempts
<1>3. line[i] \in Jobs
  BY DEF Inv, Waiting
<1>4. atts \in Seq(JobAttempt) /\ jobs \in [Jobs -> InvestigationJob]
  BY <1>2 DEF TablesInv, TablesOK
<1> HIDE DEF jobs, atts
<1>5. /\ n = Len(atts) + 1 /\ Len(atts) \in Nat
      /\ DOMAIN attempts' = 1 .. n
      /\ DOMAIN atts = 1 .. Len(atts)
      /\ attempts'[n] = [job |-> line[i], number |-> jobs[line[i]].attempts_made + 1,
                         worker |-> w, outcome |-> "running"]
  BY <1>1, <1>4 DEF AttemptsClaimed
<1>6. job'[line[i]] = ClaimTransition(jobs[line[i]], w, lease, t)
  BY <1>1, <1>3, <1>4 DEF JobsClaimed
<1>7. job'[line[i]].lease_expires_at = t + lease
  BY <1>3, <1>4, <1>6 DEF ClaimTransition, InvestigationJob
<1>8. n \in DOMAIN attempts' /\ n \in Nat /\ n \notin DOMAIN attempts
      /\ DOMAIN attempts' = DOMAIN attempts \cup {n}
  BY <1>2, <1>5
<1>9. /\ attempts'[n].worker = w /\ attempts'[n].outcome = "running"
      /\ attempts'[n].job = line[i]
  BY <1>5
<1> HIDE DEF n
<1> QED
  BY <1>3, <1>7, <1>8, <1>9 DEF n

LEMMA LocalTypesStep ==
  ASSUME WInv, [WorkersNext]_workersVars
  PROVE  LocalTypes' /\ setting' = setting
<1> DEFINE Ages == 0 .. MaxAge
           Misses == 0 .. MaxMissed
<1>0. /\ LocalTypes
      /\ 0 \in Ages /\ 0 \in Misses
      /\ \A m \in Misses : m < MaxMissed => m + 1 \in Misses
      /\ \A n \in Nat : n + 1 \in Nat
      /\ \A n \in Ages : Older(n) \in Ages
  BY Constants, OlderTyped DEF WInv
<1>a. LocalTypes <=>
        /\ pc \in [Workers -> LoopPlaces]
        /\ held \in [Workers -> Nat \cup {None}]
        /\ result \in [Workers -> AttemptResult \cup {None}]
        /\ beat \in [Workers -> {"off", "waiting", "calling"}]
        /\ lost \in [Workers -> BOOLEAN]
        /\ age \in [Workers -> Ages]
        /\ beatAge \in [Workers -> Ages]
        /\ missed \in [Workers -> Misses]
        /\ processed \in [Workers -> Nat]
  BY DEF LocalTypes
<1>b. /\ pc' \in [Workers -> LoopPlaces]
      /\ held' \in [Workers -> Nat \cup {None}]
      /\ result' \in [Workers -> AttemptResult \cup {None}]
      /\ beat' \in [Workers -> {"off", "waiting", "calling"}]
      /\ lost' \in [Workers -> BOOLEAN]
      /\ age' \in [Workers -> Ages]
      /\ beatAge' \in [Workers -> Ages]
      /\ missed' \in [Workers -> Misses]
      /\ processed' \in [Workers -> Nat]
      => LocalTypes'
  BY DEF LocalTypes
<1> HIDE DEF Ages, Misses
<1>1. ASSUME NEW v \in Workers, LoopStep(v)
      PROVE  LocalTypes' /\ setting' = setting
  <2>0. setting' = setting
    BY <1>1 DEF LoopStep
  <2>1. CASE Leave(v) \/ PollExpire(v) \/ ClaimNone(v) \/ Wake(v) \/ Join(v)
    <3>1. /\ \E place \in LoopPlaces : MoveTo(v, place)
          /\ UNCHANGED <<held, result, processed, beatVars>>
      BY <2>1 DEF LoopPlaces, Leave, PollExpire, ClaimNone, Wake, Join
    <3> QED
      BY <1>0, <1>a, <1>b, <2>0, <3>1 DEF MoveTo, beatVars
  <2>2. CASE ClaimOne(v)
    <3>1. PICK t : ClaimOldest(v, setting.lease, t)
      BY <2>2 DEF ClaimOne
    <3>2. Len(attempts') \in Nat
      BY <3>1, ClaimStarts DEF WInv
    <3> QED
      BY <1>0, <1>a, <1>b, <2>0, <2>2, <3>2 DEF MoveTo, LoopPlaces, ClaimOne
  <2>3. CASE Execute(v)
    BY <1>0, <1>a, <1>b, <2>0, <2>3 DEF MoveTo, LoopPlaces, Execute, beatVars
  <2>4. CASE Discard(v) \/ FinishRecorded(v) \/ FinishRefused(v)
    <3>1. /\ RoundEnds(v)
          /\ UNCHANGED <<beat, beatAge, missed>>
          /\ lost' = lost \/ lost' = [lost EXCEPT ![v] = FALSE]
      BY <2>4 DEF Discard, FinishRecorded, FinishRefused, beatVars
    <3> QED
      BY <1>0, <1>a, <1>b, <2>0, <3>1 DEF MoveTo, RoundEnds, LoopPlaces
  <2> QED
    BY <1>1, <2>1, <2>2, <2>3, <2>4 DEF LoopStep
<1>2. ASSUME NEW v \in Workers, BeatStep(v)
      PROVE  LocalTypes' /\ setting' = setting
  <2>0. setting' = setting
    BY <1>2 DEF BeatStep
  <2>1. CASE BeatWakes(v) \/ BeatAlive(v) \/ BeatLost(v) \/ BeatStops(v)
    <3>1. /\ \E place \in {"off", "waiting", "calling"} : beat' = [beat EXCEPT ![v] = place]
          /\ beatAge' = [beatAge EXCEPT ![v] = 0]
          /\ missed' = missed \/ missed' = [missed EXCEPT ![v] = 0]
          /\ lost' = lost \/ lost' = [lost EXCEPT ![v] = TRUE]
          /\ UNCHANGED loopVars
      BY <2>1 DEF BeatWakes, BeatAlive, BeatLost, BeatStops
    <3>2. lost' \in [Workers -> BOOLEAN]
      BY <1>0, <1>a, <3>1
    <3>3. missed' \in [Workers -> Misses]
      <4>1. missed \in [Workers -> Misses] /\ 0 \in Misses
        BY <1>0, <1>a
      <4> QED
        BY <3>1, <4>1
    <3>4. /\ beat' \in [Workers -> {"off", "waiting", "calling"}]
          /\ beatAge' \in [Workers -> Ages]
      BY <1>0, <1>a, <3>1
    <3> QED
      BY <1>0, <1>a, <1>b, <2>0, <3>1, <3>2, <3>3, <3>4 DEF loopVars
  <2>2. CASE BeatFault(v)
    BY <1>0, <1>a, <1>b, <2>0, <2>2 DEF BeatFault, loopVars
  <2> QED
    BY <1>2, <2>1, <2>2 DEF BeatStep
<1>3. ASSUME NEW v \in Workers, Crash(v) \/ Restart(v)
      PROVE  LocalTypes' /\ setting' = setting
  <2>1. \E place \in LoopPlaces : Forget(v, place)
    BY <1>3 DEF Crash, Restart, LoopPlaces
  <2> QED
    BY <1>0, <1>a, <1>b, <2>1 DEF Forget
<1>4. CASE Submit \/ CancelAny \/ UNCHANGED workersVars
  BY <1>0, <1>a, <1>b, <1>4 DEF Submit, CancelAny, loopVars, beatVars, workersVars
<1>5. CASE Tick
  BY <1>0, <1>a, <1>b, <1>5 DEF Tick
<1> QED
  BY <1>1, <1>2, <1>3, <1>4, <1>5 DEF WorkersNext

\* What a worker's own threads leave of another worker.
Untouched(w) ==
  /\ pc'[w] = pc[w] /\ held'[w] = held[w] /\ result'[w] = result[w]
  /\ beat'[w] = beat[w] /\ lost'[w] = lost[w] /\ missed'[w] = missed[w]

LEMMA OthersUntouched ==
  ASSUME WInv, NEW v \in Workers, LoopStep(v) \/ BeatStep(v) \/ Crash(v) \/ Restart(v),
         NEW w \in Workers, w # v
  PROVE  Untouched(w) /\ age'[w] = age[w] /\ beatAge'[w] = beatAge[w]
<1>0. LocalTypes
  BY DEF WInv
<1>1. CASE Leave(v) \/ PollExpire(v) \/ ClaimNone(v) \/ Wake(v) \/ Execute(v) \/ Join(v)
  <2>1. /\ \E place : MoveTo(v, place)
        /\ result' = result \/ \E r : result' = [result EXCEPT ![v] = r]
        /\ UNCHANGED <<held, processed, beatVars>>
    BY <1>1 DEF Leave, PollExpire, ClaimNone, Wake, Execute, Join
  <2> QED
    BY <1>0, <2>1 DEF LocalTypes, MoveTo, Untouched, beatVars
<1>2. CASE ClaimOne(v)
  BY <1>0, <1>2 DEF ClaimOne, MoveTo, LocalTypes, Untouched
<1>3. CASE Discard(v) \/ FinishRecorded(v) \/ FinishRefused(v)
  <2>1. /\ RoundEnds(v)
        /\ UNCHANGED <<beat, beatAge, missed>>
        /\ lost' = lost \/ lost' = [lost EXCEPT ![v] = FALSE]
    BY <1>3 DEF Discard, FinishRecorded, FinishRefused, beatVars
  <2> QED
    BY <1>0, <2>1 DEF RoundEnds, MoveTo, LocalTypes, Untouched
<1>4. CASE BeatStep(v)
  <2>1. /\ \E place : beat' = [beat EXCEPT ![v] = place]
        /\ beatAge' = [beatAge EXCEPT ![v] = 0]
        /\ missed' = missed \/ \E n : missed' = [missed EXCEPT ![v] = n]
        /\ lost' = lost \/ lost' = [lost EXCEPT ![v] = TRUE]
        /\ UNCHANGED loopVars
    BY <1>4 DEF BeatStep, BeatWakes, BeatAlive, BeatLost, BeatFault, BeatStops
  <2> QED
    BY <1>0, <2>1 DEF loopVars, LocalTypes, Untouched
<1>5. CASE Crash(v) \/ Restart(v)
  <2>1. \E place : Forget(v, place)
    BY <1>5 DEF Crash, Restart
  <2> QED
    BY <1>0, <2>1 DEF Forget, LocalTypes, Untouched
<1> QED
  BY <1>1, <1>2, <1>3, <1>4, <1>5 DEF LoopStep

LEMMA PlaceKept ==
  ASSUME WInv, [WorkersNext]_workersVars, NEW w \in Workers, Untouched(w)
  PROVE  PlaceSound(w)'
<1>1. PlaceSound(w)
  BY DEF WInv
<1>2. held[w] # None => /\ held[w] \in DOMAIN attempts'
                        /\ attempts'[held[w]].worker = w
  BY <1>1, AttemptsStay DEF PlaceSound
<1> QED
  BY <1>1, <1>2 DEF PlaceSound, Untouched

\* The worker that moved is sound again.
LEMMA PlaceReached ==
  ASSUME WInv, [WorkersNext]_workersVars,
         NEW v \in Workers, LoopStep(v) \/ BeatStep(v) \/ Crash(v) \/ Restart(v)
  PROVE  PlaceSound(v)'
<1>0. /\ LocalTypes /\ PlaceSound(v)
      /\ held[v] # None => held[v] \in DOMAIN attempts' /\ attempts'[held[v]].worker = v
      /\ None \notin Nat
      /\ \A r \in AttemptResult : r # None
  <2>1. PlaceSound(v) /\ LocalTypes
    BY DEF WInv
  <2> QED
    BY <2>1, AttemptsStay, Constants DEF PlaceSound
<1>1. CASE Leave(v) \/ PollExpire(v) \/ ClaimNone(v) \/ Wake(v)
  <2>1. /\ \E place \in {"done", "claim", "idle", "loop"} : MoveTo(v, place)
        /\ pc[v] \in {"loop", "claim", "idle"}
        /\ UNCHANGED <<held, result, beatVars>>
    BY <1>1 DEF Leave, PollExpire, ClaimNone, Wake
  <2> QED
    BY <1>0, <2>1 DEF LocalTypes, MoveTo, PlaceSound, Executing, beatVars
<1>2. CASE ClaimOne(v)
  <2>1. PICK t : ClaimOldest(v, setting.lease, t)
    BY <1>2 DEF ClaimOne
  <2>2. /\ Len(attempts') \in DOMAIN attempts' /\ Len(attempts') \in Nat
        /\ attempts'[Len(attempts')].worker = v
    BY <2>1, ClaimStarts DEF WInv
  <2> QED
    BY <1>0, <1>2, <2>2 DEF ClaimOne, LocalTypes, MoveTo, PlaceSound, Executing
<1>3. CASE Execute(v)
  BY <1>0, <1>3 DEF Execute, LocalTypes, MoveTo, PlaceSound, Executing, beatVars
<1>4. CASE Join(v)
  BY <1>0, <1>4 DEF Join, LocalTypes, MoveTo, PlaceSound, Executing, beatVars
<1>5. CASE Discard(v) \/ FinishRecorded(v) \/ FinishRefused(v)
  <2>1. /\ RoundEnds(v)
        /\ beat' = beat /\ (lost' = lost \/ lost' = [lost EXCEPT ![v] = FALSE])
        /\ beat[v] = "off"
        /\ lost[v] => lost'[v] = FALSE
    BY <1>0, <1>5 DEF Discard, FinishRecorded, FinishRefused, beatVars, PlaceSound, LocalTypes
  <2> QED
    BY <1>0, <2>1 DEF RoundEnds, MoveTo, LocalTypes, PlaceSound, Executing
<1>6. CASE BeatStep(v)
  <2>1. /\ \E place : beat' = [beat EXCEPT ![v] = place]
        /\ beat[v] # "off"
        /\ lost' = lost \/ (lost' = [lost EXCEPT ![v] = TRUE] /\ beat' = [beat EXCEPT ![v] = "off"])
        /\ UNCHANGED loopVars
    BY <1>6 DEF BeatStep, BeatWakes, BeatAlive, BeatLost, BeatFault, BeatStops
  <2> QED
    BY <1>0, <2>1 DEF loopVars, LocalTypes, PlaceSound, Executing
<1>7. CASE Crash(v) \/ Restart(v)
  <2>1. \E place \in {"dead", "loop"} : Forget(v, place)
    BY <1>7 DEF Crash, Restart
  <2> QED
    BY <1>0, <2>1 DEF Forget, LocalTypes, PlaceSound, Executing
<1> QED
  BY <1>1, <1>2, <1>3, <1>4, <1>5, <1>6, <1>7 DEF LoopStep

LEMMA WInvStep == WInv /\ [WorkersNext]_workersVars => WInv'
<1> SUFFICES ASSUME WInv, [WorkersNext]_workersVars PROVE WInv'
  OBVIOUS
<1>1. ASSUME NEW w \in Workers PROVE PlaceSound(w)'
  <2>1. CASE Submit \/ CancelAny \/ Tick \/ UNCHANGED workersVars
    <3>1. Untouched(w)
      BY <2>1 DEF Untouched, Submit, CancelAny, Tick, loopVars, beatVars, workersVars
    <3> QED
      BY <3>1, PlaceKept
  <2>2. ASSUME NEW v \in Workers, LoopStep(v) \/ BeatStep(v) \/ Crash(v) \/ Restart(v)
        PROVE  PlaceSound(w)'
    BY <2>2, PlaceReached, PlaceKept, OthersUntouched
  <2> QED
    BY <2>1, <2>2 DEF WorkersNext
<1>2. setting' \in Settings
  BY LocalTypesStep DEF WInv
<1> QED
  BY <1>1, <1>2, LocalTypesStep, StoreInvStep DEF WInv

\* The store's invariant holds under the workers too, and each worker's place
\* in its loop agrees with what it holds, its result and its heartbeat thread.
THEOREM WInvHolds == WorkersSpec => []WInv
<1> QED
  BY WorkersInitInv, WInvStep, PTL DEF WorkersSpec

-----------------------------------------------------------------------------
(* Who extends a lease, and who ends an attempt. *)

\* While an attempt stays unfinished, only its own worker's heartbeat thread
\* and time change what its job says.
LEMMA OnlyOwnHeartbeat ==
  ASSUME WInv, [WorkersNext]_workersVars, ~Tick,
         NEW a \in DOMAIN attempts, attempts'[a].outcome = "running",
         \A w \in Workers : HeartbeatOf(w) => held[w] # a
  PROVE  /\ attempts'[a] = attempts[a]
         /\ job'[attempts[a].job] = job[attempts[a].job]
<1>1. CASE Plain
  BY <1>1, UnfinishedKeepsJob DEF Plain, WInv
<1>2. ASSUME NEW w \in Workers, FinishRecorded(w)
      PROVE  /\ attempts'[a] = attempts[a]
             /\ job'[attempts[a].job] = job[attempts[a].job]
  BY <1>2, ReportIsFinish, UnfinishedKeepsJob DEF OtherThanBeat, WInv
<1>3. ASSUME NEW w \in Workers, HeartbeatOf(w)
      PROVE  /\ attempts'[a] = attempts[a]
             /\ job'[attempts[a].job] = job[attempts[a].job]
  <2> DEFINE b == held[w]
             i == attempts[b].job
  <2>1. PICK t : Heartbeat(b, w, setting.lease, t)
    BY <1>3 DEF HeartbeatOf
  <2>2. /\ attempts' = attempts
        /\ attempts[b].outcome = "running"
        /\ job' = [job EXCEPT ![i] = [@ EXCEPT !.lease_expires_at = t + setting.lease]]
    BY <2>1 DEF Heartbeat, LeaseIsValid
  <2>3. b \in DOMAIN attempts /\ b # a
    BY <1>3, HeldAttempt DEF HeartbeatOf
  <2>4. attempts[a].job # i
    BY <2>2, <2>3, OneUnfinishedAttempt DEF WInv, Inv
  <2>5. attempts[a].job \in Jobs /\ job \in [Jobs -> InvestigationJob]
    BY RowTypes DEF WInv, Inv, TablesInv, TablesOK
  <2> HIDE DEF i
  <2> QED
    BY <2>2, <2>4, <2>5
<1> QED
  BY <1>1, <1>2, <1>3, StoreSteps

\* An unfinished attempt ends by its worker's report, by a cancellation, or by
\* expiring at an instant its lease does not reach.
LEMMA HowItEnds ==
  ASSUME WInv, [WorkersNext]_workersVars,
         NEW a \in DOMAIN attempts, attempts[a].outcome = "running",
         attempts'[a].outcome # "running"
  PROVE  \/ attempts'[a].outcome = "cancelled"
         \/ /\ attempts'[a].outcome = "expired"
            /\ job[attempts[a].job].lease_expires_at <= 0
         \/ \E w \in Workers :
              /\ FinishRecorded(w)
              /\ held[w] = a
              /\ attempts[a].worker = w
              /\ attempts'[a].outcome = result[w].outcome
              /\ job[attempts[a].job].lease_expires_at > 0
<1>0. attempts[a].job \in Jobs /\ attempts[a] \in JobAttempt
  BY RowTypes DEF WInv, Inv, TablesInv
<1>1. CASE OtherThanFinish
  <2>1. CASE attempts'[a].outcome = "cancelled"
    BY <2>1
  <2>2. CASE attempts'[a].outcome = "expired" /\ \E t \in Instants : attempts[a].job \in Lapsed(job, t)
    <3>1. PICK t \in Instants : attempts[a].job \in Lapsed(job, t)
      BY <2>2
    <3>2. /\ job[attempts[a].job].lease_expires_at \in Int
          /\ job[attempts[a].job].lease_expires_at <= t
      BY <1>0, <3>1 DEF Lapsed, WInv, Inv, TablesInv, TablesOK, InvestigationJob
    <3>3. t \in Int /\ t <= 0
      BY Constants
    <3>4. job[attempts[a].job].lease_expires_at <= 0
      BY <3>2, <3>3
    <3> QED
      BY <2>2, <3>4
  <2> QED
    BY <1>1, <2>1, <2>2, UnreportedEnd DEF WInv
<1>2. ASSUME NEW w \in Workers, FinishRecorded(w)
      PROVE  /\ held[w] = a
             /\ attempts[a].worker = w
             /\ attempts'[a].outcome = result[w].outcome
             /\ job[attempts[a].job].lease_expires_at > 0
  <2>1. FinishAttempt(held[w], w, result[w].outcome, result[w].retryable, 0) /\ pc[w] = "finish"
    BY <1>2 DEF FinishRecorded
  <2>2. held[w] \in DOMAIN attempts /\ attempts \in Seq(JobAttempt)
    BY <2>1, HeldAttempt DEF Executing, WInv, Inv, TablesInv, TablesOK
  <2>3. /\ LeaseIsValid(held[w], w, 0)
        /\ attempts' = [attempts EXCEPT ![held[w]] = [@ EXCEPT !.outcome = result[w].outcome]]
    BY <2>1 DEF FinishAttempt
  <2>4. held[w] = a
    BY <2>2, <2>3
  <2>5. attempts'[a].outcome = result[w].outcome
    BY <1>0, <2>2, <2>3, <2>4 DEF JobAttempt
  <2> QED
    BY <2>3, <2>4, <2>5 DEF LeaseIsValid
<1>3. CASE Tick
  BY <1>3, TickMovesLeases DEF WInv
<1>4. ASSUME NEW w \in Workers, HeartbeatOf(w)
      PROVE  OtherThanFinish
  BY <1>4, HeartbeatIsBeat DEF OtherThanFinish
<1> QED
  BY <1>1, <1>2, <1>3, <1>4, StoreSteps DEF Plain

\* A result reaches the store only from the worker that executed the attempt,
\* while its lease has not lapsed at the very instant it is recorded: whatever
\* interleaving of workers, stalls, expiries and crashes came before.
THEOREM NoLateResultHolds == WorkersSpec => NoLateResult
<1>1. WInv /\ [WorkersNext]_workersVars =>
        [ \A a \in DOMAIN attempts :
            attempts[a].outcome = "running" /\ attempts'[a].outcome \in Reported =>
              /\ job[attempts[a].job].lease_expires_at > 0
              /\ held[attempts[a].worker] = a
              /\ result[attempts[a].worker].outcome = attempts'[a].outcome
        ]_workersVars
  BY HowItEnds DEF Reported
<1> QED
  BY WInvHolds, <1>1, PTL DEF WorkersSpec, NoLateResult

-----------------------------------------------------------------------------
(* A lease that is given up. *)

LostSound(w) == lost[w] => ~LeaseIsValid(held[w], w, 0)

\* A lease the store refuses is refused for good, unless its own worker's
\* thread were to extend it.
LEMMA RefusedStays ==
  ASSUME WInv, [WorkersNext]_workersVars, NEW w \in Workers,
         held[w] # None, held'[w] = held[w], beat[w] # "calling",
         ~LeaseIsValid(held[w], w, 0)
  PROVE  ~LeaseIsValid(held[w], w, 0)'
<1> DEFINE a == held[w]
           j == attempts[a].job
<1>0. /\ a \in DOMAIN attempts /\ attempts[a].worker = w
      /\ j \in Jobs /\ job[j] \in InvestigationJob
  BY RowTypes DEF WInv, Inv, TablesInv, PlaceSound
<1>1. CASE Tick
  <2>1. /\ attempts' = attempts
        /\ job'[j] = [job[j] EXCEPT !.lease_expires_at = Aged(job[j].lease_expires_at)]
    BY <1>0, <1>1, TickMovesLeases DEF WInv
  <2>2. /\ job'[j].status = job[j].status
        /\ job'[j].lease_owner = job[j].lease_owner
        /\ job'[j].lease_expires_at = Aged(job[j].lease_expires_at)
        /\ job[j].lease_expires_at \in Int \cup {None}
    BY <1>0, <2>1 DEF InvestigationJob
  <2>3. Aged(job[j].lease_expires_at) # None /\ Aged(job[j].lease_expires_at) > 0
        => job[j].lease_expires_at # None /\ job[j].lease_expires_at > 0
    BY <2>2, Constants DEF Aged
  <2> QED
    BY <2>1, <2>2, <2>3 DEF LeaseIsValid
<1>2. CASE ~Tick
  <2> SUFFICES ASSUME attempts'[a].outcome = "running", LeaseIsValid(held[w], w, 0)'
               PROVE  FALSE
    BY DEF LeaseIsValid
  <2>1. \A v \in Workers : HeartbeatOf(v) => held[v] # a
    BY <1>0, HeldAttempt DEF HeartbeatOf
  <2>2. attempts'[a] = attempts[a] /\ job'[j] = job[j]
    BY <1>0, <1>2, <2>1, OnlyOwnHeartbeat
  <2> QED
    BY <2>2 DEF LeaseIsValid
<1> QED
  BY <1>1, <1>2

LEMMA LostStep ==
  ASSUME WInv, [WorkersNext]_workersVars, NEW w \in Workers, LostSound(w)
  PROVE  LostSound(w)'
<1> SUFFICES ASSUME lost'[w] PROVE ~LeaseIsValid(held[w], w, 0)'
  BY DEF LostSound
<1>1. CASE Untouched(w)
  BY <1>1, RefusedStays DEF WInv, LostSound, PlaceSound, Executing, Untouched
<1>2. CASE LoopStep(w) \/ BeatStep(w) \/ Crash(w) \/ Restart(w)
  <2>0. LocalTypes /\ PlaceSound(w)
    BY DEF WInv
  <2>1. CASE BeatLost(w)
    <3>1. PICK t \in Readings(beatAge[w]) : ~LeaseIsValid(held[w], w, t)
      BY <2>1 DEF BeatLost
    <3>2. t \in Int /\ t <= 0
      BY <2>0, ReadingsAreInstants DEF LocalTypes
    <3>3. job[attempts[held[w]].job] \in InvestigationJob
      BY <2>1, HeldAttempt DEF BeatLost
    <3>4. ~LeaseIsValid(held[w], w, 0)
      BY <3>1, <3>2, <3>3 DEF LeaseIsValid, InvestigationJob
    <3> QED
      BY <2>1, <3>4 DEF BeatLost, LeaseIsValid, storeVars, loopVars
  <2>2. CASE ~BeatLost(w)
    <3>1. ~ClaimOne(w) /\ ~Discard(w) /\ ~Crash(w) /\ ~Restart(w)
      BY <2>0 DEF ClaimOne, Discard, Crash, Restart, Forget, LocalTypes
    <3>2. ~BeatStep(w)
      BY <2>0, <2>2 DEF BeatStep, BeatWakes, BeatAlive, BeatFault, BeatStops, PlaceSound
    <3>3. lost' = lost
      BY <1>2, <3>1, <3>2 DEF LoopStep, Leave, PollExpire, ClaimNone, Wake, Execute, Join,
         FinishRecorded, FinishRefused, beatVars
    <3>4. Execute(w)
      BY <1>2, <2>0, <3>1, <3>2, <3>3 DEF PlaceSound, LoopStep, Leave, PollExpire,
         ClaimNone, Wake, Join, FinishRecorded, FinishRefused
    <3> QED
      BY <2>0, <3>3, <3>4, RefusedStays DEF Execute, LostSound, PlaceSound, Executing
  <2> QED
    BY <2>1, <2>2
<1>3. CASE Submit \/ CancelAny \/ Tick \/ UNCHANGED workersVars
  BY <1>1, <1>3 DEF Untouched, Submit, CancelAny, Tick, loopVars, beatVars, workersVars
<1> QED
  BY <1>1, <1>2, <1>3, OthersUntouched DEF WorkersNext

\* Workers keep their types, hold only attempts of their own, and give a lease
\* up unasked only when the store would refuse their result.
THEOREM WorkersSoundHolds == WorkersSpec => []WorkersSound
<1> DEFINE Lost == \A w \in Workers : LostSound(w)
<1>1. WorkersInit => Lost
  BY DEF WorkersInit, LostSound
<1>2. WInv /\ Lost /\ [WorkersNext]_workersVars => Lost'
  BY LostStep
<1>3. WInv /\ Lost => WorkersSound
  BY DEF WInv, Inv, TablesInv, LocalTypes, PlaceSound, LostSound, WorkersSound,
     WorkersTypeOK, TypeOK, LostIsFinal
<1> QED
  BY WInvHolds, <1>1, <1>2, <1>3, PTL DEF WorkersSpec

-----------------------------------------------------------------------------
(* A worker on time. *)

\* The lease outlasts one heartbeat interval more than there may be faults.
RoomForFaults ==
  \A s \in Settings : s.punctual => HeartbeatEvery * (MaxMissed + 1) < s.lease

\* What is left of a lease at least when its last good heartbeat lies `n'
\* intervals back.
Room(n) == setting.lease - HeartbeatEvery * n

LeaseEnd(a) == job[attempts[a].job].lease_expires_at

KeepsLease(w) ==
  /\ LeaseEnd(held[w]) > 0
  /\ beat[w] = "waiting" => LeaseEnd(held[w]) + beatAge[w] >= Room(missed[w])
  /\ beat[w] = "calling" => LeaseEnd(held[w]) >= Room(missed[w] + 1)
  /\ beat[w] = "off" => pc[w] # "execute"

TimelySound(w) ==
  /\ age[w] = 0
  /\ beat[w] = "waiting" => beatAge[w] <= HeartbeatEvery
  /\ beat[w] = "calling" => beatAge[w] = 0
  /\ held[w] # None =>
       \/ attempts[held[w]].outcome = "cancelled"
       \/ attempts[held[w]].outcome = "running" /\ KeepsLease(w)

LEMMA Products ==
  ASSUME NEW h \in Nat
  PROVE  /\ h * 0 = 0
         /\ \A n \in Nat : h * n \in Nat /\ h * (n + 1) = h * n + h
         /\ \A n, m \in Nat : n <= m => h * n <= h * m
<1>1. h * 0 = 0
  OBVIOUS
<1>2. ASSUME NEW n \in Nat PROVE h * n \in Nat /\ h * (n + 1) = h * n + h
  OBVIOUS
<1>3. ASSUME NEW n \in Nat, NEW m \in Nat, n <= m PROVE h * n <= h * m
  <2>1. m - n \in Nat /\ m = n + (m - n)
    BY <1>3
  <2>2. \A k \in Nat : h * (n + k) = h * n + h * k /\ h * k \in Nat /\ h * n \in Nat
    OBVIOUS
  <2>3. \A x, y \in Nat : x <= x + y
    OBVIOUS
  <2> QED
    BY <2>1, <2>2, <2>3
<1> QED
  BY <1>1, <1>2, <1>3

LEMMA RoomFacts ==
  ASSUME RoomForFaults, WInv, setting.punctual
  PROVE  /\ setting.lease \in Nat \ {0}
         /\ Room(0) = setting.lease
         /\ \A n \in Nat : /\ Room(n) \in Int
                           /\ Room(n) <= setting.lease
                           /\ Room(n + 1) = Room(n) - HeartbeatEvery
         /\ \A n \in 0 .. MaxMissed : Room(n + 1) > 0
<1> DEFINE H == HeartbeatEvery
           L == setting.lease
           p == [n \in Nat |-> H * n]
<1>1. L \in Nat /\ L > 0 /\ H \in Nat /\ MaxMissed \in Nat
  BY Constants DEF WInv
<1>a. p[MaxMissed + 1] < L
  <2>1. HeartbeatEvery * (MaxMissed + 1) < L
    BY DEF RoomForFaults, WInv
  <2>2. MaxMissed + 1 \in Nat
    BY <1>1
  <2>3. p[MaxMissed + 1] = HeartbeatEvery * (MaxMissed + 1)
    BY <2>2
  <2> QED
    BY <2>1, <2>3
<1>2. /\ p[0] = 0
      /\ \A n \in Nat : p[n] \in Nat /\ p[n + 1] = p[n] + H
      /\ \A n, m \in Nat : n <= m => p[n] <= p[m]
  BY <1>1, Products
<1>3. \A n \in Nat : Room(n) = L - p[n]
  BY DEF Room
<1> HIDE DEF L, p, H
<1>4. ASSUME NEW n \in 0 .. MaxMissed
      PROVE  n + 1 \in Nat /\ L - p[n + 1] > 0
  <2>1. n + 1 \in Nat /\ MaxMissed + 1 \in Nat /\ n + 1 <= MaxMissed + 1
    BY <1>1
  <2>2. p[n + 1] <= p[MaxMissed + 1] /\ p[n + 1] \in Nat /\ p[MaxMissed + 1] \in Nat
    BY <1>2, <2>1, Zenon
  <2> QED
    BY <1>1, <1>a, <2>1, <2>2
<1>5. ASSUME NEW n \in Nat
      PROVE  L - p[n] \in Int /\ L - p[n] <= L /\ L - p[n + 1] = (L - p[n]) - H
  <2>1. p[n] \in Nat /\ p[n + 1] = p[n] + H
    BY <1>2
  <2> QED
    BY <1>1, <2>1
<1>6. L - p[0] = L
  BY <1>1, <1>2
<1>7. /\ L \in Nat \ {0}
      /\ Room(0) = L
      /\ \A n \in Nat : Room(n) \in Int /\ Room(n) <= L /\ Room(n + 1) = Room(n) - H
  <2>1. Room(0) = L /\ L \in Nat \ {0}
    BY <1>1, <1>3, <1>6
  <2>2. ASSUME NEW n \in Nat
        PROVE  Room(n) \in Int /\ Room(n) <= L /\ Room(n + 1) = Room(n) - H
    <3>1. n + 1 \in Nat
      OBVIOUS
    <3>2. Room(n) = L - p[n] /\ Room(n + 1) = L - p[n + 1]
      BY <1>3, <3>1, Zenon
    <3> QED
      BY <1>5, <3>2
  <2> QED
    BY <2>1, <2>2
<1>8. \A n \in 0 .. MaxMissed : Room(n + 1) > 0
  BY <1>3, <1>4
<1> QED
  BY <1>7, <1>8 DEF L, H


\* An attempt that has ended stays as it is.
LEMMA EndedStays ==
  ASSUME WInv, [WorkersNext]_workersVars, NEW a \in DOMAIN attempts,
         attempts[a].outcome # "running"
  PROVE  attempts'[a] = attempts[a]
<1>1. CASE Tick
  BY <1>1, TickMovesLeases DEF WInv
<1>2. CASE ~Tick
  <2>1. [Next]_storeVars
    BY <1>2, StoreSteps, HeartbeatIsBeat, ReportIsFinish, OtherSteps DEF Plain, Next
  <2>2. attempts'[a] = attempts[a] \/ EndedAttempt(attempts[a], attempts'[a])
    BY <2>1, AttemptEdges DEF WInv
  <2> QED
    BY <2>2 DEF EndedAttempt
<1> QED
  BY <1>1, <1>2

\* The end of the lease of an attempt that runs is an instant.
LEMMA RunningLease ==
  ASSUME WInv, NEW a \in DOMAIN attempts, attempts[a].outcome = "running"
  PROVE  /\ LeaseEnd(a) \in Int
         /\ attempts[a].job \in Jobs
         /\ job[attempts[a].job] \in InvestigationJob
         /\ LeaseEnd(a) > 0 => LeaseIsValid(a, attempts[a].worker, 0)
<1>1. /\ attempts[a].job \in Jobs
      /\ job[attempts[a].job] \in InvestigationJob
      /\ job[attempts[a].job].status = "running"
      /\ job[attempts[a].job].lease_owner = attempts[a].worker
  BY UnfinishedIsLatest, RowTypes DEF WInv, Inv, TablesInv
<1>2. LeaseEnd(a) \in Int
  BY <1>1 DEF WInv, Inv, TablesInv, LeaseFollowsAttempt, InvestigationJob, LeaseEnd
<1> QED
  BY <1>1, <1>2, Constants DEF LeaseIsValid, LeaseEnd

\* What a worker still holds after a step that is not its own report: a live
\* lease is lost only to a cancellation.
LEMMA ProtectedAttempt ==
  ASSUME WInv, [WorkersNext]_workersVars, NEW w \in Workers, held[w] # None,
         held'[w] = held[w], LeaseEnd(held[w]) > 0,
         attempts[held[w]].outcome = "running", attempts'[held[w]].outcome # "running"
  PROVE  attempts'[held[w]].outcome = "cancelled"
<1> DEFINE a == held[w]
<1>0. /\ a \in DOMAIN attempts /\ attempts[a].worker = w
      /\ LocalTypes
  BY DEF WInv, PlaceSound
<1>1. LeaseEnd(a) \in Int
  BY <1>0, RunningLease
<1>2. ~(job[attempts[a].job].lease_expires_at <= 0)
  BY <1>1 DEF LeaseEnd
<1>3. ~FinishRecorded(w)
  BY <1>0 DEF FinishRecorded, RoundEnds, LocalTypes
<1> QED
  BY <1>0, <1>2, <1>3, HowItEnds

\* What becomes of the lease of an attempt that goes on: time brings its end
\* nearer, its worker's heartbeat renews it, nothing else touches it.
LEMMA LeaseGoesOn ==
  ASSUME WInv, [WorkersNext]_workersVars, NEW w \in Workers, held[w] # None,
         beat[w] = "calling" => beatAge[w] = 0,
         attempts'[held[w]].outcome = "running"
  PROVE  LET end == job'[attempts'[held[w]].job].lease_expires_at
         IN  /\ attempts[held[w]].outcome = "running"
             /\ \/ end = LeaseEnd(held[w])
                \/ HeartbeatOf(w) /\ end = setting.lease
                \/ Tick /\ end = Aged(LeaseEnd(held[w]))
<1> DEFINE a == held[w]
           j == attempts[a].job
<1>0. /\ a \in DOMAIN attempts /\ attempts[a].worker = w /\ attempts[a] \in JobAttempt
      /\ j \in Jobs /\ job \in [Jobs -> InvestigationJob] /\ job[j] \in InvestigationJob
      /\ attempts'[a].job = j
  BY RowTypes, AttemptsStay DEF WInv, Inv, TablesInv, TablesOK, PlaceSound
<1>1. attempts[a].outcome = "running"
  BY <1>0, EndedStays
<1>2. CASE Tick
  <2>1. job'[j] = [job[j] EXCEPT !.lease_expires_at = Aged(job[j].lease_expires_at)]
    BY <1>0, <1>2, TickMovesLeases DEF WInv
  <2>2. job'[j].lease_expires_at = Aged(job[j].lease_expires_at)
    BY <1>0, <2>1 DEF InvestigationJob
  <2> QED
    BY <1>0, <1>1, <1>2, <2>2 DEF LeaseEnd
<1>3. CASE HeartbeatOf(w)
  <2>1. PICK t \in Readings(beatAge[w]) : Heartbeat(a, w, setting.lease, t)
    BY <1>3 DEF HeartbeatOf
  <2>2. t = 0 /\ setting.lease \in Nat
    BY <1>3, <2>1, Constants DEF HeartbeatOf, Readings, WInv
  <2>3. job' = [job EXCEPT ![j] = [@ EXCEPT !.lease_expires_at = t + setting.lease]]
    BY <2>1 DEF Heartbeat
  <2> HIDE DEF j
  <2>4. job'[j].lease_expires_at = t + setting.lease
    BY <1>0, <2>3 DEF InvestigationJob
  <2> QED
    BY <1>0, <1>1, <1>3, <2>2, <2>4 DEF j
<1>4. CASE ~Tick /\ ~HeartbeatOf(w)
  <2>1. \A v \in Workers : HeartbeatOf(v) => held[v] # a
    BY <1>0, <1>4, HeldAttempt DEF HeartbeatOf
  <2>2. job'[j] = job[j]
    BY <1>0, <1>4, <2>1, OnlyOwnHeartbeat
  <2> QED
    BY <1>0, <1>1, <2>2 DEF LeaseEnd
<1> QED
  BY <1>2, <1>3, <1>4

LEMMA TimelyUntouched ==
  ASSUME WInv, RoomForFaults, setting.punctual, [WorkersNext]_workersVars, ~Tick,
         NEW w \in Workers, TimelySound(w), Untouched(w),
         age'[w] = age[w], beatAge'[w] = beatAge[w]
  PROVE  TimelySound(w)'
<1>0. setting' = setting /\ LocalTypes
  BY LocalTypesStep DEF WInv
<1>1. CASE held[w] = None
  BY <1>1 DEF TimelySound, Untouched
<1>2. CASE held[w] # None /\ attempts[held[w]].outcome = "cancelled"
  <2>1. attempts'[held[w]].outcome = "cancelled"
    BY <1>2, EndedStays DEF WInv, PlaceSound
  <2> QED
    BY <1>2, <2>1 DEF TimelySound, Untouched
<1>3. CASE held[w] # None /\ attempts[held[w]].outcome = "running" /\ KeepsLease(w)
  <2> DEFINE a == held[w]
             end == job'[attempts'[a].job].lease_expires_at
  <2>1. CASE attempts'[a].outcome # "running"
    <3>1. attempts'[a].outcome = "cancelled"
      BY <1>3, <2>1, ProtectedAttempt DEF KeepsLease, Untouched
    <3> QED
      BY <3>1 DEF TimelySound, Untouched
  <2>2. CASE attempts'[a].outcome = "running"
    <3>1. end = LeaseEnd(a) \/ (beat[w] = "calling" /\ end = setting.lease)
      BY <1>3, <2>2, LeaseGoesOn DEF TimelySound, HeartbeatOf
    <3>2. /\ setting.lease \in Nat /\ setting.lease > 0
          /\ missed[w] \in Nat /\ missed[w] + 1 \in Nat
      <4>1. missed[w] \in 0 .. MaxMissed
        BY <1>0 DEF LocalTypes
      <4>2. setting.lease \in Nat \ {0}
        BY RoomFacts
      <4> QED
        BY <4>1, <4>2, Constants
    <3>3. Room(missed[w] + 1) <= setting.lease
      BY <3>2, RoomFacts
    <3>4. /\ end > 0
          /\ beat[w] = "waiting" => end + beatAge[w] >= Room(missed[w])
          /\ beat[w] = "calling" => end >= Room(missed[w] + 1)
          /\ beat[w] = "off" => pc[w] # "execute"
      BY <1>3, <3>1, <3>2, <3>3 DEF KeepsLease
    <3>5. KeepsLease(w)'
      BY <1>0, <3>4 DEF KeepsLease, Untouched, LeaseEnd, Room
    <3> QED
      BY <2>2, <3>5 DEF TimelySound, Untouched
  <2> QED
    BY <2>1, <2>2
<1> QED
  BY <1>1, <1>2, <1>3 DEF TimelySound

LEMMA TimelyTick ==
  ASSUME WInv, RoomForFaults, setting.punctual, Tick, NEW w \in Workers, TimelySound(w)
  PROVE  TimelySound(w)'
<1>0. setting' = setting /\ LocalTypes /\ Untouched(w) /\ ~Due(w)
  BY DEF WInv, Untouched, Tick
<1>1. age'[w] = 0
  BY <1>0 DEF TimelySound, Tick, Due
<1>2. /\ beat[w] # "calling"
      /\ beat[w] = "waiting" => /\ pc[w] = "execute"
                                /\ beatAge[w] < HeartbeatEvery
                                /\ beatAge'[w] = beatAge[w] + 1
  <2>1. beat[w] # "calling"
    BY <1>0 DEF Due
  <2>2. ASSUME beat[w] = "waiting"
        PROVE  pc[w] = "execute" /\ beatAge[w] < HeartbeatEvery
    <3>1. pc[w] = "execute"
      BY <1>0, <2>2 DEF Due, WInv, PlaceSound
    <3>2. ~(beatAge[w] >= HeartbeatEvery)
      BY <1>0, <2>2, <3>1 DEF Due
    <3> QED
      BY <1>0, <3>1, <3>2, Constants DEF LocalTypes
  <2>3. ASSUME beat[w] = "waiting"
        PROVE  beatAge'[w] = beatAge[w] + 1
    <3>1. beatAge'[w] = Older(beatAge[w])
      BY <2>3 DEF Tick
    <3> QED
      BY <1>0, <2>2, <2>3, <3>1, Constants DEF Older, LocalTypes
  <2> QED
    BY <2>1, <2>2, <2>3
<1>3. [WorkersNext]_workersVars
  BY DEF WorkersNext
<1>4. /\ beat'[w] = "waiting" => beatAge'[w] <= HeartbeatEvery
      /\ beat'[w] # "calling"
  BY <1>0, <1>2, Constants DEF Untouched, LocalTypes
<1>5. CASE held[w] = None
  BY <1>0, <1>1, <1>4, <1>5 DEF TimelySound, Untouched
<1>6. CASE held[w] # None /\ attempts[held[w]].outcome = "cancelled"
  <2>1. attempts' = attempts
    BY DEF Tick
  <2> QED
    BY <1>0, <1>1, <1>4, <1>6, <2>1 DEF TimelySound, Untouched
<1>7. CASE held[w] # None /\ attempts[held[w]].outcome = "running" /\ KeepsLease(w)
  <2> DEFINE a == held[w]
             e == LeaseEnd(a)
             end == job'[attempts'[a].job].lease_expires_at
  <2>1. a \in DOMAIN attempts /\ attempts' = attempts
    BY <1>7 DEF Tick, WInv, PlaceSound
  <2>2. e \in Int /\ attempts[a].job \in Jobs /\ job[attempts[a].job] \in InvestigationJob
    BY <1>7, <2>1, RunningLease
  <2>3. end = Aged(e)
    <3>1. job'[attempts[a].job] = [job[attempts[a].job] EXCEPT !.lease_expires_at = Aged(e)]
      BY <2>2, TickMovesLeases DEF LeaseEnd, WInv
    <3> QED
      BY <2>1, <2>2, <3>1 DEF InvestigationJob
  <2>4. end = e - 1
    BY <1>7, <2>2, <2>3, Constants DEF Aged, KeepsLease
  <2>5. pc[w] = "execute" /\ beat[w] = "waiting"
    <3>1. pc[w] \in Executing /\ beat[w] \in {"off", "waiting", "calling"}
      BY <1>0, <1>7 DEF WInv, PlaceSound, LocalTypes
    <3> QED
      BY <1>0, <1>2, <1>7, <3>1 DEF Due, Executing, KeepsLease
  <2>6. /\ missed[w] \in 0 .. MaxMissed /\ missed[w] \in Nat
        /\ beatAge[w] \in Nat /\ HeartbeatEvery \in Nat
    BY <1>0, Constants DEF LocalTypes
  <2>7. /\ Room(missed[w]) \in Int
        /\ Room(missed[w]) - HeartbeatEvery > 0
    BY <2>6, RoomFacts
  <2>8. e + beatAge[w] >= Room(missed[w]) /\ beatAge[w] < HeartbeatEvery
    BY <1>2, <1>7, <2>5 DEF KeepsLease
  <2> HIDE DEF e, end
  <2>9. end > 0 /\ end + beatAge'[w] >= Room(missed[w])
    BY <1>2, <2>2, <2>4, <2>5, <2>6, <2>7, <2>8
  <2>10. KeepsLease(w)'
    BY <1>0, <2>5, <2>9 DEF KeepsLease, Untouched, LeaseEnd, Room, end
  <2> QED
    BY <1>0, <1>1, <1>4, <1>7, <2>1, <2>10 DEF TimelySound, Untouched
<1> QED
  BY <1>5, <1>6, <1>7 DEF TimelySound

LEMMA TimelyMoves ==
  ASSUME WInv, RoomForFaults, setting.punctual, [WorkersNext]_workersVars,
         NEW w \in Workers, LoopStep(w) \/ BeatStep(w) \/ Crash(w) \/ Restart(w),
         TimelySound(w)
  PROVE  TimelySound(w)'
<1>0. /\ setting' = setting /\ LocalTypes /\ LocalTypes' /\ PlaceSound(w) /\ PlaceSound(w)'
      /\ missed[w] \in Nat /\ beatAge[w] \in Nat /\ HeartbeatEvery \in Nat
  <2>1. setting' = setting /\ LocalTypes' /\ LocalTypes /\ PlaceSound(w)
    BY LocalTypesStep DEF WInv
  <2>2. missed[w] \in Nat /\ beatAge[w] \in Nat /\ HeartbeatEvery \in Nat
    BY <2>1, Constants DEF LocalTypes
  <2> QED
    BY <2>1, <2>2, PlaceReached
<1>r. /\ setting.lease \in Nat /\ setting.lease > 0
      /\ Room(0) = setting.lease
      /\ Room(missed[w]) \in Int
      /\ Room(missed[w] + 1) = Room(missed[w]) - HeartbeatEvery
      /\ Room(missed[w] + 1) <= setting.lease
  <2>1. setting.lease \in Nat \ {0} /\ Room(0) = setting.lease
    BY RoomFacts
  <2>2. missed[w] + 1 \in Nat
    BY <1>0
  <2>3. /\ Room(missed[w]) \in Int
        /\ Room(missed[w] + 1) = Room(missed[w]) - HeartbeatEvery
    BY <1>0, RoomFacts
  <2>4. Room(missed[w] + 1) <= setting.lease
    BY <2>2, RoomFacts
  <2> QED
    BY <2>1, <2>3, <2>4
<1>1. CASE \/ Leave(w) \/ PollExpire(w) \/ ClaimNone(w) \/ Wake(w)
           \/ Discard(w) \/ FinishRecorded(w) \/ FinishRefused(w)
           \/ Crash(w) \/ Restart(w)
  <2>1. held'[w] = None /\ age'[w] = 0
    <3>1. CASE Leave(w) \/ PollExpire(w) \/ ClaimNone(w) \/ Wake(w)
      <4>1. UNCHANGED held /\ \E place : MoveTo(w, place)
        BY <3>1 DEF Leave, PollExpire, ClaimNone, Wake
      <4>2. pc[w] \notin Executing
        BY <3>1 DEF Leave, PollExpire, ClaimNone, Wake, Executing
      <4> QED
        BY <1>0, <4>1, <4>2 DEF MoveTo, LocalTypes, PlaceSound
    <3>2. CASE Discard(w) \/ FinishRecorded(w) \/ FinishRefused(w)
      <4>1. RoundEnds(w)
        BY <3>2 DEF Discard, FinishRecorded, FinishRefused
      <4> QED
        BY <1>0, <4>1 DEF RoundEnds, MoveTo, LocalTypes
    <3>3. CASE Crash(w) \/ Restart(w)
      <4>1. \E place : Forget(w, place)
        BY <3>3 DEF Crash, Restart
      <4> QED
        BY <1>0, <4>1 DEF Forget, LocalTypes
    <3> QED
      BY <1>1, <3>1, <3>2, <3>3
  <2>2. beat'[w] = "off"
    BY <1>0, <2>1 DEF PlaceSound, Executing, LocalTypes
  <2> QED
    BY <2>1, <2>2 DEF TimelySound
<1>2. CASE ClaimOne(w)
  <2>1. PICK t \in Readings(age[w]) : ClaimOldest(w, setting.lease, t)
    BY <1>2 DEF ClaimOne
  <2>2. t = 0
    BY <2>1 DEF TimelySound, Readings
  <2> DEFINE n == Len(attempts')
  <2>3. /\ attempts'[n].outcome = "running"
        /\ job'[attempts'[n].job].lease_expires_at = t + setting.lease
    BY <2>1, ClaimStarts DEF WInv
  <2>4. /\ held'[w] = n /\ beat'[w] = "waiting" /\ beatAge'[w] = 0
        /\ missed'[w] = 0 /\ age'[w] = 0
    BY <1>0, <1>2 DEF ClaimOne, MoveTo, LocalTypes
  <2> HIDE DEF n
  <2>5. job'[attempts'[n].job].lease_expires_at = setting.lease
    BY <1>r, <2>2, <2>3
  <2>6. KeepsLease(w)'
    <3>1. Room(missed[w])' = setting.lease
      BY <1>0, <1>r, <2>4 DEF Room
    <3>2. LeaseEnd(held[w])' = setting.lease
      BY <2>4, <2>5 DEF LeaseEnd
    <3> QED
      BY <1>r, <2>4, <3>1, <3>2 DEF KeepsLease
  <2> QED
    BY <1>0, <2>3, <2>4, <2>6 DEF TimelySound
<1>3. CASE Execute(w) \/ Join(w)
  <2>1. /\ UNCHANGED <<storeVars, held, beat, beatAge, missed>>
        /\ pc'[w] # "execute" /\ age'[w] = 0
    BY <1>0, <1>3 DEF Execute, Join, MoveTo, beatVars, LocalTypes
  <2>2. KeepsLease(w) => KeepsLease(w)'
    BY <1>0, <2>1 DEF KeepsLease, LeaseEnd, Room, storeVars
  <2> QED
    BY <2>1, <2>2 DEF TimelySound, storeVars
<1>4. CASE BeatStep(w)
  <2> DEFINE a == held[w]
             e == LeaseEnd(a)
  <2>0. /\ beat[w] # "off" /\ a # None /\ a \in DOMAIN attempts
        /\ attempts[a].worker = w
        /\ held' = held /\ pc' = pc /\ age' = age /\ beatAge'[w] = 0
    <3>1. /\ beat[w] # "off" /\ UNCHANGED loopVars
          /\ beatAge' = [beatAge EXCEPT ![w] = 0]
      <4>1. UNCHANGED loopVars /\ beatAge' = [beatAge EXCEPT ![w] = 0]
        BY <1>4 DEF BeatStep, BeatWakes, BeatAlive, BeatLost, BeatFault, BeatStops
      <4>2. beat[w] \in {"waiting", "calling"}
        BY <1>4 DEF BeatStep, BeatWakes, BeatAlive, BeatLost, BeatFault, BeatStops
      <4> QED
        BY <4>1, <4>2
    <3>2. a # None /\ a \in DOMAIN attempts /\ attempts[a].worker = w
      BY <1>0, <3>1 DEF PlaceSound, Executing
    <3> QED
      BY <1>0, <3>1, <3>2 DEF loopVars, LocalTypes
  <2>1. CASE attempts[a].outcome = "cancelled"
    <3>1. attempts'[a] = attempts[a]
      BY <2>0, <2>1, EndedStays
    <3> QED
      BY <1>0, <2>0, <2>1, <3>1 DEF TimelySound
  <2>2. CASE attempts[a].outcome = "running" /\ KeepsLease(w)
    <3>0. e \in Int /\ e > 0 /\ LeaseIsValid(a, w, 0)
      BY <2>0, <2>2, RunningLease DEF KeepsLease
    <3>1. ASSUME UNCHANGED storeVars,
                 beat'[w] = "waiting" => e >= Room(missed'[w]),
                 beat'[w] = "calling" => e >= Room(missed'[w] + 1),
                 beat'[w] = "off" => pc[w] # "execute"
          PROVE  TimelySound(w)'
      <4>1. LeaseEnd(held[w])' = e /\ attempts' = attempts
        BY <2>0, <3>1 DEF storeVars, LeaseEnd
      <4>2. KeepsLease(w)'
        BY <1>0, <2>0, <3>0, <3>1, <4>1 DEF KeepsLease, Room
      <4> QED
        BY <1>0, <2>0, <2>2, <4>1, <4>2 DEF TimelySound
    <3>2. ASSUME HeartbeatOf(w), beat'[w] = "waiting", missed'[w] \in Nat
          PROVE  TimelySound(w)'
      <4>1. PICK t \in Readings(beatAge[w]) : Heartbeat(a, w, setting.lease, t)
        BY <3>2 DEF HeartbeatOf
      <4>2. t = 0
        BY <3>2, <4>1 DEF HeartbeatOf, TimelySound, Readings
      <4>3. /\ attempts' = attempts
            /\ job'[attempts[a].job].lease_expires_at = setting.lease
        <5>1. /\ attempts' = attempts
              /\ job' = [job EXCEPT ![attempts[a].job] =
                           [@ EXCEPT !.lease_expires_at = t + setting.lease]]
          BY <4>1 DEF Heartbeat
        <5>2. /\ job \in [Jobs -> InvestigationJob] /\ attempts[a].job \in Jobs
              /\ job[attempts[a].job] \in InvestigationJob
          BY <2>0, <2>2, RunningLease DEF WInv, Inv, TablesInv, TablesOK
        <5>3. job'[attempts[a].job].lease_expires_at = t + setting.lease
          BY <5>1, <5>2 DEF InvestigationJob
        <5> QED
          BY <1>r, <4>2, <5>1, <5>3
      <4>4. Room(missed'[w]) <= setting.lease
        BY <3>2, RoomFacts
      <4>5. LeaseEnd(held[w])' = setting.lease
        BY <2>0, <4>3 DEF LeaseEnd
      <4>6. Room(missed[w])' = Room(missed'[w]) /\ Room(missed'[w]) \in Int
        BY <1>0, <3>2, RoomFacts DEF Room
      <4>7. KeepsLease(w)'
        BY <1>r, <2>0, <3>2, <4>4, <4>5, <4>6 DEF KeepsLease
      <4> QED
        BY <1>0, <2>0, <2>2, <3>2, <4>3, <4>7 DEF TimelySound
    <3>3. CASE BeatWakes(w)
      <4>1. /\ UNCHANGED storeVars /\ beat'[w] = "calling" /\ missed' = missed
            /\ beat[w] = "waiting" /\ beatAge[w] >= HeartbeatEvery
        BY <1>0, <3>3 DEF BeatWakes, LocalTypes
      <4>2. e + beatAge[w] >= Room(missed[w]) /\ beatAge[w] <= HeartbeatEvery
        BY <2>2, <4>1 DEF KeepsLease, TimelySound
      <4>3. e >= Room(missed[w] + 1)
        BY <1>0, <1>r, <3>0, <4>1, <4>2
      <4> QED
        BY <3>1, <4>1, <4>3
    <3>4. CASE BeatAlive(w)
      <4>1. HeartbeatOf(w) /\ beat'[w] = "waiting" /\ missed'[w] = 0
        BY <1>0, <3>4 DEF BeatAlive, HeartbeatOf, LocalTypes
      <4> QED
        BY <3>2, <4>1
    <3>5. CASE BeatLost(w)
      <4>1. PICK t \in Readings(beatAge[w]) : ~LeaseIsValid(a, w, t)
        BY <3>5 DEF BeatLost
      <4>2. t = 0
        BY <3>5, <4>1 DEF BeatLost, TimelySound, Readings
      <4> QED
        BY <3>0, <4>1, <4>2
    <3>6. CASE BeatFault(w)
      <4>1. /\ HeartbeatOf(w) \/ UNCHANGED storeVars
            /\ beat'[w] = "waiting" /\ beat[w] = "calling" /\ missed'[w] = missed[w] + 1
        BY <1>0, <3>6 DEF BeatFault, HeartbeatOf, LocalTypes
      <4>2. missed'[w] \in Nat /\ e >= Room(missed'[w])
        BY <1>0, <2>2, <4>1 DEF KeepsLease
      <4> QED
        BY <3>1, <3>2, <4>1, <4>2
    <3>7. CASE BeatStops(w)
      <4>1. UNCHANGED storeVars /\ beat'[w] = "off" /\ pc[w] = "join"
        BY <1>0, <3>7 DEF BeatStops, LocalTypes
      <4> QED
        BY <3>1, <4>1
    <3> QED
      BY <1>4, <3>3, <3>4, <3>5, <3>6, <3>7 DEF BeatStep
  <2> QED
    BY <2>0, <2>1, <2>2 DEF TimelySound
<1> QED
  BY <1>1, <1>2, <1>3, <1>4 DEF LoopStep

\* When the lease has room for the faults there may be, a worker whose threads
\* run on time loses its attempt to nobody but a cancellation.
THEOREM TimelyKeepsLeaseHolds ==
  ASSUME RoomForFaults
  PROVE  WorkersSpec => []TimelyKeepsLease
<1> DEFINE Timely == setting.punctual => \A w \in Workers : TimelySound(w)
<1>1. WorkersInit => Timely
  BY Constants DEF WorkersInit, TimelySound
<1>2. WInv /\ Timely /\ [WorkersNext]_workersVars => Timely'
  <2> SUFFICES ASSUME WInv, Timely, [WorkersNext]_workersVars, setting'.punctual,
                      NEW w \in Workers
               PROVE  TimelySound(w)'
    OBVIOUS
  <2>1. setting.punctual /\ \A v \in Workers : TimelySound(v)
    BY LocalTypesStep
  <2>2. CASE Tick
    BY <2>1, <2>2, TimelyTick
  <2>3. CASE ~Tick /\ (Submit \/ CancelAny \/ UNCHANGED workersVars)
    <3>1. Untouched(w) /\ age'[w] = age[w] /\ beatAge'[w] = beatAge[w]
      BY <2>3 DEF Untouched, Submit, CancelAny, loopVars, beatVars, workersVars
    <3> QED
      BY <2>1, <2>3, <3>1, TimelyUntouched
  <2>4. ASSUME ~Tick, NEW v \in Workers, LoopStep(v) \/ BeatStep(v) \/ Crash(v) \/ Restart(v)
        PROVE  TimelySound(w)'
    <3>1. CASE v = w
      BY <2>1, <2>4, <3>1, TimelyMoves
    <3>2. CASE v # w
      <4>1. Untouched(w) /\ age'[w] = age[w] /\ beatAge'[w] = beatAge[w]
        BY <2>4, <3>2, OthersUntouched
      <4> QED
        BY <2>1, <2>4, <4>1, TimelyUntouched
    <3> QED
      BY <3>1, <3>2
  <2> QED
    BY <2>2, <2>3, <2>4 DEF WorkersNext
<1>3. Timely => TimelyKeepsLease
  BY DEF TimelyKeepsLease, TimelySound
<1> QED
  BY WInvHolds, <1>1, <1>2, <1>3, PTL DEF WorkersSpec

-----------------------------------------------------------------------------
(* A draining run. *)

\* The workers return only when they find nothing to do.
Draining == setting.drain /\ setting.fragile = {} /\ MaxJobs = None

Backlog == {setting.backlog[i] : i \in DOMAIN setting.backlog}

\* An unfinished attempt is executed by its worker, or its worker has given it
\* up and will find the lease lapsed in its next expire_leases.
AnsweredFor(a) ==
  LET w == attempts[a].worker
  IN  \/ held[w] = a
      \/ pc[w] = "loop" /\ LeaseEnd(a) <= -age[w]

StillThere(j) ==
  /\ job[j].status # "absent"
  /\ \E k \in DOMAIN line : line[k] = j

\* What keeps a draining run from ending too early.
DrainSound ==
  /\ \A j \in Backlog : StillThere(j)
  /\ \A j \in Backlog : job[j].status = "queued" => \E w \in Workers : pc[w] # "done"
  /\ \A a \in DOMAIN attempts : attempts[a].outcome = "running" => AnsweredFor(a)

LEMMA InsertKeepsMembers ==
  ASSUME NEW S, NEW s \in Seq(S), NEW e \in S, NEW i \in 1 .. Len(s) + 1, NEW k \in DOMAIN s
  PROVE  \E m \in DOMAIN InsertAt(s, i, e) : InsertAt(s, i, e)[m] = s[k]
<1> DEFINE front == SubSeq(s, 1, i - 1)
           back == SubSeq(s, i, Len(s))
           t == InsertAt(s, i, e)
<1>0. Len(s) \in Nat /\ i \in Nat /\ k \in Nat /\ k <= Len(s) /\ 1 <= k /\ i - 1 <= Len(s)
  OBVIOUS
<1>1. /\ front \in Seq(S) /\ Len(front) = i - 1
      /\ \A n \in 1 .. i - 1 : front[n] = s[n]
  BY <1>0
<1>2. /\ back \in Seq(S) /\ Len(back) = Len(s) - i + 1
      /\ \A n \in 1 .. Len(s) - i + 1 : back[n] = s[i + n - 1]
  BY <1>0
<1>3. t = (front \o <<e>>) \o back
  BY DEF InsertAt
<1> HIDE DEF front, back, t
<1>4. CASE k < i
  <2>1. k \in DOMAIN t /\ t[k] = front[k]
    BY <1>0, <1>1, <1>2, <1>3, <1>4
  <2>2. front[k] = s[k]
    BY <1>0, <1>1, <1>4
  <2> QED
    BY <2>1, <2>2 DEF t
<1>5. CASE ~(k < i)
  <2>1. k + 1 \in DOMAIN t /\ t[k + 1] = back[k + 1 - i]
    BY <1>0, <1>1, <1>2, <1>3, <1>5
  <2>2. back[k + 1 - i] = s[k]
    BY <1>0, <1>2, <1>5
  <2> QED
    BY <2>1, <2>2 DEF t
<1> QED
  BY <1>4, <1>5

\* A step of the workers is a step of the store, but for time passing.
LEMMA StoreStep ==
  ASSUME WInv, [WorkersNext]_workersVars, ~Tick
  PROVE  [Next]_storeVars
BY StoreSteps, HeartbeatIsBeat, ReportIsFinish, OtherSteps DEF Plain, Next

\* Nobody takes a job out of the line.
LEMMA JobsStayThere ==
  ASSUME WInv, [WorkersNext]_workersVars, NEW j \in Jobs, StillThere(j)
  PROVE  StillThere(j)'
<1>1. CASE Tick
  <2>1. /\ line' = line
        /\ job'[j] = [job[j] EXCEPT !.lease_expires_at = Aged(job[j].lease_expires_at)]
    BY <1>1, TickMovesLeases DEF Tick, WInv
  <2>2. job'[j].status = job[j].status
    BY <2>1 DEF WInv, Inv, TablesInv, TablesOK, InvestigationJob
  <2> QED
    BY <2>1, <2>2 DEF StillThere
<1>2. CASE ~Tick
  <2>0. [Next]_storeVars /\ Inv
    BY <1>2, StoreStep DEF WInv
  <2>1. job'[j].status # "absent"
    <3>1. Edge(job[j], job'[j])
      BY <2>0, JobEdges
    <3>2. job[j] \in InvestigationJob
      BY <2>0 DEF Inv, TablesInv, TablesOK
    <3>3. ASSUME NEW rec \in InvestigationJob, NEW outcome \in AttemptOutcome \ {"running"},
                 NEW retryable \in BOOLEAN
          PROVE  FinishTransition(rec, outcome, retryable).status # "absent"
      BY DEF FinishTransition, StatusAfter, InvestigationJob, AttemptOutcome, Reported
    <3>4. \A w, lease, t : \A rec :
            "status" \in DOMAIN rec => ClaimTransition(rec, w, lease, t).status # "absent"
      BY DEF ClaimTransition
    <3>5. /\ "status" \in DOMAIN job[j]
          /\ "status" \in DOMAIN FinishTransition(job[j], "expired", TRUE)
      BY <3>2 DEF InvestigationJob, FinishTransition
    <3>6. job[j].status # "absent" /\ "cancelled" \in AttemptOutcome \ {"running"}
      BY DEF StillThere, AttemptOutcome
    <3>7. Extended(job[j], job'[j]) => job'[j].status # "absent"
      BY <3>2, <3>6 DEF Extended, InvestigationJob
    <3>8. Ended(job[j], job'[j]) \/ Withdrawn(job[j], job'[j]) => job'[j].status # "absent"
      BY <3>2, <3>3, <3>6 DEF Ended, Withdrawn
    <3>9. Leased(job[j], job'[j]) \/ TakenOver(job[j], job'[j]) => job'[j].status # "absent"
      <4>1. ASSUME NEW w, NEW lease, NEW t
            PROVE  /\ ClaimTransition(job[j], w, lease, t).status # "absent"
                   /\ ClaimTransition(FinishTransition(job[j], "expired", TRUE),
                                      w, lease, t).status # "absent"
        BY <3>4, <3>5, Zenon
      <4> QED
        BY <4>1 DEF Leased, TakenOver
    <3> QED
      BY <3>1, <3>6, <3>7, <3>8, <3>9 DEF Edge, Move, Submitted
  <2>2. PICK k \in DOMAIN line : line[k] = j
    BY DEF StillThere
  <2>3. \E m \in DOMAIN line' : line'[m] = j
    <3>1. CASE Enqueue
      <4>1. PICK i \in Jobs, place \in 1 .. Len(line) + 1 : line' = InsertAt(line, place, i)
        BY <3>1 DEF Enqueue, EnqueueJob
      <4> QED
        BY <2>0, <2>2, <4>1, InsertKeepsMembers DEF Inv
    <3>2. CASE ~Enqueue
      <4>1. line' = line
        BY <2>0, <3>2 DEF Next, Claim, ClaimOldest, ClaimFindsNothing, ClaimNothing, Expire,
           ExpireLeases, Beat, Heartbeat, Finish, FinishAttempt, Cancel, CancelJob,
           AddRevision, AddReportRevision, storeVars
      <4> QED
        BY <2>2, <4>1
    <3> QED
      BY <3>1, <3>2
  <2> QED
    BY <2>1, <2>3 DEF StillThere
<1> QED
  BY <1>1, <1>2

\* When every worker has returned, the backlog is done with.
LEMMA AllDone ==
  ASSUME WInv, DrainSound, \A w \in Workers : pc[w] = "done", NEW j \in Backlog
  PROVE  j \in Jobs /\ job[j].status \in Terminal
<1>0. j \in Jobs /\ job[j].status \in JobStatus \cup {"absent"}
  <2>1. j \in Jobs
    BY Constants DEF WInv, Backlog
  <2> QED
    BY <2>1 DEF WInv, Inv, TablesInv, TablesOK, InvestigationJob
<1>1. job[j].status # "absent" /\ job[j].status # "queued"
  BY DEF DrainSound, StillThere
<1>2. job[j].status # "running"
  <2> SUFFICES ASSUME job[j].status = "running" PROVE FALSE
    OBVIOUS
  <2>1. PICK a \in DOMAIN attempts : attempts[a].outcome = "running"
    BY <1>0, RunningJobHasAttempt DEF WInv, Inv
  <2>2. AnsweredFor(a) /\ attempts[a].worker \in Workers
    BY <2>1, RowTypes DEF DrainSound, WInv, Inv, TablesInv, JobAttempt
  <2>3. a \in Nat /\ None \notin Nat
    BY <2>1, RowTypes, Constants DEF WInv, Inv, TablesInv
  <2> QED
    BY <2>2, <2>3 DEF AnsweredFor, WInv, PlaceSound, Executing
<1> QED
  BY <1>0, <1>1, <1>2 DEF JobStatus

\* Only a claim that finds nothing sends a draining worker home.
LEMMA WhoLeaves ==
  ASSUME WInv, Draining, [WorkersNext]_workersVars,
         \E w \in Workers : pc[w] # "done", \A w \in Workers : pc'[w] = "done"
  PROVE  \E v \in Workers : ClaimNone(v)
<1>0. LocalTypes /\ \A w \in Workers : w \notin setting.fragile /\ MayContinue(w)
  BY DEF WInv, Draining, MayContinue
<1>1. ASSUME NEW v \in Workers, LoopStep(v) PROVE ClaimNone(v)
  <2>1. ~Leave(v)
    BY <1>0 DEF Leave
  <2>2. \A place : MoveTo(v, place) => place = "done"
    BY <1>0 DEF MoveTo, LocalTypes
  <2>3. ~PollExpire(v) /\ ~ClaimOne(v) /\ ~Wake(v) /\ ~Execute(v) /\ ~Join(v)
    BY <2>2 DEF PollExpire, ClaimOne, Wake, Execute, Join
  <2>4. ~Discard(v) /\ ~FinishRecorded(v) /\ ~FinishRefused(v)
    BY <2>2 DEF Discard, FinishRecorded, FinishRefused, RoundEnds
  <2> QED
    BY <1>1, <2>1, <2>3, <2>4 DEF LoopStep
<1>2. ASSUME NEW v \in Workers, BeatStep(v) PROVE FALSE
  BY <1>2 DEF BeatStep, BeatWakes, BeatAlive, BeatLost, BeatFault, BeatStops, loopVars
<1>3. ASSUME NEW v \in Workers, Crash(v) \/ Restart(v) PROVE FALSE
  BY <1>0, <1>3 DEF Crash, Restart, Forget, LocalTypes
<1>4. ~(Submit \/ CancelAny \/ Tick \/ UNCHANGED workersVars)
  BY DEF Submit, CancelAny, Tick, loopVars, workersVars
<1> QED
  BY <1>1, <1>2, <1>3, <1>4 DEF WorkersNext


LEMMA QueuedStep ==
  ASSUME WInv, Draining, DrainSound, [WorkersNext]_workersVars, NEW j \in Backlog,
         job'[j].status = "queued"
  PROVE  \E w \in Workers : pc'[w] # "done"
<1> SUFFICES ASSUME \A w \in Workers : pc'[w] = "done" PROVE FALSE
  OBVIOUS
<1>0. j \in Jobs
  BY Constants DEF WInv, Backlog
<1>1. CASE \A w \in Workers : pc[w] = "done"
  <2>1. job[j].status \in Terminal
    BY <1>1, AllDone
  <2>2. CASE Tick
    <3>1. job'[j] = [job[j] EXCEPT !.lease_expires_at = Aged(job[j].lease_expires_at)]
      BY <1>0, <2>2, TickMovesLeases DEF WInv
    <3>2. job'[j].status = job[j].status
      BY <1>0, <3>1 DEF WInv, Inv, TablesInv, TablesOK, InvestigationJob
    <3> QED
      BY <2>1, <3>2 DEF Terminal
  <2>3. CASE ~Tick
    <3>1. job'[j] = job[j]
      BY <1>0, <2>1, <2>3, StoreStep, JobEdges, TerminalStays DEF WInv
    <3> QED
      BY <2>1, <3>1 DEF Terminal
  <2> QED
    BY <2>2, <2>3
<1>2. CASE \E w \in Workers : pc[w] # "done"
  <2>1. PICK v \in Workers : ClaimNone(v)
    BY <1>2, WhoLeaves
  <2>2. PICK t : ClaimNothing(t)
    BY <2>1 DEF ClaimNone
  <2>3. PICK k \in DOMAIN line : line[k] = j
    BY DEF DrainSound, StillThere
  <2>4. job' = JobsExpired(job, t) /\ Waiting(JobsExpired(job, t)) = {}
    BY <2>2 DEF ClaimNothing, ExpireLeases
  <2> QED
    BY <2>3, <2>4 DEF Waiting
<1> QED
  BY <1>1, <1>2

\* What an attempt that goes on says, and the end of its lease, when neither
\* its worker's heartbeat nor time has moved it.
LEMMA AnswerUntouched ==
  ASSUME WInv, [WorkersNext]_workersVars, NEW a \in DOMAIN attempts,
         attempts'[a].outcome = "running",
         NEW w \in Workers, w = attempts[a].worker, AnsweredFor(a), Untouched(w),
         ~Tick => age'[w] = age[w]
  PROVE  AnsweredFor(a)'
<1>0. /\ LocalTypes /\ PlaceSound(w) /\ attempts'[a].worker = w
      /\ attempts[a].outcome = "running"
      /\ \A v \in Workers : HeartbeatOf(v) /\ held[v] = a => v = w
  BY AttemptsStay, EndedStays, HeldAttempt DEF WInv, HeartbeatOf
<1>1. CASE held[w] = a
  BY <1>0, <1>1 DEF AnsweredFor, Untouched
<1>2. CASE pc[w] = "loop" /\ LeaseEnd(a) <= -age[w]
  <2>1. CASE Tick
    <3>1. /\ LeaseEnd(a) \in Int /\ attempts[a].job \in Jobs
          /\ job[attempts[a].job] \in InvestigationJob
      BY <1>0, RunningLease
    <3>2. LeaseEnd(a)' = Aged(LeaseEnd(a))
      <4>1. /\ attempts' = attempts
            /\ job'[attempts[a].job] =
                 [job[attempts[a].job] EXCEPT !.lease_expires_at = Aged(LeaseEnd(a))]
        BY <2>1, <3>1, TickMovesLeases DEF LeaseEnd, WInv
      <4> QED
        BY <3>1, <4>1 DEF LeaseEnd, InvestigationJob
    <3>3. age'[w] = Older(age[w])
      BY <1>2, <2>1 DEF Tick
    <3>4. age[w] \in 0 .. MaxAge
      BY <1>0 DEF LocalTypes
    <3>5. \A e \in Int, n \in 0 .. MaxAge : e <= -n => Aged(e) <= -Older(n)
      BY Constants DEF Aged, Older
    <3>6. LeaseEnd(a)' <= -age'[w]
      BY <1>2, <3>1, <3>2, <3>3, <3>4, <3>5
    <3> QED
      BY <1>0, <1>2, <3>6 DEF AnsweredFor, Untouched
  <2>2. CASE ~Tick
    <3>1. \A v \in Workers : HeartbeatOf(v) => held[v] # a
      BY <1>0, <1>2 DEF HeartbeatOf, PlaceSound
    <3>2. attempts'[a] = attempts[a] /\ job'[attempts[a].job] = job[attempts[a].job]
      BY <1>0, <2>2, <3>1, OnlyOwnHeartbeat
    <3>3. LeaseEnd(a)' <= -age'[w]
      BY <1>2, <2>2, <3>2 DEF LeaseEnd
    <3> QED
      BY <1>0, <1>2, <3>3 DEF AnsweredFor, Untouched
  <2> QED
    BY <2>1, <2>2
<1> QED
  BY <1>1, <1>2, <1>0 DEF AnsweredFor

\* The same when its worker moved: it still executes the attempt, or it has
\* given up a lease that has lapsed, or it has just expired it.
LEMMA AnswerMoves ==
  ASSUME WInv, \A v \in Workers : LostSound(v), Draining, [WorkersNext]_workersVars,
         NEW a \in DOMAIN attempts, attempts'[a].outcome = "running",
         NEW w \in Workers, w = attempts[a].worker, AnsweredFor(a),
         LoopStep(w) \/ BeatStep(w) \/ Crash(w) \/ Restart(w)
  PROVE  AnsweredFor(a)'
<1>0. /\ LocalTypes /\ PlaceSound(w) /\ attempts'[a].worker = w
      /\ attempts[a].outcome = "running"
      /\ w \notin setting.fragile /\ MayContinue(w)
      /\ a \in Nat /\ None \notin Nat
  BY AttemptsStay, EndedStays, RowTypes, Constants
  DEF WInv, Inv, TablesInv, Draining, MayContinue
<1>1. CASE held[w] = a
  <2>0. pc[w] \in Executing
    BY <1>0, <1>1 DEF PlaceSound
  <2>1. CASE Execute(w) \/ Join(w) \/ BeatStep(w)
    <3>1. held' = held
      BY <2>1 DEF Execute, Join, BeatStep, BeatWakes, BeatAlive, BeatLost, BeatFault,
         BeatStops, loopVars
    <3> QED
      BY <1>0, <1>1, <3>1 DEF AnsweredFor
  <2>2. CASE Discard(w) \/ FinishRefused(w)
    <3>1. RoundEnds(w) /\ UNCHANGED storeVars
      BY <2>2 DEF Discard, FinishRefused
    <3>2. ~LeaseIsValid(a, w, 0)
      BY <1>1, <2>2 DEF Discard, FinishRefused, LostSound
    <3>3. LeaseEnd(a) \in Int /\ LeaseEnd(a) <= 0
      BY <1>0, <3>2, RunningLease
    <3>4. pc'[w] = "loop" /\ age'[w] = 0
      BY <1>0, <3>1 DEF RoundEnds, MoveTo, LocalTypes
    <3>5. LeaseEnd(a)' = LeaseEnd(a)
      BY <3>1 DEF LeaseEnd, storeVars
    <3>6. LeaseEnd(a)' <= -age'[w]
      BY <3>3, <3>4, <3>5
    <3> QED
      BY <1>0, <3>4, <3>6 DEF AnsweredFor
  <2>3. CASE FinishRecorded(w)
    <3>1. FinishAttempt(a, w, result[w].outcome, result[w].retryable, 0)
      BY <1>1, <2>3 DEF FinishRecorded
    <3>2. attempts \in Seq(JobAttempt) /\ attempts[a] \in JobAttempt
      BY DEF WInv, Inv, TablesInv, TablesOK
    <3>3. attempts' = [attempts EXCEPT ![a] = [@ EXCEPT !.outcome = result[w].outcome]]
      BY <3>1 DEF FinishAttempt
    <3>4. attempts'[a].outcome = result[w].outcome
      BY <3>2, <3>3 DEF JobAttempt
    <3>5. result[w] \in AttemptResult
      BY <1>0, <2>3 DEF LocalTypes, PlaceSound, FinishRecorded
    <3>6. result[w].outcome # "running"
      BY <3>5 DEF AttemptResult
    <3> QED
      BY <3>4, <3>6
  <2>4. ~Leave(w) /\ ~PollExpire(w) /\ ~ClaimOne(w) /\ ~ClaimNone(w) /\ ~Wake(w)
    BY <2>0 DEF Leave, PollExpire, ClaimOne, ClaimNone, Wake, Executing
  <2>5. ~Crash(w) /\ ~Restart(w)
    BY <1>0, <2>0 DEF Crash, Restart, Executing
  <2> QED
    BY <2>1, <2>2, <2>3, <2>4, <2>5 DEF LoopStep
<1>2. CASE pc[w] = "loop" /\ LeaseEnd(a) <= -age[w]
  <2>1. CASE PollExpire(w)
    <3>1. PICK t \in Instants : -age[w] <= t /\ ExpireLeases(t)
      BY <2>1, PollIsExpire
    <3>2. /\ LeaseEnd(a) \in Int /\ attempts[a].job \in Jobs
          /\ job[attempts[a].job].status = "running"
      BY <1>0, RunningLease, UnfinishedIsLatest DEF WInv, Inv
    <3>3. t \in Int /\ age[w] \in Int
      BY <1>0, Constants DEF LocalTypes
    <3>4. LeaseEnd(a) <= t /\ LeaseEnd(a) # None
      BY <1>2, <3>1, <3>2, <3>3, Constants
    <3>5. attempts[a].job \in Lapsed(job, t)
      BY <3>2, <3>4 DEF Lapsed, LeaseEnd
    <3>6. IsRunningAttempt(attempts, a)
      BY <1>0, RunningAttemptFound DEF WInv, Inv
    <3>7. attempts'[a] = [attempts[a] EXCEPT !.outcome = "expired"]
      BY <3>1, <3>5, <3>6 DEF ExpireLeases, AttemptsExpired, EndAttempts
    <3>8. attempts[a] \in JobAttempt
      BY RowTypes DEF WInv, Inv, TablesInv
    <3> QED
      BY <3>7, <3>8 DEF JobAttempt
  <2>2. ~PollExpire(w) => ~LoopStep(w)
    <3>1. ~Leave(w) /\ ~ClaimOne(w) /\ ~ClaimNone(w) /\ ~Wake(w) /\ ~Execute(w)
      BY <1>0, <1>2 DEF Leave, ClaimOne, ClaimNone, Wake, Execute
    <3>2. ~Join(w) /\ ~Discard(w) /\ ~FinishRecorded(w) /\ ~FinishRefused(w)
      BY <1>2 DEF Join, Discard, FinishRecorded, FinishRefused
    <3> QED
      BY <3>1, <3>2 DEF LoopStep
  <2>3. ~BeatStep(w) /\ ~Crash(w) /\ ~Restart(w)
    <3>1. beat[w] = "off"
      BY <1>0, <1>2 DEF PlaceSound
    <3> QED
      BY <1>0, <1>2, <3>1 DEF BeatStep, BeatWakes, BeatAlive, BeatLost, BeatFault, BeatStops,
         Crash, Restart
  <2> QED
    BY <2>1, <2>2, <2>3
<1> QED
  BY <1>0, <1>1, <1>2 DEF AnsweredFor

\* Only a claim starts an attempt.
LEMMA OnlyClaimsStart ==
  ASSUME WInv, [WorkersNext]_workersVars, \A v \in Workers : ~ClaimOne(v)
  PROVE  DOMAIN attempts' = DOMAIN attempts
<1>1. CASE Submit \/ CancelAny \/ Tick \/ UNCHANGED workersVars
  BY <1>1 DEF Submit, Enqueue, EnqueueJob, CancelAny, Cancel, CancelJob, EndAttempts, Tick,
     workersVars, storeVars
<1>2. ASSUME NEW v \in Workers, LoopStep(v) \/ BeatStep(v) \/ Crash(v) \/ Restart(v)
      PROVE  DOMAIN attempts' = DOMAIN attempts
  <2>1. CASE UNCHANGED storeVars
    BY <2>1 DEF storeVars
  <2>2. CASE HeartbeatOf(v)
    BY <2>2 DEF HeartbeatOf, Heartbeat
  <2>3. CASE PollExpire(v) \/ ClaimNone(v)
    <3>1. PICK t : ExpireLeases(t)
      BY <2>3 DEF PollExpire, ClaimNone, ClaimNothing
    <3> QED
      BY <3>1 DEF ExpireLeases, AttemptsExpired, EndAttempts
  <2>4. CASE FinishRecorded(v)
    BY <2>4 DEF FinishRecorded, FinishAttempt
  <2>5. CASE Leave(v) \/ Wake(v) \/ Execute(v) \/ Join(v) \/ Discard(v) \/ FinishRefused(v)
    BY <2>1, <2>5 DEF Leave, Wake, Execute, Join, Discard, FinishRefused
  <2>6. CASE BeatWakes(v) \/ BeatLost(v) \/ BeatStops(v) \/ Crash(v) \/ Restart(v)
    BY <2>1, <2>6 DEF BeatWakes, BeatLost, BeatStops, Crash, Restart, Forget
  <2> QED
    BY <1>2, <2>1, <2>2, <2>3, <2>4, <2>5, <2>6, BeatSteps DEF LoopStep, BeatStep
<1> QED
  BY <1>1, <1>2 DEF WorkersNext

LEMMA AnswersStep ==
  ASSUME WInv, \A v \in Workers : LostSound(v), Draining, DrainSound,
         [WorkersNext]_workersVars,
         NEW a \in DOMAIN attempts', attempts'[a].outcome = "running"
  PROVE  AnsweredFor(a)'
<1>1. CASE a \in DOMAIN attempts
  <2> DEFINE w == attempts[a].worker
  <2>1. AnsweredFor(a) /\ w \in Workers
    BY <1>1, EndedStays, RowTypes DEF DrainSound, WInv, Inv, TablesInv, JobAttempt
  <2>2. CASE LoopStep(w) \/ BeatStep(w) \/ Crash(w) \/ Restart(w)
    BY <1>1, <2>1, <2>2, AnswerMoves
  <2>3. CASE Submit \/ CancelAny \/ Tick \/ UNCHANGED workersVars
    <3>1. Untouched(w) /\ (~Tick => age'[w] = age[w])
      BY <2>3 DEF Untouched, Submit, CancelAny, Tick, loopVars, beatVars, workersVars
    <3> QED
      BY <1>1, <2>1, <3>1, AnswerUntouched
  <2>4. ASSUME NEW v \in Workers, v # w, LoopStep(v) \/ BeatStep(v) \/ Crash(v) \/ Restart(v)
        PROVE  AnsweredFor(a)'
    <3>1. Untouched(w) /\ age'[w] = age[w]
      BY <2>1, <2>4, OthersUntouched
    <3> QED
      BY <1>1, <2>1, <3>1, AnswerUntouched
  <2> QED
    BY <2>2, <2>3, <2>4 DEF WorkersNext
<1>2. CASE a \notin DOMAIN attempts
  <2>1. PICK v \in Workers : ClaimOne(v)
    BY <1>2, OnlyClaimsStart
  <2>2. PICK t : ClaimOldest(v, setting.lease, t)
    BY <2>1 DEF ClaimOne
  <2>3. a = Len(attempts') /\ attempts'[a].worker = v
    BY <1>2, <2>2, ClaimStarts DEF WInv
  <2>4. held'[v] = a
    BY <2>1, <2>3 DEF ClaimOne, WInv, LocalTypes
  <2> QED
    BY <2>3, <2>4 DEF AnsweredFor
<1> QED
  BY <1>1, <1>2

\* Draining workers that nobody kills return only when every job they found
\* in the backlog has ended: however long any of them was held up, whoever
\* lost a lease, whatever was submitted or cancelled meanwhile, no job is left
\* waiting for an attempt or leased to a worker that is gone.
THEOREM DrainedMeansFinishedHolds == WorkersSpec => []DrainedMeansFinished
<1> DEFINE Lost == \A w \in Workers : LostSound(w)
           Drain == Draining => DrainSound
<1>1. WorkersInit => Lost /\ Drain
  <2> SUFFICES ASSUME WorkersInit PROVE Lost /\ DrainSound
    OBVIOUS
  <2>1. Lost /\ attempts = <<>> /\ line = setting.backlog
    BY DEF WorkersInit, LostSound
  <2>2. PICK w \in Workers : pc[w] = "loop"
    BY DEF WorkersInit
  <2>3. ASSUME NEW j \in Backlog PROVE StillThere(j)
    <3>1. \E i \in DOMAIN setting.backlog : setting.backlog[i] = j
      BY DEF Backlog
    <3>2. j \in Jobs
      BY <3>1, WorkersInitInv, Constants DEF WInv
    <3>3. \E max, ri : job[j] = FreshJob(max, ri)
      BY <3>1, <3>2 DEF WorkersInit
    <3> QED
      BY <2>1, <3>1, <3>3 DEF StillThere, FreshJob
  <2> QED
    BY <2>1, <2>2, <2>3 DEF DrainSound
<1>2. WInv /\ Lost /\ [WorkersNext]_workersVars => Lost'
  BY LostStep
<1>3. WInv /\ Lost /\ Drain /\ [WorkersNext]_workersVars => Drain'
  <2> SUFFICES ASSUME WInv, Lost, Drain, [WorkersNext]_workersVars
               PROVE  Draining' => DrainSound'
    OBVIOUS
  <2> SUFFICES ASSUME Draining' PROVE DrainSound'
    OBVIOUS
  <2>2. setting' = setting /\ Draining /\ DrainSound
    BY LocalTypesStep DEF Draining
  <2>3. Backlog' = Backlog /\ \A j \in Backlog : j \in Jobs
    BY <2>2, Constants DEF Backlog, WInv
  <2>4. \A j \in Backlog : StillThere(j)'
    BY <2>2, <2>3, JobsStayThere DEF DrainSound
  <2>5. \A j \in Backlog : job'[j].status = "queued" => \E w \in Workers : pc'[w] # "done"
    BY <2>2, QueuedStep
  <2>6. \A a \in DOMAIN attempts' : attempts'[a].outcome = "running" => AnsweredFor(a)'
    BY <2>2, AnswersStep
  <2> QED
    BY <2>3, <2>4, <2>5, <2>6 DEF DrainSound
<1>4. WInv /\ Drain => DrainedMeansFinished
  BY AllDone DEF DrainedMeansFinished, Draining, Backlog
<1> QED
  BY WInvHolds, <1>1, <1>2, <1>3, <1>4, PTL DEF WorkersSpec

=============================================================================
