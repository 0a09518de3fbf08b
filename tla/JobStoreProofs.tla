--------------------------- MODULE JobStoreProofs ---------------------------
(***************************************************************************)
(* Proofs about JobStore.  The store's tables are consistent in every      *)
(* state, and each operation is one of three moves on them: a job is       *)
(* submitted, a queued job is claimed, or running jobs are ended.  The     *)
(* moves are treated once, as lemmas about any pair of tables, because     *)
(* claim_job performs two of them in one call.  Then what a step may do:   *)
(* which edges a job record and an attempt can take, hence that history is *)
(* never rewritten, that leases are taken over only when they have lapsed, *)
(* that reports and attempts stay matched, and that the store implements   *)
(* JobLifecycle.                                                           *)
(***************************************************************************)
EXTENDS JobStore, TLAPS

\* The inductive invariant of the job and attempt tables.
TablesInv(jobs, atts) ==
  /\ TablesOK(jobs, atts)
  /\ Numbered(jobs, atts)
  /\ StatusExplained(jobs, atts)
  /\ LeaseFollowsAttempt(jobs, atts)
  /\ AllowanceKept(jobs)

\* The job table after the jobs in `ended' end their running attempt.
JobsEnded(jobs, ended, outcome, retryable) ==
  [j \in Jobs |-> IF j \in ended
                  THEN FinishTransition(jobs[j], outcome, retryable)
                  ELSE jobs[j]]

Inv ==
  /\ line \in Seq(Jobs)
  /\ revisions \in [Jobs -> Seq(ReportRevision)]
  /\ TablesInv(job, attempts)

USE StoreAssumption

-----------------------------------------------------------------------------
(* Facts about one pair of consistent tables. *)

\* Types of the rows.
LEMMA RowTypes ==
  ASSUME NEW jobs, NEW atts, TablesOK(jobs, atts), NEW a \in DOMAIN atts
  PROVE  /\ a \in Nat
         /\ atts[a] \in JobAttempt
         /\ atts[a].job \in Jobs
         /\ atts[a].number \in Nat
         /\ jobs[atts[a].job] \in InvestigationJob
         /\ jobs[atts[a].job].attempts_made \in Nat
         /\ jobs[atts[a].job].max_attempts \in Nat
<1>1. a \in Nat /\ atts[a] \in JobAttempt
  BY DEF TablesOK
<1>2. atts[a].job \in Jobs /\ atts[a].number \in Nat
  BY <1>1 DEF JobAttempt
<1>3. jobs[atts[a].job] \in InvestigationJob
  BY <1>2 DEF TablesOK
<1> QED
  BY <1>1, <1>2, <1>3 DEF InvestigationJob

\* An unfinished attempt is the latest one of its job, and its job runs.
LEMMA UnfinishedIsLatest ==
  ASSUME NEW jobs, NEW atts, TablesInv(jobs, atts),
         NEW a \in DOMAIN atts, atts[a].outcome = "running"
  PROVE  /\ atts[a] \in JobAttempt
         /\ atts[a].number = jobs[atts[a].job].attempts_made
         /\ jobs[atts[a].job].status = "running"
         /\ jobs[atts[a].job].lease_owner = atts[a].worker
<1> DEFINE rec == jobs[atts[a].job]
<1>1. atts[a] \in JobAttempt /\ rec \in InvestigationJob
  BY RowTypes DEF TablesInv
<1>2. atts[a].number = rec.attempts_made
  BY DEF TablesInv, StatusExplained, RetryCause
<1>3. Explains(rec, "running")
  BY <1>2 DEF TablesInv, StatusExplained
<1>4. rec.status = "running"
  BY <1>1, <1>3 DEF Explains, RetryCause, InvestigationJob, JobStatus, Terminal
<1> QED
  BY <1>1, <1>2, <1>4 DEF TablesInv, LeaseFollowsAttempt

\* A job has at most one unfinished attempt.
LEMMA OneUnfinishedAttempt ==
  ASSUME NEW jobs, NEW atts, TablesInv(jobs, atts),
         NEW a \in DOMAIN atts, atts[a].outcome = "running",
         NEW b \in DOMAIN atts, atts[b].outcome = "running",
         atts[a].job = atts[b].job
  PROVE  a = b
<1>1. atts[a].number = atts[b].number /\ atts[a].number \in Nat
  BY UnfinishedIsLatest, RowTypes DEF TablesInv
<1>2. a \in Nat /\ b \in Nat
  BY RowTypes DEF TablesInv
<1>3. ~(a < b) /\ ~(b < a)
  BY <1>1 DEF TablesInv, Numbered
<1> QED
  BY <1>2, <1>3

\* So _running_attempt finds exactly the unfinished attempts.
LEMMA RunningAttemptFound ==
  ASSUME NEW jobs, NEW atts, TablesInv(jobs, atts), NEW a \in DOMAIN atts
  PROVE  IsRunningAttempt(atts, a) <=> atts[a].outcome = "running"
<1>1. a \in Nat
  BY RowTypes DEF TablesInv
<1>2. ASSUME atts[a].outcome = "running", NEW b \in DOMAIN atts,
             atts[b].job = atts[a].job, atts[b].outcome = "running"
      PROVE  a <= b
  BY <1>1, <1>2, OneUnfinishedAttempt
<1> QED
  BY <1>2 DEF IsRunningAttempt

\* A running job has an unfinished attempt, so _running_attempt never raises.
LEMMA RunningJobHasAttempt ==
  ASSUME NEW jobs, NEW atts, TablesInv(jobs, atts),
         NEW j \in Jobs, jobs[j].status = "running"
  PROVE  \E a \in DOMAIN atts : /\ atts[a].job = j
                                /\ atts[a].outcome = "running"
                                /\ atts[a].number = jobs[j].attempts_made
<1>1. jobs[j] \in InvestigationJob /\ jobs[j].attempts_made > 0
  BY DEF TablesInv, TablesOK, AllowanceKept
<1>2. PICK a \in DOMAIN atts : atts[a].job = j /\ atts[a].number = jobs[j].attempts_made
  BY <1>1 DEF TablesInv, Numbered, InvestigationJob
<1>3. Explains(jobs[j], atts[a].outcome)
  BY <1>2 DEF TablesInv, StatusExplained
<1> QED
  BY <1>2, <1>3 DEF Explains

-----------------------------------------------------------------------------
(* The moves. *)

\* What the lifecycle rules make of one running job.
LEMMA FinishedRecord ==
  ASSUME NEW rec \in InvestigationJob, rec.status = "running",
         rec.attempts_made > 0, rec.attempts_made <= rec.max_attempts,
         NEW outcome \in AttemptOutcome \ {"running"}, NEW retryable \in BOOLEAN
  PROVE  LET new == FinishTransition(rec, outcome, retryable)
         IN  /\ new \in InvestigationJob
             /\ new.attempts_made = rec.attempts_made
             /\ new.max_attempts = rec.max_attempts
             /\ new.retry_incomplete = rec.retry_incomplete
             /\ new.lease_owner = None
             /\ new.lease_expires_at = None
             /\ new.status \in Terminal \cup {"queued"}
             /\ new.status = "queued" => Remaining(rec)
             /\ Explains(new, outcome)
<1> DEFINE new == FinishTransition(rec, outcome, retryable)
<1>1. StatusAfter(rec, outcome, retryable) \in Terminal \cup {"queued"}
  BY DEF StatusAfter, Terminal, AttemptOutcome, Reported
<1>2. new \in InvestigationJob
  BY <1>1 DEF FinishTransition, InvestigationJob, JobStatus
<1>3. /\ new.status = StatusAfter(rec, outcome, retryable)
      /\ new.attempts_made = rec.attempts_made
      /\ new.max_attempts = rec.max_attempts
      /\ new.retry_incomplete = rec.retry_incomplete
      /\ new.lease_owner = None
      /\ new.lease_expires_at = None
  BY DEF FinishTransition, InvestigationJob
<1>4. new.status = "queued" => Remaining(rec)
  BY <1>3 DEF StatusAfter, AttemptOutcome, Reported
<1>5. Explains(new, outcome)
  BY <1>3 DEF StatusAfter, AttemptOutcome, Reported, Explains, RetryCause,
              Remaining, InvestigationJob
<1> QED
  BY <1>1, <1>2, <1>3, <1>4, <1>5

\* Ending the running attempts of a set of running jobs.
LEMMA EndingKeepsTables ==
  ASSUME NEW jobs, NEW atts, TablesInv(jobs, atts),
         NEW ended \in SUBSET Jobs, \A j \in ended : jobs[j].status = "running",
         NEW outcome \in AttemptOutcome \ {"running"}, NEW retryable \in BOOLEAN
  PROVE  TablesInv(JobsEnded(jobs, ended, outcome, retryable),
                   EndAttempts(atts, ended, outcome))
<1> DEFINE njobs == JobsEnded(jobs, ended, outcome, retryable)
           natts == EndAttempts(atts, ended, outcome)
<1>0. TablesOK(jobs, atts)
  BY DEF TablesInv
<1>1. ASSUME NEW j \in Jobs
      PROVE  /\ njobs[j] \in InvestigationJob
             /\ njobs[j].attempts_made = jobs[j].attempts_made
             /\ njobs[j].max_attempts = jobs[j].max_attempts
             /\ njobs[j].retry_incomplete = jobs[j].retry_incomplete
             /\ j \notin ended => njobs[j] = jobs[j]
             /\ j \in ended =>
                  /\ njobs[j].lease_owner = None
                  /\ njobs[j].lease_expires_at = None
                  /\ njobs[j].status \in Terminal \cup {"queued"}
                  /\ njobs[j].status = "queued" => Remaining(jobs[j])
                  /\ Explains(njobs[j], outcome)
  <2>1. jobs[j] \in InvestigationJob
    BY <1>0 DEF TablesOK
  <2>2. CASE j \notin ended
    BY <2>1, <2>2 DEF JobsEnded
  <2>3. CASE j \in ended
    <3>1. /\ jobs[j].status = "running"
          /\ jobs[j].attempts_made > 0
          /\ jobs[j].attempts_made <= jobs[j].max_attempts
      BY <2>3 DEF TablesInv, AllowanceKept
    <3>2. njobs[j] = FinishTransition(jobs[j], outcome, retryable)
      BY <2>3 DEF JobsEnded
    <3> QED
      BY <2>1, <2>3, <3>1, <3>2, FinishedRecord
  <2> QED
    BY <2>2, <2>3
<1>2. /\ DOMAIN natts = DOMAIN atts
      /\ natts \in Seq(JobAttempt)
      /\ \A a \in DOMAIN atts :
           /\ natts[a].job = atts[a].job
           /\ natts[a].number = atts[a].number
           /\ natts[a].worker = atts[a].worker
           /\ natts[a].outcome = IF atts[a].job \in ended /\ atts[a].outcome = "running"
                                 THEN outcome ELSE atts[a].outcome
  <2>1. \A a \in DOMAIN atts : atts[a] \in JobAttempt
    BY <1>0, RowTypes
  <2>2. DOMAIN natts = DOMAIN atts
    BY DEF EndAttempts
  <2>3. ASSUME NEW a \in DOMAIN atts
        PROVE  natts[a] = IF atts[a].job \in ended /\ atts[a].outcome = "running"
                          THEN [atts[a] EXCEPT !.outcome = outcome]
                          ELSE atts[a]
    BY RunningAttemptFound DEF EndAttempts
  <2>4. ASSUME NEW a \in DOMAIN atts
        PROVE  /\ natts[a] \in JobAttempt
               /\ natts[a].job = atts[a].job
               /\ natts[a].number = atts[a].number
               /\ natts[a].worker = atts[a].worker
               /\ natts[a].outcome = IF atts[a].job \in ended /\ atts[a].outcome = "running"
                                     THEN outcome ELSE atts[a].outcome
    BY <2>1, <2>3 DEF JobAttempt
  <2>5. natts \in Seq(JobAttempt)
    BY <2>2, <2>4, <1>0 DEF TablesOK, EndAttempts
  <2> QED
    BY <2>2, <2>4, <2>5
<1>3. TablesOK(njobs, natts)
  BY <1>1, <1>2 DEF TablesOK, JobsEnded
<1>4. Numbered(njobs, natts)
  <2>1. \A a \in DOMAIN atts : atts[a].job \in Jobs
    BY <1>0, RowTypes
  <2> QED
    BY <1>1, <1>2, <2>1 DEF TablesInv, Numbered
<1>5. StatusExplained(njobs, natts)
  <2> SUFFICES ASSUME NEW a \in DOMAIN atts
               PROVE  LET rec == njobs[atts[a].job]
                      IN  IF atts[a].number = rec.attempts_made
                          THEN Explains(rec, natts[a].outcome)
                          ELSE natts[a].outcome \in RetryCause(rec)
    BY <1>2 DEF StatusExplained
  <2>1. atts[a].job \in Jobs
    BY <1>0, RowTypes
  <2>2. CASE atts[a].job \notin ended
    BY <1>1, <1>2, <2>1, <2>2 DEF TablesInv, StatusExplained
  <2>3. CASE atts[a].job \in ended /\ atts[a].outcome = "running"
    BY <1>1, <1>2, <2>1, <2>3, UnfinishedIsLatest
  <2>4. CASE atts[a].job \in ended /\ atts[a].outcome # "running"
    <3>1. atts[a].number # jobs[atts[a].job].attempts_made
      BY <2>1, <2>4 DEF TablesInv, StatusExplained, Explains
    <3> QED
      BY <1>1, <1>2, <2>1, <2>4, <3>1 DEF TablesInv, StatusExplained, RetryCause
  <2> QED
    BY <2>2, <2>3, <2>4
<1>6. LeaseFollowsAttempt(njobs, natts)
  <2>1. \A a \in DOMAIN atts : atts[a].job \in Jobs
    BY <1>0, RowTypes
  <2>2. ASSUME NEW j \in Jobs
        PROVE  IF njobs[j].status = "running"
               THEN njobs[j].lease_owner # None /\ njobs[j].lease_expires_at # None
               ELSE njobs[j].lease_owner = None /\ njobs[j].lease_expires_at = None
    BY <1>1 DEF TablesInv, LeaseFollowsAttempt, Terminal
  <2>3. ASSUME NEW a \in DOMAIN natts, natts[a].outcome = "running"
        PROVE  njobs[natts[a].job].lease_owner = natts[a].worker
    BY <1>1, <1>2, <2>1, <2>3 DEF TablesInv, LeaseFollowsAttempt
  <2> QED
    BY <2>2, <2>3 DEF LeaseFollowsAttempt
<1>7. AllowanceKept(njobs)
  BY <1>1 DEF TablesInv, AllowanceKept, Remaining, Terminal
<1> QED
  BY <1>3, <1>4, <1>5, <1>6, <1>7 DEF TablesInv

\* Leasing a queued job.
LEMMA ClaimKeepsTables ==
  ASSUME NEW jobs, NEW atts, TablesInv(jobs, atts),
         NEW j \in Jobs, jobs[j].status = "queued",
         NEW w \in Workers, NEW lease \in Leases, NEW t \in Instants
  PROVE  TablesInv(JobsClaimed(jobs, j, w, lease, t), AttemptsClaimed(jobs, atts, j, w))
<1> DEFINE njobs == JobsClaimed(jobs, j, w, lease, t)
           natts == AttemptsClaimed(jobs, atts, j, w)
           new == [job |-> j, number |-> jobs[j].attempts_made + 1,
                   worker |-> w, outcome |-> "running"]
           k == Len(atts) + 1
<1>0. TablesOK(jobs, atts)
  BY DEF TablesInv
<1>1. /\ jobs[j] \in InvestigationJob
      /\ jobs[j].attempts_made \in Nat
      /\ jobs[j].attempts_made < jobs[j].max_attempts
      /\ lease \in Int /\ t \in Int
  <2>1. jobs[j] \in InvestigationJob
    BY <1>0 DEF TablesOK
  <2>2. jobs[j].attempts_made < jobs[j].max_attempts
    BY DEF TablesInv, AllowanceKept, Remaining
  <2>3. lease \in Int /\ t \in Int
    BY DEF StoreAssumption
  <2> QED
    BY <2>1, <2>2, <2>3 DEF InvestigationJob
<1>2. /\ njobs \in [Jobs -> InvestigationJob]
      /\ \A i \in Jobs : i # j => njobs[i] = jobs[i]
      /\ njobs[j].status = "running"
      /\ njobs[j].attempts_made = jobs[j].attempts_made + 1
      /\ njobs[j].max_attempts = jobs[j].max_attempts
      /\ njobs[j].retry_incomplete = jobs[j].retry_incomplete
      /\ njobs[j].lease_owner = w
      /\ njobs[j].lease_expires_at = t + lease
  <2>1. ClaimTransition(jobs[j], w, lease, t) \in InvestigationJob
    <3>1. t + lease \in Int /\ jobs[j].attempts_made + 1 \in Nat
      BY <1>1
    <3> QED
      BY <1>1, <3>1 DEF ClaimTransition, InvestigationJob, JobStatus
  <2>2. njobs[j] = ClaimTransition(jobs[j], w, lease, t)
    BY <1>0 DEF JobsClaimed, TablesOK
  <2>3. njobs \in [Jobs -> InvestigationJob] /\ \A i \in Jobs : i # j => njobs[i] = jobs[i]
    BY <1>0, <2>1, <2>2 DEF JobsClaimed, TablesOK
  <2> QED
    BY <1>1, <2>2, <2>3 DEF ClaimTransition, InvestigationJob
<1>3. /\ natts \in Seq(JobAttempt)
      /\ DOMAIN natts = DOMAIN atts \cup {k}
      /\ natts[k] = new
      /\ \A a \in DOMAIN atts : natts[a] = atts[a] /\ a < k /\ a \in Nat
      /\ k \notin DOMAIN atts /\ k \in Nat
  <2>1. new \in JobAttempt
    BY <1>1 DEF JobAttempt, AttemptOutcome
  <2>2. atts \in Seq(JobAttempt)
    BY <1>0 DEF TablesOK
  <2> QED
    BY <2>1, <2>2 DEF AttemptsClaimed
<1>4. \A a \in DOMAIN atts :
        /\ atts[a].job \in Jobs
        /\ atts[a].number \in Nat
        /\ atts[a].number <= jobs[atts[a].job].attempts_made
        /\ atts[a].outcome # "running" \/ atts[a].job # j
  BY <1>0, RowTypes, UnfinishedIsLatest DEF TablesInv, Numbered
<1>5. TablesOK(njobs, natts)
  BY <1>2, <1>3 DEF TablesOK
<1>6. Numbered(njobs, natts)
  <2>1. \A a \in DOMAIN natts : natts[a].number <= njobs[natts[a].job].attempts_made
    BY <1>1, <1>2, <1>3, <1>4
  <2>2. ASSUME NEW a \in DOMAIN natts, NEW b \in DOMAIN natts,
               a < b, natts[a].job = natts[b].job
        PROVE  natts[a].number < natts[b].number
    <3>1. a \in DOMAIN atts
      BY <1>3, <2>2
    <3>2. CASE b \in DOMAIN atts
      BY <1>3, <2>2, <3>1, <3>2 DEF TablesInv, Numbered
    <3>3. CASE b = k
      <4>1. natts[a] = atts[a] /\ atts[a].job = j /\ natts[b].number = jobs[j].attempts_made + 1
        BY <1>3, <2>2, <3>1, <3>3
      <4> QED
        BY <1>1, <1>4, <3>1, <4>1
    <3> QED
      BY <1>3, <3>2, <3>3
  <2>3. ASSUME NEW i \in Jobs, NEW n \in 1 .. njobs[i].attempts_made
        PROVE  \E a \in DOMAIN natts : natts[a].job = i /\ natts[a].number = n
    <3>1. CASE n \in 1 .. jobs[i].attempts_made
      <4>1. PICK a \in DOMAIN atts : atts[a].job = i /\ atts[a].number = n
        BY <3>1 DEF TablesInv, Numbered
      <4> QED
        BY <1>3, <4>1
    <3>2. CASE i = j /\ n = jobs[j].attempts_made + 1
      BY <1>3, <3>2
    <3>3. i # j => n \in 1 .. jobs[i].attempts_made
      BY <1>2
    <3>4. i = j => n \in 1 .. jobs[i].attempts_made \/ n = jobs[j].attempts_made + 1
      BY <1>1, <1>2
    <3> QED
      BY <3>1, <3>2, <3>3, <3>4
  <2> QED
    BY <2>1, <2>2, <2>3 DEF Numbered
<1>7. StatusExplained(njobs, natts)
  <2> SUFFICES ASSUME NEW a \in DOMAIN natts
               PROVE  LET rec == njobs[natts[a].job]
                      IN  IF natts[a].number = rec.attempts_made
                          THEN Explains(rec, natts[a].outcome)
                          ELSE natts[a].outcome \in RetryCause(rec)
    BY DEF StatusExplained
  <2>1. CASE a = k
    BY <1>2, <1>3, <2>1 DEF Explains
  <2>2. CASE a \in DOMAIN atts /\ atts[a].job # j
    BY <1>2, <1>3, <1>4, <2>2 DEF TablesInv, StatusExplained
  <2>3. CASE a \in DOMAIN atts /\ atts[a].job = j
    <3>1. natts[a].number # njobs[j].attempts_made
      BY <1>1, <1>2, <1>3, <1>4, <2>3
    <3>2. atts[a].outcome \in RetryCause(jobs[j])
      BY <2>3 DEF TablesInv, StatusExplained, Explains
    <3> QED
      BY <1>2, <1>3, <2>3, <3>1, <3>2 DEF RetryCause
  <2> QED
    BY <1>3, <2>1, <2>2, <2>3
<1>8. LeaseFollowsAttempt(njobs, natts)
  <2>1. ASSUME NEW i \in Jobs
        PROVE  IF njobs[i].status = "running"
               THEN njobs[i].lease_owner # None /\ njobs[i].lease_expires_at # None
               ELSE njobs[i].lease_owner = None /\ njobs[i].lease_expires_at = None
    <3>1. CASE i = j
      <4>1. t + lease \in Int
        BY <1>1
      <4> QED
        BY <1>2, <3>1, <4>1
    <3>2. CASE i # j
      BY <1>2, <3>2 DEF TablesInv, LeaseFollowsAttempt
    <3> QED
      BY <3>1, <3>2
  <2>2. ASSUME NEW a \in DOMAIN natts, natts[a].outcome = "running"
        PROVE  njobs[natts[a].job].lease_owner = natts[a].worker
    BY <1>2, <1>3, <1>4, <2>2 DEF TablesInv, LeaseFollowsAttempt
  <2> QED
    BY <2>1, <2>2 DEF LeaseFollowsAttempt
<1>9. AllowanceKept(njobs)
  <2>1. njobs[j].attempts_made <= njobs[j].max_attempts /\ njobs[j].attempts_made > 0
    BY <1>1, <1>2 DEF InvestigationJob
  <2> QED
    BY <1>2, <2>1 DEF TablesInv, AllowanceKept, Remaining
<1> QED
  BY <1>5, <1>6, <1>7, <1>8, <1>9 DEF TablesInv

\* Submitting a job that is not in the store yet.
LEMMA EnqueueKeepsTables ==
  ASSUME NEW jobs, NEW atts, TablesInv(jobs, atts),
         NEW j \in Jobs, jobs[j].status = "absent",
         NEW max \in Nat \ {0}, NEW ri \in BOOLEAN
  PROVE  TablesInv([jobs EXCEPT ![j] = FreshJob(max, ri)], atts)
<1> DEFINE njobs == [jobs EXCEPT ![j] = FreshJob(max, ri)]
<1>0. TablesOK(jobs, atts)
  BY DEF TablesInv
<1>1. FreshJob(max, ri) \in InvestigationJob
  BY DEF FreshJob, InvestigationJob, JobStatus
<1>2. /\ njobs \in [Jobs -> InvestigationJob]
      /\ njobs[j] = FreshJob(max, ri)
      /\ \A i \in Jobs : i # j => njobs[i] = jobs[i]
  BY <1>0, <1>1 DEF TablesOK
<1>3. jobs[j].attempts_made = 0
  BY DEF TablesInv, AllowanceKept
<1>4. \A a \in DOMAIN atts : atts[a].job \in Jobs /\ atts[a].job # j
  <2> SUFFICES ASSUME NEW a \in DOMAIN atts, atts[a].job = j
               PROVE  FALSE
    BY <1>0, RowTypes
  <2>1. atts[a].number <= 0
    BY <1>3 DEF TablesInv, Numbered
  <2>2. atts[a] \in JobAttempt
    BY <1>0, RowTypes
  <2> QED
    BY <2>1, <2>2 DEF JobAttempt
<1>5. TablesOK(njobs, atts)
  BY <1>0, <1>2 DEF TablesOK
<1>6. Numbered(njobs, atts)
  BY <1>2, <1>4 DEF TablesInv, Numbered, FreshJob
<1>7. StatusExplained(njobs, atts)
  BY <1>2, <1>4 DEF TablesInv, StatusExplained
<1>8. LeaseFollowsAttempt(njobs, atts)
  BY <1>2, <1>4 DEF TablesInv, LeaseFollowsAttempt, FreshJob
<1>9. AllowanceKept(njobs)
  BY <1>2 DEF TablesInv, AllowanceKept, FreshJob, Remaining
<1> QED
  BY <1>5, <1>6, <1>7, <1>8, <1>9 DEF TablesInv

\* Moving the end of a lease.
LEMMA HeartbeatKeepsTables ==
  ASSUME NEW jobs, NEW atts, TablesInv(jobs, atts),
         NEW j \in Jobs, jobs[j].status = "running", NEW e \in Int
  PROVE  TablesInv([jobs EXCEPT ![j].lease_expires_at = e], atts)
<1> DEFINE njobs == [jobs EXCEPT ![j].lease_expires_at = e]
<1>0. TablesOK(jobs, atts) /\ jobs[j] \in InvestigationJob
  BY DEF TablesInv, TablesOK
<1>1. /\ njobs \in [Jobs -> InvestigationJob]
      /\ njobs[j] = [jobs[j] EXCEPT !.lease_expires_at = e]
      /\ \A i \in Jobs : i # j => njobs[i] = jobs[i]
  BY <1>0 DEF TablesOK, InvestigationJob
<1>2. \A i \in Jobs : /\ njobs[i].status = jobs[i].status
                      /\ njobs[i].attempts_made = jobs[i].attempts_made
                      /\ njobs[i].max_attempts = jobs[i].max_attempts
                      /\ njobs[i].retry_incomplete = jobs[i].retry_incomplete
                      /\ njobs[i].lease_owner = jobs[i].lease_owner
  BY <1>0, <1>1 DEF InvestigationJob
<1>3. \A a \in DOMAIN atts : atts[a].job \in Jobs
  BY <1>0, RowTypes
<1>4. TablesOK(njobs, atts)
  BY <1>0, <1>1 DEF TablesOK
<1>5. Numbered(njobs, atts)
  BY <1>2, <1>3 DEF TablesInv, Numbered
<1>6. StatusExplained(njobs, atts)
  BY <1>2, <1>3 DEF TablesInv, StatusExplained, Explains, RetryCause, Remaining
<1>7. LeaseFollowsAttempt(njobs, atts)
  <2>1. njobs[j].lease_expires_at = e /\ e # None
    BY <1>0, <1>1 DEF InvestigationJob
  <2> QED
    BY <1>1, <1>2, <1>3, <2>1 DEF TablesInv, LeaseFollowsAttempt
<1>8. AllowanceKept(njobs)
  BY <1>2 DEF TablesInv, AllowanceKept, Remaining
<1> QED
  BY <1>4, <1>5, <1>6, <1>7, <1>8 DEF TablesInv

-----------------------------------------------------------------------------
(* Every operation is made of these moves. *)

LEMMA InitInv == Init => Inv
<1> SUFFICES ASSUME Init PROVE Inv
  OBVIOUS
<1>1. TablesOK(job, attempts)
  BY DEF Init, TablesOK, NoJob, InvestigationJob
<1>2. Numbered(job, attempts) /\ StatusExplained(job, attempts)
  BY DEF Init, Numbered, StatusExplained, NoJob
<1>3. LeaseFollowsAttempt(job, attempts) /\ AllowanceKept(job)
  BY DEF Init, LeaseFollowsAttempt, AllowanceKept, NoJob
<1> QED
  BY <1>1, <1>2, <1>3 DEF Init, Inv, TablesInv

\* expire_leases is the ending of the lapsed jobs.
LEMMA ExpiryIsEnding ==
  ASSUME NEW jobs, NEW atts, NEW t
  PROVE  /\ Lapsed(jobs, t) \in SUBSET Jobs
         /\ \A j \in Lapsed(jobs, t) : jobs[j].status = "running"
         /\ JobsExpired(jobs, t) = JobsEnded(jobs, Lapsed(jobs, t), "expired", TRUE)
         /\ AttemptsExpired(jobs, atts, t) = EndAttempts(atts, Lapsed(jobs, t), "expired")
  BY DEF Lapsed, JobsExpired, JobsEnded, AttemptsExpired

LEMMA ExpiryKeepsTables ==
  ASSUME NEW jobs, NEW atts, TablesInv(jobs, atts), NEW t
  PROVE  TablesInv(JobsExpired(jobs, t), AttemptsExpired(jobs, atts, t))
<1>1. "expired" \in AttemptOutcome \ {"running"}
  BY DEF AttemptOutcome
<1> DEFINE ended == Lapsed(jobs, t)
<1>2. ended \in SUBSET Jobs /\ \A j \in ended : jobs[j].status = "running"
  BY ExpiryIsEnding
<1>3. TablesInv(JobsEnded(jobs, ended, "expired", TRUE), EndAttempts(atts, ended, "expired"))
  <2> HIDE DEF ended
  <2> QED
    BY <1>1, <1>2, EndingKeepsTables
<1> QED
  BY <1>3, ExpiryIsEnding

\* finish_attempt is the ending of one job, by the attempt that holds it.
LEMMA FinishIsEnding ==
  ASSUME Inv, NEW a \in DOMAIN attempts, NEW w, NEW t, NEW outcome \in Reported,
         NEW retryable \in BOOLEAN, FinishAttempt(a, w, outcome, retryable, t)
  PROVE  /\ attempts[a].job \in Jobs
         /\ job[attempts[a].job].status = "running"
         /\ job' = JobsEnded(job, {attempts[a].job}, outcome, retryable)
         /\ attempts' = EndAttempts(attempts, {attempts[a].job}, outcome)
<1> DEFINE j == attempts[a].job
<1>1. TablesInv(job, attempts) /\ TablesOK(job, attempts)
  BY DEF Inv, TablesInv
<1>2. j \in Jobs /\ job[j].status = "running" /\ attempts[a].outcome = "running"
  BY <1>1, RowTypes DEF FinishAttempt, LeaseIsValid
<1>3. job' = JobsEnded(job, {j}, outcome, retryable)
  BY <1>1, <1>2 DEF FinishAttempt, JobsEnded, TablesOK
<1>4. \A b \in DOMAIN attempts :
        attempts[b].job = j /\ IsRunningAttempt(attempts, b) <=> b = a
  BY <1>1, <1>2, RunningAttemptFound, OneUnfinishedAttempt
<1>5. attempts' = EndAttempts(attempts, {j}, outcome)
  BY <1>1, <1>4 DEF FinishAttempt, EndAttempts, TablesOK
<1> QED
  BY <1>2, <1>3, <1>5

\* cancel_job ends a running job; one that waits has no attempt to end.
LEMMA CancelKeepsTables ==
  ASSUME Inv, NEW j \in Jobs, CancelJob(j)
  PROVE  TablesInv(job, attempts)'
<1>1. TablesInv(job, attempts) /\ TablesOK(job, attempts)
  BY DEF Inv, TablesInv
<1>2. job' = JobsEnded(job, {j}, "cancelled", FALSE)
  BY <1>1 DEF CancelJob, JobsEnded, TablesOK
<1>3. "cancelled" \in AttemptOutcome \ {"running"}
  BY DEF AttemptOutcome
<1>4. CASE job[j].status = "running"
  <2>1. attempts' = EndAttempts(attempts, {j}, "cancelled")
    BY DEF CancelJob
  <2> QED
    BY <1>1, <1>2, <1>3, <1>4, <2>1, EndingKeepsTables
<1>5. CASE job[j].status = "queued"
  <2>1. attempts' = attempts
    <3>1. \A a \in DOMAIN attempts : attempts[a].job = j => ~IsRunningAttempt(attempts, a)
      BY <1>1, <1>5, UnfinishedIsLatest, RunningAttemptFound
    <3> QED
      BY <1>1, <3>1 DEF CancelJob, EndAttempts, TablesOK
  <2>2. /\ job'[j] = FinishTransition(job[j], "cancelled", FALSE)
        /\ \A i \in Jobs : i # j => job'[i] = job[i]
        /\ job[j] \in InvestigationJob
    BY <1>1, <1>2 DEF JobsEnded, TablesOK
  <2>3. /\ job'[j] \in InvestigationJob
        /\ job'[j].status = "cancelled"
        /\ job'[j].attempts_made = job[j].attempts_made
        /\ job'[j].max_attempts = job[j].max_attempts
        /\ job'[j].retry_incomplete = job[j].retry_incomplete
        /\ job'[j].lease_owner = None
        /\ job'[j].lease_expires_at = None
    BY <2>2 DEF FinishTransition, StatusAfter, InvestigationJob, JobStatus, Terminal
  <2>4. \A a \in DOMAIN attempts : attempts[a].job \in Jobs
    BY <1>1, RowTypes
  <2>5. TablesOK(job, attempts)'
    BY <1>1, <1>2, <2>1, <2>2, <2>3 DEF TablesOK, JobsEnded
  <2>6. Numbered(job, attempts)'
    <3>1. \A i \in Jobs : job'[i].attempts_made = job[i].attempts_made
      BY <2>2, <2>3
    <3> QED
      BY <1>1, <2>1, <2>4, <3>1 DEF TablesInv, Numbered
  <2>7. StatusExplained(job, attempts)'
    <3> SUFFICES ASSUME NEW a \in DOMAIN attempts
                 PROVE  LET rec == job'[attempts[a].job]
                        IN  IF attempts[a].number = rec.attempts_made
                            THEN Explains(rec, attempts[a].outcome)
                            ELSE attempts[a].outcome \in RetryCause(rec)
      BY <2>1 DEF StatusExplained
    <3>1. CASE attempts[a].job # j
      BY <1>1, <2>2, <2>4, <3>1 DEF TablesInv, StatusExplained
    <3>2. CASE attempts[a].job = j
      <4>1. attempts[a].outcome \in RetryCause(job[j])
        BY <1>1, <1>5, <3>2 DEF TablesInv, StatusExplained, Explains
      <4>2. RetryCause(job'[j]) = RetryCause(job[j])
        BY <2>3 DEF RetryCause
      <4> QED
        BY <2>3, <3>2, <4>1, <4>2 DEF Explains
    <3> QED
      BY <3>1, <3>2
  <2>8. LeaseFollowsAttempt(job, attempts)'
    <3>1. \A a \in DOMAIN attempts : attempts[a].outcome = "running" => attempts[a].job # j
      BY <1>1, <1>5, UnfinishedIsLatest
    <3> QED
      BY <1>1, <2>1, <2>2, <2>3, <2>4, <3>1 DEF TablesInv, LeaseFollowsAttempt
  <2>9. AllowanceKept(job)'
    BY <1>1, <1>5, <2>2, <2>3 DEF TablesInv, AllowanceKept, Remaining
  <2> QED
    BY <2>5, <2>6, <2>7, <2>8, <2>9 DEF TablesInv
<1> QED
  BY <1>4, <1>5 DEF CancelJob

LEMMA NextTables == Inv /\ [Next]_storeVars => TablesInv(job, attempts)'
<1> SUFFICES ASSUME Inv, [Next]_storeVars PROVE TablesInv(job, attempts)'
  OBVIOUS
<1>0. TablesInv(job, attempts) /\ TablesOK(job, attempts)
  BY DEF Inv, TablesInv
<1>1. CASE Enqueue
  <2>1. PICK j \in Jobs, place \in 1 .. Len(line) + 1, max \in MaxAttempts, ri \in BOOLEAN :
          EnqueueJob(j, place, max, ri)
    BY <1>1 DEF Enqueue
  <2>2. max \in Nat \ {0}
    BY DEF StoreAssumption
  <2> QED
    BY <1>0, <2>1, <2>2, EnqueueKeepsTables DEF EnqueueJob
<1>2. CASE Claim
  <2>1. PICK w \in Workers, lease \in Leases, t \in Instants : ClaimOldest(w, lease, t)
    BY <1>2 DEF Claim
  <2> DEFINE jobs == JobsExpired(job, t)
             atts == AttemptsExpired(job, attempts, t)
  <2>2. PICK i \in Waiting(jobs) :
          /\ job' = JobsClaimed(jobs, line[i], w, lease, t)
          /\ attempts' = AttemptsClaimed(jobs, atts, line[i], w)
    BY <2>1 DEF ClaimOldest
  <2>3. line[i] \in Jobs /\ jobs[line[i]].status = "queued"
    BY <2>2 DEF Inv, Waiting
  <2>4. TablesInv(jobs, atts)
    BY <1>0, ExpiryKeepsTables
  <2> HIDE DEF jobs, atts
  <2> QED
    BY <2>2, <2>3, <2>4, ClaimKeepsTables
<1>3. CASE ClaimFindsNothing \/ Expire
  <2>1. PICK t \in Instants : ExpireLeases(t)
    BY <1>3 DEF ClaimFindsNothing, ClaimNothing, Expire
  <2> QED
    BY <1>0, <2>1, ExpiryKeepsTables DEF ExpireLeases
<1>4. CASE Beat
  <2>1. PICK a \in DOMAIN attempts, w \in Workers, lease \in Leases, t \in Instants :
          Heartbeat(a, w, lease, t)
    BY <1>4 DEF Beat
  <2>2. attempts[a].job \in Jobs /\ job[attempts[a].job].status = "running"
    BY <1>0, <2>1, RowTypes DEF Heartbeat, LeaseIsValid
  <2>3. t + lease \in Int
    BY DEF StoreAssumption
  <2> QED
    BY <1>0, <2>1, <2>2, <2>3, HeartbeatKeepsTables DEF Heartbeat
<1>5. CASE Finish
  <2>1. PICK a \in DOMAIN attempts, w \in Workers, outcome \in Reported,
             retryable \in BOOLEAN, t \in Instants :
          FinishAttempt(a, w, outcome, retryable, t)
    BY <1>5 DEF Finish
  <2>2. outcome \in AttemptOutcome \ {"running"}
    BY DEF AttemptOutcome, Reported
  <2>3. /\ attempts[a].job \in Jobs
        /\ job[attempts[a].job].status = "running"
        /\ job' = JobsEnded(job, {attempts[a].job}, outcome, retryable)
        /\ attempts' = EndAttempts(attempts, {attempts[a].job}, outcome)
    BY <2>1, FinishIsEnding
  <2> DEFINE ended == {attempts[a].job}
  <2>4. ended \in SUBSET Jobs /\ \A j \in ended : job[j].status = "running"
    BY <2>3
  <2>5. TablesInv(JobsEnded(job, ended, outcome, retryable),
                  EndAttempts(attempts, ended, outcome))
    <3> HIDE DEF ended
    <3> QED
      BY <1>0, <2>2, <2>4, EndingKeepsTables
  <2> QED
    BY <2>3, <2>5
<1>6. CASE Cancel
  BY <1>6, CancelKeepsTables DEF Cancel
<1>7. CASE AddRevision
  BY <1>0, <1>7 DEF AddRevision, AddReportRevision
<1>8. CASE UNCHANGED storeVars
  BY <1>0, <1>8 DEF storeVars
<1> QED
  BY <1>1, <1>2, <1>3, <1>4, <1>5, <1>6, <1>7, <1>8 DEF Next

LEMMA NextLine == Inv /\ [Next]_storeVars => (line \in Seq(Jobs))'
<1> SUFFICES ASSUME Inv, [Next]_storeVars PROVE (line \in Seq(Jobs))'
  OBVIOUS
<1>1. CASE Enqueue
  <2>1. PICK j \in Jobs, place \in 1 .. Len(line) + 1, max \in MaxAttempts, ri \in BOOLEAN :
          line' = InsertAt(line, place, j)
    BY <1>1 DEF Enqueue, EnqueueJob
  <2> QED
    BY <2>1 DEF InsertAt, Inv
<1> QED
  BY <1>1 DEF Inv, Next, Claim, ClaimOldest, ClaimFindsNothing, ClaimNothing, Expire,
     ExpireLeases, Beat, Heartbeat, Finish, FinishAttempt, Cancel, CancelJob, AddRevision,
     AddReportRevision, storeVars

\* Appending to one job's revisions.
LEMMA AppendRevisionTyped ==
  ASSUME NEW revs \in [Jobs -> Seq(ReportRevision)], NEW j \in Jobs, NEW a \in Nat \ {0}
  PROVE  [revs EXCEPT ![j] = Append(@, [attempt |-> a, revision |-> Len(@) + 1])]
           \in [Jobs -> Seq(ReportRevision)]
<1>1. [attempt |-> a, revision |-> Len(revs[j]) + 1] \in ReportRevision
  BY DEF ReportRevision
<1> QED
  BY <1>1

LEMMA NextRevisions ==
  Inv /\ [Next]_storeVars => (revisions \in [Jobs -> Seq(ReportRevision)])'
<1> SUFFICES ASSUME Inv, [Next]_storeVars
             PROVE  (revisions \in [Jobs -> Seq(ReportRevision)])'
  OBVIOUS
<1>0. /\ TablesOK(job, attempts)
      /\ revisions \in [Jobs -> Seq(ReportRevision)]
  BY DEF Inv, TablesInv
<1>1. \A a \in DOMAIN attempts : a \in Nat \ {0} /\ attempts[a].job \in Jobs
  BY <1>0, RowTypes DEF TablesOK
<1>2. CASE Finish
  <2>1. PICK a \in DOMAIN attempts, w \in Workers, outcome \in Reported,
             retryable \in BOOLEAN, t \in Instants :
          FinishAttempt(a, w, outcome, retryable, t)
    BY <1>2 DEF Finish
  <2> DEFINE j == attempts[a].job
  <2>2. \/ revisions' = revisions
        \/ revisions' = [revisions EXCEPT ![j] =
                           Append(@, [attempt |-> a, revision |-> Len(@) + 1])]
    BY <2>1 DEF FinishAttempt
  <2> HIDE DEF j
  <2>3. j \in Jobs /\ a \in Nat \ {0}
    BY <1>1 DEF j
  <2>4. [revisions EXCEPT ![j] = Append(@, [attempt |-> a, revision |-> Len(@) + 1])]
          \in [Jobs -> Seq(ReportRevision)]
    BY <1>0, <2>3, AppendRevisionTyped
  <2> QED
    BY <1>0, <2>2, <2>4
<1>3. CASE AddRevision
  BY <1>0, <1>1, <1>3, AppendRevisionTyped DEF AddRevision, AddReportRevision
<1> QED
  BY <1>0, <1>2, <1>3 DEF Next, Enqueue, EnqueueJob, Claim, ClaimOldest, ClaimFindsNothing,
     ClaimNothing, Expire, ExpireLeases, Beat, Heartbeat, Cancel, CancelJob, storeVars

THEOREM InvHolds == Spec => []Inv
<1>1. Inv /\ [Next]_storeVars => Inv'
  BY NextTables, NextLine, NextRevisions DEF Inv
<1> QED
  BY InitInv, <1>1, PTL DEF Spec

-----------------------------------------------------------------------------
(* The invariants the runs check, for every choice of the constants. *)

\* Type correctness of the tables of InMemoryStore.
THEOREM TypeCorrect == Spec => []TypeOK
<1>1. Inv => TypeOK
  BY DEF Inv, TablesInv, TypeOK
<1> QED
  BY InvHolds, <1>1, PTL

\* Attempts of a job are numbered 1 .. attempts_made in the order they were
\* started, through any interleaving of claims, expiries and cancellations.
THEOREM NumberingCorrect == Spec => []AttemptsNumbered
<1>1. Inv => AttemptsNumbered
  BY DEF Inv, TablesInv, AttemptsNumbered
<1> QED
  BY InvHolds, <1>1, PTL

\* A status is earned by the latest attempt, and the lease is its worker's.
THEOREM StatusCorrect == Spec => []StatusEarned
<1>1. Inv => StatusEarned
  BY DEF Inv, TablesInv, StatusEarned
<1> QED
  BY InvHolds, <1>1, PTL

\* No job is tried more often than it was submitted for.
THEOREM AllowanceCorrect == Spec => []AllowanceRespected
<1>1. Inv => AllowanceRespected
  BY DEF Inv, TablesInv, AllowanceRespected
<1> QED
  BY InvHolds, <1>1, PTL

-----------------------------------------------------------------------------
(* The edges of one job record. *)

Submitted(old, new) ==
  /\ old.status = "absent"
  /\ \E max \in Nat \ {0}, ri \in BOOLEAN : new = FreshJob(max, ri)

Extended(old, new) ==
  /\ old.status = "running"
  /\ \E e \in Int : new = [old EXCEPT !.lease_expires_at = e]

Ended(old, new) ==
  /\ old.status = "running"
  /\ \E outcome \in AttemptOutcome \ {"running"}, retryable \in BOOLEAN :
       new = FinishTransition(old, outcome, retryable)

Withdrawn(old, new) ==
  /\ old.status = "queued"
  /\ new = FinishTransition(old, "cancelled", FALSE)

Leased(old, new) ==
  /\ old.status = "queued"
  /\ \E w \in Workers, lease \in Leases, t \in Instants :
       new = ClaimTransition(old, w, lease, t)

\* Expired and claimed again within one call.
TakenOver(old, new) ==
  \E w \in Workers, lease \in Leases, t \in Instants :
    /\ old.status = "running"
    /\ old.lease_expires_at <= t
    /\ FinishTransition(old, "expired", TRUE).status = "queued"
    /\ new = ClaimTransition(FinishTransition(old, "expired", TRUE), w, lease, t)

Move(old, new) ==
  \/ new = old
  \/ Submitted(old, new)
  \/ Ended(old, new)
  \/ Withdrawn(old, new)
  \/ Leased(old, new)
  \/ TakenOver(old, new)

Edge(old, new) == Move(old, new) \/ Extended(old, new)

\* Expiry alone moves a job along `Ended', or not at all.
LEMMA ExpiryEdge ==
  ASSUME NEW jobs, NEW j \in Jobs, NEW t
  PROVE  /\ j \in Lapsed(jobs, t) =>
              /\ jobs[j].status = "running"
              /\ jobs[j].lease_expires_at <= t
              /\ JobsExpired(jobs, t)[j] = FinishTransition(jobs[j], "expired", TRUE)
         /\ j \notin Lapsed(jobs, t) => JobsExpired(jobs, t)[j] = jobs[j]
  BY DEF Lapsed, JobsExpired

\* Any call but a heartbeat, or none.
OtherThanBeat ==
  \/ Enqueue \/ Claim \/ ClaimFindsNothing \/ Expire \/ Finish \/ Cancel \/ AddRevision
  \/ UNCHANGED storeVars

\* Any call but finish_attempt, or none.
OtherThanFinish ==
  \/ Enqueue \/ Claim \/ ClaimFindsNothing \/ Expire \/ Beat \/ Cancel \/ AddRevision
  \/ UNCHANGED storeVars

LEMMA OtherSteps ==
  /\ OtherThanBeat => [Next]_storeVars
  /\ OtherThanFinish => [Next]_storeVars
  /\ [Next]_storeVars => (OtherThanBeat \/ Beat) /\ (OtherThanFinish \/ Finish)
BY DEF OtherThanBeat, OtherThanFinish, Next

\* Every step but a heartbeat moves every job or leaves it where it is.
LEMMA JobMoves ==
  ASSUME Inv, OtherThanBeat, NEW j \in Jobs
  PROVE  Move(job[j], job'[j])
<1>0. TablesInv(job, attempts) /\ TablesOK(job, attempts)
  BY DEF Inv, TablesInv
<1>1. CASE Enqueue
  <2>1. PICK i \in Jobs, place \in 1 .. Len(line) + 1, max \in MaxAttempts, ri \in BOOLEAN :
          EnqueueJob(i, place, max, ri)
    BY <1>1 DEF Enqueue
  <2>2. max \in Nat \ {0}
    BY DEF StoreAssumption
  <2>3. CASE i = j
    <3>1. job[j].status = "absent" /\ job'[j] = FreshJob(max, ri)
      BY <1>0, <2>1, <2>3 DEF EnqueueJob, TablesOK
    <3> QED
      BY <2>2, <3>1 DEF Move, Submitted
  <2>4. CASE i # j
    BY <1>0, <2>1, <2>4 DEF EnqueueJob, TablesOK, Move
  <2> QED
    BY <2>3, <2>4
<1>2. CASE Claim
  <2>1. PICK w \in Workers, lease \in Leases, t \in Instants : ClaimOldest(w, lease, t)
    BY <1>2 DEF Claim
  <2> DEFINE jobs == JobsExpired(job, t)
  <2>2. PICK i \in Waiting(jobs) : job' = JobsClaimed(jobs, line[i], w, lease, t)
    BY <2>1 DEF ClaimOldest
  <2>3. line[i] \in Jobs /\ jobs[line[i]].status = "queued"
    BY <2>2 DEF Inv, Waiting
  <2>4. DOMAIN jobs = Jobs
    BY DEF JobsExpired
  <2>5. /\ j \in Lapsed(job, t) =>
             /\ job[j].status = "running"
             /\ job[j].lease_expires_at <= t
             /\ jobs[j] = FinishTransition(job[j], "expired", TRUE)
        /\ j \notin Lapsed(job, t) => jobs[j] = job[j]
    BY ExpiryEdge
  <2> HIDE DEF jobs
  <2>6. CASE line[i] = j
    <3>1. job'[j] = ClaimTransition(jobs[j], w, lease, t)
      BY <2>2, <2>4, <2>6 DEF JobsClaimed
    <3>2. CASE j \in Lapsed(job, t)
      BY <2>3, <2>5, <2>6, <3>1, <3>2 DEF Move, TakenOver
    <3>3. CASE j \notin Lapsed(job, t)
      BY <2>3, <2>5, <2>6, <3>1, <3>3 DEF Move, Leased
    <3> QED
      BY <3>2, <3>3
  <2>7. CASE line[i] # j
    <3>1. job'[j] = jobs[j]
      BY <2>2, <2>4, <2>7 DEF JobsClaimed
    <3> QED
      BY <2>5, <3>1 DEF Move, Ended, AttemptOutcome
  <2> QED
    BY <2>6, <2>7
<1>3. CASE ClaimFindsNothing \/ Expire
  <2>1. PICK t \in Instants : job' = JobsExpired(job, t)
    BY <1>3 DEF ClaimFindsNothing, ClaimNothing, Expire, ExpireLeases
  <2> QED
    BY <2>1, ExpiryEdge DEF Move, Ended, AttemptOutcome
<1>4. CASE Finish
  <2>1. PICK a \in DOMAIN attempts, w \in Workers, outcome \in Reported,
             retryable \in BOOLEAN, t \in Instants :
          FinishAttempt(a, w, outcome, retryable, t)
    BY <1>4 DEF Finish
  <2>2. /\ job[attempts[a].job].status = "running"
        /\ job' = JobsEnded(job, {attempts[a].job}, outcome, retryable)
    BY <2>1, FinishIsEnding
  <2> QED
    BY <2>2 DEF JobsEnded, Move, Ended, AttemptOutcome, Reported
<1>5. CASE Cancel
  <2>1. PICK i \in Jobs : CancelJob(i)
    BY <1>5 DEF Cancel
  <2>2. CASE i = j
    BY <1>0, <2>1, <2>2 DEF CancelJob, TablesOK, Move, Ended, Withdrawn, AttemptOutcome
  <2>3. CASE i # j
    BY <1>0, <2>1, <2>3 DEF CancelJob, TablesOK, Move
  <2> QED
    BY <2>2, <2>3
<1>6. CASE AddRevision \/ UNCHANGED storeVars
  BY <1>6 DEF AddRevision, AddReportRevision, storeVars, Move
<1> QED
  BY <1>1, <1>2, <1>3, <1>4, <1>5, <1>6 DEF OtherThanBeat

\* Every step takes every job along one edge or leaves it where it is.
LEMMA JobEdges ==
  ASSUME Inv, [Next]_storeVars, NEW j \in Jobs
  PROVE  Edge(job[j], job'[j])
<1>0. TablesInv(job, attempts) /\ TablesOK(job, attempts)
  BY DEF Inv, TablesInv
<1>1. CASE OtherThanBeat
  BY <1>1, JobMoves DEF Edge
<1>2. CASE Beat
  <2>1. PICK a \in DOMAIN attempts, w \in Workers, lease \in Leases, t \in Instants :
          Heartbeat(a, w, lease, t)
    BY <1>2 DEF Beat
  <2>2. t + lease \in Int
    BY DEF StoreAssumption
  <2>3. /\ job[attempts[a].job].status = "running"
        /\ job' = [job EXCEPT ![attempts[a].job] = [@ EXCEPT !.lease_expires_at = t + lease]]
    BY <2>1 DEF Heartbeat, LeaseIsValid
  <2>4. CASE attempts[a].job = j
    <3>1. job[j].status = "running"
          /\ job'[j] = [job[j] EXCEPT !.lease_expires_at = t + lease]
      BY <1>0, <2>3, <2>4 DEF TablesOK
    <3> QED
      BY <2>2, <3>1 DEF Edge, Extended
  <2>5. CASE attempts[a].job # j
    BY <1>0, <2>3, <2>5 DEF TablesOK, Edge, Move
  <2> QED
    BY <2>4, <2>5
<1> QED
  BY <1>1, <1>2, OtherSteps

-----------------------------------------------------------------------------
(* The edges of one attempt. *)

EndedAttempt(old, new) ==
  /\ old.outcome = "running"
  /\ \E outcome \in AttemptOutcome : new = [old EXCEPT !.outcome = outcome]

LEMMA EndAttemptsEdge ==
  ASSUME NEW atts, NEW ended, NEW outcome \in AttemptOutcome, NEW a \in DOMAIN atts
  PROVE  /\ DOMAIN EndAttempts(atts, ended, outcome) = DOMAIN atts
         /\ \/ EndAttempts(atts, ended, outcome)[a] = atts[a]
            \/ EndedAttempt(atts[a], EndAttempts(atts, ended, outcome)[a])
  BY DEF EndAttempts, EndedAttempt, IsRunningAttempt

LEMMA AttemptEdges ==
  ASSUME Inv, [Next]_storeVars, NEW a \in DOMAIN attempts
  PROVE  /\ a \in DOMAIN attempts'
         /\ attempts'[a] = attempts[a] \/ EndedAttempt(attempts[a], attempts'[a])
<1>0. TablesInv(job, attempts) /\ TablesOK(job, attempts)
  BY DEF Inv, TablesInv
<1>1. "expired" \in AttemptOutcome /\ "cancelled" \in AttemptOutcome
  BY DEF AttemptOutcome
<1>2. CASE Claim
  <2>1. PICK w \in Workers, lease \in Leases, t \in Instants : ClaimOldest(w, lease, t)
    BY <1>2 DEF Claim
  <2> DEFINE jobs == JobsExpired(job, t)
             atts == AttemptsExpired(job, attempts, t)
  <2>2. PICK i \in Waiting(jobs) : attempts' = AttemptsClaimed(jobs, atts, line[i], w)
    BY <2>1 DEF ClaimOldest
  <2>3. atts = EndAttempts(attempts, Lapsed(job, t), "expired")
    BY DEF AttemptsExpired
  <2>4. /\ DOMAIN atts = DOMAIN attempts
        /\ atts[a] = attempts[a] \/ EndedAttempt(attempts[a], atts[a])
    BY <1>1, <2>3, EndAttemptsEdge
  <2>5. TablesInv(jobs, atts)
    BY <1>0, ExpiryKeepsTables
  <2>6. atts \in Seq(JobAttempt)
    BY <2>5 DEF TablesInv, TablesOK
  <2> HIDE DEF jobs, atts
  <2>7. a \in DOMAIN attempts' /\ attempts'[a] = atts[a]
    BY <2>2, <2>4, <2>6 DEF AttemptsClaimed
  <2> QED
    BY <2>4, <2>7
<1>3. CASE ClaimFindsNothing \/ Expire
  <2>1. PICK t \in Instants : attempts' = EndAttempts(attempts, Lapsed(job, t), "expired")
    BY <1>3 DEF ClaimFindsNothing, ClaimNothing, Expire, ExpireLeases, AttemptsExpired
  <2> QED
    BY <1>1, <2>1, EndAttemptsEdge
<1>4. CASE Finish
  <2>1. PICK b \in DOMAIN attempts, w \in Workers, outcome \in Reported,
             retryable \in BOOLEAN, t \in Instants :
          FinishAttempt(b, w, outcome, retryable, t)
    BY <1>4 DEF Finish
  <2>2. attempts' = EndAttempts(attempts, {attempts[b].job}, outcome)
    BY <2>1, FinishIsEnding
  <2>3. outcome \in AttemptOutcome
    BY DEF AttemptOutcome
  <2> QED
    BY <2>2, <2>3, EndAttemptsEdge
<1>5. CASE Cancel
  <2>1. PICK j \in Jobs : attempts' = EndAttempts(attempts, {j}, "cancelled")
    BY <1>5 DEF Cancel, CancelJob
  <2> QED
    BY <1>1, <2>1, EndAttemptsEdge
<1>6. CASE Enqueue \/ Beat \/ AddRevision \/ UNCHANGED storeVars
  BY <1>6 DEF Enqueue, EnqueueJob, Beat, Heartbeat, AddRevision, AddReportRevision, storeVars
<1> QED
  BY <1>2, <1>3, <1>4, <1>5, <1>6 DEF Next

-----------------------------------------------------------------------------
(* The life of one attempt. *)

\* While an attempt stays unfinished only a heartbeat touches its job.
LEMMA UnfinishedKeepsJob ==
  ASSUME Inv, OtherThanBeat,
         NEW a \in DOMAIN attempts, attempts'[a].outcome = "running"
  PROVE  /\ attempts'[a] = attempts[a]
         /\ job'[attempts[a].job] = job[attempts[a].job]
<1> DEFINE j == attempts[a].job
<1>0. TablesInv(job, attempts) /\ TablesOK(job, attempts) /\ TablesInv(job', attempts')
  BY OtherSteps, NextTables DEF Inv, TablesInv
<1>1. attempts[a] \in JobAttempt /\ j \in Jobs /\ job[j] \in InvestigationJob
  BY <1>0, RowTypes
<1>2. a \in DOMAIN attempts' /\ attempts'[a] = attempts[a]
  <2>1. a \in DOMAIN attempts' /\ (attempts'[a] = attempts[a] \/ EndedAttempt(attempts[a], attempts'[a]))
    BY OtherSteps, AttemptEdges
  <2>2. ASSUME EndedAttempt(attempts[a], attempts'[a]) PROVE attempts'[a] = attempts[a]
    <3>1. PICK outcome : attempts'[a] = [attempts[a] EXCEPT !.outcome = outcome]
      BY <2>2 DEF EndedAttempt
    <3>2. outcome = "running" /\ attempts[a].outcome = "running"
      BY <1>1, <2>2, <3>1 DEF EndedAttempt, JobAttempt
    <3> QED
      BY <1>1, <3>1, <3>2 DEF JobAttempt
  <2> QED
    BY <2>1, <2>2
<1>3. /\ job[j].status = "running" /\ job'[j].status = "running"
      /\ job'[j].attempts_made = job[j].attempts_made
  BY <1>0, <1>2, UnfinishedIsLatest
<1>4. Move(job[j], job'[j])
  BY <1>1, JobMoves
<1>5. ~Ended(job[j], job'[j])
  <2>1. job[j].attempts_made > 0 /\ job[j].attempts_made <= job[j].max_attempts
    BY <1>0, <1>1, <1>3 DEF TablesInv, AllowanceKept
  <2> HIDE DEF j
  <2>2. \A outcome \in AttemptOutcome \ {"running"}, retryable \in BOOLEAN :
          FinishTransition(job[j], outcome, retryable).status # "running"
    BY <1>1, <1>3, <2>1, FinishedRecord DEF Terminal
  <2> QED
    BY <1>3, <2>2 DEF Ended
<1>6. ~TakenOver(job[j], job'[j])
  <2> SUFFICES ASSUME NEW w, NEW lease, NEW t,
                      job'[j] = ClaimTransition(FinishTransition(job[j], "expired", TRUE), w, lease, t)
               PROVE  FALSE
    BY DEF TakenOver
  <2> HIDE DEF j
  <2>1. job'[j].attempts_made = job[j].attempts_made + 1 /\ job[j].attempts_made \in Nat
    BY <1>1 DEF ClaimTransition, FinishTransition, InvestigationJob
  <2>2. \A n \in Nat : n # n + 1
    OBVIOUS
  <2> QED
    BY <1>3, <2>1, <2>2
<1> QED
  BY <1>2, <1>3, <1>4, <1>5, <1>6 DEF Move, Submitted, Withdrawn, Leased

\* An attempt ends without its worker's report only by expiring, when its
\* lease has lapsed at the caller's instant, or by being cancelled.
LEMMA UnreportedEnd ==
  ASSUME Inv, OtherThanFinish,
         NEW a \in DOMAIN attempts, attempts[a].outcome = "running",
         attempts'[a].outcome # "running"
  PROVE  \/ attempts'[a].outcome = "cancelled"
         \/ /\ attempts'[a].outcome = "expired"
            /\ \E t \in Instants : attempts[a].job \in Lapsed(job, t)
<1>0. TablesInv(job, attempts) /\ TablesOK(job, attempts) /\ attempts[a] \in JobAttempt
  BY RowTypes DEF Inv, TablesInv
<1>1. ASSUME NEW ended, NEW outcome, EndAttempts(attempts, ended, outcome)[a].outcome # "running"
      PROVE  EndAttempts(attempts, ended, outcome)[a].outcome = outcome /\ attempts[a].job \in ended
  BY <1>0, <1>1 DEF EndAttempts, JobAttempt
<1>2. CASE Claim
  <2>1. PICK w \in Workers, lease \in Leases, t \in Instants : ClaimOldest(w, lease, t)
    BY <1>2 DEF Claim
  <2> DEFINE jobs == JobsExpired(job, t)
             atts == AttemptsExpired(job, attempts, t)
  <2>2. PICK i \in Waiting(jobs) : attempts' = AttemptsClaimed(jobs, atts, line[i], w)
    BY <2>1 DEF ClaimOldest
  <2>3. /\ atts = EndAttempts(attempts, Lapsed(job, t), "expired")
        /\ TablesInv(jobs, atts) /\ DOMAIN atts = DOMAIN attempts
    BY <1>0, ExpiryKeepsTables DEF AttemptsExpired, EndAttempts
  <2>4. atts \in Seq(JobAttempt)
    BY <2>3 DEF TablesInv, TablesOK
  <2> HIDE DEF jobs, atts
  <2>5. attempts'[a] = atts[a]
    BY <2>2, <2>3, <2>4 DEF AttemptsClaimed
  <2>6. atts[a].outcome = "expired" /\ attempts[a].job \in Lapsed(job, t)
    BY <1>1, <2>3, <2>5
  <2> QED
    BY <2>1, <2>5, <2>6
<1>3. CASE ClaimFindsNothing \/ Expire
  <2>1. PICK t \in Instants : attempts' = EndAttempts(attempts, Lapsed(job, t), "expired")
    BY <1>3 DEF ClaimFindsNothing, ClaimNothing, Expire, ExpireLeases, AttemptsExpired
  <2> QED
    BY <1>1, <2>1
<1>4. CASE Cancel
  <2>1. PICK j \in Jobs : attempts' = EndAttempts(attempts, {j}, "cancelled")
    BY <1>4 DEF Cancel, CancelJob
  <2> QED
    BY <1>1, <2>1
<1>5. CASE Enqueue \/ Beat \/ AddRevision \/ UNCHANGED storeVars
  BY <1>5 DEF Enqueue, EnqueueJob, Beat, Heartbeat, AddRevision, AddReportRevision, storeVars
<1> QED
  BY <1>2, <1>3, <1>4, <1>5 DEF OtherThanFinish

-----------------------------------------------------------------------------
(* History is final. *)

LEMMA TerminalStays ==
  ASSUME NEW old, NEW new, Edge(old, new), old.status \in Terminal
  PROVE  new = old
BY DEF Edge, Move, Submitted, Extended, Ended, Withdrawn, Leased, TakenOver, Terminal

LEMMA PrefixOfItself ==
  ASSUME NEW S, NEW s \in Seq(S)
  PROVE  IsPrefix(s, s)
BY DEF IsPrefix

LEMMA PrefixOfAppend ==
  ASSUME NEW S, NEW s \in Seq(S), NEW e
  PROVE  IsPrefix(s, Append(s, e))
<1> DEFINE n == Len(s)
<1>1. n \in Nat /\ Len(Append(s, e)) = n + 1
  BY DEF n
<1>2. \A i \in 1 .. n : Append(s, e)[i] = s[i]
  OBVIOUS
<1>3. SubSeq(s, 1, n) = [i \in 1 .. n |-> s[i]]
  BY <1>1
<1>4. SubSeq(Append(s, e), 1, n) = [i \in 1 .. n |-> Append(s, e)[i]]
  BY <1>1
<1> QED
  BY <1>1, <1>2, <1>3, <1>4 DEF IsPrefix

LEMMA RevisionsGrow ==
  ASSUME Inv, [Next]_storeVars, NEW j \in Jobs
  PROVE  IsPrefix(revisions[j], revisions'[j])
<1>0. revisions \in [Jobs -> Seq(ReportRevision)]
  BY DEF Inv
<1>1. revisions[j] \in Seq(ReportRevision)
  BY <1>0
<1>2. \/ revisions' = revisions
      \/ \E i, e : revisions' = [revisions EXCEPT ![i] = Append(@, e)]
  BY DEF Next, Enqueue, EnqueueJob, Claim, ClaimOldest, ClaimFindsNothing, ClaimNothing,
     Expire, ExpireLeases, Beat, Heartbeat, Finish, FinishAttempt, Cancel, CancelJob,
     AddRevision, AddReportRevision, storeVars
<1>3. \/ revisions'[j] = revisions[j]
      \/ \E e : revisions'[j] = Append(revisions[j], e)
  BY <1>0, <1>2
<1> QED
  BY <1>1, <1>3, PrefixOfItself, PrefixOfAppend

\* No call, however late, changes a terminal job or an ended attempt, and
\* attempts and revisions are only ever appended.
THEOREM HistoryCorrect == Spec => HistoryIsFinal
<1>1. ASSUME Inv, [Next]_storeVars, NEW j \in Jobs, job[j].status \in Terminal
      PROVE  job'[j] = job[j]
  BY <1>1, JobEdges, TerminalStays
<1>2. ASSUME Inv, [Next]_storeVars, NEW a \in DOMAIN attempts
      PROVE  /\ a \in DOMAIN attempts'
             /\ attempts[a].outcome # "running" => attempts'[a] = attempts[a]
             /\ attempts'[a] = [attempts[a] EXCEPT !.outcome = attempts'[a].outcome]
  <2>1. attempts[a] \in JobAttempt
    BY <1>2, RowTypes DEF Inv, TablesInv
  <2>2. attempts'[a] = attempts[a] \/ EndedAttempt(attempts[a], attempts'[a])
    BY <1>2, AttemptEdges
  <2> QED
    BY <1>2, <2>1, <2>2, AttemptEdges DEF EndedAttempt, JobAttempt
<1>3. Inv /\ [Next]_storeVars =>
        [ /\ \A j \in Jobs : job[j].status \in Terminal => job'[j] = job[j]
          /\ \A a \in DOMAIN attempts :
               /\ a \in DOMAIN attempts'
               /\ attempts[a].outcome # "running" => attempts'[a] = attempts[a]
               /\ attempts'[a] = [attempts[a] EXCEPT !.outcome = attempts'[a].outcome]
          /\ \A j \in Jobs : IsPrefix(revisions[j], revisions'[j])
        ]_storeVars
  BY <1>1, <1>2, RevisionsGrow
<1> QED
  BY InvHolds, <1>3, PTL DEF Spec, HistoryIsFinal

-----------------------------------------------------------------------------
(* Takeovers. *)

\* A running job passes to another attempt only after its lease has lapsed at
\* the claimer's instant, with the lapsed attempt recorded in the same call.
THEOREM TakeoverCorrect == Spec => TakeoverOnlyAfterLapse
<1>1. ASSUME Inv, [Next]_storeVars, NEW j \in Jobs,
             job[j].status = "running", job'[j].status = "running",
             job'[j].attempts_made # job[j].attempts_made
      PROVE  /\ job'[j].lease_expires_at > job[j].lease_expires_at
             /\ \E a \in DOMAIN attempts :
                  /\ attempts[a].job = j
                  /\ attempts[a].outcome = "running"
                  /\ attempts'[a].outcome = "expired"
  <2>0. /\ TablesInv(job, attempts) /\ TablesOK(job, attempts)
        /\ job[j] \in InvestigationJob
        /\ job[j].lease_expires_at \in Int
    BY <1>1 DEF Inv, TablesInv, TablesOK, LeaseFollowsAttempt, InvestigationJob
  <2>1. Edge(job[j], job'[j])
    BY <1>1, JobEdges
  <2>2. TakenOver(job[j], job'[j])
    BY <1>1, <2>0, <2>1 DEF Edge, Move, Submitted, Extended, Ended, Withdrawn,
       Leased, FinishTransition, InvestigationJob
  <2>3. job'[j].lease_expires_at > job[j].lease_expires_at
    <3>1. PICK w \in Workers, lease \in Leases, t \in Instants :
            /\ job[j].lease_expires_at <= t
            /\ job'[j] = ClaimTransition(FinishTransition(job[j], "expired", TRUE), w, lease, t)
      BY <2>2 DEF TakenOver
    <3>2. job'[j].lease_expires_at = t + lease
      BY <2>0, <3>1 DEF ClaimTransition, FinishTransition, InvestigationJob
    <3>3. t \in Int /\ lease \in Nat \ {0}
      BY DEF StoreAssumption
    <3>4. job[j].lease_expires_at <= t
      BY <3>1
    <3>5. \A x, y \in Int, n \in Nat \ {0} : x <= y => y + n > x
      OBVIOUS
    <3> QED
      BY <2>0, <3>2, <3>3, <3>4, <3>5
  <2>4. PICK a \in DOMAIN attempts : attempts[a].job = j /\ attempts[a].outcome = "running"
    BY <1>1, <2>0, RunningJobHasAttempt
  <2>5. attempts'[a].outcome = "expired"
    <3>1. Claim
      <4>1. CASE Enqueue
        BY <1>1, <2>0, <4>1 DEF Enqueue, EnqueueJob, TablesOK
      <4>2. CASE ClaimFindsNothing \/ Expire
        <5>1. PICK t \in Instants : job' = JobsExpired(job, t)
          BY <4>2 DEF ClaimFindsNothing, ClaimNothing, Expire, ExpireLeases
        <5>2. job'[j] = job[j] \/ job'[j] = FinishTransition(job[j], "expired", TRUE)
          BY <5>1, ExpiryEdge
        <5> QED
          BY <1>1, <2>0, <5>2 DEF FinishTransition, InvestigationJob
      <4>3. CASE Beat
        BY <1>1, <2>0, <4>3 DEF Beat, Heartbeat, TablesOK, InvestigationJob
      <4>4. CASE Finish
        <5>1. PICK b \in DOMAIN attempts, w \in Workers, outcome \in Reported,
                   retryable \in BOOLEAN, t \in Instants :
                FinishAttempt(b, w, outcome, retryable, t)
          BY <4>4 DEF Finish
        <5>2. job' = JobsEnded(job, {attempts[b].job}, outcome, retryable)
          BY <1>1, <5>1, FinishIsEnding
        <5> QED
          BY <1>1, <2>0, <5>2 DEF JobsEnded, FinishTransition, InvestigationJob
      <4>5. CASE Cancel
        BY <1>1, <2>0, <4>5 DEF Cancel, CancelJob, FinishTransition, TablesOK, InvestigationJob
      <4>6. CASE AddRevision \/ UNCHANGED storeVars
        BY <1>1, <4>6 DEF AddRevision, AddReportRevision, storeVars
      <4> QED
        BY <1>1, <4>1, <4>2, <4>3, <4>4, <4>5, <4>6 DEF Next
    <3>2. PICK w \in Workers, lease \in Leases, t \in Instants : ClaimOldest(w, lease, t)
      BY <3>1 DEF Claim
    <3> DEFINE jobs == JobsExpired(job, t)
               atts == AttemptsExpired(job, attempts, t)
    <3>3. PICK i \in Waiting(jobs) :
            /\ job' = JobsClaimed(jobs, line[i], w, lease, t)
            /\ attempts' = AttemptsClaimed(jobs, atts, line[i], w)
      BY <3>2 DEF ClaimOldest
    <3>4. j \in Lapsed(job, t)
      <4> SUFFICES ASSUME j \notin Lapsed(job, t) PROVE FALSE
        OBVIOUS
      <4>1. jobs[j] = job[j] /\ DOMAIN jobs = Jobs
        BY DEF JobsExpired
      <4>2. jobs[line[i]].status = "queued"
        BY <3>3 DEF Waiting
      <4>3. line[i] # j
        BY <1>1, <4>1, <4>2
      <4>4. job'[j] = job[j]
        BY <3>3, <4>1, <4>3 DEF JobsClaimed
      <4> QED
        BY <1>1, <4>4
    <3>5. atts[a].outcome = "expired" /\ DOMAIN atts = DOMAIN attempts
      <4>1. IsRunningAttempt(attempts, a) /\ attempts[a] \in JobAttempt
        BY <2>0, <2>4, RunningAttemptFound, RowTypes
      <4> QED
        BY <2>4, <3>4, <4>1 DEF AttemptsExpired, EndAttempts, JobAttempt
    <3>6. atts \in Seq(JobAttempt)
      BY <2>0, ExpiryKeepsTables DEF TablesInv, TablesOK
    <3> HIDE DEF jobs, atts
    <3> QED
      BY <3>3, <3>5, <3>6 DEF AttemptsClaimed
  <2> QED
    BY <2>3, <2>4, <2>5
<1>2. Inv /\ [Next]_storeVars =>
        [ \A j \in Jobs :
            /\ job[j].status = "running"
            /\ job'[j].status = "running"
            /\ job'[j].attempts_made # job[j].attempts_made
            => /\ job'[j].lease_expires_at > job[j].lease_expires_at
               /\ \E a \in DOMAIN attempts :
                    /\ attempts[a].job = j
                    /\ attempts[a].outcome = "running"
                    /\ attempts'[a].outcome = "expired"
        ]_storeVars
  BY <1>1
<1> QED
  BY InvHolds, <1>2, PTL DEF Spec, TakeoverOnlyAfterLapse

-----------------------------------------------------------------------------
(* The store implements the lifecycle. *)

LEMMA EdgeIsLifecycleEdge ==
  ASSUME Inv, [Next]_storeVars, NEW j \in Jobs
  PROVE  \/ Lifecycle!Stay(j)
         \/ Lifecycle!Submit(j)
         \/ Lifecycle!Claim(j)
         \/ Lifecycle!Requeue(j)
         \/ Lifecycle!End(j)
<1> DEFINE old == job[j]
           new == job'[j]
<1>0. /\ TablesInv(job, attempts)
      /\ old \in InvestigationJob
      /\ old.status = "running" => old.attempts_made > 0
      /\ old.attempts_made <= old.max_attempts
      /\ old.status = "queued" => Remaining(old)
  BY DEF Inv, TablesInv, TablesOK, AllowanceKept
<1>1. Edge(old, new)
  BY JobEdges
<1> DEFINE goal == \/ Lifecycle!Stay(j) \/ Lifecycle!Submit(j) \/ Lifecycle!Claim(j)
                   \/ Lifecycle!Requeue(j) \/ Lifecycle!End(j)
<1>2. CASE new = old
  BY <1>2 DEF Lifecycle!Stay
<1>3. CASE Submitted(old, new)
  BY <1>3 DEF Submitted, FreshJob, Lifecycle!Submit
<1>4. CASE Extended(old, new)
  BY <1>0, <1>4 DEF Extended, InvestigationJob, Lifecycle!Stay
<1>5. CASE Ended(old, new)
  <2>1. /\ new.attempts_made = old.attempts_made
        /\ new.max_attempts = old.max_attempts
        /\ new.lease_owner = None
        /\ new.status \in Terminal \cup {"queued"}
        /\ new.status = "queued" => Remaining(old)
        /\ old.status = "running"
    BY <1>0, <1>5, FinishedRecord DEF Ended
  <2> QED
    BY <2>1 DEF Lifecycle!Requeue, Lifecycle!End, Remaining, Terminal, Lifecycle!Terminal
<1>6. CASE Withdrawn(old, new)
  BY <1>0, <1>6 DEF Withdrawn, FinishTransition, StatusAfter, InvestigationJob,
     Lifecycle!End
<1>7. CASE Leased(old, new)
  BY <1>0, <1>7 DEF Leased, ClaimTransition, InvestigationJob, Remaining, Lifecycle!Claim
<1>8. CASE TakenOver(old, new)
  <2> DEFINE mid == FinishTransition(old, "expired", TRUE)
  <2>1. PICK w \in Workers, lease \in Leases, t \in Instants :
          /\ old.status = "running"
          /\ mid.status = "queued"
          /\ new = ClaimTransition(mid, w, lease, t)
    BY <1>8 DEF TakenOver
  <2>2. /\ mid \in InvestigationJob
        /\ mid.attempts_made = old.attempts_made
        /\ mid.max_attempts = old.max_attempts
        /\ Remaining(old)
    BY <1>0, <2>1, FinishedRecord DEF AttemptOutcome
  <2> HIDE DEF mid
  <2>3. /\ new.status = "running"
        /\ new.attempts_made = old.attempts_made + 1
        /\ new.max_attempts = old.max_attempts
        /\ new.lease_owner = w
    BY <2>1, <2>2 DEF ClaimTransition, InvestigationJob
  <2> QED
    BY <2>1, <2>2, <2>3 DEF Remaining, Lifecycle!Claim
<1> QED
  BY <1>1, <1>2, <1>3, <1>4, <1>5, <1>6, <1>7, <1>8 DEF Edge, Move

\* Every behaviour of the store, seen through status, number of tries,
\* allowance and lease owner, is a behaviour of JobLifecycle.
THEOREM LifecycleCorrect == Spec => ImplementsLifecycle
<1>1. Init => Lifecycle!Init
  BY DEF Init, NoJob, Lifecycle!Init
<1>2. Inv /\ [Next]_storeVars => [Lifecycle!Next]_Lifecycle!lifeVars
  BY EdgeIsLifecycleEdge DEF Lifecycle!Next
<1> QED
  BY InvHolds, <1>1, <1>2, PTL DEF Spec, Lifecycle!Spec, ImplementsLifecycle

-----------------------------------------------------------------------------
(* Reports and attempts. *)

Result(outcome) == outcome \in {"complete", "incomplete"}

\* Outside finish_attempt no attempt gets a result, and add_report_revision
\* alone touches the revisions.
LEMMA ResultsOnlyByFinish ==
  ASSUME Inv, [Next]_storeVars, ~Finish, NEW a \in DOMAIN attempts', Result(attempts'[a].outcome)
  PROVE  a \in DOMAIN attempts /\ attempts'[a] = attempts[a]
<1>0. TablesInv(job, attempts) /\ TablesOK(job, attempts)
  BY DEF Inv, TablesInv
<1>1. ASSUME NEW ended, NEW outcome \in {"expired", "cancelled"},
             NEW b \in DOMAIN attempts,
             Result(EndAttempts(attempts, ended, outcome)[b].outcome)
      PROVE  EndAttempts(attempts, ended, outcome)[b] = attempts[b]
  <2>1. attempts[b] \in JobAttempt
    BY <1>0, RowTypes
  <2> QED
    BY <1>1, <2>1 DEF EndAttempts, Result, JobAttempt
<1>2. CASE Claim
  <2>1. PICK w \in Workers, lease \in Leases, t \in Instants : ClaimOldest(w, lease, t)
    BY <1>2 DEF Claim
  <2> DEFINE jobs == JobsExpired(job, t)
             atts == AttemptsExpired(job, attempts, t)
  <2>2. PICK i \in Waiting(jobs) : attempts' = AttemptsClaimed(jobs, atts, line[i], w)
    BY <2>1 DEF ClaimOldest
  <2>3. TablesInv(jobs, atts) /\ DOMAIN atts = DOMAIN attempts
    BY <1>0, ExpiryKeepsTables DEF AttemptsExpired, EndAttempts
  <2>4. atts \in Seq(JobAttempt)
    BY <2>3 DEF TablesInv, TablesOK
  <2>5. ASSUME a \in DOMAIN atts, Result(atts[a].outcome)
        PROVE  atts[a] = attempts[a]
    BY <1>1, <2>3, <2>5 DEF AttemptsExpired
  <2> HIDE DEF jobs, atts
  <2>6. a \in DOMAIN atts /\ attempts'[a] = atts[a]
    BY <2>2, <2>4 DEF AttemptsClaimed, Result
  <2> QED
    BY <2>3, <2>5, <2>6
<1>3. CASE ClaimFindsNothing \/ Expire
  <2>1. PICK t \in Instants : attempts' = EndAttempts(attempts, Lapsed(job, t), "expired")
    BY <1>3 DEF ClaimFindsNothing, ClaimNothing, Expire, ExpireLeases, AttemptsExpired
  <2>2. a \in DOMAIN attempts
    BY <2>1 DEF EndAttempts
  <2> QED
    BY <1>1, <2>1, <2>2
<1>4. CASE Cancel
  <2>1. PICK j \in Jobs : attempts' = EndAttempts(attempts, {j}, "cancelled")
    BY <1>4 DEF Cancel, CancelJob
  <2>2. a \in DOMAIN attempts
    BY <2>1 DEF EndAttempts
  <2> QED
    BY <1>1, <2>1, <2>2
<1>5. CASE Enqueue \/ Beat \/ AddRevision \/ UNCHANGED storeVars
  BY <1>5 DEF Enqueue, EnqueueJob, Beat, Heartbeat, AddRevision, AddReportRevision, storeVars
<1> QED
  BY <1>2, <1>3, <1>4, <1>5 DEF Next

\* What appending one numbered revision of attempt `a' to job `j' does.
Published(revs, new, j, a) ==
  new = [revs EXCEPT ![j] = Append(@, [attempt |-> a, revision |-> Len(@) + 1])]

\* Row by row: the old rows stay, and the new one carries its own number.
OneRowMore(revs, new, j, a) ==
  /\ \A k \in Jobs : \A i \in DOMAIN new[k] :
       \/ i \in DOMAIN revs[k] /\ new[k][i] = revs[k][i]
       \/ k = j /\ new[k][i] = [attempt |-> a, revision |-> i]
  /\ \A k \in Jobs : \A i \in DOMAIN revs[k] :
       i \in DOMAIN new[k] /\ new[k][i] = revs[k][i]
  /\ \E i \in DOMAIN new[j] : new[j][i].attempt = a

LEMMA PublishedRows ==
  ASSUME NEW revs \in [Jobs -> Seq(ReportRevision)], NEW new,
         NEW j \in Jobs, NEW a, Published(revs, new, j, a)
  PROVE  OneRowMore(revs, new, j, a)
<1>1. \A k \in Jobs : revs[k] \in Seq(ReportRevision)
  OBVIOUS
<1>2. \A k \in Jobs : k # j => new[k] = revs[k]
  BY DEF Published
<1>3. new[j] = Append(revs[j], [attempt |-> a, revision |-> Len(revs[j]) + 1])
  BY DEF Published
<1>4. /\ DOMAIN new[j] = 1 .. Len(revs[j]) + 1
      /\ DOMAIN revs[j] = 1 .. Len(revs[j])
      /\ Len(revs[j]) \in Nat
      /\ \A i \in DOMAIN revs[j] : new[j][i] = revs[j][i]
      /\ new[j][Len(revs[j]) + 1] = [attempt |-> a, revision |-> Len(revs[j]) + 1]
  BY <1>1, <1>3
<1>5. ASSUME NEW k \in Jobs, NEW i \in DOMAIN new[k]
      PROVE  \/ i \in DOMAIN revs[k] /\ new[k][i] = revs[k][i]
             \/ k = j /\ new[k][i] = [attempt |-> a, revision |-> i]
  <2>1. CASE k # j
    BY <1>2, <1>5, <2>1
  <2>2. CASE k = j
    <3>1. i \in 1 .. Len(revs[j]) \/ i = Len(revs[j]) + 1
      BY <1>4, <1>5, <2>2
    <3> QED
      BY <1>4, <2>2, <3>1
  <2> QED
    BY <2>1, <2>2
<1>6. ASSUME NEW k \in Jobs, NEW i \in DOMAIN revs[k]
      PROVE  i \in DOMAIN new[k] /\ new[k][i] = revs[k][i]
  <2>1. CASE k # j
    BY <1>2, <1>6, <2>1
  <2>2. CASE k = j
    BY <1>4, <1>6, <2>2
  <2> QED
    BY <2>1, <2>2
<1>7. \E i \in DOMAIN new[j] : new[j][i].attempt = a
  <2>1. Len(revs[j]) + 1 \in DOMAIN new[j]
    BY <1>4
  <2> QED
    BY <1>4, <2>1
<1> QED
  BY <1>5, <1>6, <1>7 DEF OneRowMore

\* Without a new revision: nothing got a result.
LEMMA ReportsKept ==
  ASSUME ReportsMatchAttempts, revisions' = revisions,
         \A a \in DOMAIN attempts :
           a \in DOMAIN attempts' /\ attempts'[a].job = attempts[a].job,
         \A a \in DOMAIN attempts' : Result(attempts'[a].outcome) =>
           a \in DOMAIN attempts /\ attempts'[a] = attempts[a]
  PROVE  ReportsMatchAttempts'
<1>1. ASSUME NEW a \in DOMAIN attempts', Result(attempts'[a].outcome)
      PROVE  \E i \in DOMAIN revisions'[attempts'[a].job] :
               revisions'[attempts'[a].job][i].attempt = a
  BY <1>1 DEF ReportsMatchAttempts, Result
<1>2. \A j \in Jobs : \A i \in DOMAIN revisions'[j] :
        /\ revisions'[j][i].revision = i
        /\ revisions'[j][i].attempt \in DOMAIN attempts'
        /\ attempts'[revisions'[j][i].attempt].job = j
  BY DEF ReportsMatchAttempts
<1> QED
  BY <1>1, <1>2 DEF ReportsMatchAttempts, Result

\* With one: only the attempt it belongs to may have got a result.
LEMMA ReportAdded ==
  ASSUME ReportsMatchAttempts, revisions \in [Jobs -> Seq(ReportRevision)],
         \A a \in DOMAIN attempts : /\ a \in DOMAIN attempts'
                                    /\ attempts[a].job \in Jobs
                                    /\ attempts'[a].job = attempts[a].job,
         NEW j \in Jobs, NEW b \in DOMAIN attempts, attempts[b].job = j,
         Published(revisions, revisions', j, b),
         \A a \in DOMAIN attempts' : Result(attempts'[a].outcome) =>
           a = b \/ (a \in DOMAIN attempts /\ Result(attempts[a].outcome))
  PROVE  ReportsMatchAttempts'
<1>1. OneRowMore(revisions, revisions', j, b)
  BY PublishedRows
<1>2. ASSUME NEW k \in Jobs, NEW i \in DOMAIN revisions'[k]
      PROVE  /\ revisions'[k][i].revision = i
             /\ revisions'[k][i].attempt \in DOMAIN attempts'
             /\ attempts'[revisions'[k][i].attempt].job = k
  <2>1. CASE i \in DOMAIN revisions[k] /\ revisions'[k][i] = revisions[k][i]
    BY <2>1 DEF ReportsMatchAttempts
  <2>2. CASE k = j /\ revisions'[k][i] = [attempt |-> b, revision |-> i]
    BY <2>2
  <2> QED
    BY <1>1, <1>2, <2>1, <2>2 DEF OneRowMore
<1>3. ASSUME NEW a \in DOMAIN attempts', Result(attempts'[a].outcome)
      PROVE  \E i \in DOMAIN revisions'[attempts'[a].job] :
               revisions'[attempts'[a].job][i].attempt = a
  <2>1. CASE a = b
    BY <1>1, <2>1 DEF OneRowMore
  <2>2. CASE a \in DOMAIN attempts /\ Result(attempts[a].outcome)
    <3>1. PICK i \in DOMAIN revisions[attempts[a].job] :
            revisions[attempts[a].job][i].attempt = a
      BY <2>2 DEF ReportsMatchAttempts, Result
    <3>2. attempts[a].job \in Jobs /\ attempts'[a].job = attempts[a].job
      BY <2>2
    <3>3. /\ i \in DOMAIN revisions'[attempts[a].job]
          /\ revisions'[attempts[a].job][i] = revisions[attempts[a].job][i]
      BY <1>1, <3>1, <3>2 DEF OneRowMore
    <3> QED
      BY <3>1, <3>2, <3>3
  <2> QED
    BY <1>3, <2>1, <2>2
<1> QED
  BY <1>2, <1>3 DEF ReportsMatchAttempts, Result

LEMMA NextReports ==
  Inv /\ ReportsMatchAttempts /\ [Next]_storeVars => ReportsMatchAttempts'
<1> SUFFICES ASSUME Inv, ReportsMatchAttempts, [Next]_storeVars
             PROVE  ReportsMatchAttempts'
  OBVIOUS
<1>0. /\ TablesInv(job, attempts) /\ TablesOK(job, attempts)
      /\ revisions \in [Jobs -> Seq(ReportRevision)]
  BY DEF Inv, TablesInv
<1>1. \A a \in DOMAIN attempts :
        /\ a \in DOMAIN attempts'
        /\ attempts[a].job \in Jobs
        /\ attempts'[a].job = attempts[a].job
  <2> TAKE a \in DOMAIN attempts
  <2>1. attempts[a] \in JobAttempt /\ attempts[a].job \in Jobs
    BY <1>0, RowTypes
  <2>2. a \in DOMAIN attempts'
    BY AttemptEdges
  <2>3. attempts'[a] = attempts[a] \/ EndedAttempt(attempts[a], attempts'[a])
    BY AttemptEdges
  <2>4. attempts'[a].job = attempts[a].job
    BY <2>1, <2>3 DEF EndedAttempt, JobAttempt
  <2> QED
    BY <2>1, <2>2, <2>4
<1>2. CASE revisions' = revisions /\ ~Finish
  <2>1. \A a \in DOMAIN attempts' : Result(attempts'[a].outcome) =>
          a \in DOMAIN attempts /\ attempts'[a] = attempts[a]
    BY <1>2, ResultsOnlyByFinish
  <2> QED
    BY <1>1, <1>2, <2>1, ReportsKept
<1>4. CASE Finish
  <2>1. PICK b \in DOMAIN attempts, w \in Workers, outcome \in Reported,
             retryable \in BOOLEAN, t \in Instants :
          FinishAttempt(b, w, outcome, retryable, t)
    BY <1>4 DEF Finish
  <2> DEFINE j == attempts[b].job
  <2>2. j \in Jobs
    BY <1>1
  <2>3. /\ DOMAIN attempts' = DOMAIN attempts
        /\ \A a \in DOMAIN attempts : a # b => attempts'[a] = attempts[a]
        /\ attempts'[b].outcome = outcome
    BY <1>0, <2>1, RowTypes DEF FinishAttempt, JobAttempt, TablesOK
  <2>4. CASE outcome = "failed"
    <3>1. revisions' = revisions
      BY <2>1, <2>4 DEF FinishAttempt
    <3>2. \A a \in DOMAIN attempts' : Result(attempts'[a].outcome) => attempts'[a] = attempts[a]
      BY <2>3, <2>4 DEF Result
    <3> QED
      BY <1>1, <2>3, <3>1, <3>2 DEF ReportsMatchAttempts, Result
  <2>5. CASE outcome # "failed"
    <3>1. Published(revisions, revisions', j, b)
      BY <2>1, <2>5 DEF FinishAttempt, Published
    <3>2. \A a \in DOMAIN attempts' : Result(attempts'[a].outcome) =>
            a = b \/ (a \in DOMAIN attempts /\ Result(attempts[a].outcome))
      BY <2>3
    <3> QED
      BY <1>0, <1>1, <2>2, <3>1, <3>2, ReportAdded
  <2> QED
    BY <2>4, <2>5
<1>5. CASE AddRevision
  <2>1. PICK j \in Jobs, b \in DOMAIN attempts : AddReportRevision(j, b)
    BY <1>5 DEF AddRevision
  <2>2. attempts' = attempts /\ attempts[b].job = j /\ Published(revisions, revisions', j, b)
    BY <2>1 DEF AddReportRevision, Published
  <2> QED
    BY <1>0, <1>1, <2>2, ReportAdded
<1>6. CASE ~Finish /\ ~AddRevision
  <2>1. revisions' = revisions
    BY <1>6 DEF Next, Enqueue, EnqueueJob, Claim, ClaimOldest, ClaimFindsNothing,
       ClaimNothing, Expire, ExpireLeases, Beat, Heartbeat, Cancel, CancelJob, storeVars
  <2> QED
    BY <1>2, <1>6, <2>1
<1> QED
  BY <1>4, <1>5, <1>6

\* A finished attempt has its report and a report has its attempt, in every
\* state between any two calls.
THEOREM ReportsCorrect == Spec => []ReportsMatchAttempts
<1>1. Init => ReportsMatchAttempts
  BY DEF Init, ReportsMatchAttempts
<1> QED
  BY InvHolds, <1>1, NextReports, PTL DEF Spec

=============================================================================
