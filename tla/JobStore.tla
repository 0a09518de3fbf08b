------------------------------ MODULE JobStore ------------------------------
(***************************************************************************)
(* The storage contract of ath.persistence: the job-lifecycle rules of     *)
(* store.py and the operations of InMemoryStore that apply them, each one  *)
(* atomic because the store holds its lock for the whole call.             *)
(*                                                                         *)
(* The store has no clock: every operation is given the instant `t' its    *)
(* caller read, and callers read their clocks before they wait for the     *)
(* lock, so nothing here assumes that successive calls carry increasing    *)
(* instants.  Telemetry and incident registration, audit payloads and      *)
(* record timestamps are left out: no rule reads them.                     *)
(***************************************************************************)
EXTENDS Integers, Sequences, SequencesExt

CONSTANTS
  Jobs,           \* job ids, each submitted at most once
  Workers,        \* worker ids
  Instants,       \* the instants a caller may pass as `now'
  Leases,         \* the lease lengths workers are configured with
  MaxAttempts,    \* the retry allowances jobs are submitted with
  MaxRevisions,   \* bound: add_report_revision is not called beyond it
  None            \* Python's None

ASSUME StoreAssumption ==
  /\ Instants \subseteq Int
  /\ Leases \subseteq Nat \ {0}
  /\ MaxAttempts \subseteq Nat \ {0}
  /\ MaxRevisions \in Nat
  /\ None \notin Workers
  /\ None \notin Int

VARIABLES
  line,        \* submitted jobs, oldest first: created_at, then arrival
  job,         \* the InvestigationJob rows
  attempts,    \* the JobAttempt rows, in the order they were started
  revisions    \* the ReportRevision rows of each job

storeVars == <<line, job, attempts, revisions>>

-----------------------------------------------------------------------------
(* Records. *)

Terminal == {"complete", "incomplete", "failed", "cancelled"}

JobStatus == Terminal \cup {"queued", "running"}

\* What a finished execution reports; `expired' and `cancelled' are recorded
\* by the store itself.
Reported == {"complete", "incomplete", "failed"}

AttemptOutcome == Reported \cup {"running", "expired", "cancelled"}

InvestigationJob ==
  [status : JobStatus \cup {"absent"},
   attempts_made : Nat,
   max_attempts : Nat \ {0},
   retry_incomplete : BOOLEAN,
   lease_owner : Workers \cup {None},
   lease_expires_at : Int \cup {None}]

JobAttempt ==
  [job : Jobs, number : Nat \ {0}, worker : Workers, outcome : AttemptOutcome]

ReportRevision == [attempt : Nat \ {0}, revision : Nat \ {0}]

NoJob ==
  [status |-> "absent", attempts_made |-> 0, max_attempts |-> 1,
   retry_incomplete |-> FALSE, lease_owner |-> None, lease_expires_at |-> None]

FreshJob(max, retryIncomplete) ==
  [status |-> "queued", attempts_made |-> 0, max_attempts |-> max,
   retry_incomplete |-> retryIncomplete,
   lease_owner |-> None, lease_expires_at |-> None]

-----------------------------------------------------------------------------
(* The pure lifecycle rules of store.py, on one job record. *)

ClaimTransition(rec, w, lease, t) ==
  [rec EXCEPT !.status = "running",
              !.attempts_made = @ + 1,
              !.lease_owner = w,
              !.lease_expires_at = t + lease]

\* Slip: the attempt just made is not counted.
RemainingOffByOne(rec) == rec.attempts_made <= rec.max_attempts

Remaining(rec) == rec.attempts_made < rec.max_attempts

StatusAfter(rec, outcome, retryable) ==
  CASE outcome = "complete"   -> "complete"
    [] outcome = "cancelled"  -> "cancelled"
    [] outcome = "incomplete" ->
         IF rec.retry_incomplete /\ Remaining(rec) THEN "queued" ELSE "incomplete"
    [] outcome = "failed"     ->
         IF Remaining(rec) /\ retryable THEN "queued" ELSE "failed"
    [] outcome = "expired"    ->
         IF Remaining(rec) THEN "queued" ELSE "failed"

\* Slip: the ended attempt's worker stays on the job.
FinishTransitionKeepsOwner(rec, outcome, retryable) ==
  [rec EXCEPT !.status = StatusAfter(rec, outcome, retryable),
              !.lease_expires_at = None]

FinishTransition(rec, outcome, retryable) ==
  [rec EXCEPT !.status = StatusAfter(rec, outcome, retryable),
              !.lease_owner = None,
              !.lease_expires_at = None]

\* Slip: only the job is asked whether it runs, not the attempt.
LeaseIsValidForJob(a, w, t) ==
  LET rec == job[attempts[a].job]
  IN  /\ rec.status = "running"
      /\ rec.lease_owner = w
      /\ attempts[a].worker = w
      /\ rec.lease_expires_at > t


LeaseIsValid(a, w, t) ==
  LET rec == job[attempts[a].job]
  IN  /\ rec.status = "running"
      /\ attempts[a].outcome = "running"
      /\ rec.lease_owner = w
      /\ attempts[a].worker = w
      /\ rec.lease_expires_at # None
      /\ rec.lease_expires_at > t

-----------------------------------------------------------------------------
(* What a call makes of the tables; claim_job composes two of these. *)

\* The attempt _running_attempt finds: the first unfinished one of its job.
IsRunningAttempt(atts, a) ==
  /\ atts[a].outcome = "running"
  /\ \A b \in DOMAIN atts :
       atts[b].job = atts[a].job /\ atts[b].outcome = "running" => a <= b

EndAttempts(atts, ended, outcome) ==
  [a \in DOMAIN atts |->
     IF atts[a].job \in ended /\ IsRunningAttempt(atts, a)
     THEN [atts[a] EXCEPT !.outcome = outcome]
     ELSE atts[a]]

\* Slip: a lease counts as lapsed one instant early.
LapsedEarly(jobs, t) ==
  {j \in Jobs : jobs[j].status = "running" /\ jobs[j].lease_expires_at <= t + 1}


Lapsed(jobs, t) ==
  {j \in Jobs : /\ jobs[j].status = "running"
                /\ jobs[j].lease_expires_at # None
                /\ jobs[j].lease_expires_at <= t}

JobsExpired(jobs, t) ==
  [j \in Jobs |-> IF j \in Lapsed(jobs, t)
                  THEN FinishTransition(jobs[j], "expired", TRUE)
                  ELSE jobs[j]]

AttemptsExpired(jobs, atts, t) == EndAttempts(atts, Lapsed(jobs, t), "expired")

JobsClaimed(jobs, j, w, lease, t) ==
  [jobs EXCEPT ![j] = ClaimTransition(@, w, lease, t)]

\* Slip: attempts are numbered across jobs.
AttemptsClaimedGlobally(jobs, atts, j, w) ==
  Append(atts, [job |-> j, number |-> Len(atts) + 1,
                worker |-> w, outcome |-> "running"])


AttemptsClaimed(jobs, atts, j, w) ==
  Append(atts, [job |-> j, number |-> jobs[j].attempts_made + 1,
                worker |-> w, outcome |-> "running"])

\* list_jobs(QUEUED): the places in line of the jobs waiting for a worker.
Waiting(jobs) == {i \in DOMAIN line : jobs[line[i]].status = "queued"}

-----------------------------------------------------------------------------
(* Operations. *)

Init ==
  /\ line = <<>>
  /\ job = [j \in Jobs |-> NoJob]
  /\ attempts = <<>>
  /\ revisions = [j \in Jobs |-> <<>>]

\* created_at is stamped before the store sees the job, so a submitter that
\* was held up can enqueue behind the clock of jobs that arrived first.
EnqueueJob(j, place, max, retryIncomplete) ==
  /\ job[j].status = "absent"
  /\ line' = InsertAt(line, place, j)
  /\ job' = [job EXCEPT ![j] = FreshJob(max, retryIncomplete)]
  /\ UNCHANGED <<attempts, revisions>>

ExpireLeases(t) ==
  /\ job' = JobsExpired(job, t)
  /\ attempts' = AttemptsExpired(job, attempts, t)
  /\ UNCHANGED <<line, revisions>>

\* claim_job first expires, then leases the oldest queued job.
ClaimOldest(w, lease, t) ==
  LET jobs == JobsExpired(job, t)
      atts == AttemptsExpired(job, attempts, t)
  IN  \E i \in Waiting(jobs) :
        /\ \A k \in Waiting(jobs) : i <= k
        /\ job' = JobsClaimed(jobs, line[i], w, lease, t)
        /\ attempts' = AttemptsClaimed(jobs, atts, line[i], w)
        /\ UNCHANGED <<line, revisions>>

\* claim_job with nothing queued returns None, having expired what lapsed.
ClaimNothing(t) ==
  /\ Waiting(JobsExpired(job, t)) = {}
  /\ ExpireLeases(t)

Heartbeat(a, w, lease, t) ==
  /\ LeaseIsValid(a, w, t)
  /\ job' = [job EXCEPT ![attempts[a].job].lease_expires_at = t + lease]
  /\ UNCHANGED <<line, attempts, revisions>>

\* Slip: a report is kept for complete attempts only.
FinishAttemptDropsReport(a, w, outcome, retryable, t) ==
  LET j == attempts[a].job
  IN  /\ LeaseIsValid(a, w, t)
      /\ job' = [job EXCEPT ![j] = FinishTransition(@, outcome, retryable)]
      /\ attempts' = [attempts EXCEPT ![a].outcome = outcome]
      /\ revisions' =
           IF outcome # "complete" THEN revisions
           ELSE [revisions EXCEPT ![j] =
                   Append(@, [attempt |-> a, revision |-> Len(@) + 1])]
      /\ UNCHANGED line

\* A report is passed exactly when the execution reached a result.
FinishAttempt(a, w, outcome, retryable, t) ==
  LET j == attempts[a].job
  IN  /\ LeaseIsValid(a, w, t)
      /\ job' = [job EXCEPT ![j] = FinishTransition(@, outcome, retryable)]
      /\ attempts' = [attempts EXCEPT ![a].outcome = outcome]
      /\ revisions' =
           IF outcome = "failed" THEN revisions
           ELSE [revisions EXCEPT ![j] =
                   Append(@, [attempt |-> a, revision |-> Len(@) + 1])]
      /\ UNCHANGED line

\* Slip: the running attempt of a cancelled job is left open.
CancelJobOnly(j) ==
  /\ job[j].status \in {"queued", "running"}
  /\ job' = [job EXCEPT ![j] = FinishTransition(@, "cancelled", FALSE)]
  /\ UNCHANGED <<line, attempts, revisions>>


CancelJob(j) ==
  /\ job[j].status \in {"queued", "running"}
  /\ job' = [job EXCEPT ![j] = FinishTransition(@, "cancelled", FALSE)]
  /\ attempts' = EndAttempts(attempts, {j}, "cancelled")
  /\ UNCHANGED <<line, revisions>>

\* Slip: revisions are numbered from zero.
AddReportRevisionFromZero(j, a) ==
  /\ job[j].status # "absent"
  /\ attempts[a].job = j
  /\ Len(revisions[j]) < MaxRevisions
  /\ revisions' = [revisions EXCEPT ![j] =
                     Append(@, [attempt |-> a, revision |-> Len(@)])]
  /\ UNCHANGED <<line, job, attempts>>


AddReportRevision(j, a) ==
  /\ job[j].status # "absent"
  /\ attempts[a].job = j
  /\ Len(revisions[j]) < MaxRevisions
  /\ revisions' = [revisions EXCEPT ![j] =
                     Append(@, [attempt |-> a, revision |-> Len(@) + 1])]
  /\ UNCHANGED <<line, job, attempts>>

Enqueue ==
  \E j \in Jobs, place \in 1 .. Len(line) + 1, max \in MaxAttempts, ri \in BOOLEAN :
    EnqueueJob(j, place, max, ri)

Claim ==
  \E w \in Workers, lease \in Leases, t \in Instants : ClaimOldest(w, lease, t)

ClaimFindsNothing == \E t \in Instants : ClaimNothing(t)

Expire == \E t \in Instants : ExpireLeases(t)

Beat ==
  \E a \in DOMAIN attempts, w \in Workers, lease \in Leases, t \in Instants :
    Heartbeat(a, w, lease, t)

Finish ==
  \E a \in DOMAIN attempts, w \in Workers, outcome \in Reported,
     retryable \in BOOLEAN, t \in Instants :
    /\ outcome # "failed" => retryable
    /\ FinishAttempt(a, w, outcome, retryable, t)

Cancel == \E j \in Jobs : CancelJob(j)

AddRevision == \E j \in Jobs, a \in DOMAIN attempts : AddReportRevision(j, a)

Next ==
  \/ Enqueue
  \/ Claim
  \/ ClaimFindsNothing
  \/ Expire
  \/ Beat
  \/ Finish
  \/ Cancel
  \/ AddRevision

Spec == Init /\ [][Next]_storeVars

-----------------------------------------------------------------------------
(* Correctness.  The parts take the two tables as arguments because         *)
(* claim_job passes through an intermediate pair of them.                   *)

TablesOK(jobs, atts) ==
  /\ jobs \in [Jobs -> InvestigationJob]
  /\ atts \in Seq(JobAttempt)

\* The type invariant.
TypeOK ==
  /\ line \in Seq(Jobs)
  /\ TablesOK(job, attempts)
  /\ revisions \in [Jobs -> Seq(ReportRevision)]

\* The attempts of a job are numbered 1 .. attempts_made in the order they
\* were started, whichever worker started them and whatever ended them.
Numbered(jobs, atts) ==
  /\ \A a \in DOMAIN atts : atts[a].number <= jobs[atts[a].job].attempts_made
  /\ \A a, b \in DOMAIN atts :
       a < b /\ atts[a].job = atts[b].job => atts[a].number < atts[b].number
  /\ \A j \in Jobs : \A n \in 1 .. jobs[j].attempts_made :
       \E a \in DOMAIN atts : atts[a].job = j /\ atts[a].number = n

\* Outcomes after which a job may be tried again.
RetryCause(rec) ==
  {"failed", "expired"} \cup (IF rec.retry_incomplete THEN {"incomplete"} ELSE {})

\* What a job's status says of its latest attempt.
Explains(rec, outcome) ==
  CASE rec.status = "running"    -> outcome = "running"
    [] rec.status = "complete"   -> outcome = "complete"
    [] rec.status = "incomplete" ->
         outcome = "incomplete" /\ ~(rec.retry_incomplete /\ Remaining(rec))
    [] rec.status = "failed"     ->
         outcome = "failed" \/ (outcome = "expired" /\ ~Remaining(rec))
    [] rec.status = "queued"     -> outcome \in RetryCause(rec)
    [] rec.status = "cancelled"  -> outcome \in RetryCause(rec) \cup {"cancelled"}
    [] OTHER                     -> FALSE

\* A job's status is earned by its latest attempt, and every earlier attempt
\* ended in a way that allowed another: no attempt is left running behind a
\* later one, nothing follows a complete one, and an incomplete one is
\* superseded only when the job opted in.
StatusExplained(jobs, atts) ==
  \A a \in DOMAIN atts :
    LET rec == jobs[atts[a].job]
    IN  IF atts[a].number = rec.attempts_made
        THEN Explains(rec, atts[a].outcome)
        ELSE atts[a].outcome \in RetryCause(rec)

\* The lease is held exactly while a job runs, and by the worker of its
\* latest attempt: no other worker can believe the store gave it the job.
LeaseFollowsAttempt(jobs, atts) ==
  /\ \A j \in Jobs :
       IF jobs[j].status = "running"
       THEN jobs[j].lease_owner # None /\ jobs[j].lease_expires_at # None
       ELSE jobs[j].lease_owner = None /\ jobs[j].lease_expires_at = None
  /\ \A a \in DOMAIN atts :
       atts[a].outcome = "running" => jobs[atts[a].job].lease_owner = atts[a].worker

\* claim_transition never checks the allowance: it relies on every path back
\* to the queue having done so.  A queued job can always still be claimed
\* within its allowance, and no status but cancelled is reached untried.
AllowanceKept(jobs) ==
  \A j \in Jobs :
    LET rec == jobs[j]
    IN  /\ rec.attempts_made <= rec.max_attempts
        /\ rec.status = "queued" => Remaining(rec)
        /\ rec.status \in {"absent"} => rec.attempts_made = 0
        /\ rec.status \in {"running", "complete", "incomplete", "failed"} =>
             rec.attempts_made > 0

AttemptsNumbered == Numbered(job, attempts)

StatusEarned == StatusExplained(job, attempts) /\ LeaseFollowsAttempt(job, attempts)

AllowanceRespected == AllowanceKept(job)

\* A finished attempt has its report and a report has its attempt: the
\* revisions of a job are numbered without gaps, belong to its attempts, and
\* every attempt with a result has one (finish_attempt writes both or none).
ReportsMatchAttempts ==
  /\ \A j \in Jobs : \A i \in DOMAIN revisions[j] :
       /\ revisions[j][i].revision = i
       /\ revisions[j][i].attempt \in DOMAIN attempts
       /\ attempts[revisions[j][i].attempt].job = j
  /\ \A a \in DOMAIN attempts : attempts[a].outcome \in {"complete", "incomplete"} =>
       \E i \in DOMAIN revisions[attempts[a].job] :
         revisions[attempts[a].job][i].attempt = a

\* History is never rewritten: a terminal job and an ended attempt stay as
\* they are, whoever arrives late; attempts and revisions are only appended.
HistoryIsFinal ==
  [][ /\ \A j \in Jobs : job[j].status \in Terminal => job'[j] = job[j]
      /\ \A a \in DOMAIN attempts :
           /\ a \in DOMAIN attempts'
           /\ attempts[a].outcome # "running" => attempts'[a] = attempts[a]
           /\ attempts'[a] = [attempts[a] EXCEPT !.outcome = attempts'[a].outcome]
      /\ \A j \in Jobs : IsPrefix(revisions[j], revisions'[j])
    ]_storeVars

\* A lease is taken over only once it has lapsed: a step that hands a running
\* job to another attempt has recorded the previous one as expired, and the
\* new lease ends after the old one did.
TakeoverOnlyAfterLapse ==
  [][ \A j \in Jobs :
        /\ job[j].status = "running"
        /\ job'[j].status = "running"
        /\ job'[j].attempts_made # job[j].attempts_made
        => /\ job'[j].lease_expires_at > job[j].lease_expires_at
           /\ \E a \in DOMAIN attempts :
                /\ attempts[a].job = j
                /\ attempts[a].outcome = "running"
                /\ attempts'[a].outcome = "expired"
    ]_storeVars

\* The store implements the documented lifecycle of a job.
Lifecycle == INSTANCE JobLifecycle WITH
  status    <- [j \in Jobs |-> job[j].status],
  tries     <- [j \in Jobs |-> job[j].attempts_made],
  allowance <- [j \in Jobs |-> job[j].max_attempts],
  holder    <- [j \in Jobs |-> job[j].lease_owner]

ImplementsLifecycle == Lifecycle!Spec

=============================================================================
