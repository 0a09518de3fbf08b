---------------------------- MODULE PgStoreProofs ----------------------------
(***************************************************************************)
(* Proofs about PgStore.  The locks make each transaction's intermediate   *)
(* results stay true until it commits: what it has read of a row it holds  *)
(* is what the row still says, whoever else runs.  So a commit does to the *)
(* tables what one call of JobStore does, and the invariants proved of     *)
(* JobStore hold of the committed tables; and since a job's row is always  *)
(* locked before its attempt's, nobody waits in a circle.                  *)
(***************************************************************************)
EXTENDS PgStore, JobStoreProofs

Calls == {"none", "expire", "claim", "heartbeat", "finish", "cancel", "revise"}

Places == {"idle", "lapsed", "queued", "pair", "attempt", "commit"}

\* The versions a transaction will write, by job and by attempt.
Versions == UNION {[S -> InvestigationJob] : S \in SUBSET Jobs}

Endings == UNION {[S -> AttemptOutcome] : S \in SUBSET Nat}

Transaction ==
  [op : Calls, at : Places, t : Int \cup {None}, job : Jobs \cup {None},
   attempt : Nat \cup {None}, lease : Int \cup {None}, outcome : Reported \cup {None},
   retryable : BOOLEAN, todo : SUBSET Jobs, mine : SUBSET Jobs, claimed : Jobs \cup {None},
   rows : Versions, ends : Endings, report : Nat]

HoldsJob(s, j) == lock[JobRow(j)] = s

HoldsAttempt(s, a) == lock[AttemptRow(a)] = s

\* The jobs whose attempt the transaction has ended as expired.
Gone(s) == {attempts[a].job : a \in DOMAIN tx[s].ends}

\* The jobs as it sees them once it has expired those.
Left(s) == JobsEnded(job, Gone(s), "expired", TRUE)

\* expire_leases and claim_job: what has been expired had lapsed and still has,
\* and what has been claimed is still queued, because their rows are locked.
ScanSound(s) ==
  LET c == tx[s]
  IN  /\ c.at \in {"lapsed", "queued", "commit"}
      /\ c.t \in Instants
      /\ c.op = "claim" => c.lease \in Leases
      /\ c.report = 0
      /\ \A a \in DOMAIN c.ends :
           /\ a \in DOMAIN attempts /\ attempts[a].outcome = "running"
           /\ c.ends[a] = "expired"
           /\ HoldsAttempt(s, a)
      /\ \A j \in Gone(s) \cup c.mine : j \in Lapsed(job, c.t) /\ HoldsJob(s, j)
      /\ Gone(s) \cap c.mine = {}
      /\ \A j \in c.todo : job[j].status # "absent"
      /\ c.at # "lapsed" => c.mine = {}
      /\ c.at = "lapsed" /\ c.todo # {} => DOMAIN c.ends = {}
      /\ c.claimed = None =>
           /\ DOMAIN c.rows = Gone(s)
           /\ \A j \in DOMAIN c.rows : c.rows[j] = Left(s)[j]
      /\ c.claimed # None =>
           /\ c.op = "claim" /\ c.at = "commit"
           /\ HoldsJob(s, c.claimed)
           /\ Left(s)[c.claimed].status = "queued"
           /\ DOMAIN c.rows = Gone(s) \cup {c.claimed}
           /\ \A j \in DOMAIN c.rows :
                c.rows[j] = JobsClaimed(Left(s), c.claimed, WorkerOf[s], c.lease, c.t)[j]

\* heartbeat and finish_attempt: the job is locked before its attempt, so what
\* was read of the job still holds when the lease is judged and at the commit.
PairSound(s) ==
  LET c == tx[s]
  IN  /\ c.at \in {"pair", "commit"}
      /\ c.attempt \in DOMAIN attempts
      /\ attempts[c.attempt].job = c.job
      /\ attempts[c.attempt].worker = WorkerOf[s]
      /\ HoldsJob(s, c.job)
      /\ c.claimed = None
      /\ DOMAIN c.rows = {c.job}
      /\ c.op = "heartbeat" => c.t \in Instants /\ c.lease \in Leases
      /\ c.op = "finish" => c.outcome \in Reported /\ (c.outcome # "failed" => c.retryable)
      /\ c.at = "pair" =>
           /\ c.rows[c.job] = job[c.job]
           /\ DOMAIN c.ends = {}
           /\ c.report = 0
      /\ c.at = "commit" =>
           /\ c.t \in Instants
           /\ HoldsAttempt(s, c.attempt)
           /\ LeaseIsValid(c.attempt, WorkerOf[s], c.t)
      /\ c.at = "commit" /\ c.op = "heartbeat" =>
           /\ c.rows[c.job] = [job[c.job] EXCEPT !.lease_expires_at = c.t + c.lease]
           /\ DOMAIN c.ends = {}
           /\ c.report = 0
      /\ c.at = "commit" /\ c.op = "finish" =>
           /\ c.rows[c.job] = FinishTransition(job[c.job], c.outcome, c.retryable)
           /\ DOMAIN c.ends = {c.attempt} /\ c.ends[c.attempt] = c.outcome
           /\ c.report = IF c.outcome = "failed" THEN 0 ELSE NextRevision(c.job)

\* cancel_job: the job is locked, and if it runs so is its running attempt.
CancelSound(s) ==
  LET c == tx[s]
  IN  /\ c.job \in Jobs
      /\ HoldsJob(s, c.job)
      /\ c.claimed = None
      /\ c.report = 0
      /\ DOMAIN c.rows = {c.job}
      /\ c.rows[c.job] = FinishTransition(job[c.job], "cancelled", FALSE)
      /\ job[c.job].status = "running" =>
           /\ c.attempt \in DOMAIN attempts
           /\ attempts[c.attempt].job = c.job
           /\ attempts[c.attempt].outcome = "running"
      /\ \/ c.at = "commit" /\ job[c.job].status = "queued" /\ DOMAIN c.ends = {}
         \/ c.at = "attempt" /\ job[c.job].status = "running" /\ DOMAIN c.ends = {}
         \/ /\ c.at = "commit" /\ job[c.job].status = "running"
            /\ HoldsAttempt(s, c.attempt)
            /\ DOMAIN c.ends = {c.attempt} /\ c.ends[c.attempt] = "cancelled"

\* add_report_revision: the number it took is still the next one.
ReviseSound(s) ==
  LET c == tx[s]
  IN  /\ c.at = "commit"
      /\ c.attempt \in DOMAIN attempts
      /\ attempts[c.attempt].job = c.job
      /\ HoldsJob(s, c.job)
      /\ c.claimed = None
      /\ c.report = NextRevision(c.job)
      /\ DOMAIN c.rows = {} /\ DOMAIN c.ends = {}

CallSound(s) ==
  /\ tx[s] \in Transaction
  /\ tx[s].op = "none" => tx[s] = Idle
  /\ tx[s].op \in {"expire", "claim"} => ScanSound(s)
  /\ tx[s].op \in {"heartbeat", "finish"} => PairSound(s)
  /\ tx[s].op = "cancel" => CancelSound(s)
  /\ tx[s].op = "revise" => ReviseSound(s)

\* Every lock has a transaction behind it and a row that exists, and an attempt is
\* locked only by the transaction that has locked its job.
LockSound ==
  /\ DOMAIN lock = {JobRow(j) : j \in Jobs} \cup {AttemptRow(a) : a \in DOMAIN attempts}
  /\ \A row \in DOMAIN lock :
       lock[row] # None => lock[row] \in Sessions /\ tx[lock[row]].op # "none"
  /\ \A j \in Jobs : lock[JobRow(j)] # None => job[j].status # "absent"
  /\ \A a \in DOMAIN attempts :
       lock[AttemptRow(a)] # None => lock[AttemptRow(a)] = lock[JobRow(attempts[a].job)]

\* Each submitted job stands in line once.
LineSound ==
  /\ \A i, k \in DOMAIN line : line[i] = line[k] => i = k
  /\ \A i \in DOMAIN line : job[line[i]].status # "absent"

Queued(jobs) == {j \in Jobs : jobs[j].status = "queued"}

\* With nobody else about, a scan leaves nothing out.
AloneSound(s) ==
  LET c == tx[s]
  IN  alone[s] =>
        /\ c.op \in {"expire", "claim"}
        /\ \A x \in Sessions \ {s} : tx[x].op = "none"
        /\ c.at = "lapsed" => Lapsed(job, c.t) = Gone(s) \cup c.mine \cup c.todo
        /\ c.at # "lapsed" => Lapsed(job, c.t) = Gone(s)
        /\ c.at = "queued" => c.todo = Queued(Left(s))
        /\ c.at = "commit" /\ c.op = "claim" =>
             IF c.claimed = None THEN Queued(Left(s)) = {}
             ELSE FirstInLine(c.claimed, Queued(Left(s)))

\* A claim still has all jobs it could have had before it, and leases the first.
OpenSound(s) ==
  LET c == tx[s]
  IN  /\ open[s] \subseteq Jobs
      /\ \A j \in open[s] : job[j].status # "absent"
      /\ c.op = "claim" /\ c.at = "queued" => open[s] \subseteq c.todo
      /\ c.op = "claim" /\ c.at = "commit" /\ open[s] # {} =>
           /\ c.claimed # None
           /\ \A i, k \in DOMAIN line :
                line[i] \in open[s] /\ line[k] = c.claimed => k <= i

PgInv ==
  /\ Inv
  /\ ReportsMatchAttempts
  /\ LineSound
  /\ LockSound
  /\ DOMAIN tx = Sessions /\ DOMAIN alone = Sessions /\ DOMAIN open = Sessions
  /\ \A s \in Sessions : CallSound(s)
  /\ \A s \in Sessions : AloneSound(s)
  /\ \A s \in Sessions : OpenSound(s)

USE StoreAssumption, PgAssumption

-----------------------------------------------------------------------------
(* Rows and versions. *)

\* Each job and each attempt has a row of its own.
LEMMA RowsDiffer ==
  /\ \A i, j : JobRow(i) = JobRow(j) => i = j
  /\ \A a, b : AttemptRow(a) = AttemptRow(b) => a = b
  /\ \A j, a : JobRow(j) # AttemptRow(a)
BY DEF JobRow, AttemptRow

\* One more version among those to be written.
LEMMA PutFacts ==
  ASSUME NEW versions, NEW x, NEW v
  PROVE  /\ DOMAIN Put(versions, x, v) = DOMAIN versions \cup {x}
         /\ Put(versions, x, v)[x] = v
         /\ \A y \in DOMAIN versions : y # x => Put(versions, x, v)[y] = versions[y]
         /\ DOMAIN Only(x, v) = {x}
         /\ Only(x, v)[x] = v
BY DEF Put, Only

LEMMA VersionsPut ==
  ASSUME NEW versions \in Versions, NEW j \in Jobs, NEW rec \in InvestigationJob
  PROVE  Put(versions, j, rec) \in Versions /\ Only(j, rec) \in Versions
<1>1. PICK S \in SUBSET Jobs : versions \in [S -> InvestigationJob]
  BY DEF Versions
<1>2. Put(versions, j, rec) \in [S \cup {j} -> InvestigationJob]
  BY <1>1 DEF Put
<1>3. Only(j, rec) \in [{j} -> InvestigationJob]
  BY DEF Only
<1> QED
  BY <1>1, <1>2, <1>3 DEF Versions

LEMMA EndingsPut ==
  ASSUME NEW ends \in Endings, NEW a \in Nat, NEW outcome \in AttemptOutcome
  PROVE  Put(ends, a, outcome) \in Endings /\ Only(a, outcome) \in Endings
<1>1. PICK S \in SUBSET Nat : ends \in [S -> AttemptOutcome]
  BY DEF Endings
<1>2. Put(ends, a, outcome) \in [S \cup {a} -> AttemptOutcome]
  BY <1>1 DEF Put
<1>3. Only(a, outcome) \in [{a} -> AttemptOutcome]
  BY DEF Only
<1> QED
  BY <1>1, <1>2, <1>3 DEF Endings

LEMMA NoVersions ==
  /\ <<>> \in Versions /\ <<>> \in Endings
  /\ DOMAIN <<>> = {}
<1>1. <<>> = [x \in {} |-> x] /\ DOMAIN <<>> = {}
  OBVIOUS
<1>2. [x \in {} |-> x] \in [{} -> InvestigationJob]
  OBVIOUS
<1>3. [x \in {} |-> x] \in [{} -> AttemptOutcome]
  OBVIOUS
<1> QED
  BY <1>1, <1>2, <1>3 DEF Versions, Endings

LEMMA IdleIsTransaction ==
  Idle \in Transaction
BY NoVersions DEF Idle, Transaction, Calls, Places

\* The versions of the jobs a transaction writes are those of jobs.
LEMMA TransactionFields ==
  ASSUME NEW c \in Transaction
  PROVE  /\ DOMAIN c.rows \subseteq Jobs
         /\ DOMAIN c.ends \subseteq Nat
         /\ \A j \in DOMAIN c.rows : c.rows[j] \in InvestigationJob
         /\ c.todo \subseteq Jobs /\ c.mine \subseteq Jobs
         /\ c.retryable \in BOOLEAN
<1>1. /\ c.rows \in Versions /\ c.ends \in Endings
      /\ c.todo \subseteq Jobs /\ c.mine \subseteq Jobs
      /\ c.retryable \in BOOLEAN
  BY DEF Transaction
<1>2. PICK S \in SUBSET Jobs : c.rows \in [S -> InvestigationJob]
  BY <1>1 DEF Versions
<1>3. PICK E \in SUBSET Nat : c.ends \in [E -> AttemptOutcome]
  BY <1>1 DEF Endings
<1> QED
  BY <1>1, <1>2, <1>3

-----------------------------------------------------------------------------
(* Facts about one state. *)

\* The job of an attempt has been submitted.
LEMMA AttemptsJob ==
  ASSUME Inv, NEW a \in DOMAIN attempts
  PROVE  /\ a \in Nat
         /\ attempts[a] \in JobAttempt
         /\ attempts[a].job \in Jobs
         /\ job[attempts[a].job] \in InvestigationJob
         /\ job[attempts[a].job].status # "absent"
<1>1. TablesInv(job, attempts) /\ TablesOK(job, attempts)
  BY DEF Inv, TablesInv
<1>2. /\ a \in Nat /\ attempts[a] \in JobAttempt /\ attempts[a].job \in Jobs
      /\ attempts[a].number \in Nat
      /\ job[attempts[a].job] \in InvestigationJob
  BY <1>1, RowTypes
<1>3. attempts[a].number > 0 /\ attempts[a].number <= job[attempts[a].job].attempts_made
  BY <1>1, <1>2 DEF JobAttempt, TablesInv, Numbered
<1>4. ~(job[attempts[a].job].attempts_made = 0)
  BY <1>2, <1>3
<1> QED
  BY <1>1, <1>2, <1>4 DEF TablesInv, AllowanceKept

\* _running_attempt finds the unfinished attempt of a running job.
LEMMA RunningAttemptIs ==
  ASSUME Inv, NEW j \in Jobs, job[j].status = "running"
  PROVE  /\ RunningAttempt(j) \in DOMAIN attempts
         /\ attempts[RunningAttempt(j)].job = j
         /\ attempts[RunningAttempt(j)].outcome = "running"
<1>1. TablesInv(job, attempts)
  BY DEF Inv
<1>2. PICK a \in DOMAIN attempts : attempts[a].job = j /\ attempts[a].outcome = "running"
  BY <1>1, RunningJobHasAttempt
<1>3. IsRunningAttempt(attempts, a)
  BY <1>1, <1>2, RunningAttemptFound
<1>4. /\ RunningAttempt(j) \in DOMAIN attempts
      /\ attempts[RunningAttempt(j)].job = j
      /\ IsRunningAttempt(attempts, RunningAttempt(j))
  BY <1>2, <1>3 DEF RunningAttempt
<1> QED
  BY <1>4 DEF IsRunningAttempt

\* A session is not None, and every row has a lock.
LEMMA LockFacts ==
  ASSUME LockSound
  PROVE  /\ \A j \in Jobs : JobRow(j) \in DOMAIN lock
         /\ \A a \in DOMAIN attempts : AttemptRow(a) \in DOMAIN lock
         /\ \A s \in Sessions : s # None
BY DEF LockSound

-----------------------------------------------------------------------------
(* What a transaction holds stays as it is. *)

\* Nothing the session x holds is changed or taken from it.
Kept(x) ==
  /\ \A j \in Jobs :
       /\ HoldsJob(x, j) => /\ HoldsJob(x, j)'
                            /\ job'[j] = job[j]
                            /\ revisions'[j] = revisions[j]
       /\ job[j].status # "absent" => job'[j].status # "absent"
  /\ \A a \in DOMAIN attempts :
       /\ a \in DOMAIN attempts'
       /\ attempts'[a].job = attempts[a].job
       /\ attempts'[a].worker = attempts[a].worker
       /\ HoldsJob(x, attempts[a].job) => attempts'[a] = attempts[a]
       /\ HoldsAttempt(x, a) => HoldsAttempt(x, a)'

LEMMA KeptScan ==
  ASSUME Inv, NEW x \in Sessions, tx[x] \in Transaction, tx'[x] = tx[x],
         Kept(x), ScanSound(x)
  PROVE  ScanSound(x)'
<1> DEFINE c == tx[x]
<1>0. c.todo \subseteq Jobs /\ c.mine \subseteq Jobs
  BY TransactionFields
<1>1. \A a \in DOMAIN c.ends : /\ a \in DOMAIN attempts
                               /\ attempts[a].job \in Gone(x)
                               /\ attempts[a].job \in Jobs
  BY AttemptsJob DEF ScanSound, Gone
<1>2. \A j \in Gone(x) : j \in Jobs
  BY <1>1 DEF Gone
<1>3. Gone(x)' = Gone(x)
  BY <1>1 DEF Gone, Kept
<1>4. \A j \in Gone(x) \cup c.mine : /\ j \in Jobs /\ HoldsJob(x, j) /\ HoldsJob(x, j)'
                                     /\ job'[j] = job[j]
  BY <1>0, <1>2 DEF ScanSound, Kept
<1>5. \A j \in Gone(x) \cup c.mine : j \in Lapsed(job, c.t)'
  BY <1>4 DEF ScanSound, Lapsed
<1>6. \A a \in DOMAIN c.ends : /\ a \in DOMAIN attempts'
                               /\ attempts'[a].outcome = "running"
                               /\ HoldsAttempt(x, a)'
  BY <1>1, <1>4 DEF ScanSound, Kept
<1>7. \A j \in c.todo : job'[j].status # "absent"
  BY <1>0 DEF ScanSound, Kept
<1>8. c.claimed # None => /\ c.claimed \in Jobs
                          /\ HoldsJob(x, c.claimed)'
                          /\ job'[c.claimed] = job[c.claimed]
  BY DEF ScanSound, Kept, Transaction
<1>9. \A j \in Jobs : job'[j] = job[j] => Left(x)'[j] = Left(x)[j]
  BY <1>3 DEF Left, JobsEnded
<1>10. c.claimed = None => \A j \in DOMAIN c.rows : c.rows[j] = Left(x)'[j]
  BY <1>2, <1>4, <1>9 DEF ScanSound
<1>11. c.claimed # None =>
         /\ Left(x)'[c.claimed].status = "queued"
         /\ \A j \in DOMAIN c.rows :
              c.rows[j] = JobsClaimed(Left(x)', c.claimed, WorkerOf[x], c.lease, c.t)[j]
  <2> SUFFICES ASSUME c.claimed # None
               PROVE  /\ Left(x)'[c.claimed].status = "queued"
                      /\ \A j \in DOMAIN c.rows :
                           c.rows[j] = JobsClaimed(Left(x)', c.claimed, WorkerOf[x], c.lease, c.t)[j]
    OBVIOUS
  <2>1. Left(x)'[c.claimed] = Left(x)[c.claimed] /\ c.claimed \in Jobs
    BY <1>8, <1>9
  <2>2. DOMAIN Left(x) = Jobs /\ DOMAIN (Left(x)') = Jobs
    BY DEF Left, JobsEnded
  <2>3. ASSUME NEW j \in DOMAIN c.rows
        PROVE  c.rows[j] = JobsClaimed(Left(x)', c.claimed, WorkerOf[x], c.lease, c.t)[j]
    <3>1. j \in Gone(x) \cup {c.claimed}
      BY <2>3 DEF ScanSound
    <3>2. j \in Jobs /\ Left(x)'[j] = Left(x)[j]
      BY <1>2, <1>4, <1>9, <2>1, <3>1
    <3>3. JobsClaimed(Left(x)', c.claimed, WorkerOf[x], c.lease, c.t)[j] =
          JobsClaimed(Left(x), c.claimed, WorkerOf[x], c.lease, c.t)[j]
      BY <2>1, <2>2, <3>2 DEF JobsClaimed
    <3> QED
      BY <2>3, <3>3 DEF ScanSound
  <2> QED
    BY <2>1, <2>3 DEF ScanSound
<1> HIDE DEF c
<1> QED
  BY <1>3, <1>4, <1>5, <1>6, <1>7, <1>8, <1>10, <1>11 DEF ScanSound, c

LEMMA KeptPair ==
  ASSUME Inv, NEW x \in Sessions, tx[x] \in Transaction, tx'[x] = tx[x],
         Kept(x), PairSound(x)
  PROVE  PairSound(x)'
<1> DEFINE c == tx[x]
<1>1. /\ c.attempt \in DOMAIN attempts
      /\ attempts[c.attempt].job = c.job
      /\ c.job \in Jobs
      /\ HoldsJob(x, c.job)
  BY AttemptsJob DEF PairSound
<1>2. /\ c.attempt \in DOMAIN attempts'
      /\ attempts'[c.attempt] = attempts[c.attempt]
      /\ job'[c.job] = job[c.job]
      /\ revisions'[c.job] = revisions[c.job]
      /\ HoldsJob(x, c.job)'
      /\ HoldsAttempt(x, c.attempt) => HoldsAttempt(x, c.attempt)'
  BY <1>1 DEF Kept
<1>3. LeaseIsValid(c.attempt, WorkerOf[x], c.t) => LeaseIsValid(c.attempt, WorkerOf[x], c.t)'
  BY <1>1, <1>2 DEF LeaseIsValid
<1>4. NextRevision(c.job)' = NextRevision(c.job)
  BY <1>2 DEF NextRevision
<1> QED
  BY <1>1, <1>2, <1>3, <1>4 DEF PairSound

LEMMA KeptCancel ==
  ASSUME NEW x \in Sessions, tx'[x] = tx[x], Kept(x), CancelSound(x)
  PROVE  CancelSound(x)'
<1> DEFINE c == tx[x]
<1>1. c.job \in Jobs /\ HoldsJob(x, c.job)
  BY DEF CancelSound
<1>2. job'[c.job] = job[c.job] /\ HoldsJob(x, c.job)'
  BY <1>1 DEF Kept
<1>3. c.attempt \in DOMAIN attempts /\ attempts[c.attempt].job = c.job =>
        /\ c.attempt \in DOMAIN attempts'
        /\ attempts'[c.attempt] = attempts[c.attempt]
        /\ HoldsAttempt(x, c.attempt) => HoldsAttempt(x, c.attempt)'
  BY <1>1 DEF Kept
<1> QED
  BY <1>1, <1>2, <1>3 DEF CancelSound

LEMMA KeptRevise ==
  ASSUME Inv, NEW x \in Sessions, tx'[x] = tx[x], Kept(x), ReviseSound(x)
  PROVE  ReviseSound(x)'
<1> DEFINE c == tx[x]
<1>1. c.attempt \in DOMAIN attempts /\ attempts[c.attempt].job = c.job /\ c.job \in Jobs
  BY AttemptsJob DEF ReviseSound
<1>2. /\ c.attempt \in DOMAIN attempts' /\ attempts'[c.attempt].job = c.job
      /\ revisions'[c.job] = revisions[c.job] /\ HoldsJob(x, c.job)'
  BY <1>1 DEF Kept, ReviseSound
<1>3. NextRevision(c.job)' = NextRevision(c.job)
  BY <1>2 DEF NextRevision
<1> QED
  BY <1>1, <1>2, <1>3 DEF ReviseSound

\* A transaction others leave alone stays as sound as it was.
LEMMA KeptCall ==
  ASSUME Inv, NEW x \in Sessions, tx'[x] = tx[x], Kept(x), CallSound(x)
  PROVE  CallSound(x)'
BY KeptScan, KeptPair, KeptCancel, KeptRevise DEF CallSound

-----------------------------------------------------------------------------
(* What a statement does to the locks. *)

\* Everything but the locks and the session s stays.
OnlySession(s) ==
  /\ UNCHANGED storeVars
  /\ \A x \in Sessions \ {s} : tx'[x] = tx[x]

LEMMA SameLocks ==
  ASSUME LockSound, NEW s \in Sessions, OnlySession(s), UNCHANGED lock,
         tx[s].op # "none" => tx'[s].op # "none"
  PROVE  LockSound' /\ \A x \in Sessions : Kept(x)
<1>1. UNCHANGED <<job, attempts, revisions>>
  BY DEF OnlySession, storeVars
<1>2. \A x \in Sessions : Kept(x)
  BY <1>1 DEF Kept, HoldsJob, HoldsAttempt
<1>3. LockSound'
  BY <1>1 DEF LockSound, OnlySession
<1> QED
  BY <1>2, <1>3

\* A job is locked.
LEMMA TakesJob ==
  ASSUME Inv, LockSound, NEW s \in Sessions, NEW j \in Jobs, ~HeldByOther(s, JobRow(j)),
         job[j].status # "absent", Take(s, JobRow(j)), OnlySession(s), tx'[s].op # "none"
  PROVE  /\ LockSound'
         /\ HoldsJob(s, j)'
         /\ \A x \in Sessions : Kept(x)
<1>1. UNCHANGED <<job, attempts, revisions>> /\ \A x \in Sessions \ {s} : tx'[x] = tx[x]
  BY DEF OnlySession, storeVars
<1>2. lock[JobRow(j)] \in {None, s} /\ lock' = [lock EXCEPT ![JobRow(j)] = s]
  BY DEF HeldByOther, Take
<1>3. \A i \in Jobs : JobRow(i) \in DOMAIN lock
  BY LockFacts
<1>4. \A a \in DOMAIN attempts : AttemptRow(a) \in DOMAIN lock
  BY LockFacts
<1>5. \A i \in Jobs : lock'[JobRow(i)] = IF i = j THEN s ELSE lock[JobRow(i)]
  BY <1>2, <1>3, RowsDiffer
<1>6. \A a \in DOMAIN attempts : lock'[AttemptRow(a)] = lock[AttemptRow(a)]
  BY <1>2, <1>4, RowsDiffer
<1>7. HoldsJob(s, j)'
  BY <1>5 DEF HoldsJob
<1>8. ASSUME NEW x \in Sessions PROVE Kept(x)
  <2>1. \A i \in Jobs : HoldsJob(x, i) => HoldsJob(x, i)'
    BY <1>2, <1>5, LockFacts DEF HoldsJob
  <2>2. \A a \in DOMAIN attempts : HoldsAttempt(x, a) => HoldsAttempt(x, a)'
    BY <1>6 DEF HoldsAttempt
  <2> QED
    BY <1>1, <2>1, <2>2 DEF Kept
<1>9. LockSound'
  <2>1. DOMAIN lock' = DOMAIN lock
    BY <1>2
  <2>2. ASSUME NEW row \in DOMAIN lock', lock'[row] # None
        PROVE  lock'[row] \in Sessions /\ tx'[lock'[row]].op # "none"
    BY <1>1, <1>2, <2>1, <2>2 DEF LockSound
  <2>3. \A i \in Jobs : lock'[JobRow(i)] # None => job'[i].status # "absent"
    BY <1>1, <1>5 DEF LockSound
  <2>4. ASSUME NEW a \in DOMAIN attempts, lock'[AttemptRow(a)] # None
        PROVE  lock'[AttemptRow(a)] = lock'[JobRow(attempts[a].job)]
    <3>1. attempts[a].job \in Jobs
      BY AttemptsJob
    <3>2. lock[AttemptRow(a)] # None /\ lock[AttemptRow(a)] = lock[JobRow(attempts[a].job)]
      BY <1>6, <2>4 DEF LockSound
    <3> QED
      BY <1>2, <1>5, <1>6, <3>1, <3>2
  <2>5. DOMAIN lock' = {JobRow(i) : i \in Jobs} \cup {AttemptRow(a) : a \in DOMAIN attempts'}
    BY <1>1, <2>1 DEF LockSound
  <2> QED
    BY <1>1, <2>2, <2>3, <2>4, <2>5 DEF LockSound
<1> QED
  BY <1>7, <1>8, <1>9

\* An attempt is locked by the session that has locked its job.
LEMMA TakesAttempt ==
  ASSUME Inv, LockSound, NEW s \in Sessions, NEW b \in DOMAIN attempts,
         HoldsJob(s, attempts[b].job), Take(s, AttemptRow(b)), OnlySession(s),
         tx'[s].op # "none"
  PROVE  /\ LockSound'
         /\ HoldsAttempt(s, b)'
         /\ \A x \in Sessions : Kept(x)
<1>1. UNCHANGED <<job, attempts, revisions>> /\ \A x \in Sessions \ {s} : tx'[x] = tx[x]
  BY DEF OnlySession, storeVars
<1>2. lock[AttemptRow(b)] \in {None, s} /\ lock' = [lock EXCEPT ![AttemptRow(b)] = s]
  BY DEF LockSound, HoldsJob, Take
<1>3. \A i \in Jobs : JobRow(i) \in DOMAIN lock
  BY LockFacts
<1>4. \A a \in DOMAIN attempts : AttemptRow(a) \in DOMAIN lock
  BY LockFacts
<1>5. \A i \in Jobs : lock'[JobRow(i)] = lock[JobRow(i)]
  BY <1>2, <1>3, RowsDiffer
<1>6. \A a \in DOMAIN attempts :
        lock'[AttemptRow(a)] = IF a = b THEN s ELSE lock[AttemptRow(a)]
  BY <1>2, <1>4, RowsDiffer
<1>7. HoldsAttempt(s, b)'
  BY <1>6 DEF HoldsAttempt
<1>8. ASSUME NEW x \in Sessions PROVE Kept(x)
  <2>1. \A i \in Jobs : HoldsJob(x, i) => HoldsJob(x, i)'
    BY <1>5 DEF HoldsJob
  <2>2. \A a \in DOMAIN attempts : HoldsAttempt(x, a) => HoldsAttempt(x, a)'
    BY <1>2, <1>6, LockFacts DEF HoldsAttempt
  <2> QED
    BY <1>1, <2>1, <2>2 DEF Kept
<1>9. LockSound'
  <2>1. DOMAIN lock' = DOMAIN lock
    BY <1>2
  <2>2. ASSUME NEW row \in DOMAIN lock', lock'[row] # None
        PROVE  lock'[row] \in Sessions /\ tx'[lock'[row]].op # "none"
    BY <1>1, <1>2, <2>1, <2>2 DEF LockSound
  <2>3. \A i \in Jobs : lock'[JobRow(i)] # None => job'[i].status # "absent"
    BY <1>1, <1>5 DEF LockSound
  <2>4. ASSUME NEW a \in DOMAIN attempts, lock'[AttemptRow(a)] # None
        PROVE  lock'[AttemptRow(a)] = lock'[JobRow(attempts[a].job)]
    <3>1. attempts[a].job \in Jobs
      BY AttemptsJob
    <3> QED
      BY <1>5, <1>6, <2>4, <3>1 DEF LockSound, HoldsJob
  <2>5. DOMAIN lock' = {JobRow(i) : i \in Jobs} \cup {AttemptRow(a) : a \in DOMAIN attempts'}
    BY <1>1, <2>1 DEF LockSound
  <2> QED
    BY <1>1, <2>2, <2>3, <2>4, <2>5 DEF LockSound
<1> QED
  BY <1>7, <1>8, <1>9

\* The session ends and its locks are released.
LEMMA ReleasesRows ==
  ASSUME Inv, LockSound, NEW s \in Sessions, Release(s), OnlySession(s)
  PROVE  LockSound' /\ \A x \in Sessions \ {s} : Kept(x)
<1>1. UNCHANGED <<job, attempts, revisions>> /\ \A x \in Sessions \ {s} : tx'[x] = tx[x]
  BY DEF OnlySession, storeVars
<1>2. DOMAIN lock' = DOMAIN lock
  BY DEF Release
<1>3. \A row \in DOMAIN lock : lock'[row] = IF lock[row] = s THEN None ELSE lock[row]
  BY DEF Release
<1>4. /\ \A i \in Jobs : JobRow(i) \in DOMAIN lock
      /\ \A a \in DOMAIN attempts : AttemptRow(a) \in DOMAIN lock
  BY LockFacts
<1>5. ASSUME NEW x \in Sessions \ {s} PROVE Kept(x)
  BY <1>1, <1>3, <1>4 DEF Kept, HoldsJob, HoldsAttempt
<1>6. \A row \in DOMAIN lock' : lock'[row] # None =>
        lock'[row] \in Sessions /\ tx'[lock'[row]].op # "none"
  BY <1>1, <1>2, <1>3 DEF LockSound
<1>7. \A i \in Jobs : lock'[JobRow(i)] # None => job'[i].status # "absent"
  BY <1>1, <1>3, <1>4 DEF LockSound
<1>8. \A a \in DOMAIN attempts : lock'[AttemptRow(a)] # None =>
        lock'[AttemptRow(a)] = lock'[JobRow(attempts[a].job)]
  BY <1>3, <1>4, AttemptsJob DEF LockSound
<1>9. DOMAIN lock' = {JobRow(i) : i \in Jobs} \cup {AttemptRow(a) : a \in DOMAIN attempts'}
  BY <1>1, <1>2 DEF LockSound
<1> QED
  BY <1>1, <1>5, <1>6, <1>7, <1>8, <1>9 DEF LockSound

-----------------------------------------------------------------------------
(* The statements that lock rows with SKIP LOCKED. *)

\* What a session that commits nothing does to itself and to the others.
Quietly(s) ==
  /\ OnlySession(s)
  /\ \A x \in Sessions \ {s} : Kept(x)
  /\ LockSound'
  /\ CallSound(s)'
  /\ AloneSound(s)'
  /\ \A x \in Sessions \ {s} :
       ~alone'[x] \/ (alone'[x] = alone[x] /\ tx[s].op # "none")
  /\ DOMAIN tx' = Sessions /\ DOMAIN alone' = Sessions

LEMMA Started ==
  ASSUME PgInv, NEW s \in Sessions, NEW call, Start(s, call)
  PROVE  /\ OnlySession(s) /\ tx'[s] = call /\ UNCHANGED <<job, attempts, lock, line>>
         /\ tx[s] = Idle
         /\ \A x \in Sessions \ {s} : ~alone'[x]
         /\ alone'[s] => \A x \in Sessions \ {s} : tx'[x].op = "none"
         /\ DOMAIN tx' = Sessions /\ DOMAIN alone' = Sessions
BY DEF Start, PgInv, OnlySession, IsIdle, CallSound, storeVars

LEMMA WentTo ==
  ASSUME PgInv, NEW s \in Sessions, NEW call, Goto(s, call)
  PROVE  /\ OnlySession(s) /\ tx'[s] = call /\ UNCHANGED <<job, attempts, line>>
         /\ alone' = alone
         /\ DOMAIN tx' = Sessions /\ DOMAIN alone' = Sessions
BY DEF Goto, PgInv, OnlySession, storeVars

\* A scan begins: nothing expired yet, everything lapsed to be locked.
LEMMA FreshScan ==
  ASSUME PgInv, NEW s \in Sessions, NEW call \in Transaction, Start(s, call),
         call.op \in {"expire", "claim"}, call.at = "lapsed", call.t \in Instants,
         call.op = "claim" => call.lease \in Leases,
         call.todo = Lapsed(job, call.t), call.mine = {}, call.claimed = None,
         call.rows = <<>>, call.ends = <<>>, call.report = 0
  PROVE  Quietly(s) /\ tx'[s].at = "lapsed"
<1>1. /\ OnlySession(s) /\ UNCHANGED <<job, attempts, lock>>
      /\ tx'[s] = call
      /\ tx[s] = Idle
      /\ \A x \in Sessions \ {s} : ~alone'[x]
      /\ alone'[s] => \A x \in Sessions \ {s} : tx'[x].op = "none"
      /\ DOMAIN tx' = Sessions /\ DOMAIN alone' = Sessions
  BY Started
<1>3. Lapsed(job, call.t) \in SUBSET Jobs /\ \A j \in Lapsed(job, call.t) : job[j].status = "running"
  BY ExpiryIsEnding
<1>5. LockSound' /\ \A x \in Sessions : Kept(x)
  BY <1>1, SameLocks DEF PgInv
<1>6. DOMAIN call.ends = {} /\ DOMAIN call.rows = {}
  BY NoVersions
<1>7. Gone(s)' = {}
  BY <1>1, <1>6 DEF Gone
<1>8. ScanSound(s)'
  BY <1>1, <1>3, <1>6, <1>7 DEF ScanSound
<1>9. CallSound(s)'
  BY <1>1, <1>8 DEF CallSound
<1>10. AloneSound(s)'
  BY <1>1, <1>7 DEF AloneSound
<1> QED
  BY <1>1, <1>5, <1>9, <1>10 DEF Quietly

LEMMA BegunScan ==
  ASSUME PgInv, NEW s \in Sessions,
         \/ \E t \in Instants : BeginExpire(s, t)
         \/ \E lease \in Leases, t \in Instants : BeginClaim(s, lease, t)
  PROVE  Quietly(s) /\ tx'[s].at = "lapsed"
<1>0. ASSUME NEW t \in Instants PROVE t \in Int /\ Lapsed(job, t) \in SUBSET Jobs
  BY ExpiryIsEnding
<1>1. ASSUME NEW t \in Instants, BeginExpire(s, t)
      PROVE  Quietly(s) /\ tx'[s].at = "lapsed"
  <2>1. PICK call : /\ Start(s, call)
                    /\ call = [Idle EXCEPT !.op = "expire", !.at = "lapsed", !.t = t,
                                           !.todo = Lapsed(job, t)]
    BY <1>1 DEF BeginExpire
  <2>2. call \in Transaction
    BY <1>0, <2>1, IdleIsTransaction DEF Transaction, Calls, Places
  <2>3. /\ call.op = "expire" /\ call.at = "lapsed" /\ call.t = t
        /\ call.todo = Lapsed(job, t) /\ call.mine = {} /\ call.claimed = None
        /\ call.rows = <<>> /\ call.ends = <<>> /\ call.report = 0
    BY <2>1 DEF Idle
  <2> QED
    BY <2>1, <2>2, <2>3, FreshScan
<1>2. ASSUME NEW t \in Instants, NEW lease \in Leases, BeginClaim(s, lease, t)
      PROVE  Quietly(s) /\ tx'[s].at = "lapsed"
  <2>1. PICK call : /\ Start(s, call)
                    /\ call = [Idle EXCEPT !.op = "claim", !.at = "lapsed", !.t = t,
                                           !.lease = lease, !.todo = Lapsed(job, t)]
    BY <1>2 DEF BeginClaim
  <2>0. lease \in Int
    OBVIOUS
  <2>2. call \in Transaction
    BY <1>0, <2>0, <2>1, IdleIsTransaction DEF Transaction, Calls, Places
  <2>3. /\ call.op = "claim" /\ call.at = "lapsed" /\ call.t = t /\ call.lease = lease
        /\ call.todo = Lapsed(job, t) /\ call.mine = {} /\ call.claimed = None
        /\ call.rows = <<>> /\ call.ends = <<>> /\ call.report = 0
    BY <2>1 DEF Idle
  <2> QED
    BY <2>1, <2>2, <2>3, FreshScan
<1> QED
  BY <1>1, <1>2

\* What a scan knows of the jobs it holds.
LEMMA ScanJobs ==
  ASSUME PgInv, NEW s \in Sessions, tx[s].op \in {"expire", "claim"}
  PROVE  /\ tx[s] \in Transaction /\ ScanSound(s) /\ LockSound /\ Inv
         /\ Gone(s) \subseteq Jobs
         /\ \A j \in Gone(s) \cup tx[s].mine : j \in Jobs /\ job[j].status = "running"
         /\ \A j \in Jobs : j \notin Gone(s) => Left(s)[j] = job[j]
         /\ \A j \in Gone(s) : Left(s)[j] = FinishTransition(job[j], "expired", TRUE)
         /\ TablesInv(Left(s), EndAttempts(attempts, Gone(s), "expired"))
         /\ tx[s].claimed = None => Seen(s) = Left(s)
<1>1. tx[s] \in Transaction /\ ScanSound(s) /\ LockSound /\ Inv
  BY DEF PgInv, CallSound
<1>2. Gone(s) \subseteq Jobs
  BY <1>1, AttemptsJob DEF ScanSound, Gone
<1>3. \A j \in Gone(s) \cup tx[s].mine : j \in Jobs /\ job[j].status = "running"
  BY <1>1, <1>2 DEF ScanSound, Lapsed
<1>4. /\ \A j \in Jobs : j \notin Gone(s) => Left(s)[j] = job[j]
      /\ \A j \in Gone(s) : Left(s)[j] = FinishTransition(job[j], "expired", TRUE)
  BY <1>2 DEF Left, JobsEnded
<1>5. TablesInv(Left(s), EndAttempts(attempts, Gone(s), "expired"))
  <2>1. "expired" \in AttemptOutcome \ {"running"}
    BY DEF AttemptOutcome
  <2>2. TablesInv(job, attempts)
    BY <1>1 DEF Inv
  <2> QED
    BY <1>2, <1>3, <2>1, <2>2, EndingKeepsTables DEF Left
<1>6. ASSUME tx[s].claimed = None PROVE Seen(s) = Left(s)
  <2>1. DOMAIN tx[s].rows = Gone(s) /\ \A j \in DOMAIN tx[s].rows : tx[s].rows[j] = Left(s)[j]
    BY <1>1, <1>6 DEF ScanSound
  <2> QED
    BY <1>2, <1>4, <2>1 DEF Seen, Left, JobsEnded
<1> QED
  BY <1>1, <1>2, <1>3, <1>4, <1>5, <1>6

\* While it is alone no row it comes to is locked by another.
LEMMA AloneMeetsNoLock ==
  ASSUME PgInv, NEW s \in Sessions, alone[s], NEW j \in Jobs
  PROVE  ~HeldByOther(s, JobRow(j))
<1>1. JobRow(j) \in DOMAIN lock
  BY LockFacts DEF PgInv
<1> QED
  BY <1>1 DEF PgInv, LockSound, AloneSound, HeldByOther



LEMMA LockedLapsed ==
  ASSUME PgInv, NEW s \in Sessions, LockLapsed(s)
  PROVE  Quietly(s) /\ tx'[s].at = "lapsed"
<1> DEFINE c == tx[s]
           d == tx'[s]
<1>1. c.op \in {"expire", "claim"} /\ c.at = "lapsed"
  BY DEF LockLapsed, At
<1>2. /\ c \in Transaction /\ ScanSound(s) /\ LockSound /\ Inv /\ Gone(s) \subseteq Jobs
      /\ \A j \in Gone(s) \cup c.mine : j \in Jobs /\ job[j].status = "running"
  BY <1>1, ScanJobs
<1>3. PICK j \in Jobs :
        /\ FirstInLine(j, c.todo)
        /\ IF HeldByOther(s, JobRow(j))
           THEN Goto(s, [c EXCEPT !.todo = @ \ {j}]) /\ UNCHANGED lock
           ELSE /\ Take(s, JobRow(j))
                /\ Goto(s, [c EXCEPT !.todo = @ \ {j},
                                     !.mine = IF j \in Lapsed(job, c.t) THEN @ \cup {j} ELSE @])
  BY DEF LockLapsed
<1>4. j \in c.todo /\ job[j].status # "absent" /\ Gone(s) = {} /\ DOMAIN c.ends = {}
      /\ c.claimed = None
  BY <1>1, <1>2, <1>3 DEF FirstInLine, ScanSound, Gone
<1>5. /\ OnlySession(s) /\ UNCHANGED <<job, attempts>> /\ alone' = alone
      /\ DOMAIN tx' = Sessions /\ DOMAIN alone' = Sessions
  BY <1>3, WentTo
<1>6. d \in Transaction /\ d.op = c.op /\ d.at = "lapsed" /\ d.t = c.t /\ d.lease = c.lease
      /\ d.todo = c.todo \ {j} /\ d.claimed = None /\ d.rows = c.rows /\ d.ends = c.ends
      /\ d.report = c.report
  <2>1. CASE HeldByOther(s, JobRow(j))
    <3>1. d = [c EXCEPT !.todo = c.todo \ {j}]
      BY <1>3, <2>1, WentTo
    <3> QED
      BY <1>1, <1>2, <1>4, <3>1 DEF Transaction
  <2>2. CASE ~HeldByOther(s, JobRow(j))
    <3>1. PICK mine : /\ mine \in {c.mine, c.mine \cup {j}}
                      /\ d = [c EXCEPT !.todo = c.todo \ {j}, !.mine = mine]
      BY <1>3, <2>2, WentTo
    <3>2. c.mine \in SUBSET Jobs /\ c.todo \in SUBSET Jobs
      BY <1>2, TransactionFields
    <3>3. mine \in SUBSET Jobs /\ c.todo \ {j} \in SUBSET Jobs
      BY <3>1, <3>2
    <3>4. c \in Transaction
      BY <1>2
    <3> HIDE DEF c, d
    <3>5. d \in Transaction
      BY <3>1, <3>3, <3>4 DEF Transaction
    <3> QED
      BY <1>1, <1>4, <3>1, <3>4, <3>5 DEF Transaction
  <2> QED
    BY <2>1, <2>2
<1>7. /\ LockSound' /\ \A x \in Sessions : Kept(x)
      /\ d.mine = c.mine \/ (d.mine = c.mine \cup {j} /\ j \in Lapsed(job, c.t) /\ HoldsJob(s, j)')
      /\ ~HeldByOther(s, JobRow(j)) /\ j \in Lapsed(job, c.t) => d.mine = c.mine \cup {j}
  <2>1. CASE HeldByOther(s, JobRow(j))
    <3>1. d = [c EXCEPT !.todo = c.todo \ {j}] /\ UNCHANGED lock
      BY <1>3, <2>1, WentTo
    <3>2. d.mine = c.mine
      BY <1>2, <3>1 DEF Transaction
    <3> QED
      BY <1>1, <1>2, <1>5, <1>6, <2>1, <3>1, <3>2, SameLocks
  <2>2. CASE ~HeldByOther(s, JobRow(j))
    <3>1. d = [c EXCEPT !.todo = c.todo \ {j},
                        !.mine = IF j \in Lapsed(job, c.t) THEN c.mine \cup {j} ELSE c.mine]
      BY <1>3, <2>2, WentTo
    <3>2. d.mine = IF j \in Lapsed(job, c.t) THEN c.mine \cup {j} ELSE c.mine
      BY <1>2, <3>1 DEF Transaction
    <3>3. LockSound' /\ HoldsJob(s, j)' /\ \A x \in Sessions : Kept(x)
      <4>1. Take(s, JobRow(j)) /\ d.op # "none"
        BY <1>1, <1>3, <1>6, <2>2
      <4> QED
        BY <1>2, <1>4, <1>5, <2>2, <4>1, TakesJob
    <3> QED
      BY <2>2, <3>2, <3>3
  <2> QED
    BY <2>1, <2>2
<1>8. Gone(s)' = {} /\ Left(s)' = Left(s)
  <2>1. Gone(s)' = {}
    BY <1>4, <1>6 DEF Gone
  <2> QED
    BY <1>4, <1>5, <2>1 DEF Left, JobsEnded
<1>9. ScanSound(s)'
  <2>1. \A i \in c.mine : HoldsJob(s, i)'
    BY <1>2, <1>7 DEF ScanSound, Kept
  <2>2. \A i \in d.mine : i \in Lapsed(job, c.t) /\ HoldsJob(s, i)'
    BY <1>2, <1>7, <2>1 DEF ScanSound
  <2> QED
    BY <1>1, <1>2, <1>4, <1>5, <1>6, <1>8, <2>2 DEF ScanSound
<1>10. CallSound(s)'
  BY <1>1, <1>6, <1>9 DEF CallSound
<1>11. AloneSound(s)'
  <2> SUFFICES ASSUME alone[s] PROVE AloneSound(s)'
    BY <1>5 DEF AloneSound
  <2>1. ~HeldByOther(s, JobRow(j))
    BY AloneMeetsNoLock
  <2>2. /\ Lapsed(job, c.t) = Gone(s) \cup c.mine \cup c.todo
        /\ \A x \in Sessions \ {s} : tx[x].op = "none"
    BY <1>1 DEF PgInv, AloneSound
  <2>3. Lapsed(job, c.t) = d.mine \cup d.todo
    BY <1>4, <1>6, <1>7, <2>1, <2>2
  <2> QED
    BY <1>1, <1>5, <1>6, <1>8, <2>2, <2>3 DEF AloneSound, OnlySession
<1> QED
  BY <1>1, <1>5, <1>6, <1>7, <1>10, <1>11 DEF Quietly

\* A lapsed job can be ended: the record is that of a job.
LEMMA ExpiredRecord ==
  ASSUME Inv, NEW j \in Jobs, job[j].status = "running",
         NEW outcome \in AttemptOutcome \ {"running"}, NEW retryable \in BOOLEAN
  PROVE  /\ FinishTransition(job[j], outcome, retryable) \in InvestigationJob
         /\ FinishTransition(job[j], outcome, retryable).status \in Terminal \cup {"queued"}
<1>1. /\ job[j] \in InvestigationJob
      /\ job[j].attempts_made > 0 /\ job[j].attempts_made <= job[j].max_attempts
  BY DEF Inv, TablesInv, TablesOK, AllowanceKept
<1> QED
  BY <1>1, FinishedRecord

LEMMA ExpiredOne ==
  ASSUME PgInv, NEW s \in Sessions, ExpireOne(s)
  PROVE  Quietly(s) /\ tx'[s].at = "lapsed"
<1> DEFINE c == tx[s]
           d == tx'[s]
<1>1. c.op \in {"expire", "claim"} /\ c.at = "lapsed" /\ c.todo = {}
  BY DEF ExpireOne, At
<1>2. /\ c \in Transaction /\ ScanSound(s) /\ LockSound /\ Inv /\ Gone(s) \subseteq Jobs
      /\ \A j \in Gone(s) \cup c.mine : j \in Jobs /\ job[j].status = "running"
      /\ \A j \in Gone(s) : Left(s)[j] = FinishTransition(job[j], "expired", TRUE)
  BY <1>1, ScanJobs
<1>3. PICK j \in Jobs :
        /\ FirstInLine(j, c.mine)
        /\ Take(s, AttemptRow(RunningAttempt(j)))
        /\ Goto(s, [c EXCEPT !.mine = @ \ {j},
                             !.rows = Put(@, j, FinishTransition(job[j], "expired", TRUE)),
                             !.ends = Put(@, RunningAttempt(j), "expired")])
  BY DEF ExpireOne
<1>0. PICK a, rec : /\ a = RunningAttempt(j)
                    /\ rec = FinishTransition(job[j], "expired", TRUE)
  OBVIOUS
<1>4. j \in c.mine /\ j \notin Gone(s) /\ job[j].status = "running" /\ HoldsJob(s, j)
      /\ j \in Lapsed(job, c.t) /\ c.claimed = None
  BY <1>1, <1>2, <1>3 DEF FirstInLine, ScanSound
<1>5. a \in DOMAIN attempts /\ attempts[a].job = j /\ attempts[a].outcome = "running" /\ a \in Nat
  BY <1>0, <1>2, <1>4, RunningAttemptIs, AttemptsJob
<1>6. rec \in InvestigationJob
  BY <1>0, <1>2, <1>4, ExpiredRecord DEF AttemptOutcome
<1>7. /\ OnlySession(s) /\ UNCHANGED <<job, attempts>> /\ alone' = alone
      /\ DOMAIN tx' = Sessions /\ DOMAIN alone' = Sessions
      /\ d = [c EXCEPT !.mine = @ \ {j}, !.rows = Put(@, j, rec), !.ends = Put(@, a, "expired")]
  BY <1>0, <1>3, WentTo
<1>8. Put(c.rows, j, rec) \in Versions /\ Put(c.ends, a, "expired") \in Endings
  <2>1. c.rows \in Versions /\ c.ends \in Endings
    BY <1>2 DEF Transaction
  <2>2. "expired" \in AttemptOutcome
    BY DEF AttemptOutcome
  <2> QED
    BY <1>5, <1>6, <2>1, <2>2, VersionsPut, EndingsPut
<1>9. /\ d \in Transaction /\ d.op = c.op /\ d.at = "lapsed" /\ d.t = c.t /\ d.lease = c.lease
      /\ d.todo = {} /\ d.mine = c.mine \ {j} /\ d.claimed = None /\ d.report = c.report
      /\ d.rows = Put(c.rows, j, rec) /\ d.ends = Put(c.ends, a, "expired")
  <2>1. c \in Transaction /\ c.mine \ {j} \in SUBSET Jobs
    BY <1>2, TransactionFields
  <2> HIDE DEF c, d
  <2>2. d \in Transaction
    BY <1>7, <1>8, <2>1 DEF Transaction
  <2> QED
    BY <1>1, <1>4, <1>7, <2>1, <2>2 DEF Transaction
<1>10. /\ DOMAIN d.rows = DOMAIN c.rows \cup {j} /\ d.rows[j] = rec
       /\ \A i \in DOMAIN c.rows : i # j => d.rows[i] = c.rows[i]
       /\ DOMAIN d.ends = DOMAIN c.ends \cup {a} /\ d.ends[a] = "expired"
       /\ \A b \in DOMAIN c.ends : b # a => d.ends[b] = c.ends[b]
  <2>1. d.rows = Put(c.rows, j, rec) /\ d.ends = Put(c.ends, a, "expired")
    BY <1>9
  <2> HIDE DEF c, d
  <2> QED
    BY <2>1 DEF Put
<1>11. LockSound' /\ HoldsAttempt(s, a)' /\ \A x \in Sessions : Kept(x)
  <2>1. Take(s, AttemptRow(a)) /\ tx'[s].op # "none"
    BY <1>0, <1>1, <1>3, <1>9
  <2>2. Inv /\ LockSound /\ OnlySession(s) /\ HoldsJob(s, attempts[a].job)
    BY <1>2, <1>4, <1>5, <1>7
  <2> QED
    BY <1>5, <2>1, <2>2, TakesAttempt
<1>12. Gone(s)' = Gone(s) \cup {j}
  <2>1. \A b \in DOMAIN d.ends : attempts'[b].job = attempts[b].job
    BY <1>7
  <2> HIDE DEF d
  <2> QED
    BY <1>5, <1>10, <2>1 DEF Gone, d
<1>13. /\ \A i \in Gone(s) : Left(s)'[i] = Left(s)[i]
       /\ Left(s)'[j] = rec
  BY <1>0, <1>2, <1>7, <1>12 DEF Left, JobsEnded
<1>14. ScanSound(s)'
  <2>1. ASSUME NEW b \in DOMAIN d.ends
        PROVE  /\ b \in DOMAIN attempts' /\ attempts'[b].outcome = "running"
               /\ d.ends[b] = "expired"
               /\ HoldsAttempt(s, b)'
    <3>1. CASE b = a
      BY <1>5, <1>7, <1>10, <1>11, <3>1 DEF HoldsAttempt
    <3>2. CASE b # a
      <4>1. b \in DOMAIN c.ends /\ d.ends[b] = c.ends[b]
        BY <1>10, <2>1, <3>2
      <4> QED
        BY <1>2, <1>7, <1>11, <4>1 DEF ScanSound, Kept
    <3> QED
      BY <3>1, <3>2
  <2>2. \A i \in Gone(s)' \cup d.mine : i \in Lapsed(job', d.t) /\ HoldsJob(s, i)'
    <3>1. \A i \in Gone(s) \cup c.mine : i \in Jobs /\ HoldsJob(s, i)'
      BY <1>2, <1>11 DEF ScanSound, Kept
    <3> QED
      BY <1>2, <1>4, <1>7, <1>9, <1>12, <3>1 DEF ScanSound
  <2>3. Gone(s)' \cap d.mine = {}
    BY <1>2, <1>9, <1>12 DEF ScanSound
  <2>4. DOMAIN d.rows = Gone(s)' /\ \A i \in DOMAIN d.rows : d.rows[i] = Left(s)'[i]
    BY <1>2, <1>4, <1>10, <1>12, <1>13 DEF ScanSound
  <2> HIDE DEF d
  <2> QED
    BY <1>1, <1>2, <1>7, <1>9, <2>1, <2>2, <2>3, <2>4 DEF ScanSound, d
<1>15. CallSound(s)'
  BY <1>1, <1>9, <1>14 DEF CallSound
<1>16. AloneSound(s)'
  <2> SUFFICES ASSUME alone[s] PROVE AloneSound(s)'
    BY <1>7 DEF AloneSound
  <2>1. /\ Lapsed(job, c.t) = Gone(s) \cup c.mine \cup c.todo
        /\ \A x \in Sessions \ {s} : tx[x].op = "none"
    BY <1>1 DEF PgInv, AloneSound
  <2>2. Lapsed(job', d.t) = Gone(s)' \cup d.mine \cup d.todo
    BY <1>1, <1>4, <1>7, <1>9, <1>12, <2>1
  <2> QED
    BY <1>1, <1>7, <1>9, <2>1, <2>2 DEF AloneSound, OnlySession
<1> QED
  BY <1>1, <1>7, <1>9, <1>11, <1>15, <1>16 DEF Quietly

LEMMA LookedForQueued ==
  ASSUME PgInv, NEW s \in Sessions, LookForQueued(s)
  PROVE  /\ Quietly(s)
         /\ tx'[s].op = "claim" /\ tx'[s].at = "queued" /\ tx[s].at = "lapsed"
         /\ tx'[s].todo = {j \in Jobs : Seen(s)'[j].status = "queued"}
<1> DEFINE c == tx[s]
           d == tx'[s]
<1>1. c.op = "claim" /\ c.at = "lapsed" /\ c.todo = {} /\ c.mine = {}
  BY DEF LookForQueued, At
<1>2. /\ c \in Transaction /\ ScanSound(s) /\ LockSound /\ Gone(s) \subseteq Jobs
      /\ \A j \in Gone(s) : job[j].status = "running"
      /\ \A j \in Jobs : j \notin Gone(s) => Left(s)[j] = job[j]
  BY <1>1, ScanJobs
<1>3. c.claimed = None /\ Seen(s) = Left(s)
  BY <1>1, <1>2, ScanJobs DEF ScanSound
<1>4. PICK todo \in SUBSET Jobs :
        /\ todo = {j \in Jobs : Seen(s)[j].status = "queued"}
        /\ Goto(s, [c EXCEPT !.at = "queued", !.todo = todo])
        /\ UNCHANGED lock
  <2>1. PICK todo : todo = {j \in Jobs : Seen(s)[j].status = "queued"}
    OBVIOUS
  <2>2. todo \in SUBSET Jobs
    BY <2>1
  <2>3. Goto(s, [c EXCEPT !.at = "queued", !.todo = todo]) /\ UNCHANGED lock
    BY <2>1 DEF LookForQueued
  <2> QED
    BY <2>1, <2>2, <2>3
<1>5. /\ OnlySession(s) /\ UNCHANGED <<job, attempts>> /\ alone' = alone
      /\ DOMAIN tx' = Sessions /\ DOMAIN alone' = Sessions
      /\ d = [c EXCEPT !.at = "queued", !.todo = todo]
  BY <1>4, WentTo
<1>6. /\ d \in Transaction /\ d.op = c.op /\ d.at = "queued" /\ d.t = c.t /\ d.lease = c.lease
      /\ d.todo = todo /\ d.mine = {} /\ d.claimed = None /\ d.report = c.report
      /\ d.rows = c.rows /\ d.ends = c.ends
  <2>1. c \in Transaction
    BY <1>2
  <2> HIDE DEF c, d
  <2>2. d \in Transaction
    BY <1>5, <2>1 DEF Transaction, Places
  <2> QED
    BY <1>1, <1>3, <1>5, <2>1, <2>2 DEF Transaction
<1>7. LockSound' /\ \A x \in Sessions : Kept(x)
  <2>1. tx'[s].op # "none"
    BY <1>1, <1>6
  <2> QED
    BY <1>2, <1>4, <1>5, <2>1, SameLocks
<1>8. Gone(s)' = Gone(s)
  BY <1>5, <1>6 DEF Gone
<1>9. Left(s)' = Left(s) /\ Seen(s)' = Seen(s)
  <2>1. Left(s)' = Left(s)
    BY <1>5, <1>8 DEF Left, JobsEnded
  <2>2. Seen(s)' = Seen(s)
    BY <1>5, <1>6 DEF Seen
  <2> QED
    BY <2>1, <2>2
<1>10. ScanSound(s)'
  <2>1. \A j \in todo : job[j].status # "absent"
    BY <1>2, <1>3, <1>4
  <2>2. \A j \in Gone(s) : HoldsJob(s, j)'
    BY <1>2, <1>7 DEF ScanSound, Kept
  <2>3. \A a \in DOMAIN c.ends : a \in DOMAIN attempts /\ HoldsAttempt(s, a)'
    BY <1>2, <1>7 DEF ScanSound, Kept
  <2>4. DOMAIN d.rows = Gone(s) /\ \A i \in DOMAIN d.rows : d.rows[i] = Left(s)'[i]
    BY <1>2, <1>3, <1>6, <1>9 DEF ScanSound
  <2> HIDE DEF d
  <2> QED
    BY <1>1, <1>2, <1>5, <1>6, <1>8, <2>1, <2>2, <2>3, <2>4 DEF ScanSound, d
<1>11. CallSound(s)'
  BY <1>1, <1>6, <1>10 DEF CallSound
<1>12. AloneSound(s)'
  <2> SUFFICES ASSUME alone[s] PROVE AloneSound(s)'
    BY <1>5 DEF AloneSound
  <2>1. /\ Lapsed(job, c.t) = Gone(s)
        /\ \A x \in Sessions \ {s} : tx[x].op = "none"
    BY <1>1 DEF PgInv, AloneSound
  <2>2. todo = Queued(Left(s)')
    BY <1>3, <1>4, <1>9 DEF Queued
  <2> QED
    BY <1>1, <1>5, <1>6, <1>8, <2>1, <2>2 DEF AloneSound, OnlySession
<1>13. todo = {j \in Jobs : Seen(s)'[j].status = "queued"}
  BY <1>4, <1>9
<1> QED
  BY <1>1, <1>5, <1>6, <1>7, <1>11, <1>12, <1>13 DEF Quietly

\* Nothing left to lock.
LEMMA EndedScan ==
  ASSUME PgInv, NEW s \in Sessions, EndScan(s)
  PROVE  /\ Quietly(s)
         /\ tx'[s].op = tx[s].op /\ tx'[s].at = "commit" /\ tx[s].todo = {}
         /\ tx[s].op = "claim" => tx[s].at = "queued"
<1> DEFINE c == tx[s]
           d == tx'[s]
<1>1. /\ c.op \in {"expire", "claim"} /\ c.todo = {} /\ c.at \in {"lapsed", "queued"}
      /\ c.at = "lapsed" => c.mine = {} /\ c.op = "expire"
      /\ c.at = "queued" => c.op = "claim"
  BY DEF EndScan, At
<1>2. /\ c \in Transaction /\ ScanSound(s) /\ LockSound /\ Gone(s) \subseteq Jobs
  BY <1>1, ScanJobs
<1>3. c.claimed = None /\ c.mine = {}
  BY <1>1, <1>2 DEF ScanSound
<1>4. Goto(s, [c EXCEPT !.at = "commit"]) /\ UNCHANGED lock
  BY DEF EndScan
<1>5. /\ OnlySession(s) /\ UNCHANGED <<job, attempts>> /\ alone' = alone
      /\ DOMAIN tx' = Sessions /\ DOMAIN alone' = Sessions
      /\ d = [c EXCEPT !.at = "commit"]
  BY <1>4, WentTo
<1>6. /\ d \in Transaction /\ d.op = c.op /\ d.at = "commit" /\ d.t = c.t /\ d.lease = c.lease
      /\ d.todo = {} /\ d.mine = {} /\ d.claimed = None /\ d.report = c.report
      /\ d.rows = c.rows /\ d.ends = c.ends
  <2>1. c \in Transaction
    BY <1>2
  <2> HIDE DEF c, d
  <2>2. d \in Transaction
    BY <1>5, <2>1 DEF Transaction, Places
  <2> QED
    BY <1>1, <1>3, <1>5, <2>1, <2>2 DEF Transaction
<1>7. LockSound' /\ \A x \in Sessions : Kept(x)
  <2>1. tx'[s].op # "none"
    BY <1>1, <1>6
  <2> QED
    BY <1>2, <1>4, <1>5, <2>1, SameLocks
<1>8. Gone(s)' = Gone(s)
  BY <1>5, <1>6 DEF Gone
<1>9. Left(s)' = Left(s)
  BY <1>5, <1>8 DEF Left, JobsEnded
<1>10. ScanSound(s)'
  <2>2. \A j \in Gone(s) : HoldsJob(s, j)'
    BY <1>2, <1>7 DEF ScanSound, Kept
  <2>3. \A a \in DOMAIN c.ends : a \in DOMAIN attempts /\ HoldsAttempt(s, a)'
    BY <1>2, <1>7 DEF ScanSound, Kept
  <2>4. DOMAIN d.rows = Gone(s) /\ \A i \in DOMAIN d.rows : d.rows[i] = Left(s)'[i]
    BY <1>2, <1>3, <1>6, <1>9 DEF ScanSound
  <2> HIDE DEF d
  <2> QED
    BY <1>1, <1>2, <1>5, <1>6, <1>8, <2>2, <2>3, <2>4 DEF ScanSound, d
<1>11. CallSound(s)'
  BY <1>1, <1>6, <1>10 DEF CallSound
<1>12. AloneSound(s)'
  <2> SUFFICES ASSUME alone[s] PROVE AloneSound(s)'
    BY <1>5 DEF AloneSound
  <2>1. /\ Lapsed(job, c.t) = Gone(s)
        /\ \A x \in Sessions \ {s} : tx[x].op = "none"
        /\ c.at = "queued" => c.todo = Queued(Left(s))
    BY <1>1, <1>3 DEF PgInv, AloneSound
  <2> QED
    BY <1>1, <1>5, <1>6, <1>8, <1>9, <2>1 DEF AloneSound, OnlySession
<1> QED
  BY <1>1, <1>5, <1>6, <1>7, <1>11, <1>12 DEF Quietly

\* The record of a claimed job.
LEMMA ClaimedRecord ==
  ASSUME NEW jobs, NEW atts, TablesInv(jobs, atts), NEW j \in Jobs, NEW w \in Workers,
         NEW lease \in Leases, NEW t \in Instants
  PROVE  ClaimTransition(jobs[j], w, lease, t) \in InvestigationJob
<1>1. jobs[j] \in InvestigationJob /\ t + lease \in Int
  BY DEF TablesInv, TablesOK
<1>2. jobs[j].attempts_made + 1 \in Nat
  BY <1>1 DEF InvestigationJob
<1> QED
  BY <1>1, <1>2 DEF ClaimTransition, InvestigationJob, JobStatus

\* The queue's next job is taken off the list, because it is locked by another or
\* no longer queued.
PassesOver(s, j) ==
  /\ j \in Jobs
  /\ tx'[s].at = "queued"
  /\ tx'[s].claimed = None
  /\ tx'[s].todo = tx[s].todo \ {j}
  /\ HeldByOther(s, JobRow(j))' \/ Seen(s)'[j].status # "queued"

LEMMA PassedOver ==
  ASSUME PgInv, NEW s \in Sessions, At(s, {"claim"}, "queued"),
         NEW j \in tx[s].todo,
         Goto(s, [tx[s] EXCEPT !.todo = tx[s].todo \ {j}]),
         \/ UNCHANGED lock /\ HeldByOther(s, JobRow(j))
         \/ /\ ~HeldByOther(s, JobRow(j)) /\ Take(s, JobRow(j))
            /\ Seen(s)[j].status # "queued"
  PROVE  Quietly(s) /\ tx'[s].op = "claim" /\ PassesOver(s, j)
<1> DEFINE c == tx[s]
           d == tx'[s]
<1>1. c.op = "claim" /\ c.at = "queued" /\ c.claimed = None /\ c.mine = {}
  BY ScanJobs DEF At, ScanSound
<1>2. /\ c \in Transaction /\ ScanSound(s) /\ LockSound /\ Inv /\ Gone(s) \subseteq Jobs
      /\ Seen(s) = Left(s)
  BY <1>1, ScanJobs
<1>3. j \in Jobs /\ job[j].status # "absent" /\ c.todo \ {j} \in SUBSET Jobs
  BY <1>2, TransactionFields DEF ScanSound
<1>5. /\ OnlySession(s) /\ UNCHANGED <<job, attempts>> /\ alone' = alone
      /\ DOMAIN tx' = Sessions /\ DOMAIN alone' = Sessions
      /\ d = [c EXCEPT !.todo = c.todo \ {j}]
  BY WentTo
<1>6. /\ d \in Transaction /\ d.op = "claim" /\ d.at = "queued" /\ d.t = c.t /\ d.lease = c.lease
      /\ d.todo = c.todo \ {j} /\ d.mine = {} /\ d.claimed = None /\ d.report = c.report
      /\ d.rows = c.rows /\ d.ends = c.ends
  <2>1. c \in Transaction
    BY <1>2
  <2> HIDE DEF c, d
  <2>2. d \in Transaction
    BY <1>3, <1>5, <2>1 DEF Transaction
  <2> QED
    BY <1>1, <1>5, <2>1, <2>2 DEF Transaction
<1>7. LockSound' /\ \A x \in Sessions : Kept(x)
  <2>0. tx'[s].op # "none"
    BY <1>6
  <2>1. CASE UNCHANGED lock
    BY <1>2, <1>5, <2>0, <2>1, SameLocks
  <2>2. CASE ~HeldByOther(s, JobRow(j)) /\ Take(s, JobRow(j))
    BY <1>2, <1>3, <1>5, <2>0, <2>2, TakesJob
  <2> QED
    BY <2>1, <2>2
<1>8. Gone(s)' = Gone(s)
  BY <1>5, <1>6 DEF Gone
<1>9. Left(s)' = Left(s) /\ Seen(s)' = Seen(s)
  <2>1. Left(s)' = Left(s)
    BY <1>5, <1>8 DEF Left, JobsEnded
  <2>2. Seen(s)' = Seen(s)
    BY <1>5, <1>6 DEF Seen
  <2> QED
    BY <2>1, <2>2
<1>10. ScanSound(s)'
  <2>2. \A i \in Gone(s) : HoldsJob(s, i)'
    BY <1>2, <1>7 DEF ScanSound, Kept
  <2>3. \A a \in DOMAIN c.ends : a \in DOMAIN attempts /\ HoldsAttempt(s, a)'
    BY <1>2, <1>7 DEF ScanSound, Kept
  <2>4. DOMAIN d.rows = Gone(s) /\ \A i \in DOMAIN d.rows : d.rows[i] = Left(s)'[i]
    BY <1>1, <1>2, <1>6, <1>9 DEF ScanSound
  <2> HIDE DEF d
  <2> QED
    BY <1>1, <1>2, <1>5, <1>6, <1>8, <2>2, <2>3, <2>4 DEF ScanSound, d
<1>11. CallSound(s)'
  BY <1>6, <1>10 DEF CallSound
<1>12. HeldByOther(s, JobRow(j))' \/ Seen(s)'[j].status # "queued"
  BY <1>9 DEF HeldByOther
<1>13. AloneSound(s)'
  <2> SUFFICES ASSUME alone[s] PROVE AloneSound(s)'
    BY <1>5 DEF AloneSound
  <2>1. /\ Lapsed(job, c.t) = Gone(s)
        /\ \A x \in Sessions \ {s} : tx[x].op = "none"
        /\ c.todo = Queued(Left(s))
    BY <1>1 DEF PgInv, AloneSound
  <2>2. ~HeldByOther(s, JobRow(j))
    BY <1>3, AloneMeetsNoLock
  <2>3. FALSE
    BY <1>2, <2>1, <2>2 DEF Queued
  <2> QED
    BY <2>3
<1> QED
  BY <1>3, <1>5, <1>6, <1>7, <1>11, <1>12, <1>13 DEF Quietly, PassesOver

\* The queue's next job is free and still queued: it is leased.
LeasesNext(s) ==
  /\ tx'[s].at = "commit"
  /\ tx'[s].claimed \in Jobs
  /\ FirstInLine(tx'[s].claimed, tx[s].todo)

LEMMA LeasedNext ==
  ASSUME PgInv, NEW s \in Sessions, At(s, {"claim"}, "queued"),
         NEW j \in Jobs, FirstInLine(j, tx[s].todo), ~HeldByOther(s, JobRow(j)),
         Take(s, JobRow(j)), Seen(s)[j].status = "queued", Lease(s, j)
  PROVE  Quietly(s) /\ tx'[s].op = "claim" /\ LeasesNext(s)
<1> DEFINE c == tx[s]
           d == tx'[s]
<1>1. c.op = "claim" /\ c.at = "queued" /\ c.claimed = None /\ c.mine = {}
  BY ScanJobs DEF At, ScanSound
<1>2. /\ c \in Transaction /\ ScanSound(s) /\ LockSound /\ Inv /\ Gone(s) \subseteq Jobs
      /\ Seen(s) = Left(s)
      /\ TablesInv(Left(s), EndAttempts(attempts, Gone(s), "expired"))
  BY <1>1, ScanJobs
<1>3. j \in c.todo /\ job[j].status # "absent"
  BY <1>2 DEF ScanSound, FirstInLine
<1>4. PICK rec : rec = ClaimTransition(Left(s)[j], WorkerOf[s], c.lease, c.t)
  OBVIOUS
<1>5. /\ OnlySession(s) /\ UNCHANGED <<job, attempts, line>> /\ alone' = alone
      /\ DOMAIN tx' = Sessions /\ DOMAIN alone' = Sessions
      /\ d = [c EXCEPT !.at = "commit", !.claimed = j, !.rows = Put(@, j, rec)]
  BY <1>2, <1>4, WentTo DEF Lease
<1>6. rec \in InvestigationJob
  <2>1. WorkerOf[s] \in Workers /\ c.lease \in Leases /\ c.t \in Instants
    BY <1>1, <1>2 DEF ScanSound
  <2> QED
    BY <1>2, <1>4, <2>1, ClaimedRecord
<1>7. Put(c.rows, j, rec) \in Versions
  <2>1. c.rows \in Versions
    BY <1>2 DEF Transaction
  <2> QED
    BY <1>6, <2>1, VersionsPut
<1>8. /\ d \in Transaction /\ d.op = "claim" /\ d.at = "commit" /\ d.t = c.t /\ d.lease = c.lease
      /\ d.todo = c.todo /\ d.mine = {} /\ d.claimed = j /\ d.report = c.report
      /\ d.rows = Put(c.rows, j, rec) /\ d.ends = c.ends
  <2>1. c \in Transaction
    BY <1>2
  <2> HIDE DEF c, d
  <2>2. d \in Transaction
    BY <1>5, <1>7, <2>1 DEF Transaction, Places
  <2> QED
    BY <1>1, <1>5, <2>1, <2>2 DEF Transaction
<1>9. LockSound' /\ HoldsJob(s, j)' /\ \A x \in Sessions : Kept(x)
  <2>0. tx'[s].op # "none"
    BY <1>8
  <2> QED
    BY <1>2, <1>3, <1>5, <2>0, TakesJob
<1>10. Gone(s)' = Gone(s)
  BY <1>5, <1>8 DEF Gone
<1>11. Left(s)' = Left(s)
  BY <1>5, <1>10 DEF Left, JobsEnded
<1>12. j # None
  OBVIOUS
<1>13. ScanSound(s)'
  <2>2. \A i \in Gone(s) : HoldsJob(s, i)'
    BY <1>2, <1>9 DEF ScanSound, Kept
  <2>3. \A a \in DOMAIN c.ends : a \in DOMAIN attempts /\ HoldsAttempt(s, a)'
    BY <1>2, <1>9 DEF ScanSound, Kept
  <2>4. DOMAIN c.rows = Gone(s) /\ \A i \in DOMAIN c.rows : c.rows[i] = Left(s)[i]
    BY <1>1, <1>2 DEF ScanSound
  <2>5. /\ DOMAIN d.rows = Gone(s) \cup {j} /\ d.rows[j] = rec
        /\ \A i \in Gone(s) : i # j => d.rows[i] = Left(s)[i]
    <3>1. d.rows = Put(c.rows, j, rec)
      BY <1>8
    <3> HIDE DEF c, d
    <3> QED
      BY <2>4, <3>1 DEF Put
  <2>6. DOMAIN Left(s) = Jobs
    BY DEF Left, JobsEnded
  <2>7. \A i \in DOMAIN d.rows :
          d.rows[i] = JobsClaimed(Left(s), j, WorkerOf[s], c.lease, c.t)[i]
    BY <1>2, <1>4, <2>5, <2>6 DEF JobsClaimed
  <2>8. Left(s)[j].status = "queued"
    BY <1>2
  <2> HIDE DEF d
  <2> QED
    BY <1>1, <1>2, <1>5, <1>8, <1>9, <1>10, <1>11, <1>12, <2>2, <2>3, <2>5, <2>7, <2>8
    DEF ScanSound, d
<1>14. CallSound(s)'
  BY <1>8, <1>13 DEF CallSound
<1>15. AloneSound(s)'
  <2> SUFFICES ASSUME alone[s] PROVE AloneSound(s)'
    BY <1>5 DEF AloneSound
  <2>1. /\ Lapsed(job, c.t) = Gone(s)
        /\ \A x \in Sessions \ {s} : tx[x].op = "none"
        /\ c.todo = Queued(Left(s))
    BY <1>1 DEF PgInv, AloneSound
  <2>2. FirstInLine(j, Queued(Left(s)))'
    BY <1>5, <1>11, <2>1 DEF FirstInLine, Queued
  <2> QED
    BY <1>5, <1>8, <1>10, <1>12, <2>1, <2>2 DEF AloneSound, OnlySession
<1> QED
  BY <1>5, <1>8, <1>9, <1>14, <1>15 DEF Quietly, LeasesNext

LEMMA LockedQueued ==
  ASSUME PgInv, NEW s \in Sessions, LockQueued(s)
  PROVE  /\ Quietly(s)
         /\ tx'[s].op = "claim" /\ tx[s].at = "queued"
         /\ LeasesNext(s) \/ \E j \in tx[s].todo : PassesOver(s, j)
<1>1. At(s, {"claim"}, "queued") /\ tx[s].at = "queued"
  BY DEF LockQueued, At
<1>2. PICK j \in Jobs :
       /\ FirstInLine(j, tx[s].todo)
       /\ IF HeldByOther(s, JobRow(j))
          THEN Goto(s, [tx[s] EXCEPT !.todo = @ \ {j}]) /\ UNCHANGED lock
          ELSE /\ Take(s, JobRow(j))
               /\ IF Seen(s)[j].status = "queued" THEN Lease(s, j)
                  ELSE Goto(s, [tx[s] EXCEPT !.todo = @ \ {j}])
  BY DEF LockQueued
<1>3. j \in tx[s].todo
  BY <1>2 DEF FirstInLine
<1>4. CASE ~HeldByOther(s, JobRow(j)) /\ Seen(s)[j].status = "queued"
  <2>1. Take(s, JobRow(j)) /\ Lease(s, j) /\ FirstInLine(j, tx[s].todo)
    BY <1>2, <1>4
  <2> QED
    BY <1>1, <1>4, <2>1, LeasedNext
<1>5. CASE HeldByOther(s, JobRow(j)) \/ Seen(s)[j].status # "queued"
  <2>1. /\ Goto(s, [tx[s] EXCEPT !.todo = tx[s].todo \ {j}])
        /\ \/ UNCHANGED lock /\ HeldByOther(s, JobRow(j))
           \/ /\ ~HeldByOther(s, JobRow(j)) /\ Take(s, JobRow(j))
              /\ Seen(s)[j].status # "queued"
    BY <1>2, <1>5
  <2>2. Quietly(s) /\ tx'[s].op = "claim" /\ PassesOver(s, j)
    BY <1>1, <1>3, <2>1, PassedOver
  <2> QED
    BY <1>1, <1>3, <2>2
<1> QED
  BY <1>4, <1>5

-----------------------------------------------------------------------------
(* The statements that wait for a row. *)

\* A call begins with the lock of its job.
LEMMA BegunLocking ==
  ASSUME PgInv, NEW s \in Sessions, NEW j \in Jobs, job[j].status # "absent",
         NEW call, call.op # "none", BeginLocking(s, JobRow(j), call)
  PROVE  /\ tx'[s] = call
         /\ UNCHANGED <<job, attempts, revisions>>
         /\ HoldsJob(s, j)'
         /\ CallSound(s)' => Quietly(s)
<1>1. /\ tx[s].op = "none" /\ ~HeldByOther(s, JobRow(j)) /\ Take(s, JobRow(j))
      /\ tx' = [tx EXCEPT ![s] = call]
      /\ alone' = [x \in Sessions |-> FALSE]
      /\ UNCHANGED storeVars
  BY DEF BeginLocking, IsIdle, Free, HeldByOther
<1>2. /\ tx'[s] = call /\ OnlySession(s) /\ UNCHANGED <<job, attempts, revisions>>
      /\ DOMAIN tx' = Sessions /\ DOMAIN alone' = Sessions
      /\ \A x \in Sessions : ~alone'[x]
  BY <1>1 DEF PgInv, OnlySession, storeVars
<1>3. LockSound' /\ HoldsJob(s, j)' /\ \A x \in Sessions : Kept(x)
  BY <1>1, <1>2, TakesJob DEF PgInv
<1>4. AloneSound(s)'
  BY <1>2 DEF AloneSound
<1> QED
  BY <1>2, <1>3, <1>4 DEF Quietly

LEMMA BegunHeartbeat ==
  ASSUME PgInv, NEW s \in Sessions, NEW a \in Own(s), NEW lease \in Leases,
         NEW t \in Instants, BeginHeartbeat(s, a, lease, t)
  PROVE  Quietly(s) /\ tx'[s].op = "heartbeat"
<1>1. PICK j, call :
        /\ j = attempts[a].job
        /\ call = [Idle EXCEPT !.op = "heartbeat", !.at = "pair", !.t = t, !.job = j,
                               !.attempt = a, !.lease = lease, !.rows = Only(j, job[j])]
  OBVIOUS
<1>2. /\ a \in DOMAIN attempts /\ a \in Nat /\ j \in Jobs /\ job[j] \in InvestigationJob
      /\ job[j].status # "absent" /\ attempts[a].worker = WorkerOf[s]
  BY <1>1, AttemptsJob DEF PgInv, Own
<1>3. BeginLocking(s, JobRow(j), call)
  BY <1>1 DEF BeginHeartbeat, PairRow, PairOrder
<1>4. /\ call.op = "heartbeat" /\ call.at = "pair" /\ call.t = t /\ call.job = j
      /\ call.attempt = a /\ call.lease = lease /\ call.claimed = None
      /\ call.rows = Only(j, job[j]) /\ call.ends = <<>> /\ call.report = 0
  BY <1>1 DEF Idle
<1>5. call \in Transaction
  <2>1. Only(j, job[j]) \in Versions
    BY <1>2, NoVersions, VersionsPut
  <2>2. t \in Int /\ lease \in Int
    OBVIOUS
  <2> QED
    BY <1>1, <1>2, <2>1, <2>2, IdleIsTransaction DEF Transaction, Calls, Places
<1>6. /\ tx'[s] = call /\ UNCHANGED <<job, attempts, revisions>> /\ HoldsJob(s, j)'
      /\ CallSound(s)' => Quietly(s)
  BY <1>2, <1>3, <1>4, BegunLocking
<1>7. DOMAIN call.rows = {j} /\ call.rows[j] = job[j] /\ DOMAIN call.ends = {}
  BY <1>4, NoVersions DEF Only
<1>8. PairSound(s)'
  BY <1>1, <1>2, <1>4, <1>6, <1>7 DEF PairSound
<1> QED
  BY <1>4, <1>5, <1>6, <1>8 DEF CallSound

LEMMA BegunFinish ==
  ASSUME PgInv, NEW s \in Sessions, NEW a \in Own(s), NEW r \in Results,
         BeginFinish(s, a, r.outcome, r.retryable)
  PROVE  Quietly(s) /\ tx'[s].op = "finish"
<1>1. PICK j, call :
        /\ j = attempts[a].job
        /\ call = [Idle EXCEPT !.op = "finish", !.at = "pair", !.job = j, !.attempt = a,
                               !.outcome = r.outcome, !.retryable = r.retryable,
                               !.rows = Only(j, job[j])]
  OBVIOUS
<1>2. /\ a \in DOMAIN attempts /\ a \in Nat /\ j \in Jobs /\ job[j] \in InvestigationJob
      /\ job[j].status # "absent" /\ attempts[a].worker = WorkerOf[s]
  BY <1>1, AttemptsJob DEF PgInv, Own
<1>3. BeginLocking(s, JobRow(j), call)
  BY <1>1 DEF BeginFinish, PairRow, PairOrder
<1>4. /\ call.op = "finish" /\ call.at = "pair" /\ call.job = j
      /\ call.attempt = a /\ call.outcome = r.outcome /\ call.retryable = r.retryable
      /\ call.claimed = None
      /\ call.rows = Only(j, job[j]) /\ call.ends = <<>> /\ call.report = 0
  BY <1>1 DEF Idle
<1>0. r.outcome \in Reported /\ r.retryable \in BOOLEAN /\ (r.outcome # "failed" => r.retryable)
  OBVIOUS
<1>5. call \in Transaction
  <2>1. Only(j, job[j]) \in Versions
    BY <1>2, NoVersions, VersionsPut
  <2> QED
    BY <1>0, <1>1, <1>2, <2>1, IdleIsTransaction DEF Transaction, Calls, Places
<1>6. /\ tx'[s] = call /\ UNCHANGED <<job, attempts, revisions>> /\ HoldsJob(s, j)'
      /\ CallSound(s)' => Quietly(s)
  BY <1>2, <1>3, <1>4, BegunLocking
<1>7. DOMAIN call.rows = {j} /\ call.rows[j] = job[j] /\ DOMAIN call.ends = {}
  BY <1>4, NoVersions DEF Only
<1>8. PairSound(s)'
  BY <1>0, <1>1, <1>2, <1>4, <1>6, <1>7 DEF PairSound
<1> QED
  BY <1>4, <1>5, <1>6, <1>8 DEF CallSound

LEMMA BegunRevision ==
  ASSUME PgInv, NEW s \in Sessions, NEW j \in Jobs, NEW a \in DOMAIN attempts,
         BeginRevision(s, j, a)
  PROVE  Quietly(s) /\ tx'[s].op = "revise"
<1>1. PICK call, next :
        /\ next = NextRevision(j)
        /\ call = [Idle EXCEPT !.op = "revise", !.at = "commit", !.job = j, !.attempt = a,
                               !.report = next]
  OBVIOUS
<1>2. a \in Nat /\ attempts[a].job = j /\ job[j].status # "absent" /\ next \in Nat
  <2>1. a \in Nat /\ attempts[a].job = j /\ job[j].status # "absent"
    BY AttemptsJob DEF PgInv, BeginRevision
  <2>2. revisions[j] \in Seq(ReportRevision)
    BY DEF PgInv, Inv
  <2> QED
    BY <1>1, <2>1, <2>2 DEF NextRevision
<1>3. BeginLocking(s, JobRow(j), call)
  BY <1>1 DEF BeginRevision
<1>4. /\ call.op = "revise" /\ call.at = "commit" /\ call.job = j /\ call.attempt = a
      /\ call.claimed = None /\ call.rows = <<>> /\ call.ends = <<>> /\ call.report = next
  BY <1>1 DEF Idle
<1>5. call \in Transaction
  <2>1. call = [Idle EXCEPT !.op = "revise", !.at = "commit", !.job = j, !.attempt = a,
                            !.report = next]
    BY <1>1
  <2>2. a \in Nat /\ next \in Nat
    BY <1>2
  <2> QED
    BY <2>1, <2>2, IdleIsTransaction DEF Transaction, Calls, Places
<1>6. /\ tx'[s] = call /\ UNCHANGED <<job, attempts, revisions>> /\ HoldsJob(s, j)'
      /\ CallSound(s)' => Quietly(s)
  BY <1>2, <1>3, <1>4, BegunLocking
<1>7. NextRevision(j)' = next
  BY <1>1, <1>6 DEF NextRevision
<1>8. ReviseSound(s)'
  BY <1>2, <1>4, <1>6, <1>7, NoVersions DEF ReviseSound
<1> QED
  BY <1>4, <1>5, <1>6, <1>8 DEF CallSound

\* A job that can be cancelled: what is left of it is the record of a job.
LEMMA CancelledRecord ==
  ASSUME Inv, NEW j \in Jobs, job[j].status \in {"queued", "running"}
  PROVE  /\ FinishTransition(job[j], "cancelled", FALSE) \in InvestigationJob
         /\ FinishTransition(job[j], "cancelled", FALSE).status = "cancelled"
<1>1. job[j] \in InvestigationJob
  BY DEF Inv, TablesInv, TablesOK
<1>2. StatusAfter(job[j], "cancelled", FALSE) = "cancelled"
  BY DEF StatusAfter
<1> QED
  BY <1>1, <1>2 DEF FinishTransition, InvestigationJob, JobStatus, Terminal

LEMMA BegunCancel ==
  ASSUME PgInv, NEW s \in Sessions, NEW j \in Jobs, BeginCancel(s, j)
  PROVE  Quietly(s) /\ tx'[s].op = "cancel"
<1>0. Inv /\ job[j].status \in {"queued", "running"}
  BY DEF BeginCancel, PgInv
<1>1. PICK rec, a, at :
        /\ rec = FinishTransition(job[j], "cancelled", FALSE)
        /\ a = IF job[j].status = "running" THEN RunningAttempt(j) ELSE None
        /\ at = IF job[j].status = "running" THEN "attempt" ELSE "commit"
  <2>1. PICK rec : rec = FinishTransition(job[j], "cancelled", FALSE)
    OBVIOUS
  <2>2. PICK a : a = IF job[j].status = "running" THEN RunningAttempt(j) ELSE None
    OBVIOUS
  <2>3. PICK at : at = IF job[j].status = "running" THEN "attempt" ELSE "commit"
    OBVIOUS
  <2> QED
    BY <2>1, <2>2, <2>3
<1>9. PICK call : call = [Idle EXCEPT !.op = "cancel", !.at = at, !.job = j, !.attempt = a,
                                      !.rows = Only(j, rec)]
  OBVIOUS
<1>2. /\ job[j].status = "running" =>
           a \in DOMAIN attempts /\ attempts[a].job = j /\ attempts[a].outcome = "running"
      /\ a \in Nat \cup {None}
  BY <1>0, <1>1, RunningAttemptIs, AttemptsJob
<1>3. BeginLocking(s, JobRow(j), call)
  BY <1>1, <1>9 DEF BeginCancel
<1>4. /\ call.op = "cancel" /\ call.at = at /\ call.job = j /\ call.attempt = a
      /\ call.claimed = None /\ call.rows = Only(j, rec) /\ call.ends = <<>> /\ call.report = 0
  BY <1>9 DEF Idle
<1>5. call \in Transaction
  <2>1. Only(j, rec) \in Versions
    BY <1>0, <1>1, CancelledRecord, NoVersions, VersionsPut
  <2>2. at \in Places
    BY <1>1 DEF Places
  <2>3. a \in Nat \cup {None}
    BY <1>2
  <2> QED
    BY <1>9, <2>1, <2>2, <2>3, IdleIsTransaction DEF Transaction, Calls
<1>6. /\ tx'[s] = call /\ UNCHANGED <<job, attempts, revisions>> /\ HoldsJob(s, j)'
      /\ CallSound(s)' => Quietly(s)
  BY <1>0, <1>3, <1>4, BegunLocking
<1>7. DOMAIN call.rows = {j} /\ call.rows[j] = rec /\ DOMAIN call.ends = {}
  BY <1>4, NoVersions DEF Only
<1>8. CancelSound(s)'
  BY <1>0, <1>1, <1>2, <1>4, <1>6, <1>7 DEF CancelSound
<1> QED
  BY <1>4, <1>5, <1>6, <1>8 DEF CallSound

\* A call goes on with the lock of an attempt whose job it holds.
LEMMA GoneOnLocking ==
  ASSUME PgInv, NEW s \in Sessions, NEW b \in DOMAIN attempts,
         HoldsJob(s, attempts[b].job), Take(s, AttemptRow(b)),
         NEW call, call.op \notin {"none", "expire", "claim"}, Goto(s, call),
         tx[s].op = call.op
  PROVE  /\ tx'[s] = call
         /\ UNCHANGED <<job, attempts, revisions>>
         /\ HoldsAttempt(s, b)'
         /\ Kept(s)
         /\ CallSound(s)' => Quietly(s)
<1>2. /\ tx'[s] = call /\ OnlySession(s) /\ UNCHANGED <<job, attempts, revisions>>
      /\ DOMAIN tx' = Sessions /\ DOMAIN alone' = Sessions /\ alone' = alone
  BY WentTo DEF OnlySession, storeVars
<1>3. LockSound' /\ HoldsAttempt(s, b)' /\ \A x \in Sessions : Kept(x)
  <2>1. tx'[s].op # "none" /\ Inv /\ LockSound
    BY <1>2 DEF PgInv
  <2> QED
    BY <1>2, <2>1, TakesAttempt
<1>4. ~alone[s]
  BY DEF PgInv, AloneSound
<1>5. AloneSound(s)'
  BY <1>2, <1>4 DEF AloneSound
<1> QED
  BY <1>2, <1>3, <1>5 DEF Quietly

LEMMA LockedCancelled ==
  ASSUME PgInv, NEW s \in Sessions, LockCancelledAttempt(s)
  PROVE  Quietly(s) /\ tx'[s].op = "cancel"
<1> DEFINE c == tx[s]
           d == tx'[s]
<1>1. c.op = "cancel" /\ c.at = "attempt" /\ Take(s, AttemptRow(c.attempt))
  BY DEF LockCancelledAttempt, At
<1>2. c \in Transaction /\ CancelSound(s)
  BY <1>1 DEF PgInv, CallSound
<1>3. PICK a, ends : a = c.attempt /\ ends = Only(a, "cancelled")
  OBVIOUS
<1>4. /\ a \in DOMAIN attempts /\ a \in Nat /\ attempts[a].job = c.job /\ HoldsJob(s, c.job)
      /\ job[c.job].status = "running"
  BY <1>1, <1>2, <1>3, AttemptsJob DEF CancelSound, PgInv
<1>5. ends \in Endings /\ DOMAIN ends = {a} /\ ends[a] = "cancelled"
  <2>1. ends \in Endings
    BY <1>3, <1>4, NoVersions, EndingsPut DEF AttemptOutcome
  <2> QED
    BY <1>3, <2>1 DEF Only
<1>6. PICK call : call = [c EXCEPT !.at = "commit", !.ends = ends]
  OBVIOUS
<1>7. Goto(s, call)
  BY <1>3, <1>6 DEF LockCancelledAttempt
<1>8. /\ call \in Transaction /\ call.op = "cancel" /\ call.at = "commit" /\ call.job = c.job
      /\ call.attempt = a /\ call.claimed = c.claimed /\ call.rows = c.rows
      /\ call.ends = ends /\ call.report = c.report
  <2> HIDE DEF c, d
  <2>1. call \in Transaction
    BY <1>2, <1>5, <1>6 DEF Transaction, Places
  <2> QED
    BY <1>1, <1>2, <1>3, <1>6, <2>1 DEF Transaction
<1>9. /\ d = call /\ UNCHANGED <<job, attempts, revisions>> /\ HoldsAttempt(s, a)'
      /\ Kept(s) /\ (CallSound(s)' => Quietly(s))
  <2>1. HoldsJob(s, attempts[a].job) /\ Take(s, AttemptRow(a)) /\ tx[s].op = call.op
    BY <1>1, <1>3, <1>4, <1>8
  <2>2. call.op \notin {"none", "expire", "claim"}
    BY <1>8
  <2> QED
    BY <1>4, <1>7, <2>1, <2>2, GoneOnLocking
<1>10. CancelSound(s)'
  <2>1. PICK j \in Jobs : j = c.job
    BY <1>2 DEF CancelSound
  <2>2. HoldsJob(s, j)'
    BY <1>4, <1>9, <2>1 DEF Kept
  <2>3. HoldsJob(s, tx[s].job)'
    BY <1>8, <1>9, <2>1, <2>2 DEF HoldsJob
  <2>4. HoldsAttempt(s, tx[s].attempt)'
    BY <1>8, <1>9 DEF HoldsAttempt
  <2> QED
    BY <1>2, <1>3, <1>4, <1>5, <1>8, <1>9, <2>3, <2>4 DEF CancelSound
<1> QED
  BY <1>8, <1>9, <1>10 DEF CallSound

\* A transaction ends and has written nothing.
LEMMA EndedWithoutWriting ==
  ASSUME PgInv, NEW s \in Sessions, tx' = [tx EXCEPT ![s] = Idle], Release(s),
         alone' = [alone EXCEPT ![s] = FALSE], UNCHANGED storeVars, tx[s].op # "none"
  PROVE  Quietly(s) /\ tx'[s] = Idle
<1>1. /\ tx'[s] = Idle /\ OnlySession(s) /\ ~alone'[s]
      /\ \A x \in Sessions \ {s} : alone'[x] = alone[x]
      /\ DOMAIN tx' = Sessions /\ DOMAIN alone' = Sessions
  BY DEF PgInv, OnlySession
<1>2. LockSound' /\ \A x \in Sessions \ {s} : Kept(x)
  BY <1>1, ReleasesRows DEF PgInv
<1>3. CallSound(s)'
  <2>1. Idle.op = "none"
    BY DEF Idle
  <2> QED
    BY <1>1, <2>1, IdleIsTransaction DEF CallSound
<1>4. AloneSound(s)'
  BY <1>1 DEF AloneSound
<1> QED
  BY <1>1, <1>2, <1>3, <1>4 DEF Quietly

LEMMA RolledBack ==
  ASSUME PgInv, NEW s \in Sessions, Rollback(s)
  PROVE  Quietly(s) /\ tx'[s] = Idle
BY EndedWithoutWriting DEF Rollback, IsIdle

LEMMA QuietlyEnded ==
  ASSUME PgInv, NEW s \in Sessions, EndQuietly(s), tx[s].op # "none"
  PROVE  Quietly(s) /\ tx'[s] = Idle
BY EndedWithoutWriting DEF EndQuietly

\* The lease judged by what was read of the job is the job's lease: the row is locked.
LEMMA LeaseJudged ==
  ASSUME PgInv, NEW s \in Sessions, tx[s].op \in {"heartbeat", "finish"}, tx[s].at = "pair"
  PROVE  /\ tx[s] \in Transaction /\ PairSound(s)
         /\ tx[s].attempt \in DOMAIN attempts /\ tx[s].attempt \in Nat /\ tx[s].job \in Jobs
         /\ attempts[tx[s].attempt].job = tx[s].job /\ HoldsJob(s, tx[s].job)
         /\ tx[s].rows[tx[s].job] = job[tx[s].job]
         /\ PairRow(tx[s].attempt, 2) = AttemptRow(tx[s].attempt)
         /\ \A t : LeaseHeld(tx[s].rows[tx[s].job], attempts[tx[s].attempt], WorkerOf[s], t)
                     <=> LeaseIsValid(tx[s].attempt, WorkerOf[s], t)
<1>1. tx[s] \in Transaction /\ PairSound(s)
  BY DEF PgInv, CallSound
<1>2. /\ tx[s].attempt \in DOMAIN attempts /\ tx[s].attempt \in Nat /\ tx[s].job \in Jobs
      /\ attempts[tx[s].attempt].job = tx[s].job /\ HoldsJob(s, tx[s].job)
      /\ tx[s].rows[tx[s].job] = job[tx[s].job]
  BY <1>1, AttemptsJob DEF PairSound, PgInv
<1>3. PairRow(tx[s].attempt, 2) = AttemptRow(tx[s].attempt)
  BY DEF PairRow, PairOrder
<1>4. \A t : LeaseHeld(tx[s].rows[tx[s].job], attempts[tx[s].attempt], WorkerOf[s], t)
               <=> LeaseIsValid(tx[s].attempt, WorkerOf[s], t)
  BY <1>2 DEF LeaseHeld, LeaseIsValid
<1> QED
  BY <1>1, <1>2, <1>3, <1>4

\* A job whose lease is longer is still a job.
LEMMA BeatenRecord ==
  ASSUME NEW rec \in InvestigationJob, NEW t \in Instants, NEW lease \in Leases
  PROVE  [rec EXCEPT !.lease_expires_at = t + lease] \in InvestigationJob
<1>1. t + lease \in Int
  OBVIOUS
<1> QED
  BY <1>1 DEF InvestigationJob

LEMMA LockedBeaten ==
  ASSUME PgInv, NEW s \in Sessions, LockBeaten(s)
  PROVE  Quietly(s) /\ tx'[s].op \in {"heartbeat", "none"}
<1> DEFINE c == tx[s]
           d == tx'[s]
<1>1. c.op = "heartbeat" /\ c.at = "pair"
  BY DEF LockBeaten, At
<1>2. /\ c \in Transaction /\ PairSound(s)
      /\ c.attempt \in DOMAIN attempts /\ c.attempt \in Nat /\ c.job \in Jobs
      /\ attempts[c.attempt].job = c.job /\ HoldsJob(s, c.job) /\ c.rows[c.job] = job[c.job]
      /\ PairRow(c.attempt, 2) = AttemptRow(c.attempt)
      /\ LeaseHeld(c.rows[c.job], attempts[c.attempt], WorkerOf[s], c.t)
           <=> LeaseIsValid(c.attempt, WorkerOf[s], c.t)
  BY <1>1, LeaseJudged
<1>3. CASE ~LeaseIsValid(c.attempt, WorkerOf[s], c.t)
  <2>1. EndQuietly(s)
    BY <1>2, <1>3 DEF LockBeaten
  <2>2. Quietly(s) /\ tx'[s] = Idle
    BY <1>1, <2>1, QuietlyEnded
  <2> QED
    BY <2>2 DEF Idle
<1>4. CASE LeaseIsValid(c.attempt, WorkerOf[s], c.t)
  <2>1. PICK j \in Jobs, a \in DOMAIN attempts : j = c.job /\ a = c.attempt
    BY <1>2
  <2>2. PICK rec, rows : /\ rec = [job[j] EXCEPT !.lease_expires_at = c.t + c.lease]
                         /\ rows = Only(j, rec)
    <3>1. PICK rec : rec = [job[j] EXCEPT !.lease_expires_at = c.t + c.lease]
      OBVIOUS
    <3> QED
      BY <3>1
  <2>3. /\ Take(s, AttemptRow(a))
        /\ Goto(s, [c EXCEPT !.at = "commit", !.rows = rows])
    BY <1>2, <1>4, <2>1, <2>2 DEF LockBeaten
  <2>4. c.t \in Instants /\ c.lease \in Leases
    BY <1>1, <1>2 DEF PairSound
  <2>5. rec \in InvestigationJob
    BY <2>2, <2>4, BeatenRecord DEF PgInv, Inv, TablesInv, TablesOK
  <2>6. rows \in Versions /\ DOMAIN rows = {j} /\ rows[j] = rec
    <3>1. rows \in Versions
      BY <2>2, <2>5, NoVersions, VersionsPut
    <3> QED
      BY <2>2, <3>1 DEF Only
  <2>7. PICK call : call = [c EXCEPT !.at = "commit", !.rows = rows]
    OBVIOUS
  <2>8. /\ call \in Transaction /\ call.op = "heartbeat" /\ call.at = "commit" /\ call.t = c.t
        /\ call.job = j /\ call.attempt = a /\ call.lease = c.lease
        /\ call.claimed = c.claimed /\ call.rows = rows /\ call.ends = c.ends
        /\ call.report = c.report
    <3>1. c \in Transaction
      BY <1>2
    <3> HIDE DEF c, d
    <3>2. call \in Transaction
      BY <2>6, <2>7, <3>1 DEF Transaction, Places
    <3> QED
      BY <1>1, <2>1, <2>7, <3>1, <3>2 DEF Transaction
  <2>9. /\ d = call /\ UNCHANGED <<job, attempts, revisions>> /\ HoldsAttempt(s, a)'
        /\ Kept(s) /\ (CallSound(s)' => Quietly(s))
    <3>1. /\ HoldsJob(s, attempts[a].job) /\ tx[s].op = call.op
          /\ call.op \notin {"none", "expire", "claim"} /\ Goto(s, call)
      BY <1>1, <1>2, <2>1, <2>3, <2>7, <2>8
    <3> QED
      BY <2>3, <3>1, GoneOnLocking
  <2>10. PairSound(s)'
    <3>1. HoldsJob(s, j)'
      BY <1>2, <2>1, <2>9 DEF Kept
    <3>2. HoldsJob(s, tx[s].job)' /\ HoldsAttempt(s, tx[s].attempt)'
      BY <2>8, <2>9, <3>1 DEF HoldsJob, HoldsAttempt
    <3>3. LeaseIsValid(tx[s].attempt, WorkerOf[s], tx[s].t)'
      BY <1>4, <2>1, <2>8, <2>9 DEF LeaseIsValid
    <3>4. attempts[a].job = j /\ attempts[a].worker = WorkerOf[s]
      BY <1>2, <2>1 DEF PairSound
    <3>5. c.claimed = None /\ DOMAIN c.ends = {} /\ c.report = 0
      BY <1>1, <1>2 DEF PairSound
    <3> QED
      BY <2>2, <2>4, <2>6, <2>8, <2>9, <3>2, <3>3, <3>4, <3>5 DEF PairSound
  <2> QED
    BY <2>8, <2>9, <2>10 DEF CallSound
<1> QED
  BY <1>3, <1>4

LEMMA LockedFinished ==
  ASSUME PgInv, NEW s \in Sessions, NEW t \in Instants, LockFinished(s, t)
  PROVE  Quietly(s) /\ tx'[s].op \in {"finish", "none"}
<1> DEFINE c == tx[s]
           d == tx'[s]
<1>1. c.op = "finish" /\ c.at = "pair"
  BY DEF LockFinished, At
<1>2. /\ c \in Transaction /\ PairSound(s)
      /\ c.attempt \in DOMAIN attempts /\ c.attempt \in Nat /\ c.job \in Jobs
      /\ attempts[c.attempt].job = c.job /\ HoldsJob(s, c.job) /\ c.rows[c.job] = job[c.job]
      /\ PairRow(c.attempt, 2) = AttemptRow(c.attempt)
      /\ LeaseHeld(c.rows[c.job], attempts[c.attempt], WorkerOf[s], t)
           <=> LeaseIsValid(c.attempt, WorkerOf[s], t)
  BY <1>1, LeaseJudged
<1>3. CASE ~LeaseIsValid(c.attempt, WorkerOf[s], t)
  <2>1. EndQuietly(s)
    BY <1>2, <1>3 DEF LockFinished
  <2>2. Quietly(s) /\ tx'[s] = Idle
    BY <1>1, <2>1, QuietlyEnded
  <2> QED
    BY <2>2 DEF Idle
<1>4. CASE LeaseIsValid(c.attempt, WorkerOf[s], t)
  <2>1. PICK j \in Jobs, a \in DOMAIN attempts : j = c.job /\ a = c.attempt
    BY <1>2
  <2>2. PICK rec, rows, ends, report :
          /\ rec = FinishTransition(job[j], c.outcome, c.retryable)
          /\ rows = Only(j, rec)
          /\ ends = Only(a, c.outcome)
          /\ report = IF c.outcome = "failed" THEN 0 ELSE NextRevision(j)
    <3>1. PICK rec : rec = FinishTransition(job[j], c.outcome, c.retryable)
      OBVIOUS
    <3>2. PICK report : report = IF c.outcome = "failed" THEN 0 ELSE NextRevision(j)
      OBVIOUS
    <3> QED
      BY <3>1, <3>2
  <2>3. /\ Take(s, AttemptRow(a))
        /\ Goto(s, [c EXCEPT !.at = "commit", !.t = t, !.rows = rows, !.ends = ends,
                             !.report = report])
    BY <1>2, <1>4, <2>1, <2>2 DEF LockFinished
  <2>4. /\ c.outcome \in Reported /\ c.retryable \in BOOLEAN
        /\ (c.outcome # "failed" => c.retryable)
        /\ c.outcome \in AttemptOutcome \ {"running"}
    <3>1. c.outcome \in Reported /\ (c.outcome # "failed" => c.retryable)
      BY <1>1, <1>2 DEF PairSound
    <3>2. c.retryable \in BOOLEAN
      BY <1>2, TransactionFields
    <3> QED
      BY <3>1, <3>2 DEF Reported, AttemptOutcome
  <2>5. rec \in InvestigationJob
    <3>1. job[j].status = "running"
      BY <1>2, <1>4, <2>1 DEF LeaseIsValid
    <3> QED
      BY <2>2, <2>4, <3>1, ExpiredRecord DEF PgInv
  <2>6. rows \in Versions /\ DOMAIN rows = {j} /\ rows[j] = rec
    <3>1. rows \in Versions
      BY <2>2, <2>5, NoVersions, VersionsPut
    <3> QED
      BY <2>2, <3>1 DEF Only
  <2>7. ends \in Endings /\ DOMAIN ends = {a} /\ ends[a] = c.outcome
    <3>1. ends \in Endings
      BY <1>2, <2>1, <2>2, <2>4, NoVersions, EndingsPut
    <3> QED
      BY <2>2, <3>1 DEF Only
  <2>8. report \in Nat
    <3>1. revisions[j] \in Seq(ReportRevision)
      BY DEF PgInv, Inv
    <3> QED
      BY <2>2, <3>1 DEF NextRevision
  <2>9. PICK call : call = [c EXCEPT !.at = "commit", !.t = t, !.rows = rows, !.ends = ends,
                                     !.report = report]
    OBVIOUS
  <2>10. /\ call \in Transaction /\ call.op = "finish" /\ call.at = "commit" /\ call.t = t
         /\ call.job = j /\ call.attempt = a /\ call.outcome = c.outcome
         /\ call.retryable = c.retryable
         /\ call.claimed = c.claimed /\ call.rows = rows /\ call.ends = ends
         /\ call.report = report
    <3>1. c \in Transaction /\ t \in Int
      BY <1>2
    <3> HIDE DEF c, d
    <3>2. call \in Transaction
      BY <2>6, <2>7, <2>8, <2>9, <3>1 DEF Transaction, Places
    <3> QED
      BY <1>1, <2>1, <2>9, <3>1, <3>2 DEF Transaction
  <2>11. /\ d = call /\ UNCHANGED <<job, attempts, revisions>> /\ HoldsAttempt(s, a)'
         /\ Kept(s) /\ (CallSound(s)' => Quietly(s))
    <3>1. /\ HoldsJob(s, attempts[a].job) /\ tx[s].op = call.op
          /\ call.op \notin {"none", "expire", "claim"} /\ Goto(s, call)
      BY <1>1, <1>2, <2>1, <2>3, <2>9, <2>10
    <3> QED
      BY <2>3, <3>1, GoneOnLocking
  <2>12. PairSound(s)'
    <3>1. HoldsJob(s, j)'
      BY <1>2, <2>1, <2>11 DEF Kept
    <3>2. HoldsJob(s, tx[s].job)' /\ HoldsAttempt(s, tx[s].attempt)'
      BY <2>10, <2>11, <3>1 DEF HoldsJob, HoldsAttempt
    <3>3. LeaseIsValid(tx[s].attempt, WorkerOf[s], tx[s].t)'
      BY <1>4, <2>1, <2>10, <2>11 DEF LeaseIsValid
    <3>4. attempts[a].job = j /\ attempts[a].worker = WorkerOf[s]
      BY <1>2, <2>1 DEF PairSound
    <3>5. c.claimed = None
      BY <1>2 DEF PairSound
    <3>6. NextRevision(j)' = NextRevision(j)
      BY <2>11 DEF NextRevision
    <3> QED
      BY <2>2, <2>4, <2>6, <2>7, <2>10, <2>11, <3>2, <3>3, <3>4, <3>5, <3>6 DEF PairSound
  <2> QED
    BY <2>10, <2>11, <2>12 DEF CallSound
<1> QED
  BY <1>3, <1>4

-----------------------------------------------------------------------------
(* Commits. *)

\* A transaction writes only rows it holds.
LEMMA HeldWrites ==
  ASSUME PgInv, NEW s \in Sessions
  PROVE  /\ tx[s] \in Transaction
         /\ \A j \in DOMAIN tx[s].rows : j \in Jobs /\ HoldsJob(s, j)
         /\ \A a \in DOMAIN tx[s].ends :
              /\ a \in DOMAIN attempts /\ HoldsAttempt(s, a)
              /\ attempts[a].job \in Jobs /\ HoldsJob(s, attempts[a].job)
         /\ tx[s].report # 0 => tx[s].job \in Jobs /\ HoldsJob(s, tx[s].job)
         /\ tx[s].claimed # None => tx[s].op = "claim" /\ tx[s].claimed \in Jobs
<1> DEFINE c == tx[s]
<1>0. c \in Transaction /\ CallSound(s) /\ Inv /\ LockSound /\ DOMAIN c.rows \subseteq Jobs
  BY TransactionFields DEF PgInv, CallSound
<1>1. CASE c.op = "none"
  <2>1. c = Idle
    BY <1>0, <1>1 DEF CallSound
  <2>2. DOMAIN c.rows = {} /\ DOMAIN c.ends = {} /\ c.report = 0 /\ c.claimed = None
    BY <2>1, NoVersions DEF Idle
  <2> QED
    BY <1>0, <2>2
<1>2. CASE c.op \in {"expire", "claim"}
  <2>1. ScanSound(s) /\ \A j \in Gone(s) : HoldsJob(s, j)
    BY <1>0, <1>2 DEF CallSound, ScanSound
  <2>2. \A j \in DOMAIN c.rows : HoldsJob(s, j)
    BY <2>1 DEF ScanSound
  <2>3. \A a \in DOMAIN c.ends : a \in DOMAIN attempts /\ HoldsAttempt(s, a)
                                /\ attempts[a].job \in Gone(s)
    BY <2>1 DEF ScanSound, Gone
  <2>4. c.claimed # None => c.op = "claim" /\ c.claimed \in Jobs
    BY <1>0, <2>1 DEF ScanSound, Transaction
  <2>5. c.report = 0
    BY <2>1 DEF ScanSound
  <2> QED
    BY <1>0, <2>1, <2>2, <2>3, <2>4, <2>5, AttemptsJob
<1>3. CASE c.op \in {"heartbeat", "finish"}
  <2>1. PairSound(s)
    BY <1>0, <1>3 DEF CallSound
  <2>2. /\ c.attempt \in DOMAIN attempts /\ attempts[c.attempt].job = c.job
        /\ c.job \in Jobs /\ HoldsJob(s, c.job) /\ DOMAIN c.rows = {c.job} /\ c.claimed = None
    BY <1>0, <2>1, AttemptsJob DEF PairSound
  <2>3. DOMAIN c.ends = {} \/ (DOMAIN c.ends = {c.attempt} /\ HoldsAttempt(s, c.attempt))
    BY <1>3, <2>1 DEF PairSound
  <2> QED
    BY <1>0, <2>2, <2>3
<1>4. CASE c.op = "cancel"
  <2>1. CancelSound(s)
    BY <1>0, <1>4 DEF CallSound
  <2>2. /\ c.job \in Jobs /\ HoldsJob(s, c.job) /\ DOMAIN c.rows = {c.job} /\ c.claimed = None
        /\ c.report = 0
    BY <2>1 DEF CancelSound
  <2>3. \/ DOMAIN c.ends = {}
        \/ /\ DOMAIN c.ends = {c.attempt} /\ HoldsAttempt(s, c.attempt)
           /\ c.attempt \in DOMAIN attempts /\ attempts[c.attempt].job = c.job
    BY <2>1 DEF CancelSound
  <2> QED
    BY <1>0, <2>2, <2>3
<1>5. CASE c.op = "revise"
  <2>1. ReviseSound(s)
    BY <1>0, <1>5 DEF CallSound
  <2>2. /\ c.attempt \in DOMAIN attempts /\ attempts[c.attempt].job = c.job
        /\ c.job \in Jobs /\ HoldsJob(s, c.job) /\ DOMAIN c.rows = {} /\ DOMAIN c.ends = {}
        /\ c.claimed = None
    BY <1>0, <2>1, AttemptsJob DEF ReviseSound
  <2> QED
    BY <1>0, <2>2
<1>6. c.op \in Calls
  BY <1>0 DEF Transaction
<1> QED
  BY <1>1, <1>2, <1>3, <1>4, <1>5, <1>6 DEF Calls

\* What a commit makes of each row.
LEMMA CommittedRows ==
  ASSUME PgInv, NEW s \in Sessions, Commit(s)
  PROVE  /\ line' = line
         /\ job' = Seen(s)
         /\ tx' = [tx EXCEPT ![s] = Idle] /\ tx'[s] = Idle
         /\ alone' = [alone EXCEPT ![s] = FALSE]
         /\ tx[s].claimed = None => DOMAIN attempts' = DOMAIN attempts
         /\ tx[s].claimed # None => DOMAIN attempts' = DOMAIN attempts \cup {Len(attempts) + 1}
         /\ \A a \in DOMAIN attempts :
              /\ a \in DOMAIN attempts'
              /\ attempts'[a] = IF a \in DOMAIN tx[s].ends
                                THEN [attempts[a] EXCEPT !.outcome = tx[s].ends[a]]
                                ELSE attempts[a]
              /\ attempts'[a].job = attempts[a].job
              /\ attempts'[a].worker = attempts[a].worker
<1> DEFINE c == tx[s]
           ended == [a \in DOMAIN attempts |->
                       IF a \in DOMAIN tx[s].ends
                       THEN [attempts[a] EXCEPT !.outcome = tx[s].ends[a]]
                       ELSE attempts[a]]
<1>1. /\ line' = line /\ job' = Seen(s) /\ tx' = [tx EXCEPT ![s] = Idle]
      /\ alone' = [alone EXCEPT ![s] = FALSE]
      /\ \/ c.claimed = None /\ attempts' = ended
         \/ /\ c.claimed # None
            /\ \E new : attempts' = Append(ended, new)
  BY DEF Commit
<1>2. DOMAIN tx = Sessions /\ attempts \in Seq(JobAttempt) /\ Inv
  BY DEF PgInv, Inv, TablesInv, TablesOK
<1>3. DOMAIN ended = DOMAIN attempts /\ DOMAIN attempts = 1 .. Len(attempts)
      /\ Len(attempts) \in Nat
  BY <1>2
<1>4. Len(ended) = Len(attempts) /\ \E S : ended \in Seq(S)
  <2>1. PICK S : S = {ended[a] : a \in DOMAIN attempts}
    OBVIOUS
  <2>2. ended \in [1 .. Len(attempts) -> S]
    BY <1>3, <2>1
  <2> HIDE DEF ended
  <2> QED
    BY <1>3, <2>2
<1>5. \A a \in DOMAIN attempts : a \in DOMAIN attempts' /\ attempts'[a] = ended[a]
  <2> HIDE DEF ended
  <2>1. CASE c.claimed = None
    BY <1>1, <1>3, <2>1
  <2>2. CASE c.claimed # None
    <3>1. PICK S, new : ended \in Seq(S) /\ attempts' = Append(ended, new)
      BY <1>1, <1>4, <2>2
    <3> QED
      BY <1>3, <1>4, <3>1
  <2> QED
    BY <2>1, <2>2
<1>6. ASSUME NEW a \in DOMAIN attempts
      PROVE  /\ attempts'[a] = IF a \in DOMAIN tx[s].ends
                               THEN [attempts[a] EXCEPT !.outcome = tx[s].ends[a]]
                               ELSE attempts[a]
             /\ attempts'[a].job = attempts[a].job
             /\ attempts'[a].worker = attempts[a].worker
  <2>1. attempts[a] \in JobAttempt
    BY <1>2, AttemptsJob
  <2>2. attempts'[a] = IF a \in DOMAIN tx[s].ends
                       THEN [attempts[a] EXCEPT !.outcome = tx[s].ends[a]]
                       ELSE attempts[a]
    BY <1>5
  <2> QED
    BY <2>1, <2>2 DEF JobAttempt
<1>7. /\ c.claimed = None => DOMAIN attempts' = DOMAIN attempts
      /\ c.claimed # None => DOMAIN attempts' = DOMAIN attempts \cup {Len(attempts) + 1}
  <2> HIDE DEF ended
  <2>1. CASE c.claimed = None
    BY <1>1, <1>3, <2>1
  <2>2. CASE c.claimed # None
    <3>1. PICK S, new : ended \in Seq(S) /\ attempts' = Append(ended, new)
      BY <1>1, <1>4, <2>2
    <3>2. DOMAIN attempts' = 1 .. Len(attempts) + 1
      BY <1>3, <1>4, <3>1
    <3>3. \A n \in Nat : 1 .. n + 1 = (1 .. n) \cup {n + 1}
      OBVIOUS
    <3>4. DOMAIN attempts' = (1 .. Len(attempts)) \cup {Len(attempts) + 1}
      BY <1>3, <3>2, <3>3
    <3> QED
      BY <1>3, <2>2, <3>4
  <2> QED
    BY <2>1, <2>2
<1> QED
  BY <1>1, <1>2, <1>5, <1>6, <1>7

\* A commit makes no job absent.
LEMMA CommittedStatus ==
  ASSUME PgInv, NEW s \in Sessions, tx[s].at = "commit", NEW j \in DOMAIN tx[s].rows
  PROVE  tx[s].rows[j].status # "absent"
<1> DEFINE c == tx[s]
<1>0. c \in Transaction /\ CallSound(s) /\ Inv /\ j \in Jobs
  BY HeldWrites DEF PgInv, CallSound
<1>1. CASE c.op \in {"expire", "claim"}
  <2>1. /\ ScanSound(s) /\ Gone(s) \subseteq Jobs
        /\ \A i \in Gone(s) : job[i].status = "running"
        /\ \A i \in Gone(s) : Left(s)[i] = FinishTransition(job[i], "expired", TRUE)
        /\ TablesOK(Left(s), EndAttempts(attempts, Gone(s), "expired"))
    BY <1>1, ScanJobs DEF TablesInv
  <2>2. ASSUME NEW i \in Gone(s) PROVE Left(s)[i].status # "absent"
    <3>1. "expired" \in AttemptOutcome \ {"running"} /\ i \in Jobs
      BY <2>1 DEF AttemptOutcome
    <3>2. FinishTransition(job[i], "expired", TRUE).status \in Terminal \cup {"queued"}
      BY <1>0, <2>1, <3>1, ExpiredRecord
    <3> QED
      BY <2>1, <3>2 DEF Terminal
  <2>3. CASE c.claimed = None
    BY <2>1, <2>2, <2>3 DEF ScanSound
  <2>4. CASE c.claimed # None
    <3>1. /\ j \in Gone(s) \cup {c.claimed} /\ c.claimed \in Jobs
          /\ c.rows[j] = JobsClaimed(Left(s), c.claimed, WorkerOf[s], c.lease, c.t)[j]
      BY <1>0, <2>1, <2>4 DEF ScanSound, Transaction
    <3>2. CASE j = c.claimed
      <4>1. Left(s)[j] \in InvestigationJob /\ DOMAIN Left(s) = Jobs
        BY <1>0, <2>1 DEF TablesOK
      <4>2. c.rows[j] = ClaimTransition(Left(s)[j], WorkerOf[s], c.lease, c.t)
        BY <1>0, <3>1, <3>2, <4>1 DEF JobsClaimed
      <4> QED
        BY <4>1, <4>2 DEF ClaimTransition, InvestigationJob
    <3>3. CASE j # c.claimed
      <4>1. c.rows[j] = Left(s)[j]
        BY <1>0, <2>1, <3>1, <3>3 DEF JobsClaimed, TablesOK
      <4> QED
        BY <2>2, <3>1, <3>3, <4>1
    <3> QED
      BY <3>2, <3>3
  <2> QED
    BY <2>3, <2>4
<1>2. CASE c.op \in {"heartbeat", "finish"}
  <2>1. /\ PairSound(s) /\ j = c.job /\ c.attempt \in DOMAIN attempts
        /\ attempts[c.attempt].job = j /\ LeaseIsValid(c.attempt, WorkerOf[s], c.t)
    BY <1>0, <1>2 DEF CallSound, PairSound
  <2>2. job[j].status = "running" /\ job[j] \in InvestigationJob
    BY <1>0, <2>1 DEF LeaseIsValid, Inv, TablesInv, TablesOK
  <2>3. CASE c.op = "heartbeat"
    BY <2>1, <2>2, <2>3 DEF PairSound, InvestigationJob
  <2>4. CASE c.op = "finish"
    <3>1. /\ c.outcome \in AttemptOutcome \ {"running"} /\ c.retryable \in BOOLEAN
          /\ c.rows[j] = FinishTransition(job[j], c.outcome, c.retryable)
      BY <1>0, <2>1, <2>4, TransactionFields DEF PairSound, Reported, AttemptOutcome
    <3> QED
      BY <1>0, <2>2, <3>1, ExpiredRecord DEF Terminal
  <2> QED
    BY <1>2, <2>3, <2>4
<1>3. CASE c.op = "cancel"
  <2>1. /\ j = c.job /\ job[j].status \in {"queued", "running"}
        /\ c.rows[j] = FinishTransition(job[j], "cancelled", FALSE)
    BY <1>0, <1>3 DEF CallSound, CancelSound
  <2> QED
    BY <1>0, <2>1, CancelledRecord
<1>4. CASE c.op = "revise"
  BY <1>0, <1>4 DEF CallSound, ReviseSound
<1>5. CASE c.op = "none"
  BY <1>0, <1>5, NoVersions DEF CallSound, Idle
<1>6. c.op \in Calls
  BY <1>0 DEF Transaction
<1> QED
  BY <1>1, <1>2, <1>3, <1>4, <1>5, <1>6 DEF Calls

\* A commit leaves what others hold alone.
LEMMA CommitKeeps ==
  ASSUME PgInv, NEW s \in Sessions, Commit(s)
  PROVE  /\ \A x \in Sessions \ {s} : Kept(x)
         /\ LockSound'
         /\ CallSound(s)'
<1> DEFINE c == tx[s]
<1>1. /\ c \in Transaction
      /\ \A j \in DOMAIN c.rows : j \in Jobs /\ HoldsJob(s, j)
      /\ \A a \in DOMAIN c.ends :
           a \in DOMAIN attempts /\ HoldsJob(s, attempts[a].job) /\ attempts[a].job \in Jobs
      /\ c.report # 0 => c.job \in Jobs /\ HoldsJob(s, c.job)
  BY HeldWrites
<1>2. /\ job' = Seen(s) /\ tx' = [tx EXCEPT ![s] = Idle] /\ tx'[s] = Idle
      /\ \A a \in DOMAIN attempts :
           /\ a \in DOMAIN attempts'
           /\ attempts'[a].job = attempts[a].job
           /\ attempts'[a].worker = attempts[a].worker
           /\ a \notin DOMAIN c.ends => attempts'[a] = attempts[a]
  BY CommittedRows
<1>3. /\ DOMAIN lock' = {JobRow(j) : j \in Jobs} \cup {AttemptRow(a) : a \in DOMAIN attempts'}
      /\ \A row \in DOMAIN lock' :
           lock'[row] = IF row \in DOMAIN lock /\ lock[row] # s THEN lock[row] ELSE None
      /\ c.at = "commit"
      /\ revisions' = IF c.report = 0 THEN revisions
                      ELSE [revisions EXCEPT ![c.job] =
                              Append(@, [attempt |-> c.attempt, revision |-> c.report])]
  BY DEF Commit
<1>4. Inv /\ LockSound /\ DOMAIN tx = Sessions
  BY DEF PgInv
<1>5. /\ \A j \in Jobs : JobRow(j) \in DOMAIN lock /\ JobRow(j) \in DOMAIN lock'
      /\ \A a \in DOMAIN attempts : AttemptRow(a) \in DOMAIN lock /\ AttemptRow(a) \in DOMAIN lock'
      /\ \A a \in DOMAIN attempts' : AttemptRow(a) \in DOMAIN lock'
  BY <1>2, <1>3, <1>4, LockFacts
<1>6. \A j \in Jobs : job[j].status # "absent" => job'[j].status # "absent"
  BY <1>2, <1>3, CommittedStatus DEF Seen
<1>7. ASSUME NEW x \in Sessions \ {s} PROVE Kept(x)
  <2>1. ASSUME NEW j \in Jobs, HoldsJob(x, j)
        PROVE  HoldsJob(x, j)' /\ job'[j] = job[j] /\ revisions'[j] = revisions[j]
    <3>1. ~HoldsJob(s, j)
      BY <2>1 DEF HoldsJob
    <3>2. job'[j] = job[j]
      BY <1>1, <1>2, <3>1 DEF Seen
    <3>3. HoldsJob(x, j)'
      BY <1>3, <1>5, <2>1 DEF HoldsJob
    <3>4. revisions'[j] = revisions[j]
      BY <1>1, <1>3, <1>4, <3>1 DEF Inv
    <3> QED
      BY <3>2, <3>3, <3>4
  <2>2. ASSUME NEW a \in DOMAIN attempts, HoldsJob(x, attempts[a].job)
        PROVE  attempts'[a] = attempts[a]
    BY <1>1, <1>2, <2>2 DEF HoldsJob
  <2>3. ASSUME NEW a \in DOMAIN attempts, HoldsAttempt(x, a)
        PROVE  HoldsAttempt(x, a)'
    BY <1>3, <1>5, <2>3 DEF HoldsAttempt
  <2> QED
    BY <1>2, <1>6, <2>1, <2>2, <2>3 DEF Kept
<1>8. LockSound'
  <2>1. ASSUME NEW row \in DOMAIN lock', lock'[row] # None
        PROVE  lock'[row] \in Sessions /\ tx'[lock'[row]].op # "none"
    BY <1>2, <1>3, <1>4, <2>1 DEF LockSound
  <2>2. ASSUME NEW j \in Jobs, lock'[JobRow(j)] # None
        PROVE  job'[j].status # "absent"
    BY <1>3, <1>4, <1>5, <1>6, <2>2 DEF LockSound
  <2>3. ASSUME NEW a \in DOMAIN attempts', lock'[AttemptRow(a)] # None
        PROVE  lock'[AttemptRow(a)] = lock'[JobRow(attempts'[a].job)]
    <3>1. AttemptRow(a) \in DOMAIN lock /\ lock[AttemptRow(a)] # s
          /\ lock'[AttemptRow(a)] = lock[AttemptRow(a)]
      BY <1>3, <1>5, <2>3
    <3>2. a \in DOMAIN attempts
      BY <1>4, <3>1, RowsDiffer DEF LockSound
    <3>3. attempts[a].job \in Jobs /\ attempts'[a].job = attempts[a].job
      BY <1>2, <1>4, <3>2, AttemptsJob
    <3>4. lock[AttemptRow(a)] = lock[JobRow(attempts[a].job)]
      BY <1>4, <2>3, <3>1, <3>2 DEF LockSound
    <3> QED
      BY <1>3, <1>5, <3>1, <3>3, <3>4
  <2> QED
    BY <1>3, <2>1, <2>2, <2>3 DEF LockSound
<1>9. CallSound(s)'
  <2>1. Idle.op = "none"
    BY DEF Idle
  <2> QED
    BY <1>2, <2>1, IdleIsTransaction DEF CallSound
<1> QED
  BY <1>7, <1>8, <1>9

-----------------------------------------------------------------------------
(* The call of the in-memory store that a commit amounts to. *)

\* The attempts a commit leaves, when it claims nothing.
LEMMA NothingEnded ==
  ASSUME PgInv, NEW s \in Sessions, Commit(s), tx[s].claimed = None, DOMAIN tx[s].ends = {}
  PROVE  attempts' = attempts
<1>1. attempts' = [a \in DOMAIN attempts |->
                     IF a \in DOMAIN tx[s].ends
                     THEN [attempts[a] EXCEPT !.outcome = tx[s].ends[a]] ELSE attempts[a]]
  BY DEF Commit
<1>2. attempts \in Seq(JobAttempt)
  BY DEF PgInv, Inv, TablesInv, TablesOK
<1> QED
  BY <1>1, <1>2

LEMMA OneEnded ==
  ASSUME PgInv, NEW s \in Sessions, Commit(s), tx[s].claimed = None,
         NEW b \in DOMAIN attempts, DOMAIN tx[s].ends = {b}
  PROVE  attempts' = [attempts EXCEPT ![b].outcome = tx[s].ends[b]]
<1>1. attempts' = [a \in DOMAIN attempts |->
                     IF a \in DOMAIN tx[s].ends
                     THEN [attempts[a] EXCEPT !.outcome = tx[s].ends[a]] ELSE attempts[a]]
  BY DEF Commit
<1>2. attempts \in Seq(JobAttempt)
  BY DEF PgInv, Inv, TablesInv, TablesOK
<1> QED
  BY <1>1, <1>2

LEMMA OneVersion ==
  ASSUME PgInv, NEW s \in Sessions, Commit(s), NEW j \in Jobs, DOMAIN tx[s].rows = {j}
  PROVE  job' = [job EXCEPT ![j] = tx[s].rows[j]]
<1>1. job' = Seen(s) /\ job \in [Jobs -> InvestigationJob]
  BY DEF PgInv, Inv, TablesInv, TablesOK, Commit
<1> QED
  BY <1>1 DEF Seen

LEMMA HeartbeatCommits ==
  ASSUME PgInv, NEW s \in Sessions, Commit(s), tx[s].op = "heartbeat"
  PROVE  Heartbeat(tx[s].attempt, WorkerOf[s], tx[s].lease, tx[s].t)
<1> DEFINE c == tx[s]
<1>1. /\ PairSound(s) /\ c.at = "commit" /\ line' = line
      /\ revisions' = IF c.report = 0 THEN revisions
                      ELSE [revisions EXCEPT ![c.job] =
                              Append(@, [attempt |-> c.attempt, revision |-> c.report])]
  BY DEF PgInv, CallSound, Commit
<1>2. /\ c.claimed = None /\ DOMAIN c.rows = {c.job} /\ DOMAIN c.ends = {} /\ c.report = 0
      /\ c.attempt \in DOMAIN attempts /\ attempts[c.attempt].job = c.job
      /\ LeaseIsValid(c.attempt, WorkerOf[s], c.t)
      /\ c.rows[c.job] = [job[c.job] EXCEPT !.lease_expires_at = c.t + c.lease]
  BY <1>1 DEF PairSound
<1>3. c.job \in Jobs
  BY <1>2, AttemptsJob DEF PgInv
<1>4. attempts' = attempts /\ job' = [job EXCEPT ![c.job] = c.rows[c.job]]
  BY <1>2, <1>3, NothingEnded, OneVersion
<1> QED
  BY <1>1, <1>2, <1>4 DEF Heartbeat

LEMMA FinishCommits ==
  ASSUME PgInv, NEW s \in Sessions, Commit(s), tx[s].op = "finish"
  PROVE  FinishAttempt(tx[s].attempt, WorkerOf[s], tx[s].outcome, tx[s].retryable, tx[s].t)
<1> DEFINE c == tx[s]
<1>1. /\ PairSound(s) /\ c.at = "commit" /\ line' = line
      /\ revisions' = IF c.report = 0 THEN revisions
                      ELSE [revisions EXCEPT ![c.job] =
                              Append(@, [attempt |-> c.attempt, revision |-> c.report])]
  BY DEF PgInv, CallSound, Commit
<1>2. /\ c.claimed = None /\ DOMAIN c.rows = {c.job}
      /\ DOMAIN c.ends = {c.attempt} /\ c.ends[c.attempt] = c.outcome
      /\ c.report = IF c.outcome = "failed" THEN 0 ELSE NextRevision(c.job)
      /\ c.attempt \in DOMAIN attempts /\ attempts[c.attempt].job = c.job
      /\ LeaseIsValid(c.attempt, WorkerOf[s], c.t)
      /\ c.rows[c.job] = FinishTransition(job[c.job], c.outcome, c.retryable)
  BY <1>1 DEF PairSound
<1>3. c.job \in Jobs /\ revisions \in [Jobs -> Seq(ReportRevision)]
  BY <1>2, AttemptsJob DEF PgInv, Inv
<1>4. /\ attempts' = [attempts EXCEPT ![c.attempt].outcome = c.outcome]
      /\ job' = [job EXCEPT ![c.job] = c.rows[c.job]]
  BY <1>2, <1>3, OneEnded, OneVersion
<1>5. revisions' = IF c.outcome = "failed" THEN revisions
                   ELSE [revisions EXCEPT ![c.job] =
                           Append(@, [attempt |-> c.attempt, revision |-> Len(@) + 1])]
  <2>1. NextRevision(c.job) # 0
    BY <1>3 DEF NextRevision
  <2> QED
    BY <1>1, <1>2, <1>3, <2>1 DEF NextRevision
<1> QED
  BY <1>1, <1>2, <1>4, <1>5 DEF FinishAttempt

LEMMA CancelCommits ==
  ASSUME PgInv, NEW s \in Sessions, Commit(s), tx[s].op = "cancel"
  PROVE  CancelJob(tx[s].job)
<1> DEFINE c == tx[s]
<1>1. /\ CancelSound(s) /\ c.at = "commit" /\ line' = line
      /\ revisions' = IF c.report = 0 THEN revisions
                      ELSE [revisions EXCEPT ![c.job] =
                              Append(@, [attempt |-> c.attempt, revision |-> c.report])]
  BY DEF PgInv, CallSound, Commit
<1>2. /\ c.job \in Jobs /\ c.claimed = None /\ DOMAIN c.rows = {c.job} /\ c.report = 0
      /\ c.rows[c.job] = FinishTransition(job[c.job], "cancelled", FALSE)
  BY <1>1 DEF CancelSound
<1>3. job' = [job EXCEPT ![c.job] = c.rows[c.job]]
  BY <1>2, OneVersion
<1>4. TablesInv(job, attempts) /\ attempts \in Seq(JobAttempt)
  BY DEF PgInv, Inv, TablesInv, TablesOK
<1>5. CASE job[c.job].status = "queued"
  <2>1. DOMAIN c.ends = {}
    BY <1>1, <1>5 DEF CancelSound
  <2>2. attempts' = attempts
    BY <1>2, <2>1, NothingEnded
  <2>3. \A a \in DOMAIN attempts : ~(attempts[a].job = c.job /\ IsRunningAttempt(attempts, a))
    BY <1>4, <1>5, UnfinishedIsLatest DEF IsRunningAttempt
  <2>4. EndAttempts(attempts, {c.job}, "cancelled") = attempts
    BY <1>4, <2>3 DEF EndAttempts
  <2> QED
    BY <1>1, <1>2, <1>3, <1>5, <2>2, <2>4 DEF CancelJob
<1>6. CASE job[c.job].status = "running"
  <2>1. /\ DOMAIN c.ends = {c.attempt} /\ c.ends[c.attempt] = "cancelled"
        /\ c.attempt \in DOMAIN attempts /\ attempts[c.attempt].job = c.job
        /\ attempts[c.attempt].outcome = "running"
    BY <1>1, <1>6 DEF CancelSound
  <2>2. attempts' = [attempts EXCEPT ![c.attempt].outcome = "cancelled"]
    BY <1>2, <2>1, OneEnded
  <2>3. \A a \in DOMAIN attempts :
          attempts[a].job = c.job /\ IsRunningAttempt(attempts, a) <=> a = c.attempt
    BY <1>4, <2>1, RunningAttemptFound, OneUnfinishedAttempt
  <2>4. attempts' = EndAttempts(attempts, {c.job}, "cancelled")
    BY <1>4, <2>1, <2>2, <2>3 DEF EndAttempts
  <2> QED
    BY <1>1, <1>2, <1>3, <1>6, <2>4 DEF CancelJob
<1> QED
  BY <1>1, <1>5, <1>6 DEF CancelSound

LEMMA RevisionCommits ==
  ASSUME PgInv, NEW s \in Sessions, Commit(s), tx[s].op = "revise"
  PROVE  AppendRevision(tx[s].job, tx[s].attempt)
<1> DEFINE c == tx[s]
<1>1. /\ ReviseSound(s) /\ c.at = "commit" /\ line' = line /\ job' = Seen(s)
      /\ revisions' = IF c.report = 0 THEN revisions
                      ELSE [revisions EXCEPT ![c.job] =
                              Append(@, [attempt |-> c.attempt, revision |-> c.report])]
  BY DEF PgInv, CallSound, Commit
<1>2. /\ c.claimed = None /\ DOMAIN c.rows = {} /\ DOMAIN c.ends = {}
      /\ c.report = NextRevision(c.job)
      /\ c.attempt \in DOMAIN attempts /\ attempts[c.attempt].job = c.job
  BY <1>1 DEF ReviseSound
<1>3. /\ c.job \in Jobs /\ revisions \in [Jobs -> Seq(ReportRevision)]
      /\ job \in [Jobs -> InvestigationJob]
  BY <1>2, AttemptsJob DEF PgInv, Inv, TablesInv, TablesOK
<1>4. attempts' = attempts
  BY <1>2, NothingEnded
<1>5. job' = job
  BY <1>1, <1>2, <1>3 DEF Seen
<1>6. NextRevision(c.job) # 0
  BY <1>3 DEF NextRevision
<1>7. revisions' = [revisions EXCEPT ![c.job] =
                      Append(@, [attempt |-> c.attempt, revision |-> Len(@) + 1])]
  BY <1>1, <1>2, <1>3, <1>6 DEF NextRevision
<1> QED
  BY <1>1, <1>4, <1>5, <1>7 DEF AppendRevision

\* The attempts a scan has ended are those the in-memory store ends.
LEMMA GoneAttempts ==
  ASSUME PgInv, NEW s \in Sessions, tx[s].op \in {"expire", "claim"}
  PROVE  [a \in DOMAIN attempts |->
            IF a \in DOMAIN tx[s].ends
            THEN [attempts[a] EXCEPT !.outcome = tx[s].ends[a]] ELSE attempts[a]]
         = EndAttempts(attempts, Gone(s), "expired")
<1>1. ScanSound(s) /\ TablesInv(job, attempts)
  BY ScanJobs DEF PgInv, Inv
<1>2. ASSUME NEW a \in DOMAIN attempts
      PROVE  a \in DOMAIN tx[s].ends <=>
               attempts[a].job \in Gone(s) /\ IsRunningAttempt(attempts, a)
  <2>1. ASSUME a \in DOMAIN tx[s].ends
        PROVE  attempts[a].job \in Gone(s) /\ IsRunningAttempt(attempts, a)
    BY <1>1, <2>1, RunningAttemptFound DEF ScanSound, Gone
  <2>2. ASSUME attempts[a].job \in Gone(s), IsRunningAttempt(attempts, a)
        PROVE  a \in DOMAIN tx[s].ends
    <3>1. PICK b \in DOMAIN tx[s].ends : attempts[b].job = attempts[a].job
      BY <2>2 DEF Gone
    <3>2. b \in DOMAIN attempts /\ attempts[b].outcome = "running" /\ attempts[a].outcome = "running"
      BY <1>1, <2>2, <3>1 DEF ScanSound, IsRunningAttempt
    <3>3. a = b
      BY <1>1, <3>1, <3>2, OneUnfinishedAttempt
    <3> QED
      BY <3>1, <3>3
  <2> QED
    BY <2>1, <2>2
<1>3. \A a \in DOMAIN tx[s].ends : tx[s].ends[a] = "expired"
  BY <1>1 DEF ScanSound
<1> QED
  BY <1>2, <1>3 DEF EndAttempts

LEMMA ScanCommits ==
  ASSUME PgInv, NEW s \in Sessions, Commit(s), tx[s].op \in {"expire", "claim"}
  PROVE  /\ Gone(s) \subseteq Lapsed(job, tx[s].t)
         /\ UNCHANGED <<line, revisions>>
         /\ tx[s].claimed = None =>
              /\ job' = Left(s)
              /\ attempts' = EndAttempts(attempts, Gone(s), "expired")
         /\ tx[s].claimed # None =>
              /\ tx[s].op = "claim" /\ tx[s].claimed \in Jobs /\ tx[s].lease \in Leases
              /\ tx[s].t \in Instants
              /\ Left(s)[tx[s].claimed].status = "queued"
              /\ job' = JobsClaimed(Left(s), tx[s].claimed, WorkerOf[s], tx[s].lease, tx[s].t)
              /\ attempts' = AttemptsClaimed(Left(s), EndAttempts(attempts, Gone(s), "expired"),
                                             tx[s].claimed, WorkerOf[s])
<1> DEFINE c == tx[s]
           ended == EndAttempts(attempts, Gone(s), "expired")
<1>1. /\ c \in Transaction /\ ScanSound(s) /\ Gone(s) \subseteq Jobs
      /\ \A j \in Jobs : j \notin Gone(s) => Left(s)[j] = job[j]
      /\ TablesInv(Left(s), ended)
      /\ c.claimed = None => Seen(s) = Left(s)
  BY ScanJobs
<1>2. UNCHANGED <<line, revisions>> /\ job' = Seen(s)
  BY <1>1 DEF Commit, ScanSound
<1>3. attempts' = IF c.claimed = None THEN ended
                  ELSE Append(ended, [job |-> c.claimed,
                                      number |-> job'[c.claimed].attempts_made,
                                      worker |-> WorkerOf[s], outcome |-> "running"])
  BY GoneAttempts DEF Commit
<1>4. Gone(s) \subseteq Lapsed(job, c.t)
  BY <1>1 DEF ScanSound
<1>5. ASSUME c.claimed # None
      PROVE  /\ c.op = "claim" /\ c.claimed \in Jobs /\ c.lease \in Leases
             /\ c.t \in Instants
             /\ Left(s)[c.claimed].status = "queued"
             /\ job' = JobsClaimed(Left(s), c.claimed, WorkerOf[s], c.lease, c.t)
             /\ attempts' = AttemptsClaimed(Left(s), ended, c.claimed, WorkerOf[s])
  <2>1. /\ c.op = "claim" /\ c.claimed \in Jobs /\ c.lease \in Leases /\ c.t \in Instants
        /\ Left(s)[c.claimed].status = "queued"
        /\ DOMAIN c.rows = Gone(s) \cup {c.claimed}
        /\ \A j \in DOMAIN c.rows :
             c.rows[j] = JobsClaimed(Left(s), c.claimed, WorkerOf[s], c.lease, c.t)[j]
    BY <1>1, <1>5 DEF ScanSound, Transaction
  <2>2. DOMAIN Left(s) = Jobs /\ Left(s) \in [Jobs -> InvestigationJob]
    BY <1>1 DEF TablesInv, TablesOK
  <2>3. \A j \in Jobs : j \notin DOMAIN c.rows =>
          job[j] = JobsClaimed(Left(s), c.claimed, WorkerOf[s], c.lease, c.t)[j]
    BY <1>1, <2>1, <2>2 DEF JobsClaimed
  <2>4. job' = JobsClaimed(Left(s), c.claimed, WorkerOf[s], c.lease, c.t)
    <3>1. /\ DOMAIN JobsClaimed(Left(s), c.claimed, WorkerOf[s], c.lease, c.t) = Jobs
          /\ JobsClaimed(Left(s), c.claimed, WorkerOf[s], c.lease, c.t) =
               [j \in Jobs |-> JobsClaimed(Left(s), c.claimed, WorkerOf[s], c.lease, c.t)[j]]
      BY <2>2 DEF JobsClaimed
    <3>2. \A j \in Jobs : Seen(s)[j] =
            JobsClaimed(Left(s), c.claimed, WorkerOf[s], c.lease, c.t)[j]
      BY <2>1, <2>3 DEF Seen
    <3>3. Seen(s) = [j \in Jobs |-> Seen(s)[j]]
      BY DEF Seen
    <3> QED
      BY <1>2, <3>1, <3>2, <3>3
  <2>5. job'[c.claimed].attempts_made = Left(s)[c.claimed].attempts_made + 1
    <3>1. job'[c.claimed] = ClaimTransition(Left(s)[c.claimed], WorkerOf[s], c.lease, c.t)
      BY <2>1, <2>2, <2>4 DEF JobsClaimed
    <3>2. Left(s)[c.claimed] \in InvestigationJob
      BY <2>1, <2>2
    <3> QED
      BY <3>1, <3>2 DEF ClaimTransition, InvestigationJob
  <2> QED
    BY <1>3, <1>5, <2>1, <2>4, <2>5 DEF AttemptsClaimed
<1> QED
  BY <1>1, <1>2, <1>3, <1>4, <1>5

\* Every commit is a call of the in-memory store.
LEMMA CommitIsStoreCall ==
  ASSUME PgInv, NEW s \in Sessions, Commit(s)
  PROVE  StoreCall(s)
<1> DEFINE c == tx[s]
<1>0. c.op \in Calls /\ c.at = "commit" /\ AloneSound(s)
  BY HeldWrites DEF Transaction, Commit, PgInv
<1>1. CASE c.op = "heartbeat"
  BY <1>1, HeartbeatCommits DEF StoreCall
<1>2. CASE c.op = "finish"
  BY <1>2, FinishCommits DEF StoreCall
<1>3. CASE c.op = "cancel"
  BY <1>3, CancelCommits DEF StoreCall
<1>4. CASE c.op = "revise"
  BY <1>4, RevisionCommits DEF StoreCall
<1>5. CASE c.op \in {"expire", "claim"}
  <2>1. /\ Gone(s) \subseteq Lapsed(job, c.t)
        /\ UNCHANGED <<line, revisions>>
        /\ c.claimed = None =>
             /\ job' = Left(s)
             /\ attempts' = EndAttempts(attempts, Gone(s), "expired")
        /\ c.claimed # None =>
             /\ c.op = "claim" /\ c.claimed \in Jobs
             /\ Left(s)[c.claimed].status = "queued"
             /\ job' = JobsClaimed(Left(s), c.claimed, WorkerOf[s], c.lease, c.t)
             /\ attempts' = AttemptsClaimed(Left(s), EndAttempts(attempts, Gone(s), "expired"),
                                            c.claimed, WorkerOf[s])
    BY <1>5, ScanCommits
  <2>2. /\ Gone(s) \in SUBSET Jobs
        /\ Left(s) = [j \in Jobs |-> IF j \in Gone(s)
                                     THEN FinishTransition(job[j], "expired", TRUE) ELSE job[j]]
    BY <1>5, ScanJobs DEF Left, JobsEnded
  <2>3. CASE ~alone[s]
    <3>1. IF c.claimed = None THEN ExpireSome(Gone(s), c.t)
          ELSE ClaimSome(Gone(s), c.claimed, WorkerOf[s], c.lease, c.t)
      BY <2>1, <2>2 DEF ExpireSome, ClaimSome
    <3> QED
      BY <1>5, <2>2, <2>3, <3>1 DEF StoreCall
  <2>4. CASE alone[s] /\ c.op = "expire"
    <3>1. Lapsed(job, c.t) = Gone(s) /\ c.claimed = None
      BY <1>0, <2>1, <2>4 DEF AloneSound
    <3>2. ExpireLeases(c.t)
      BY <2>1, <2>2, <3>1 DEF ExpireLeases, JobsExpired, AttemptsExpired
    <3> QED
      BY <2>4, <3>2 DEF StoreCall
  <2>5. CASE alone[s] /\ c.op = "claim"
    <3>1. /\ Lapsed(job, c.t) = Gone(s)
          /\ IF c.claimed = None THEN Queued(Left(s)) = {}
             ELSE FirstInLine(c.claimed, Queued(Left(s)))
      BY <1>0, <2>5 DEF AloneSound
    <3>2. /\ JobsExpired(job, c.t) = Left(s)
          /\ AttemptsExpired(job, attempts, c.t) = EndAttempts(attempts, Gone(s), "expired")
      BY <2>2, <3>1 DEF JobsExpired, AttemptsExpired
    <3>3. \A i \in DOMAIN line : line[i] \in Jobs
      BY DEF PgInv, Inv
    <3>4. \A i \in DOMAIN line : i \in Waiting(Left(s)) <=> line[i] \in Queued(Left(s))
      BY <3>3 DEF Waiting, Queued
    <3>5. CASE c.claimed = None
      <4>1. Waiting(JobsExpired(job, c.t)) = {}
        BY <3>1, <3>2, <3>4, <3>5 DEF Waiting
      <4>2. ClaimNothing(c.t)
        BY <2>1, <3>2, <3>5, <4>1 DEF ClaimNothing, ExpireLeases
      <4> QED
        BY <2>5, <4>2 DEF StoreCall
    <3>6. CASE c.claimed # None
      <4>1. PICK i \in DOMAIN line :
              line[i] = c.claimed /\ \A k \in DOMAIN line : line[k] \in Queued(Left(s)) => i <= k
        BY <3>1, <3>6 DEF FirstInLine
      <4>2. i \in Waiting(Left(s)) /\ \A k \in Waiting(Left(s)) : i <= k
        BY <3>1, <3>4, <3>6, <4>1 DEF FirstInLine, Waiting
      <4>3. ClaimOldest(WorkerOf[s], c.lease, c.t)
        BY <2>1, <3>2, <3>6, <4>1, <4>2 DEF ClaimOldest
      <4> QED
        BY <2>5, <4>3 DEF StoreCall
    <3> QED
      BY <3>5, <3>6
  <2> QED
    BY <1>5, <2>3, <2>4, <2>5
<1>6. CASE c.op = "none"
  <2>1. c = Idle
    BY <1>6 DEF PgInv, CallSound
  <2> QED
    BY <1>0, <2>1 DEF Idle
<1> QED
  BY <1>0, <1>1, <1>2, <1>3, <1>4, <1>5, <1>6 DEF Calls

-----------------------------------------------------------------------------
(* What commits and insertions leave is sound. *)

\* A commit of one of the calls that are the in-memory store's own steps.
LEMMA StoreStepKeeps ==
  ASSUME PgInv, [Next]_storeVars
  PROVE  Inv' /\ ReportsMatchAttempts'
<1>1. Inv /\ ReportsMatchAttempts
  BY DEF PgInv
<1>2. TablesInv(job, attempts)' /\ (line \in Seq(Jobs))'
      /\ (revisions \in [Jobs -> Seq(ReportRevision)])'
  BY <1>1, NextTables, NextLine, NextRevisions
<1>3. ReportsMatchAttempts'
  BY <1>1, NextReports
<1> QED
  BY <1>2, <1>3 DEF Inv

LEMMA PairCommitKeeps ==
  ASSUME PgInv, NEW s \in Sessions, Commit(s), tx[s].op \in {"heartbeat", "finish"}
  PROVE  Inv' /\ ReportsMatchAttempts'
<1> DEFINE c == tx[s]
<1>1. c \in Transaction /\ PairSound(s) /\ c.at = "commit"
  BY DEF PgInv, CallSound, Commit
<1>2. /\ c.attempt \in DOMAIN attempts /\ c.t \in Instants
      /\ c.op = "heartbeat" => c.lease \in Leases
      /\ c.op = "finish" => c.outcome \in Reported /\ (c.outcome # "failed" => c.retryable)
      /\ c.retryable \in BOOLEAN
      /\ WorkerOf[s] \in Workers
  BY <1>1, TransactionFields DEF PairSound, PgAssumption
<1>3. CASE c.op = "heartbeat"
  <2>1. Heartbeat(c.attempt, WorkerOf[s], c.lease, c.t)
    BY <1>3, HeartbeatCommits
  <2> HIDE DEF c
  <2>2. Beat
    BY <1>2, <1>3, <2>1 DEF Beat
  <2> QED
    BY <2>2, StoreStepKeeps DEF Next
<1>4. CASE c.op = "finish"
  <2>1. FinishAttempt(c.attempt, WorkerOf[s], c.outcome, c.retryable, c.t)
    BY <1>4, FinishCommits
  <2>2. c.outcome \in Reported /\ (c.outcome # "failed" => c.retryable) /\ c.retryable \in BOOLEAN
    BY <1>2, <1>4
  <2> HIDE DEF c
  <2>3. PICK a \in DOMAIN attempts, w \in Workers, outcome \in Reported, t \in Instants :
          /\ FinishAttempt(a, w, outcome, c.retryable, t)
          /\ outcome # "failed" => c.retryable
    BY <1>2, <2>1, <2>2, Zenon
  <2>4. ASSUME NEW r \in BOOLEAN, outcome # "failed" => r,
               FinishAttempt(a, w, outcome, r, t)
        PROVE  Finish
    BY <2>4 DEF Finish
  <2>5. Finish
    BY <2>2, <2>3, <2>4, Zenon
  <2> QED
    BY <2>5, StoreStepKeeps DEF Next
<1> QED
  BY <1>3, <1>4

LEMMA CancelCommitKeeps ==
  ASSUME PgInv, NEW s \in Sessions, Commit(s), tx[s].op = "cancel"
  PROVE  Inv' /\ ReportsMatchAttempts'
<1>1. CancelSound(s)
  BY DEF PgInv, CallSound
<1>2. tx[s].job \in Jobs
  BY <1>1 DEF CancelSound
<1>3. CancelJob(tx[s].job)
  BY CancelCommits
<1>4. Cancel
  BY <1>2, <1>3 DEF Cancel
<1> QED
  BY <1>4, StoreStepKeeps DEF Next

LEMMA RevisionCommitKeeps ==
  ASSUME PgInv, NEW s \in Sessions, Commit(s), tx[s].op = "revise"
  PROVE  Inv' /\ ReportsMatchAttempts'
<1>1. ReviseSound(s) /\ Inv /\ ReportsMatchAttempts
  BY DEF PgInv, CallSound
<1>2. PICK j, a : j = tx[s].job /\ a = tx[s].attempt
  OBVIOUS
<1>3. a \in DOMAIN attempts /\ attempts[a].job = j /\ j \in Jobs
  BY <1>1, <1>2, AttemptsJob DEF ReviseSound
<1>4. /\ revisions' = [revisions EXCEPT ![j] = Append(@, [attempt |-> a, revision |-> Len(@) + 1])]
      /\ line' = line /\ job' = job /\ attempts' = attempts
  BY <1>2, RevisionCommits DEF AppendRevision
<1>5. a \in Nat \ {0}
  BY <1>1, <1>3 DEF Inv, TablesInv, TablesOK
<1>6. Inv'
  <2>1. revisions' \in [Jobs -> Seq(ReportRevision)]
    BY <1>1, <1>3, <1>4, <1>5, AppendRevisionTyped DEF Inv
  <2> QED
    BY <1>1, <1>4, <2>1 DEF Inv
<1>7. ReportsMatchAttempts'
  <2>1. Published(revisions, revisions', j, a)
    BY <1>4 DEF Published
  <2>2. \A b \in DOMAIN attempts : /\ b \in DOMAIN attempts'
                                   /\ attempts[b].job \in Jobs
                                   /\ attempts'[b].job = attempts[b].job
    BY <1>1, <1>4, AttemptsJob
  <2>3. \A b \in DOMAIN attempts' : Result(attempts'[b].outcome) =>
          b = a \/ (b \in DOMAIN attempts /\ Result(attempts[b].outcome))
    BY <1>4
  <2> QED
    BY <1>1, <1>3, <2>1, <2>2, <2>3, ReportAdded DEF Inv
<1> QED
  BY <1>6, <1>7

\* A scan ends attempts as expired and may begin one: neither has a report.
LEMMA ScanCommitKeeps ==
  ASSUME PgInv, NEW s \in Sessions, Commit(s), tx[s].op \in {"expire", "claim"}
  PROVE  Inv' /\ ReportsMatchAttempts'
<1> DEFINE ended == EndAttempts(attempts, Gone(s), "expired")
           jobs == Left(s)
<1>1. PICK c : c = tx[s]
  OBVIOUS
<1>2. PICK w : w = WorkerOf[s]
  OBVIOUS
<1>3. /\ w \in Workers /\ TablesInv(jobs, ended)
      /\ Inv /\ ReportsMatchAttempts
  BY <1>2, ScanJobs DEF PgAssumption, PgInv
<1>4. /\ UNCHANGED <<line, revisions>>
      /\ c.claimed = None => job' = jobs /\ attempts' = ended
      /\ c.claimed # None =>
              /\ c.claimed \in Jobs /\ c.lease \in Leases
              /\ c.t \in Instants
              /\ jobs[c.claimed].status = "queued"
              /\ job' = JobsClaimed(jobs, c.claimed, w, c.lease, c.t)
              /\ attempts' = AttemptsClaimed(jobs, ended, c.claimed, w)
  BY <1>1, <1>2, ScanCommits
<1>5. /\ DOMAIN ended = DOMAIN attempts
      /\ \A a \in DOMAIN attempts : ended[a].job = attempts[a].job
      /\ \A a \in DOMAIN attempts : Result(ended[a].outcome) => ended[a] = attempts[a]
  <2>1. \A a \in DOMAIN attempts : attempts[a] \in JobAttempt
    BY <1>3, AttemptsJob
  <2> QED
    BY <2>1 DEF EndAttempts, JobAttempt, Result
<1> HIDE DEF ended, jobs
<1>6. TablesInv(job', attempts')
  <2>1. CASE c.claimed = None
    BY <1>3, <1>4, <2>1
  <2>2. CASE c.claimed # None
    <3>1. TablesInv(JobsClaimed(jobs, c.claimed, w, c.lease, c.t),
                    AttemptsClaimed(jobs, ended, c.claimed, w))
      BY <1>3, <1>4, <2>2, ClaimKeepsTables
    <3> QED
      BY <1>4, <2>2, <3>1
  <2> QED
    BY <2>1, <2>2
<1>7. /\ \A a \in DOMAIN ended : a \in DOMAIN attempts' /\ attempts'[a] = ended[a]
      /\ \A a \in DOMAIN attempts' : a \in DOMAIN ended \/ attempts'[a].outcome = "running"
  <2>1. ended \in Seq(JobAttempt)
    BY <1>3 DEF TablesInv, TablesOK
  <2>2. PICK new : c.claimed # None => /\ attempts' = Append(ended, new)
                                       /\ new.outcome = "running"
    BY <1>4 DEF AttemptsClaimed
  <2> QED
    BY <1>4, <2>1, <2>2
<1>8. Inv'
  BY <1>3, <1>4, <1>6 DEF Inv
<1>9. ReportsMatchAttempts'
  <2>1. \A a \in DOMAIN attempts : a \in DOMAIN attempts' /\ attempts'[a].job = attempts[a].job
    BY <1>5, <1>7
  <2>2. \A a \in DOMAIN attempts' : Result(attempts'[a].outcome) =>
          a \in DOMAIN attempts /\ attempts'[a] = attempts[a]
    BY <1>5, <1>7 DEF Result
  <2> QED
    BY <1>3, <1>4, <2>1, <2>2, ReportsKept
<1> QED
  BY <1>8, <1>9

LEMMA CommitKeepsTables ==
  ASSUME PgInv, NEW s \in Sessions, Commit(s)
  PROVE  Inv' /\ ReportsMatchAttempts'
<1>1. tx[s].op \in Calls \ {"none"}
  BY DEF PgInv, CallSound, Transaction, Commit, Idle
<1> QED
  BY <1>1, PairCommitKeeps, CancelCommitKeeps, RevisionCommitKeeps, ScanCommitKeeps DEF Calls

-----------------------------------------------------------------------------
(* The line, and what a claim could have had. *)

\* The job before `place' keep their places, those after it move up by one.
LEMMA InsertedRows ==
  ASSUME NEW old \in Seq(Jobs), NEW j \in Jobs, NEW place \in 1 .. Len(old) + 1, NEW new,
         new = InsertAt(old, place, j)
  PROVE  /\ DOMAIN new = 1 .. Len(old) + 1
         /\ \A i \in DOMAIN new :
              /\ i < place => new[i] = old[i] /\ i \in DOMAIN old
              /\ i = place => new[i] = j
              /\ i > place => new[i] = old[i - 1] /\ i - 1 \in DOMAIN old
<1> DEFINE n == Len(old)
           front == SubSeq(old, 1, place - 1)
           back == SubSeq(old, place, n)
<1>1. n \in Nat /\ place \in Nat /\ place - 1 \in 0 .. n /\ DOMAIN old = 1 .. n
  OBVIOUS
<1>2. /\ front \in Seq(Jobs) /\ Len(front) = place - 1
      /\ \A i \in 1 .. place - 1 : front[i] = old[i]
  BY <1>1
<1>3. /\ back \in Seq(Jobs) /\ Len(back) = n - place + 1
      /\ \A i \in 1 .. n - place + 1 : back[i] = old[place + i - 1]
  BY <1>1
<1>4. new = (front \o <<j>>) \o back
  BY DEF InsertAt
<1> HIDE DEF front, back, n
<1> DEFINE upto == front \o <<j>>
<1>5. /\ upto \in Seq(Jobs) /\ Len(upto) = place
      /\ \A i \in 1 .. place - 1 : upto[i] = front[i]
      /\ upto[place] = j
  BY <1>1, <1>2
<1> HIDE DEF upto
<1>6. /\ DOMAIN new = 1 .. n + 1
      /\ \A i \in 1 .. place : new[i] = upto[i]
      /\ \A i \in place + 1 .. n + 1 : new[i] = back[i - place]
  BY <1>1, <1>3, <1>4, <1>5 DEF upto
<1>7. ASSUME NEW i \in DOMAIN new, i > place
      PROVE  new[i] = old[i - 1] /\ i - 1 \in DOMAIN old
  <2>1. i \in place + 1 .. n + 1 /\ i - place \in 1 .. n - place + 1
    BY <1>1, <1>6, <1>7
  <2>2. place + (i - place) - 1 = i - 1 /\ i - 1 \in 1 .. n
    BY <1>1, <2>1
  <2> QED
    BY <1>1, <1>3, <1>6, <2>1, <2>2
<1>8. ASSUME NEW i \in DOMAIN new, i < place
      PROVE  new[i] = old[i] /\ i \in DOMAIN old
  BY <1>1, <1>2, <1>5, <1>6, <1>8
<1> QED
  BY <1>1, <1>5, <1>6, <1>7, <1>8 DEF n

\* Jobs that had been submitted keep their order in the line.
OrderKept ==
  \A i, k \in DOMAIN line' :
    job[line'[i]].status # "absent" /\ job[line'[k]].status # "absent" =>
      \E m, n \in DOMAIN line :
        line[m] = line'[i] /\ line[n] = line'[k] /\ (n <= m => k <= i)

LEMMA InsertKeepsLine ==
  ASSUME Inv, LineSound, NEW j \in Jobs, NEW place \in 1 .. Len(line) + 1,
         NEW max \in MaxAttempts, NEW ri \in BOOLEAN, EnqueueJob(j, place, max, ri)
  PROVE  LineSound' /\ OrderKept
<1>1. /\ line \in Seq(Jobs) /\ place \in Nat
      /\ job[j].status = "absent"
      /\ job \in [Jobs -> InvestigationJob]
  BY DEF Inv, EnqueueJob, TablesInv, TablesOK
<1>2. /\ DOMAIN line' = 1 .. Len(line) + 1
      /\ \A i \in DOMAIN line' :
           /\ i < place => line'[i] = line[i] /\ i \in DOMAIN line
           /\ i = place => line'[i] = j
           /\ i > place => line'[i] = line[i - 1] /\ i - 1 \in DOMAIN line
  BY <1>1, InsertedRows DEF EnqueueJob
<1>3. \A i \in DOMAIN line : line[i] # j /\ line[i] \in Jobs /\ i \in Nat
  BY <1>1 DEF LineSound
<1>4. /\ job'[j].status = "queued"
      /\ \A i \in Jobs : i # j => job'[i] = job[i]
  BY <1>1 DEF EnqueueJob, FreshJob
<1> DEFINE was(i) == IF i < place THEN i ELSE i - 1
<1>5. \A i \in DOMAIN line' : line'[i] # j => was(i) \in DOMAIN line /\ line'[i] = line[was(i)]
  BY <1>1, <1>2
<1>6. \A i, k \in DOMAIN line' : line'[i] # j /\ line'[k] # j =>
        (was(k) <= was(i) => k <= i) /\ (was(i) = was(k) => i = k)
  BY <1>1, <1>2
<1>7. \A i, k \in DOMAIN line' : line'[i] = j /\ line'[k] = j => i = k
  <2>1. \A i \in DOMAIN line' : line'[i] = j => i = place
    BY <1>1, <1>2, <1>3
  <2> QED
    BY <2>1
<1> HIDE DEF was
<1>8. \A i, k \in DOMAIN line' : line'[i] = line'[k] => i = k
  BY <1>5, <1>6, <1>7 DEF LineSound
<1>9. \A i \in DOMAIN line' : job'[line'[i]].status # "absent"
  BY <1>3, <1>4, <1>5 DEF LineSound
<1>10. OrderKept
  BY <1>1, <1>5, <1>6 DEF OrderKept
<1> QED
  BY <1>8, <1>9, <1>10 DEF LineSound

\* Nothing is added to what a claim could have had once it has looked.
LEMMA OpenFacts ==
  ASSUME Overlooked, NEW x \in Sessions
  PROVE  /\ DOMAIN open' = Sessions
         /\ tx'[x].op # "claim" \/ tx'[x].at = "lapsed" => open'[x] = {}
         /\ tx'[x].op = "claim" /\ tx'[x].at # "lapsed" /\ tx[x].at = "lapsed" =>
              open'[x] \subseteq {j \in Jobs : Seen(x)'[j].status = "queued"}
         /\ tx'[x].op = "claim" /\ tx'[x].at # "lapsed" /\ tx[x].at # "lapsed" =>
              \A j \in open'[x] :
                /\ j \in open[x]
                /\ \/ j = tx'[x].claimed
                   \/ Seen(x)'[j].status = "queued" /\ ~HeldByOther(x, JobRow(j))'
BY DEF Overlooked

\* The others' claims.
LEMMA OthersOpen ==
  ASSUME PgInv, Overlooked, NEW x \in Sessions, tx'[x] = tx[x], Kept(x), OrderKept
  PROVE  OpenSound(x)'
<1> DEFINE c == tx[x]
<1>1. /\ OpenSound(x) /\ CallSound(x) /\ LockSound /\ Inv
  BY DEF PgInv
<1>2. CASE c.op # "claim" \/ c.at = "lapsed"
  <2>1. open'[x] = {}
    BY <1>2, OpenFacts
  <2> QED
    BY <2>1 DEF OpenSound
<1>3. CASE c.op = "claim" /\ c.at # "lapsed"
  <2>1. open'[x] \subseteq open[x]
    BY <1>3, OpenFacts
  <2>2. open'[x] \subseteq Jobs /\ \A j \in open'[x] : job'[j].status # "absent"
    BY <1>1, <2>1 DEF OpenSound, Kept
  <2>3. ASSUME c.at = "commit", open'[x] # {}
        PROVE  /\ c.claimed # None
               /\ \A i, k \in DOMAIN line' :
                    line'[i] \in open'[x] /\ line'[k] = c.claimed => k <= i
    <3>1. /\ c.claimed # None
          /\ \A m, n \in DOMAIN line :
               line[m] \in open[x] /\ line[n] = c.claimed => n <= m
      BY <1>1, <1>3, <2>1, <2>3 DEF OpenSound
    <3>2. c.claimed \in Jobs /\ HoldsJob(x, c.claimed)
      BY <1>1, <1>3, <3>1, HeldWrites DEF CallSound, ScanSound
    <3>3. job[c.claimed].status # "absent"
      BY <1>1, <3>2, LockFacts DEF LockSound, HoldsJob
    <3>4. ASSUME NEW i \in DOMAIN line', NEW k \in DOMAIN line',
                 line'[i] \in open'[x], line'[k] = c.claimed
          PROVE  k <= i
      <4>1. job[line'[i]].status # "absent" /\ job[line'[k]].status # "absent"
        BY <1>1, <2>1, <3>3, <3>4 DEF OpenSound
      <4>2. PICK m, n \in DOMAIN line :
              line[m] = line'[i] /\ line[n] = line'[k] /\ (n <= m => k <= i)
        BY <4>1 DEF OrderKept
      <4> QED
        BY <2>1, <3>1, <3>4, <4>2
    <3> QED
      BY <3>1, <3>4
  <2>4. c.op = "claim" /\ c.at = "queued" => open'[x] \subseteq c.todo
    BY <1>1, <2>1 DEF OpenSound
  <2> QED
    BY <2>2, <2>3, <2>4 DEF OpenSound
<1> QED
  BY <1>2, <1>3

\* Its own claim, while it has not leased anything and does not now.
LEMMA OwnOpenEmpty ==
  ASSUME PgInv, Overlooked, NEW s \in Sessions,
         tx'[s].op # "claim" \/ tx'[s].at = "lapsed"
  PROVE  OpenSound(s)'
<1>1. open'[s] = {}
  BY OpenFacts
<1> QED
  BY <1>1 DEF OpenSound

LEMMA OwnOpenLooked ==
  ASSUME PgInv, Overlooked, NEW s \in Sessions, LookForQueued(s)
  PROVE  OpenSound(s)'
<1>1. /\ CallSound(s)'
      /\ tx'[s].op = "claim" /\ tx'[s].at = "queued" /\ tx[s].at = "lapsed"
      /\ tx'[s].todo = {j \in Jobs : Seen(s)'[j].status = "queued"}
  BY LookedForQueued DEF Quietly
<1>2. open'[s] \subseteq tx'[s].todo /\ tx'[s].todo \subseteq Jobs
  BY <1>1, OpenFacts
<1>3. \A j \in tx'[s].todo : job'[j].status # "absent"
  BY <1>1 DEF CallSound, ScanSound
<1> QED
  BY <1>1, <1>2, <1>3 DEF OpenSound

LEMMA OwnOpenLocked ==
  ASSUME PgInv, Overlooked, NEW s \in Sessions, LockQueued(s)
  PROVE  OpenSound(s)'
<1>1. /\ OpenSound(s) /\ LineSound /\ UNCHANGED <<job, line>>
      /\ tx'[s].op = "claim" /\ tx[s].at = "queued" /\ tx[s].op = "claim"
      /\ LeasesNext(s) \/ \E j \in tx[s].todo : PassesOver(s, j)
  BY LockedQueued DEF PgInv, Quietly, OnlySession, storeVars, LockQueued, At
<1>2. tx'[s].at # "lapsed"
  BY <1>1 DEF LeasesNext, PassesOver
<1>3. open'[s] \subseteq open[s] /\ open[s] \subseteq tx[s].todo
  BY <1>1, <1>2, OpenFacts DEF OpenSound
<1>4. open'[s] \subseteq Jobs /\ \A j \in open'[s] : job'[j].status # "absent"
  BY <1>1, <1>3 DEF OpenSound
<1>5. CASE LeasesNext(s)
  <2>1. /\ tx'[s].at = "commit" /\ tx'[s].claimed \in Jobs
        /\ FirstInLine(tx'[s].claimed, tx[s].todo)
    BY <1>5 DEF LeasesNext
  <2>2. PICK n \in DOMAIN line :
          /\ line[n] = tx'[s].claimed
          /\ \A m \in DOMAIN line : line[m] \in tx[s].todo => n <= m
    BY <2>1 DEF FirstInLine
  <2>3. \A i, k \in DOMAIN line' : line'[i] \in open'[s] /\ line'[k] = tx'[s].claimed => k <= i
    BY <1>1, <1>3, <2>2 DEF LineSound
  <2>4. tx'[s].claimed # None
    BY <2>1 DEF PgAssumption
  <2> QED
    BY <1>4, <2>1, <2>3, <2>4 DEF OpenSound
<1>6. CASE \E j \in tx[s].todo : PassesOver(s, j)
  <2>1. PICK j \in tx[s].todo : PassesOver(s, j)
    BY <1>6
  <2>2. j \notin open'[s]
    <3>1. j # tx'[s].claimed
      BY <2>1 DEF PassesOver, PgAssumption
    <3>2. HeldByOther(s, JobRow(j))' \/ Seen(s)'[j].status # "queued"
      BY <2>1 DEF PassesOver
    <3> QED
      BY <1>1, <1>2, <3>1, <3>2, OpenFacts
  <2>3. open'[s] \subseteq tx'[s].todo
    BY <1>3, <2>1, <2>2 DEF PassesOver
  <2> QED
    BY <1>1, <1>4, <2>1, <2>3 DEF OpenSound, PassesOver
<1> QED
  BY <1>1, <1>5, <1>6

LEMMA OwnOpenEnded ==
  ASSUME PgInv, Overlooked, NEW s \in Sessions, EndScan(s)
  PROVE  OpenSound(s)'
<1>1. /\ OpenSound(s)
      /\ tx'[s].op = tx[s].op /\ tx'[s].at = "commit" /\ tx[s].todo = {}
      /\ tx[s].op = "claim" => tx[s].at = "queued"
  BY EndedScan DEF PgInv
<1>2. CASE tx[s].op # "claim"
  BY <1>1, <1>2, OwnOpenEmpty
<1>3. CASE tx[s].op = "claim"
  <2>1. open[s] = {}
    BY <1>1, <1>3 DEF OpenSound
  <2>2. open'[s] = {}
    BY <1>1, <1>3, <2>1, OpenFacts
  <2> QED
    BY <2>2 DEF OpenSound
<1> QED
  BY <1>2, <1>3

-----------------------------------------------------------------------------
(* The invariant. *)

\* A session that commits nothing preserves it.
LEMMA QuietKeepsInv ==
  ASSUME PgInv, NEW s \in Sessions, Quietly(s), Overlooked, OpenSound(s)'
  PROVE  PgInv'
<1>1. /\ UNCHANGED storeVars /\ LockSound' /\ CallSound(s)' /\ AloneSound(s)'
      /\ DOMAIN tx' = Sessions /\ DOMAIN alone' = Sessions
      /\ \A x \in Sessions \ {s} : tx'[x] = tx[x] /\ Kept(x)
      /\ \A x \in Sessions \ {s} :
           ~alone'[x] \/ (alone'[x] = alone[x] /\ tx[s].op # "none")
  BY DEF Quietly, OnlySession
<1>2. Inv' /\ ReportsMatchAttempts' /\ LineSound' /\ OrderKept
  BY <1>1 DEF PgInv, Inv, ReportsMatchAttempts, LineSound, OrderKept, storeVars
<1>3. \A x \in Sessions \ {s} : CallSound(x)'
  BY <1>1, KeptCall DEF PgInv
<1>4. \A x \in Sessions \ {s} : AloneSound(x)'
  BY <1>1 DEF PgInv, AloneSound
<1>5. \A x \in Sessions \ {s} : OpenSound(x)'
  BY <1>1, <1>2, OthersOpen
<1>6. DOMAIN open' = Sessions
  BY OpenFacts
<1> QED
  BY <1>1, <1>2, <1>3, <1>4, <1>5, <1>6 DEF PgInv

LEMMA CommitKeepsInv ==
  ASSUME PgInv, NEW s \in Sessions, Commit(s), Overlooked
  PROVE  PgInv'
<1>1. /\ Inv /\ LineSound /\ DOMAIN tx = Sessions /\ DOMAIN alone = Sessions
      /\ \A x \in Sessions : CallSound(x) /\ AloneSound(x)
  BY DEF PgInv
<1>2. /\ line' = line /\ tx'[s] = Idle
      /\ tx' = [tx EXCEPT ![s] = Idle]
      /\ alone' = [alone EXCEPT ![s] = FALSE]
  BY CommittedRows
<1>3. /\ \A x \in Sessions \ {s} : Kept(x) /\ tx'[x] = tx[x]
      /\ LockSound' /\ CallSound(s)'
  BY <1>2, CommitKeeps
<1>4. Inv' /\ ReportsMatchAttempts'
  BY CommitKeepsTables
<1>5. LineSound' /\ OrderKept
  <2>0. job' = Seen(s) /\ tx[s].at = "commit"
    BY DEF Commit
  <2>1. \A j \in Jobs : job[j].status # "absent" => job'[j].status # "absent"
    BY <2>0, CommittedStatus DEF Seen
  <2>2. \A i \in DOMAIN line : line[i] \in Jobs
    BY <1>1 DEF Inv
  <2> QED
    BY <1>1, <1>2, <2>1, <2>2 DEF LineSound, OrderKept
<1>6. \A x \in Sessions \ {s} : CallSound(x)'
  BY <1>1, <1>3, KeptCall
<1>7. tx[s].op # "none" /\ tx'[s].op = "none"
  BY <1>1, <1>2 DEF CallSound, Commit, Idle
<1>8. \A x \in Sessions : AloneSound(x)'
  <2>1. AloneSound(s)'
    BY <1>1, <1>2 DEF AloneSound
  <2>2. \A x \in Sessions \ {s} : ~alone'[x]
    BY <1>1, <1>2, <1>7 DEF AloneSound
  <2> QED
    BY <2>1, <2>2 DEF AloneSound
<1>9. \A x \in Sessions : OpenSound(x)'
  BY <1>3, <1>5, <1>7, OthersOpen, OwnOpenEmpty
<1>10. /\ DOMAIN tx' = Sessions /\ DOMAIN alone' = Sessions /\ DOMAIN open' = Sessions
  BY <1>1, <1>2, OpenFacts
<1> QED
  BY <1>3, <1>4, <1>5, <1>6, <1>8, <1>9, <1>10 DEF PgInv

LEMMA InsertKeepsInv ==
  ASSUME PgInv, NEW s \in Sessions, Insert(s), Overlooked
  PROVE  PgInv'
<1>1. /\ Inv /\ ReportsMatchAttempts /\ LineSound /\ LockSound
      /\ DOMAIN tx = Sessions
      /\ \A x \in Sessions : CallSound(x)
  BY DEF PgInv
<1>2. PICK j \in Jobs, place \in 1 .. Len(line) + 1, max \in MaxAttempts, ri \in OptIns :
        EnqueueJob(j, place, max, ri)
  BY DEF Insert
<1>3. ri \in BOOLEAN
  BY DEF PgAssumption
<1>4. /\ UNCHANGED <<tx, lock>> /\ alone' = [x \in Sessions |-> FALSE]
      /\ UNCHANGED <<attempts, revisions>>
      /\ job[j].status = "absent" /\ job'[j].status = "queued"
      /\ \A i \in Jobs : i # j => job'[i] = job[i]
  <2>1. job \in [Jobs -> InvestigationJob]
    BY <1>1 DEF Inv, TablesInv, TablesOK
  <2> QED
    BY <1>2, <2>1 DEF Insert, EnqueueJob, FreshJob
<1>5. Inv' /\ ReportsMatchAttempts'
  <2>1. Enqueue
    BY <1>2, <1>3 DEF Enqueue
  <2> QED
    BY <2>1, StoreStepKeeps DEF Next
<1>6. LineSound' /\ OrderKept
  BY <1>1, <1>2, <1>3, InsertKeepsLine
<1>7. \A x \in Sessions : Kept(x)
  <2>1. ASSUME NEW x \in Sessions, NEW i \in Jobs, HoldsJob(x, i)
        PROVE  i # j
    BY <1>1, <1>4, <2>1, LockFacts DEF LockSound, HoldsJob
  <2> QED
    BY <1>4, <2>1 DEF Kept, HoldsJob, HoldsAttempt
<1>8. LockSound'
  BY <1>1, <1>4 DEF LockSound
<1>9. \A x \in Sessions : CallSound(x)' /\ AloneSound(x)' /\ OpenSound(x)'
  <2>1. \A x \in Sessions : CallSound(x)'
    BY <1>1, <1>4, <1>7, KeptCall
  <2>2. \A x \in Sessions : AloneSound(x)'
    BY <1>4 DEF AloneSound
  <2> QED
    BY <1>4, <1>6, <1>7, <2>1, <2>2, OthersOpen
<1> QED
  BY <1>1, <1>4, <1>5, <1>6, <1>8, <1>9, OpenFacts DEF PgInv

LEMMA PgInitInv == PgInit => PgInv
<1> SUFFICES ASSUME PgInit PROVE PgInv
  OBVIOUS
<1>1. Inv /\ ReportsMatchAttempts
  BY InitInv DEF PgInit, Init, ReportsMatchAttempts
<1>2. LineSound
  BY DEF PgInit, Init, LineSound
<1>3. LockSound
  BY DEF PgInit, Init, LockSound
<1>4. \A s \in Sessions : CallSound(s)
  <2>1. Idle.op = "none"
    BY DEF Idle
  <2> QED
    BY <2>1, IdleIsTransaction DEF PgInit, CallSound
<1>5. \A s \in Sessions : AloneSound(s) /\ OpenSound(s)
  BY DEF PgInit, AloneSound, OpenSound
<1> QED
  BY <1>1, <1>2, <1>3, <1>4, <1>5 DEF PgInit, PgInv

LEMMA QuietStepKeepsInv ==
  ASSUME PgInv, Overlooked, NEW s \in Sessions, Begin(s) \/ Wait(s) \/ Rollback(s)
  PROVE  PgInv'
<1>1. CASE Begin(s)
  <2>1. Quietly(s) /\ (tx'[s].op # "claim" \/ tx'[s].at = "lapsed")
    BY <1>1, BegunScan, BegunHeartbeat, BegunFinish, BegunCancel, BegunRevision DEF Begin
  <2> QED
    BY <2>1, OwnOpenEmpty, QuietKeepsInv
<1>2. CASE Wait(s)
  <2>1. Quietly(s) /\ (tx'[s].op # "claim" \/ tx'[s].at = "lapsed")
    BY <1>2, ExpiredOne, LockedCancelled, LockedBeaten, LockedFinished DEF Wait
  <2> QED
    BY <2>1, OwnOpenEmpty, QuietKeepsInv
<1>3. CASE Rollback(s)
  <2>1. Quietly(s) /\ tx'[s].op # "claim"
    BY <1>3, RolledBack DEF Idle
  <2> QED
    BY <2>1, OwnOpenEmpty, QuietKeepsInv
<1> QED
  BY <1>1, <1>2, <1>3

LEMMA ProceedKeepsInv ==
  ASSUME PgInv, Overlooked, NEW s \in Sessions, Proceed(s)
  PROVE  PgInv'
<1>1. CASE LockLapsed(s)
  BY <1>1, LockedLapsed, OwnOpenEmpty, QuietKeepsInv
<1>2. CASE LookForQueued(s)
  BY <1>2, LookedForQueued, OwnOpenLooked, QuietKeepsInv
<1>3. CASE LockQueued(s)
  BY <1>3, LockedQueued, OwnOpenLocked, QuietKeepsInv
<1>4. CASE EndScan(s)
  BY <1>4, EndedScan, OwnOpenEnded, QuietKeepsInv
<1>5. CASE Commit(s)
  BY <1>5, CommitKeepsInv
<1> QED
  BY <1>1, <1>2, <1>3, <1>4, <1>5 DEF Proceed

LEMMA PgNextInv == PgInv /\ [PgNext]_pgVars => PgInv'
<1> SUFFICES ASSUME PgInv, [PgNext]_pgVars PROVE PgInv'
  OBVIOUS
<1>1. ASSUME NEW s \in Sessions, Overlooked,
             Begin(s) \/ Insert(s) \/ Proceed(s) \/ Wait(s) \/ Rollback(s)
      PROVE  PgInv'
  BY <1>1, QuietStepKeepsInv, InsertKeepsInv, ProceedKeepsInv
<1>2. CASE UNCHANGED pgVars
  <2>1. /\ Inv' /\ ReportsMatchAttempts' /\ LineSound'
    BY <1>2 DEF PgInv, Inv, ReportsMatchAttempts, LineSound, pgVars, storeVars
  <2>2. UNCHANGED <<job, attempts, revisions, tx, lock>>
    BY <1>2 DEF pgVars, storeVars
  <2>3. LockSound'
    BY <2>2 DEF PgInv, LockSound
  <2>4. \A s \in Sessions : CallSound(s)'
    <3>1. \A s \in Sessions : Kept(s)
      BY <2>2 DEF Kept, HoldsJob, HoldsAttempt
    <3> QED
      BY <2>2, <3>1, KeptCall DEF PgInv
  <2>5. ASSUME NEW s \in Sessions
        PROVE  AloneSound(s)'
    <3>1. /\ UNCHANGED <<job, attempts, line, tx, alone>>
          /\ AloneSound(s)
      BY <1>2 DEF PgInv, pgVars, storeVars
    <3>2. Gone(s)' = Gone(s) /\ Left(s)' = Left(s)
      BY <3>1 DEF Gone, Left
    <3>3. Queued(Left(s))' = Queued(Left(s))
      BY <3>2 DEF Queued
    <3>4. Lapsed(job, tx[s].t)' = Lapsed(job, tx[s].t)
      BY <3>1 DEF Lapsed
    <3>5. FirstInLine(tx[s].claimed, Queued(Left(s)))' <=> FirstInLine(tx[s].claimed, Queued(Left(s)))
      BY <3>1, <3>3 DEF FirstInLine
    <3> QED
      BY <3>1, <3>2, <3>3, <3>4, <3>5 DEF AloneSound
  <2>6. \A s \in Sessions : OpenSound(s)'
    BY <1>2 DEF PgInv, OpenSound, pgVars, storeVars
  <2> QED
    BY <1>2, <2>1, <2>3, <2>4, <2>5, <2>6 DEF PgInv, pgVars
<1> QED
  BY <1>1, <1>2 DEF PgNext

THEOREM PgInvHolds == PgSpec => []PgInv
<1>1. PgInv /\ [PgNext]_pgVars => PgInv'
  BY PgNextInv
<1> QED
  BY PgInitInv, <1>1, PTL DEF PgSpec

-----------------------------------------------------------------------------
(* The properties the run checks, for every choice of the constants. *)

\* The committed tables satisfy the invariants of the in-memory store at every
\* moment, every row a transaction will write is locked by it, and no lock is
\* left behind by a call that is over.
THEOREM CommittedTablesHold == PgSpec => []CommittedTablesSound
<1>1. ASSUME PgInv PROVE CommittedTablesSound
  <2>1. TypeOK /\ AttemptsNumbered /\ StatusEarned /\ AllowanceRespected
    BY <1>1 DEF PgInv, Inv, TablesInv, TypeOK, AttemptsNumbered, StatusEarned, AllowanceRespected
  <2>2. ReportsMatchAttempts /\ \A row \in DOMAIN lock : lock[row] # None => ~IsIdle(lock[row])
    BY <1>1 DEF PgInv, LockSound, IsIdle
  <2>3. ASSUME NEW s \in Sessions
        PROVE  /\ \A j \in DOMAIN tx[s].rows : lock[JobRow(j)] = s
               /\ \A a \in DOMAIN tx[s].ends : lock[AttemptRow(a)] = s
    BY <1>1, HeldWrites DEF HoldsJob, HoldsAttempt
  <2> QED
    BY <2>1, <2>2, <2>3 DEF CommittedTablesSound
<1> QED
  BY PgInvHolds, <1>1, PTL

\* Whatever row a transaction cannot go on without is an attempt's, and that
\* attempt's job is locked by the transaction itself: nobody else has it.
LEMMA WantedIsFree ==
  ASSUME PgInv, NEW s \in Sessions, NEW row \in Wanted(s)
  PROVE  lock[row] \in {None, s}
<1>1. LockSound /\ Inv /\ CallSound(s)
  BY DEF PgInv
<1>2. ASSUME NEW a \in DOMAIN attempts, HoldsJob(s, attempts[a].job)
      PROVE  lock[AttemptRow(a)] \in {None, s}
  BY <1>1, <1>2 DEF LockSound, HoldsJob
<1>3. CASE tx[s].op \in {"expire", "claim"}
  <2>1. PICK j \in Jobs : row = AttemptRow(RunningAttempt(j)) /\ j \in tx[s].mine
    BY <1>3 DEF Wanted, At, FirstInLine
  <2>2. job[j].status = "running" /\ HoldsJob(s, j)
    <3>1. ScanSound(s) /\ \A i \in tx[s].mine : job[i].status = "running"
      BY <1>3, ScanJobs
    <3>2. \A i \in tx[s].mine : HoldsJob(s, i)
      BY <3>1 DEF ScanSound
    <3> QED
      BY <2>1, <3>1, <3>2
  <2>3. RunningAttempt(j) \in DOMAIN attempts /\ attempts[RunningAttempt(j)].job = j
    BY <1>1, <2>2, RunningAttemptIs
  <2> QED
    BY <1>2, <2>1, <2>2, <2>3
<1>4. CASE tx[s].op \in {"heartbeat", "finish"}
  <2>1. tx[s].at = "pair" /\ row = PairRow(tx[s].attempt, 2)
    BY <1>4 DEF Wanted, At
  <2>2. /\ tx[s].attempt \in DOMAIN attempts
        /\ HoldsJob(s, attempts[tx[s].attempt].job)
        /\ PairRow(tx[s].attempt, 2) = AttemptRow(tx[s].attempt)
    BY <1>4, <2>1, LeaseJudged
  <2> QED
    BY <1>2, <2>1, <2>2
<1>5. CASE tx[s].op = "cancel"
  <2>1. tx[s].at = "attempt" /\ row = AttemptRow(tx[s].attempt)
    BY <1>5 DEF Wanted, At
  <2>2. /\ tx[s].attempt \in DOMAIN attempts
        /\ HoldsJob(s, attempts[tx[s].attempt].job)
    BY <1>1, <1>5, <2>1 DEF CallSound, CancelSound
  <2> QED
    BY <1>2, <2>1, <2>2
<1>6. tx[s].op \in {"expire", "claim"} \cup {"heartbeat", "finish"} \cup {"cancel"}
  BY DEF Wanted, At
<1> QED
  BY <1>3, <1>4, <1>5, <1>6

\* However many transactions run, no set of them can be waiting for each other:
\* the database never has a deadlock to break.
THEOREM NobodyWaitsHolds == PgSpec => []NobodyWaitsInCircle
<1>1. ASSUME PgInv PROVE NobodyWaitsInCircle
  <2>1. ASSUME NEW circle \in (SUBSET Sessions) \ {{}}
        PROVE  \E s \in circle : \A row \in Wanted(s) : lock[row] \notin circle \ {s}
    <3>0. circle # {} /\ circle \subseteq Sessions
      BY <2>1
    <3>1. PICK s : s \in circle
      BY <3>0
    <3>2. s \in Sessions /\ None \notin circle
      BY <3>1 DEF PgAssumption
    <3>3. \A row \in Wanted(s) : lock[row] \in {None, s}
      BY <1>1, <3>2, WantedIsFree
    <3> QED
      BY <3>1, <3>2, <3>3
  <2> QED
    BY <2>1 DEF NobodyWaitsInCircle
<1> QED
  BY PgInvHolds, <1>1, PTL

\* claim_job leases no younger job, nor returns None, while an older one was
\* queued and locked by nobody else from the moment it looked.
THEOREM ClaimTakesOldestHolds == PgSpec => []ClaimTakesOldestOpen
<1>1. PgInv => ClaimTakesOldestOpen
  BY DEF PgInv, OpenSound, ClaimTakesOldestOpen, At
<1> QED
  BY PgInvHolds, <1>1, PTL

\* A step of one session commits what its own transaction wrote, or nothing.
LEMMA StepIsStoreCall ==
  ASSUME PgInv, [PgNext]_pgVars, NEW s \in Sessions, tx[s].at = "commit", tx'[s].op = "none"
  PROVE  StoreCall(s) \/ UNCHANGED storeVars
<1>1. tx[s].op # "none"
  BY DEF PgInv, CallSound, Idle
<1>2. CASE UNCHANGED pgVars
  BY <1>2 DEF pgVars
<1>3. ASSUME NEW x \in Sessions, Begin(x) \/ Wait(x) \/ Rollback(x) \/ LockLapsed(x)
                                   \/ LookForQueued(x) \/ LockQueued(x) \/ EndScan(x)
      PROVE  UNCHANGED storeVars
  <2>1. Quietly(x)
    BY <1>3, BegunScan, BegunHeartbeat, BegunFinish, BegunCancel, BegunRevision, ExpiredOne,
       LockedCancelled, LockedBeaten, LockedFinished, RolledBack, LockedLapsed,
       LookedForQueued, LockedQueued, EndedScan DEF Begin, Wait
  <2> QED
    BY <2>1 DEF Quietly, OnlySession
<1>4. ASSUME NEW x \in Sessions, Insert(x)
      PROVE  FALSE
  BY <1>1, <1>4 DEF Insert
<1>5. ASSUME NEW x \in Sessions, Commit(x)
      PROVE  StoreCall(s)
  <2>1. tx' = [tx EXCEPT ![x] = Idle]
    BY <1>5, CommittedRows
  <2>2. x = s
    BY <1>1, <2>1 DEF PgInv
  <2> QED
    BY <1>5, <2>2, CommitIsStoreCall
<1> QED
  BY <1>2, <1>3, <1>4, <1>5 DEF PgNext, Proceed

\* Every commit does to the tables what one call of the in-memory store does to
\* them at that instant: the locks of a transaction keep what it has read true,
\* so its writes are those of a call made now, and nobody's update is lost.
THEOREM CommitsAreStoreCallsHolds == PgSpec => CommitsAreStoreCalls
<1>1. PgInv /\ [PgNext]_pgVars =>
        [\A s \in Sessions :
           tx[s].at = "commit" /\ tx'[s].op = "none" => StoreCall(s) \/ UNCHANGED storeVars]_pgVars
  BY StepIsStoreCall
<1> QED
  BY PgInvHolds, <1>1, PTL DEF PgSpec, CommitsAreStoreCalls

=============================================================================
