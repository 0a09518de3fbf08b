------------------------------ MODULE PgStore -------------------------------
(***************************************************************************)
(* The storage contract on PostgreSQL: each call of PostgresStore is one   *)
(* READ COMMITTED transaction over the tables of JobStore, made of the     *)
(* statements of postgres.py in their order.  A SELECT ... FOR UPDATE      *)
(* locks a row until the transaction ends and reads its newest committed   *)
(* version; with SKIP LOCKED it passes over rows others hold and, having   *)
(* locked a row, tests the WHERE clause again.  What a transaction writes  *)
(* it computes from the versions it read, and nobody else sees it before   *)
(* the commit; a lost connection or a statement timeout rolls it back.     *)
(*                                                                         *)
(* A session is one PostgresStore: its RLock and single connection allow   *)
(* one transaction at a time.  Statements that can neither wait nor see    *)
(* another transaction's effect are taken together with the next one.      *)
(***************************************************************************)
EXTENDS JobStore

CONSTANTS
  Sessions,      \* PostgresStore objects, each with its connection
  WorkerOf,      \* the worker that calls each of them
  Results,       \* what executions report: outcomes, and whether to retry
  OptIns,        \* the values retry_incomplete is submitted with
  MaxStarted     \* bound: attempts started, or about to be by claims under way

ASSUME PgAssumption ==
  /\ WorkerOf \in [Sessions -> Workers]
  /\ Results \subseteq [outcome : Reported, retryable : BOOLEAN]
  /\ \A r \in Results : r.outcome # "failed" => r.retryable
  /\ OptIns \subseteq BOOLEAN
  /\ MaxStarted \in Nat
  /\ None \notin Sessions
  /\ None \notin Jobs

VARIABLES
  tx,        \* the transaction of each session
  lock,      \* the session that holds each row lock, by job or attempt
  alone,     \* history: no other transaction ran since this one began
  open       \* history: the jobs queued and free since the claim looked

pgVars == <<storeVars, tx, lock, alone, open>>

\* op, at: the call and the statement it stands at
\* t, job, attempt, lease, outcome, retryable: its arguments
\* todo: rows of its SELECT it has still to lock
\* mine: the lapsed jobs it locked; claimed: the job it leases
\* rows, ends: the versions it will write, by job and by attempt
\* report: the number of the revision it will insert, if any
Idle ==
  [op |-> "none", at |-> "idle", t |-> None, job |-> None, attempt |-> None,
   lease |-> None, outcome |-> None, retryable |-> TRUE, todo |-> {}, mine |-> {},
   claimed |-> None, rows |-> <<>>, ends |-> <<>>, report |-> 0]

IsIdle(s) == tx[s].op = "none"

\* One version more among those to be written; the only one.
Put(versions, x, v) == [y \in DOMAIN versions \cup {x} |-> IF y = x THEN v ELSE versions[y]]

Only(x, v) == [y \in {x} |-> v]

At(s, op, at) == tx[s].op \in op /\ tx[s].at = at

\* Slip: rows are read without FOR UPDATE.
FreeUnlocked(s, row) == TRUE

\* The row may be locked by s; it may hold it already.
Free(s, row) == lock[row] \in {None, s}

HeldByOther(s, row) == lock[row] \notin {None, s}

JobRow(j) == <<"job", j>>

AttemptRow(a) == <<"attempt", a>>

\* Slip: the attempt before its job.
AttemptFirst == <<"attempt", "job">>

\* _locked_pair: the job before its attempt, the order of every other path.
PairOrder == <<"job", "attempt">>

PairRow(a, n) == IF PairOrder[n] = "job" THEN JobRow(attempts[a].job) ELSE AttemptRow(a)

Take(s, row) == lock' = [lock EXCEPT ![row] = s]

Release(s) == lock' = [row \in DOMAIN lock |-> IF lock[row] = s THEN None ELSE lock[row]]

\* What s reads of the jobs: the committed versions under its own writes.
Seen(s) == [j \in Jobs |-> IF j \in DOMAIN tx[s].rows THEN tx[s].rows[j] ELSE job[j]]

\* The attempt _running_attempt finds.
RunningAttempt(j) ==
  CHOOSE a \in DOMAIN attempts : attempts[a].job = j /\ IsRunningAttempt(attempts, a)

\* The lease rule on the versions a transaction has read.
LeaseHeld(rec, att, w, t) ==
  /\ rec.status = "running"
  /\ att.outcome = "running"
  /\ rec.lease_owner = w
  /\ att.worker = w
  /\ rec.lease_expires_at # None
  /\ rec.lease_expires_at > t

-----------------------------------------------------------------------------
PgInit ==
  /\ Init
  /\ tx = [s \in Sessions |-> Idle]
  /\ lock = [row \in {JobRow(j) : j \in Jobs} |-> None]
  /\ alone = [s \in Sessions |-> FALSE]
  /\ open = [s \in Sessions |-> {}]

Start(s, call) ==
  /\ IsIdle(s)
  /\ tx' = [tx EXCEPT ![s] = call]
  /\ alone' = [x \in Sessions |-> x = s /\ \A y \in Sessions \ {s} : IsIdle(y)]
  /\ UNCHANGED <<storeVars, lock>>

Goto(s, call) ==
  /\ tx' = [tx EXCEPT ![s] = call]
  /\ UNCHANGED <<storeVars, alone>>

\* Rolled back by the store itself, or committed without a write.
EndQuietly(s) ==
  /\ tx' = [tx EXCEPT ![s] = Idle]
  /\ Release(s)
  /\ alone' = [alone EXCEPT ![s] = FALSE]
  /\ UNCHANGED storeVars

\* ORDER BY created_at, seq: the row among these a SELECT comes to next.
FirstInLine(j, jobs) ==
  /\ j \in jobs
  /\ \E i \in DOMAIN line : /\ line[i] = j
                            /\ \A k \in DOMAIN line : line[k] \in jobs => i <= k

\* _expire's SELECT: its rows are those of the snapshot it starts with.
BeginExpire(s, t) ==
  Start(s, [Idle EXCEPT !.op = "expire", !.at = "lapsed", !.t = t, !.todo = Lapsed(job, t)])

BeginClaim(s, lease, t) ==
  /\ Len(attempts) + Cardinality({x \in Sessions : tx[x].op = "claim"}) < MaxStarted
  /\ Start(s, [Idle EXCEPT !.op = "claim", !.at = "lapsed", !.t = t, !.lease = lease,
                           !.todo = Lapsed(job, t)])

\* enqueue_job writes one new row; its key is nobody else's.
Insert(s) ==
  /\ IsIdle(s)
  /\ \E j \in Jobs, place \in 1 .. Len(line) + 1, max \in MaxAttempts, ri \in OptIns :
       EnqueueJob(j, place, max, ri)
  /\ alone' = [x \in Sessions |-> FALSE]
  /\ UNCHANGED <<tx, lock>>

-----------------------------------------------------------------------------
(* FOR UPDATE SKIP LOCKED. *)

\* The next lapsed job is locked, or passed over; it counts if it has still
\* lapsed once it is locked.
LockLapsed(s) ==
  /\ At(s, {"expire", "claim"}, "lapsed")
  /\ \E j \in Jobs :
       /\ FirstInLine(j, tx[s].todo)
       /\ IF HeldByOther(s, JobRow(j))
          THEN Goto(s, [tx[s] EXCEPT !.todo = @ \ {j}]) /\ UNCHANGED lock
          ELSE /\ Take(s, JobRow(j))
               /\ Goto(s, [tx[s] EXCEPT !.todo = @ \ {j},
                                        !.mine = IF j \in Lapsed(job, tx[s].t)
                                                 THEN @ \cup {j} ELSE @])

\* The loop of _expire: each job's running attempt is locked, waiting for it
\* if need be, and both are ended.
ExpireOne(s) ==
  /\ At(s, {"expire", "claim"}, "lapsed")
  /\ tx[s].todo = {}
  /\ \E j \in Jobs :
       LET a == RunningAttempt(j)
       IN  /\ FirstInLine(j, tx[s].mine)
           /\ Free(s, AttemptRow(a))
           /\ Take(s, AttemptRow(a))
           /\ Goto(s, [tx[s] EXCEPT
                         !.mine = @ \ {j},
                         !.rows = Put(@, j, FinishTransition(job[j], "expired", TRUE)),
                         !.ends = Put(@, a, "expired")])

\* claim_job's own SELECT, on a new snapshot that includes what it expired.
LookForQueued(s) ==
  /\ At(s, {"claim"}, "lapsed")
  /\ tx[s].todo = {} /\ tx[s].mine = {}
  /\ Goto(s, [tx[s] EXCEPT !.at = "queued",
                           !.todo = {j \in Jobs : Seen(s)[j].status = "queued"}])
  /\ UNCHANGED lock

\* The job is leased, in the version the claim has read.
Lease(s, j) ==
  Goto(s, [tx[s] EXCEPT
             !.at = "commit",
             !.claimed = j,
             !.rows = Put(@, j, ClaimTransition(Seen(s)[j], WorkerOf[s], tx[s].lease, tx[s].t))])

\* Slip: LIMIT 1 is applied before locked rows are skipped.
LockQueuedFirstOnly(s) ==
  /\ At(s, {"claim"}, "queued")
  /\ \E j \in Jobs :
       /\ FirstInLine(j, tx[s].todo)
       /\ IF HeldByOther(s, JobRow(j)) \/ Seen(s)[j].status # "queued"
          THEN Goto(s, [tx[s] EXCEPT !.todo = {}]) /\ UNCHANGED lock
          ELSE Take(s, JobRow(j)) /\ Lease(s, j)

\* Slip: the row is not tested again once it is locked.
LockQueuedUnchecked(s) ==
  /\ At(s, {"claim"}, "queued")
  /\ \E j \in Jobs :
       /\ FirstInLine(j, tx[s].todo)
       /\ IF HeldByOther(s, JobRow(j))
          THEN Goto(s, [tx[s] EXCEPT !.todo = @ \ {j}]) /\ UNCHANGED lock
          ELSE Take(s, JobRow(j)) /\ Lease(s, j)

\* The next queued job is leased if it is free and, once locked, still queued.
LockQueued(s) ==
  /\ At(s, {"claim"}, "queued")
  /\ \E j \in Jobs :
       /\ FirstInLine(j, tx[s].todo)
       /\ IF HeldByOther(s, JobRow(j))
          THEN Goto(s, [tx[s] EXCEPT !.todo = @ \ {j}]) /\ UNCHANGED lock
          ELSE /\ Take(s, JobRow(j))
               /\ IF Seen(s)[j].status = "queued" THEN Lease(s, j)
                  ELSE Goto(s, [tx[s] EXCEPT !.todo = @ \ {j}])

\* Nothing left to look at: expire_leases is done, claim_job returns None.
EndScan(s) ==
  /\ \/ At(s, {"expire"}, "lapsed") /\ tx[s].mine = {}
     \/ At(s, {"claim"}, "queued")
  /\ tx[s].todo = {}
  /\ Goto(s, [tx[s] EXCEPT !.at = "commit"])
  /\ UNCHANGED lock

-----------------------------------------------------------------------------
(* FOR UPDATE. *)

\* The first row a call locks is waited for before it has read or locked anything,
\* so the call begins, as far as anyone can tell, when it gets that lock.
BeginLocking(s, row, call) ==
  /\ IsIdle(s)
  /\ Free(s, row)
  /\ tx' = [tx EXCEPT ![s] = call]
  /\ Take(s, row)
  /\ alone' = [x \in Sessions |-> FALSE]
  /\ UNCHANGED storeVars

\* Workers call heartbeat and finish_attempt for attempts they started, however
\* long ago; an attempt that never existed is NotFound before anything is locked.
Own(s) == {a \in DOMAIN attempts : attempts[a].worker = WorkerOf[s]}

BeginHeartbeat(s, a, lease, t) ==
  LET j == attempts[a].job
  IN  BeginLocking(s, PairRow(a, 1),
        [Idle EXCEPT !.op = "heartbeat", !.at = "pair", !.t = t, !.job = j, !.attempt = a,
                     !.lease = lease, !.rows = Only(j, job[j])])

BeginFinish(s, a, outcome, retryable) ==
  LET j == attempts[a].job
  IN  BeginLocking(s, PairRow(a, 1),
        [Idle EXCEPT !.op = "finish", !.at = "pair", !.job = j, !.attempt = a,
                     !.outcome = outcome, !.retryable = retryable, !.rows = Only(j, job[j])])

NextRevision(j) == Len(revisions[j]) + 1

\* The key-share lock that the new row's foreign key takes on the attempt is left
\* out: whoever locks an attempt holds its job first, as this transaction does.
BeginRevision(s, j, a) ==
  /\ attempts[a].job = j
  /\ \A i \in Jobs : Len(revisions[i]) < MaxRevisions
  /\ BeginLocking(s, JobRow(j),
       [Idle EXCEPT !.op = "revise", !.at = "commit", !.job = j, !.attempt = a,
                    !.report = NextRevision(j)])

\* cancel_job: a queued job needs no attempt, a terminal one is refused.
BeginCancel(s, j) ==
  /\ job[j].status \in {"queued", "running"}
  /\ LET runs == job[j].status = "running"
     IN  BeginLocking(s, JobRow(j),
           [Idle EXCEPT !.op = "cancel", !.at = IF runs THEN "attempt" ELSE "commit",
                        !.job = j, !.attempt = IF runs THEN RunningAttempt(j) ELSE None,
                        !.rows = Only(j, FinishTransition(job[j], "cancelled", FALSE))])

LockCancelledAttempt(s) ==
  /\ At(s, {"cancel"}, "attempt")
  /\ Free(s, AttemptRow(tx[s].attempt))
  /\ Take(s, AttemptRow(tx[s].attempt))
  /\ Goto(s, [tx[s] EXCEPT !.at = "commit", !.ends = Only(tx[s].attempt, "cancelled")])

\* heartbeat: the lease is judged by the instant read before the first lock.
LockBeaten(s) ==
  /\ At(s, {"heartbeat"}, "pair")
  /\ Free(s, PairRow(tx[s].attempt, 2))
  /\ LET j == tx[s].job
         rec == tx[s].rows[j]
     IN  IF LeaseHeld(rec, attempts[tx[s].attempt], WorkerOf[s], tx[s].t)
         THEN /\ Take(s, PairRow(tx[s].attempt, 2))
              /\ Goto(s, [tx[s] EXCEPT
                            !.at = "commit",
                            !.rows = Only(j, [rec EXCEPT
                                                !.lease_expires_at = tx[s].t + tx[s].lease])])
         ELSE EndQuietly(s)

\* finish_attempt: the clock is read once both rows are locked.
LockFinished(s, t) ==
  /\ At(s, {"finish"}, "pair")
  /\ Free(s, PairRow(tx[s].attempt, 2))
  /\ LET j == tx[s].job
         rec == tx[s].rows[j]
     IN  IF LeaseHeld(rec, attempts[tx[s].attempt], WorkerOf[s], t)
         THEN /\ Take(s, PairRow(tx[s].attempt, 2))
              /\ Goto(s, [tx[s] EXCEPT
                            !.at = "commit", !.t = t,
                            !.rows = Only(j, FinishTransition(rec, tx[s].outcome, tx[s].retryable)),
                            !.ends = Only(tx[s].attempt, tx[s].outcome),
                            !.report = IF tx[s].outcome = "failed" THEN 0 ELSE NextRevision(j)])
         ELSE EndQuietly(s)

-----------------------------------------------------------------------------
\* All the writes of a transaction, and the end of its locks.
Commit(s) ==
  /\ tx[s].at = "commit"
  /\ job' = Seen(s)
  /\ LET ended == [a \in DOMAIN attempts |->
                     IF a \in DOMAIN tx[s].ends
                     THEN [attempts[a] EXCEPT !.outcome = tx[s].ends[a]]
                     ELSE attempts[a]]
     IN  attempts' = IF tx[s].claimed = None THEN ended
                     ELSE Append(ended, [job |-> tx[s].claimed,
                                         number |-> job'[tx[s].claimed].attempts_made,
                                         worker |-> WorkerOf[s], outcome |-> "running"])
  /\ revisions' = IF tx[s].report = 0 THEN revisions
                  ELSE [revisions EXCEPT ![tx[s].job] =
                          Append(@, [attempt |-> tx[s].attempt, revision |-> tx[s].report])]
  /\ lock' = [row \in {JobRow(j) : j \in Jobs} \cup {AttemptRow(a) : a \in DOMAIN attempts'} |->
                IF row \in DOMAIN lock /\ lock[row] # s THEN lock[row] ELSE None]
  /\ tx' = [tx EXCEPT ![s] = Idle]
  /\ alone' = [alone EXCEPT ![s] = FALSE]
  /\ UNCHANGED line

\* The connection is lost or the statement timed out before the commit.
Rollback(s) ==
  /\ ~IsIdle(s)
  /\ tx' = [tx EXCEPT ![s] = Idle]
  /\ Release(s)
  /\ alone' = [alone EXCEPT ![s] = FALSE]
  /\ UNCHANGED storeVars

-----------------------------------------------------------------------------
Begin(s) ==
  \/ \E t \in Instants : BeginExpire(s, t)
  \/ \E lease \in Leases, t \in Instants : BeginClaim(s, lease, t)
  \/ \E a \in Own(s), lease \in Leases, t \in Instants : BeginHeartbeat(s, a, lease, t)
  \/ \E a \in Own(s), r \in Results : BeginFinish(s, a, r.outcome, r.retryable)
  \/ \E j \in Jobs : BeginCancel(s, j)
  \/ \E j \in Jobs, a \in DOMAIN attempts : BeginRevision(s, j, a)

\* A statement that waits for nobody.
Proceed(s) ==
  \/ LockLapsed(s)
  \/ LookForQueued(s)
  \/ LockQueued(s)
  \/ EndScan(s)
  \/ Commit(s)

\* A statement that may have to wait for a row.
Wait(s) ==
  \/ ExpireOne(s)
  \/ LockCancelledAttempt(s)
  \/ LockBeaten(s)
  \/ \E t \in Instants : LockFinished(s, t)

\* The jobs a claim could have had all along: queued when it looked, and since
\* then neither taken off the queue nor locked by anybody else.
Overlooked ==
  open' = [s \in Sessions |->
    LET queued == {j \in Jobs : Seen(s)'[j].status = "queued" /\ ~HeldByOther(s, JobRow(j))'}
    IN  IF tx'[s].op # "claim" \/ tx'[s].at = "lapsed" THEN {}
        ELSE IF tx[s].at = "lapsed" THEN queued
        ELSE open[s] \cap (queued \cup {tx'[s].claimed})]

PgNext ==
  /\ \E s \in Sessions : Begin(s) \/ Insert(s) \/ Proceed(s) \/ Wait(s) \/ Rollback(s)
  /\ Overlooked

PgSpec == PgInit /\ [][PgNext]_pgVars

-----------------------------------------------------------------------------
(* Correctness. *)

\* What a transaction may leave out for rows that others hold: expire_leases
\* some of the lapsed jobs, claim_job the older ones of the queue.
ExpireSome(some, t) ==
  /\ some \subseteq Lapsed(job, t)
  /\ job' = [j \in Jobs |-> IF j \in some THEN FinishTransition(job[j], "expired", TRUE)
                            ELSE job[j]]
  /\ attempts' = EndAttempts(attempts, some, "expired")
  /\ UNCHANGED <<line, revisions>>

ClaimSome(some, j, w, lease, t) ==
  LET jobs == [i \in Jobs |-> IF i \in some THEN FinishTransition(job[i], "expired", TRUE)
                              ELSE job[i]]
  IN  /\ some \subseteq Lapsed(job, t)
      /\ jobs[j].status = "queued"
      /\ job' = JobsClaimed(jobs, j, w, lease, t)
      /\ attempts' = AttemptsClaimed(jobs, EndAttempts(attempts, some, "expired"), j, w)
      /\ UNCHANGED <<line, revisions>>

\* AddReportRevision, but for its bound.
AppendRevision(j, a) ==
  /\ revisions' = [revisions EXCEPT ![j] = Append(@, [attempt |-> a, revision |-> Len(@) + 1])]
  /\ UNCHANGED <<line, job, attempts>>

\* The call of the in-memory store that a transaction amounts to, at the
\* instant it commits.
StoreCall(s) ==
  LET c == tx[s]
      w == WorkerOf[s]
  IN  CASE c.op = "heartbeat" -> Heartbeat(c.attempt, w, c.lease, c.t)
        [] c.op = "finish"    -> FinishAttempt(c.attempt, w, c.outcome, c.retryable, c.t)
        [] c.op = "cancel"    -> CancelJob(c.job)
        [] c.op = "revise"    -> AppendRevision(c.job, c.attempt)
        [] c.op = "expire" /\ alone[s] -> ExpireLeases(c.t)
        [] c.op = "claim" /\ alone[s]  -> ClaimOldest(w, c.lease, c.t) \/ ClaimNothing(c.t)
        [] OTHER ->
             \E some \in SUBSET Jobs :
               IF c.claimed = None THEN ExpireSome(some, c.t)
               ELSE ClaimSome(some, c.claimed, w, c.lease, c.t)

\* Every commit does to the tables what one call of the in-memory store does to
\* them at that instant, whatever other transactions did since it began: nothing
\* it read has changed, nothing another wrote is lost.  Only rows that others
\* held may be left out, and none if there was no other.
CommitsAreStoreCalls ==
  [][ \A s \in Sessions :
        tx[s].at = "commit" /\ tx'[s].op = "none" => StoreCall(s) \/ UNCHANGED storeVars
    ]_pgVars

\* claim_job leases no younger job, nor returns None, while an older one was
\* queued and locked by nobody else from the moment it looked.
ClaimTakesOldestOpen ==
  \A s \in Sessions : At(s, {"claim"}, "commit") =>
    \A i, k \in DOMAIN line :
      line[i] \in open[s] => tx[s].claimed # None /\ (line[k] = tx[s].claimed => k <= i)

\* The row a transaction cannot go on without.
Wanted(s) ==
  CASE At(s, {"expire", "claim"}, "lapsed") /\ tx[s].todo = {} ->
         {AttemptRow(RunningAttempt(j)) : j \in {i \in Jobs : FirstInLine(i, tx[s].mine)}}
    [] At(s, {"heartbeat", "finish"}, "pair") -> {PairRow(tx[s].attempt, 2)}
    [] At(s, {"cancel"}, "attempt")           -> {AttemptRow(tx[s].attempt)}
    [] OTHER -> {}

\* Two transactions that touch one job wait on each other instead of
\* deadlocking: there is always one that waits for nobody.
NobodyWaitsInCircle ==
  \A circle \in (SUBSET Sessions) \ {{}} :
    \E s \in circle : \A row \in Wanted(s) : lock[row] \notin circle \ {s}

\* The committed tables are sound at every moment, a row that will be written is
\* locked by the transaction that will write it, and no call leaves a lock behind.
CommittedTablesSound ==
  /\ TypeOK /\ AttemptsNumbered /\ StatusEarned /\ AllowanceRespected
  /\ ReportsMatchAttempts
  /\ \A row \in DOMAIN lock : lock[row] # None => ~IsIdle(lock[row])
  /\ \A s \in Sessions :
       /\ \A j \in DOMAIN tx[s].rows : lock[JobRow(j)] = s
       /\ \A a \in DOMAIN tx[s].ends : lock[AttemptRow(a)] = s

=============================================================================
