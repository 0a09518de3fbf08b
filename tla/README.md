# TLA+ development for agent-threat-hunter (ATH)

ATH hunts telemetry with deterministic rules, correlates the findings into cases, and has
cases investigated by specialists, optionally steered by a language model.  Most of the
code is pure (parsers, rules, rendering).  What is hard about it is elsewhere: background
workers over a leased job queue that lives in memory or in PostgreSQL, a checkpointed
workflow that is killed and resumed, an experiment runner that fans cases out over threads,
two kinds of investigation whose model may fail at any call, and the step that decides which
findings are investigated together and which not at all.  This directory models those parts,
checks them with TLC on small instances, and proves with TLAPS, for every instance, the safety
of all of them: the store in memory and in PostgreSQL, the workers, the workflow, the row
runner, both kinds of investigation, and the footing they start from.

Paths below are relative to `src/src/ath/` unless they begin with `docs/`.

## 1. Inventory

| component | code | state it keeps | operations | interacts with |
|---|---|---|---|---|
| job store | `persistence/store.py`, `memory.py`, `models.py` | jobs, attempts, report revisions, (batches, incidents) | enqueue, claim, heartbeat, finish, expire, cancel, add revision | called by workers and the CLI, from any thread and process |
| PostgreSQL store | `persistence/postgres.py` | the same, in tables | the same, as transactions with row locks and `SKIP LOCKED` | implements the contract of `store.py` |
| background workers | `persistence/worker.py` | per attempt: `stop` and `lost` events; `processed` | submit, run_once, run, heartbeat thread, execute | the store, the orchestrator |
| checkpointed workflow | `workflow.py` | run directories: four sealed stages, `.partial` leftovers, `run.json`, attempts, `INDEX.json` | run_case, run_batch, open / build / seal a stage, RAM guard, model warm-up | disk, telemetry source, model |
| row runner | `experiments/runner.py`, `runs.py`, `evaluation/ablation/local.py` | row files, run record, guard events; `ran`, `skipped`, `stop`; per-client token log | run, run_rows, guard, write_row | thread pool, disk, model clients |
| agent orchestration | `agent/orchestrator.py`, `graph.py`, `state.py`, `specialists.py` | `InvestigationState` | plan, act, verify, record, synthesise | model client, specialists, verifier; used by workers and workflow |
| single-agent investigator | `agent/investigator.py`, `operational.py`, `structured.py`, `references.py` (`generalist.py`) | rounds, call log, probe menu, token and time budget, notes | seed, ask, probe, conclude, report | model client (guarded), tools, verifier; runs on its own or as the operational policy |
| tools, claims, verification | `agent/tools.py`, `claims.py`, `evidence.py`, `benign_guard.py` | call log, tool budget | queries, `verify`, the benign guard | telemetry frames |
| model clients | `agent/llm.py`, `ollama_llm.py` | token log, request observer | complete, retry | HTTP |
| capabilities and crews | `capabilities/` | none | select specialists | environment model |
| correlation | `correlation/correlator.py`, `chain.py`, `instance_identity.py` | per call: pairs compared, links, the union-find | compare, link, join, raise cases | telemetry, triage's verdicts; called by `derive_footing` |
| benign triage | `triage/benign.py` (`feedback.py`) | none | assess a finding, `set_aside_ids` | environment model |
| hunting, behaviour, environment, ATT&CK, reporting, telemetry sources | their packages | none after construction | pure functions, I/O | - |
| experiment manifests, evaluation, CLI | `experiments/`, `evaluation/`, `cli.py` | files | sequential transformations, printing | - |

Behaviours that are hard, and the properties that make each part correct:

* **Store.** Callers read their clocks before they wait for the lock, so instants reach the
  tables out of order.  Correct means: attempts numbered without gaps, a job's status
  explained by its latest attempt, the lease held by the running attempt's worker, no more
  tries than allowed, ended attempts and terminal jobs never rewritten, takeover only after
  lapse, results and reports recorded together.
* **PostgreSQL store.** The same calls as transactions of several statements under READ
  COMMITTED, each of which may wait for a row, see what another has committed meanwhile, or
  lose its connection.  Correct means: every commit is one call of the in-memory store made at
  that instant, a claim passes over no older job that was free, and nobody waits in a circle.
* **Workers.** Two threads per worker, many workers, crashes, store faults whose calls may
  have committed.  Correct means: no late result, no result given up that could have been
  recorded, every job ends, draining leaves nothing.
* **Workflow.** Kills between any two file operations, sources and code that change, edits of
  sealed stages.  Correct means: nothing sealed is rewritten, *complete* rests on a chain of
  four intact stages, the report tells the sealed investigation, refusals have causes, and a
  batch that is resumed for long enough completes.
* **Row runner.** A pool whose threads are held up anywhere, refusals, Ctrl-C, kills.  Correct
  means: no row lost, repeated or rewritten, the record never runs ahead of the disk, done
  means all, and a row accounts for its own calls.
* **Single investigator.** A model that fails, cites what it never saw or asks for what is not
  on the menu, and four budgets that run out anywhere.  Correct means: probes follow the
  evidence, a result that calls itself complete had nothing go wrong, a verdict is earned, a
  clearance passes the benign guard, and the run ends.
* **Footing.** Identities missing from some rows, pids that are reissued, findings seen at the
  same instant, reassuring names that are impersonated.  Correct means: cases are exactly the
  connected groups, in whatever order pairs are met; a link that is not labelled as inferred
  is true of the processes; and neither step loses an alarm.
* **Orchestration.** Models that fail, decline or answer nonsense; specialists that raise;
  budgets that run out; two runtimes.  Correct means: specialists run when they have earned
  it, complete means covered, the model adds nothing that is not grounded in verified claims,
  bounding its prompt hides no tie it need not hide, budgets are overdrawn by a bounded amount
  only, the loop ends, and a degraded run says so.

The hazards behind these, each at its line, are listed in `PROJECT.json`.

## 2. Modules

| module | models | kind |
|---|---|---|
| `JobLifecycle` | the lifecycle diagram of `docs/persistence-and-background-execution.md` and `models.py`: status, tries, allowance, holder of each job | abstract specification |
| `JobStore` | the transition rules of `store.py` and the operations of `InMemoryStore` | component |
| `JobStoreProofs` | type correctness, the invariants and the action properties of `JobStore`, and the refinement | proofs |
| `JobWorkers` | `worker.py` over `JobStore` (EXTENDS it): both threads of each worker, submission, cancellation, crashes, restarts | composition |
| `PgStore` | `postgres.py` over the tables of `JobStore` (EXTENDS it): transactions, row locks, clocks | refinement, step by step, of `JobStore` |
| `Workflow` | `workflow.py` | component |
| `RowRunner` | the case loop, pool and client accounting of the experiment runner | component |
| `Investigation` | the planning loop under the orchestrator's own loop and under LangGraph | component |
| `Investigator` | the single investigator, as an arm and as the operational policy | component |
| `Correlation` | the correlator and the process identities it compares | component |
| `Triage` | the benign triage | operators |
| `Footing` | `derive_footing`: `Triage`, then `Correlation` (EXTENDS both) | composition |
| `JobWorkersProofs` | the invariants and the action property of `JobWorkers` | proofs |
| `PgStoreProofs` | the invariants of `PgStore`, and that each commit is one call of the store | proofs |
| `WorkflowProofs` | the invariants and action properties of `Workflow` | proofs |
| `RowRunnerProofs` | the same of `RowRunner` | proofs |
| `InvestigationProofs` | the same of `Investigation` | proofs |
| `InvestigatorProofs` | the invariants of `Investigator` | proofs |
| `FootingProofs` | the invariants of `Correlation` and `Footing` | proofs |
| `MC*` | instances for TLC | model checking |

### How state and actions correspond to the code

**JobStore.** `line` is the order of `list_jobs`; `job`, `attempts`, `revisions` are the
dictionaries of `InMemoryStore`.  Every method is one atomic action, because the store holds
its lock for the whole call, and takes the instant `t` its caller read, with no assumption
that successive calls carry increasing instants.  `claim_job` expires first and is one action
with that.  `store.py`'s pure functions (`claim_transition`, `finish_transition`,
`cancel_transition`, `lease_is_valid`) are operators.  The instance can therefore be reused by
any caller that supplies times.

**JobWorkers.** `pc[w]` walks `run` and `run_once` (loop, claim, execute, join, finish, idle);
`beat[w]` walks `_heartbeat` (waiting, calling).  A call to the store is one step, everything
between two calls is interruptible.  `age` and `beatAge` say how long ago a thread last moved,
so that a clock read before a held-up call may be that old.  Instants are relative to the
present, which `Tick` moves; thus the state space closes although time runs for ever.
`setting` fixes lease, `drain`, who may die, and whether threads are punctual, so that one run
checks several kinds of deployment.  A store fault in a heartbeat may or may not have
committed; a fault elsewhere ends the worker, and `finish_attempt` may have committed.

**PgStore.** `job`, `attempts`, `revisions` and `line` are the committed tables; `tx[s]` is the
transaction of session `s`: the statement it stands at, the rows it has still to lock, the
versions it will write.  `lock` are the row locks.  A statement that can wait for a row or see
another's commit is a step; the others are taken together with the next one.  `todo` are the
rows still to be read, as a set: `FirstInLine` is the one the query's order puts next.  `rows`
and `ends` are the versions written so far, by job and by attempt; `Put` adds one.
`SELECT ... FOR UPDATE SKIP LOCKED` locks row by row in the order of the query, passes over
rows others hold, and tests the WHERE clause again on the version it locked.  Results,
heartbeats and cancellations take the rows of an attempt and its job in the order of
`_locked_pair`.  `finish_attempt` reads its clock after it has its locks, a heartbeat before;
both are as in the code.  `Rollback` may strike any open transaction.  The key-share lock that the
foreign key of a new report revision takes on its attempt (`postgres.py:472`) is left out: every
transaction that locks an attempt holds the job of it first, and so does the one that inserts.  `alone` and `open` are
history: no other transaction ran meanwhile; jobs that were free since the claim looked.

**Workflow.** `sealed`, `partial`, `record`, `attempts` and `index` are the files; `pc` walks
`run_batch`/`run_case`.  A stage is known by its serial number, the inputs it was sealed for
and whether it is intact; hashes are taken to be injective.  `source` and `code` are version
numbers, moved by `changes`.  `Crash` may happen at every step; tampering between
invocations.

**RowRunner.** `row`, `record` and `events` are on disk; `main`, `bundle`, `raised` are the main
thread; `place[p]` is where thread `p` stands in `one()`; `future` are the pool's tasks; `sink`,
`tokenLog`, `measured` are what a client keeps per case.  Counting a row and telling the other
threads to stop are two steps (lines 227 and 238).  With one worker the same code runs in the
main thread.  The run record is written in place, so a kill may leave it unreadable.

**Investigation.** The variables are the fields of `InvestigationState` that the loop reads,
plus what is left of the budgets, below zero where the last call or specialist took more than
there was.  `claims` holds what each verified claim cites, in the order of its tool.  What the
synthesis prompt shows of that is computed as in `render_synthesis_claims` (`Shared`, `Before`,
`BoundedEvidence`, `Shown`); `tool_output_budget` counts ids instead of bytes, which is the same
for ids of one length.  `triggered`, `unobserved` and `mapped` are the answers of
the specialists' gates to the case.  A reply of the model is one of its kinds: a choice from
the menu, declined, off the menu, unparseable, failed; a synthesis reply is a sequence of
proposals of every type, each citing one of the sets of known and invented events that are
given as `ModelCites`, or a shape that raises.  Only the orchestrator's
own loop looks at the budgets, as in the code.  `ByPriority` is the first eligible entry of the
planner's fixed order followed by the roster, which is what its two loops amount to.

**Investigator.** `at` walks `investigate`: seed, round, ask, probe, conclude, report.  `calls`
is the call log of the tools, with what was refused; `rounds` the rounds of the loop with the
answer of each; `menu` the probes offered.  `llmErrors`, `tokens` and `late` are what
`operational.py` judges the run by: whether a call failed or was withheld, the tokens spent
(`None` once a reply did not report them), and whether the time is used up.  `TimePasses` may
happen between any two steps.  A tool's result is the events it hands over and those the model
is shown; the tool results of the instance are data, and everything that follows from them (candidates, menu, ancestry,
retrieved events) is computed as in the code.  The guards of the operational policy wrap the
same loop, so that one module has both.  Menus are sequences: `Pick` keeps the entries of one
at the positions the code's filter keeps, `Fresh` the first occurrences; `ProbeCalls` are the
calls after those of the seed.

**Correlation, Triage, Footing.** `ordered` are the findings as sorted, `at` the pair compared
next, `parent` the union-find (`Walk` is the loop of `find`, which halves the path), `links` and `cases` what is recorded.  A
key of a process carries the instance it is about; `Tag` is what the code sees of it, an
authority's name or a slot, and `MatchKeys` compares tags as `instance_identity.py` does.
`FanOut` and `SpawnSpan` count per tag.  `FootingInit` makes triage's answer the `setAside` the
correlator is given; the correlator is a separate module with any `setAside`.  The sorted order
leaves findings of the same instant in any order, so the run checks all of them.

## 3. Runs

| run | question | bounds | why they are enough |
|---|---|---|---|
| `store` | do all interleavings of store calls keep the tables, histories and the lifecycle? | 2 jobs, 2 workers, 2 instants, lease 1, 2 attempts, 1 extra revision; symmetric in jobs and workers | every rule compares one instant with one lease and one count with one allowance; two of each give before / at / after and first / last, and two jobs expose confusion between them. The proofs remove the bounds. |
| `pg` | is every commit of PostgreSQL a call of the store? can transactions deadlock? is a free older job passed over? | 2 sessions with a worker each, 2 jobs, 2 instants, lease 1, 2 attempts, 2 claims in all, results that retry; symmetric | two transactions are what a row lock is between, and a claim can meet a claim, a heartbeat, a result, a cancellation or an expiry of either job at every statement; two jobs let a claim skip one and take the other. Two claims in all suffice for a takeover. |
| `workers` | late results, results given up, kept leases, draining, does every job end? | 1 job, 2 workers, 2 attempts, ages up to 2, one faulty heartbeat in a row, leases 2 and 3 of heartbeat 1; three settings, in one of which a worker may die at any point and for good | two workers are the holder and the one who takes over; age 2 reaches the lease; the job can expire, be retaken and be retried once; one survivor is enough for progress |
| `jobs_run` | does `ath jobs run` leave retries behind? (**it does**) | 2 jobs, 1 worker, `max_jobs` 2 | - |
| `workflow_resume` | do resumes keep what is sealed, earn completeness, refuse with cause, and complete in the end? | batch of 2 cases or one of them, both engines, 1 change, 1 tamper, 2 kills, 1 block per case; and a batch of 2 with 3 kills left otherwise alone | one change and one tamper before or after each stage and invocation; the second kill hits a resume of a killed run, the third one more than an invocation restarts a stage |
| `workflow_source` | is a changed source always refused? (**no**) | 1 change, deterministic | - |
| `rows` | are rows lost, repeated, overrun, mis-recorded? does resuming complete? | corpora of 3 and 1 rows, 1 or 2 workers, stop after 1 or never, 1 call a case, 1 guard event, 1 mishap | 3 tasks on 2 threads make a thread meet its second task while the other is busy; the second corpus is entered after a stop or not |
| `rows_shared` | does a row account for its own calls with two workers? (**no**) | 1 corpus of 3 rows, 2 workers | - |
| `investigation` | gates, coverage, decisions, grounding, what a bounded prompt hides, budgets, end | specialists endpoint, network, attack; 3 events and an invented one; one claim a step, citing two events of which one may be shared; 3 settings; 2 proposals a reply with a cap of 1 | endpoint asks for network, network accepts it, attack must not be first: every gate kind is there; max_steps 2 is reached with work left, budgets of 2 are reached and overdrawn in every place; two claims share an event or not, and one id a line cuts the shared or the other |
| `investigation_degraded` | does a run that lost its model say so? (**not under LangGraph**) | as above | - |
| `investigator` | bounds, probes that follow evidence, what *complete* and a verdict rest on, end | a process, its parent and child and an event elsewhere, one fabricated id; 4 probes, 2 seed calls; seven settings: guarded, scarce, starved, no model, an arm with steps to spare, without, and with budgets of time and tokens; 2 probes a run | each budget is the first to run out in some setting; the tree probe opens a further one, the logons open a destination, so that a menu grows by what was seen; answers cite the seen, the unseen and the invented, ask for an offered probe, for one that is not, or for none |
| `footing` | are cases exactly the connected groups? are links true? is an alarm lost? | every hunt of 4 findings out of 11 kinds, and one with a shared id; 9 process instances on 3 devices, a reissued pid, two identity schemes, a desktop shell, a signed tool and an impersonated one, a popular destination | 4 findings make a chain, two pairs, or a triangle with a finding outside, so that joins happen through every shape of the union-find; each signal of the correlator and each gate of triage decides some pair or finding, a much contacted address and a document's process as parent among them |

Deadlock is checked wherever the system always has a next step; `CHECK_DEADLOCK FALSE` is given
only for the runs of an investigation, of the investigator and of the correlation, each of
which ends.

Several properties are one conjunction of named parts, each a statement of its own:
`CommittedTablesSound`, `WorkersSound` (`WorkersTypeOK`, `LostIsFinal`), `DirectoriesSound`
(`WorkflowTypeOK`, `StagesChained`, `IndexTrue`), `RunRecordTrue` (`RunnerTypeOK`,
`OvershootBounded`, `RecordedRowsExist`, `DoneMeansAll`), `SpecialistsAsCalledFor`
(`SpecialistsEarned`, `CompleteCoversCase`), `InvestigationSound` (`InvestigationTypeOK`,
`DecisionsCounted`).

Every property has a mutant in `PROJECT.json`: a definition of the model replaced by one with
a plausible slip (the definitions marked `Slip:`), under which the property fails.

### Fairness

* `FairWorkersSpec`: weak fairness of each live worker's loop and heartbeat thread (the
  operating system schedules threads; every call of the store returns) and of time.  A dead
  worker need not come back, nobody must submit or cancel, no heartbeat need be in time.
* `FairWorkflowSpec`, `FairRunnerSpec`: weak fairness of the steps of a running process only.
  That somebody resumes it again and again is a hypothesis of the property
  (`[]<><<Begin>>`), not of the specification; kills are bounded.
* `FairInvestigatorSpec`: weak fairness of the next step: a tool computes, a model call returns
  or times out.  That time passes is possible everywhere and required nowhere.
* `FairInvestigationSpec`: weak fairness of the next step: clients have timeouts, specialists
  only compute.

## 4. Findings

1. **`ath jobs run` strands jobs** (`cli.py:1620`, run `jobs_run`).  `max_jobs` counts attempts,
   so a retry uses up the turn of a job that was never tried.
2. **Content sealed under another fingerprint** (`workflow.py:427`, run `workflow_source`).  The
   source is fingerprinted per case and loaded once per invocation.
3. **Two cases on one client** (`experiments/runner.py:266`, run `rows_shared`).  The client is
   chosen by task index, the thread by who is free, against "every worker owns a client".
4. **A lost model goes unreported** (`agent/graph.py:161`, run `investigation_degraded`).  The
   LangGraph runtime does not set `llm_requested`.

Seen while modelling, and visible in the modules, without a run of their own:

* With `tool_output_budget` the model sees part of the ids of a claim but may cite all of them
  (`orchestrator.py:461`, `507-516`), although `synthesise` says that it "may only cite event ids
  that appear in what it was given" (`orchestrator.py:454-456`).  The experiments with a local
  model run that way (`evaluation/ablation/local.py:168`).  `CitesShownOrElided` states what does
  hold: nothing but events of verified claims is cited, and one that was not shown was cut from
  every line that had it, a tie between claims only in favour of other ties.
* Nothing looks at the budgets before synthesis: when the last step allowed spends one, the loop
  ends by its step limit (`orchestrator.py:577`, `596-604`) and the model is called once more.
  Likewise a specialist still runs when the call that chose it took the rest.  The configuration
  calls the budget the total tokens that may be spent; `OverrunBounded` says by how much it is
  overdrawn at most.
* The LangGraph runtime never looks at the time and token budgets, which the configuration
  calls "enforced at every step"; and as `_budget_started` stays 0.0 there, a time budget
  makes the timeout of each of its model calls one second or close to arbitrary.
* A step-limit stop is logged "with eligible work remaining" whether or not there is any.
* A specialist that raised counts as run, so `complete` does not mean that every specialist
  drew conclusions.  `CompleteCoversCase` says what holds: each of them ran.
* `synthesise` catches only `ValueError`; `"claims": null`, or claims that are not records,
  raise out of the investigation (`SynthesisRaises`).
* A worker process ends on a store fault outside the heartbeat (`EveryJobEnds` therefore needs
  another worker).
* Exceptions other than interruptions leave a run record at `running` (`runner.py:360`).
* A launcher whose children name it by different keys (some rows carry its identity, some only
  its pid) is counted once per key, so that each key may look like a short burst although the
  launcher is not (`correlator.py:508`, `528`).  The docstring there says that the fallback errs
  towards refusing; with mixed telemetry it errs the other way.  `LinksAreTrue` holds for
  launchers whose children all name them by one authority, and says so.
* A heartbeat on PostgreSQL reads its clock before it waits for the row, a result after.  Its
  commit still is a call of the in-memory store at the instant it read, which that store's
  callers may make late as well; the extension is then short by the wait.

## 5. Proofs

Checked by TLAPS for every value of the constants that satisfies the `ASSUME` of the module;
no theorem has a bound of its own.  Those assumptions say what the code ensures and no more:
`StoreAssumption` (instants are integers, leases and allowances positive), `WorkersAssumption`
(a heartbeat interval is shorter than the lease, as `worker.py` demands; a thread reads its
clock no further back than the model's bound on ages), `PgAssumption` (a session speaks for one
worker), `WorkflowAssumption` and `RunnerAssumption` (a batch names a case once, a row is in
one bundle), `InvestigationAssumption` (a roster names a specialist once),
`InvestigatorAssumption` (the policy allows a step per probe and two more),
`CorrelationAssumption` (telemetry and hunts are finite and well formed), and everywhere that
`None` is none of the values it stands beside.  Three theorems have a hypothesis of their own,
named below: `RoomForFaults`, a `MinCaseSize` of 2 at most, and `Attentive`.

**The store** (`JobStoreProofs`)

| theorem | says |
|---|---|
| `TypeCorrect` | `Spec => []TypeOK` |
| `NumberingCorrect` | `Spec => []AttemptsNumbered` |
| `StatusCorrect` | `Spec => []StatusEarned` |
| `AllowanceCorrect` | `Spec => []AllowanceRespected` |
| `HistoryCorrect` | `Spec => HistoryIsFinal` |
| `TakeoverCorrect` | `Spec => TakeoverOnlyAfterLapse` |
| `LifecycleCorrect` | `Spec => ImplementsLifecycle`: the store refines `JobLifecycle` |
| `ReportsCorrect` | `Spec => []ReportsMatchAttempts` |

The inductive invariant `Inv` is the conjunction of typing, numbering, the explanation of each
status by the latest attempt together with the ownership of the lease, and the allowance.  None
of the last three is inductive alone: that a claim numbers the next attempt correctly needs the
numbering; that `finish_attempt` closes *the* running attempt needs that a job has at most one
unfinished attempt and that it is the latest (`OneUnfinishedAttempt`, `UnfinishedIsLatest`),
which in turn needs status and numbering together; the allowance needs that only a counted
attempt returns a job to the queue.  Since a call may expire several jobs and then claim one,
the proof is about pairs of tables: `EndingKeepsTables` (finish, cancel and expiry all end
attempts of some jobs) and `ClaimKeepsTables` each preserve the invariant of a pair, and
operations compose them.  `JobEdges` and `AttemptEdges` say along which edges one step moves
each row; the action properties and the refinement follow from them row by row.

**The workers** (`JobWorkersProofs`)

| theorem | says |
|---|---|
| `NoLateResultHolds` | `WorkersSpec => NoLateResult` |
| `WorkersSoundHolds` | `WorkersSpec => []WorkersSound` |
| `TimelyKeepsLeaseHolds` | `RoomForFaults` implies `WorkersSpec => []TimelyKeepsLease` |
| `DrainedMeansFinishedHolds` | `WorkersSpec => []DrainedMeansFinished` |

Every step of a worker is a call of the store or leaves it alone, and `Tick` only moves the
ends of leases towards the present, so that `Inv` carries over whole (`MovedLeasesKeepTables`);
`WInv` adds what a worker's place says of its other variables.  `LostIsFinal` rests on
`RefusedStays`: a lease the store has once refused it never honours again.  Keeping the lease is
an argument about time: `KeepsLease` bounds what is left of the lease from below by the ages of
both threads and the heartbeats missed in a row.  It is proved under `RoomForFaults`, that the
lease is longer than the interval times the faults in a row plus one; without that room the
statement is false, and the settings of the run have it.  The last theorem needs `DrainSound`:
each unfinished attempt is with its worker, or that worker will find it lapsed before it can
return (`AnsweredFor`), and while a job of the backlog is queued somebody has not returned.

**The PostgreSQL store** (`PgStoreProofs`)

| theorem | says |
|---|---|
| `CommittedTablesHold` | `PgSpec => []CommittedTablesSound` |
| `CommitsAreStoreCallsHolds` | `PgSpec => CommitsAreStoreCalls` |
| `ClaimTakesOldestHolds` | `PgSpec => []ClaimTakesOldestOpen` |
| `NobodyWaitsHolds` | `PgSpec => []NobodyWaitsInCircle` |

`PgInv` says, kind of transaction by kind (`ScanSound`, `PairSound`, `CancelSound`,
`ReviseSound`), what a transaction has computed so far in terms of the *committed* tables: the
rows it will write are the store's transition of the rows that are there, whoever committed in
between.  That this is inductive is what the locks are for: a transaction holds every row it has
computed from, so another's commit leaves those rows as they are (`KeptCall`).  A commit then is
one call of the in-memory store (`CommitIsStoreCall`), and keeps `Inv` by the lemmas about that
store.  An expiry that ran beside others may have left out rows they had locked; it ends some of
the lapsed attempts, each as the store would, which is why `CommitsAreStoreCalls` asks for all of
them only of a transaction that was alone (`AloneSound`).  Nobody waits in a circle because an
attempt's row is locked by nobody but the transaction that has locked its job's: the only row a
transaction insists on while it holds others is the attempt of a job it holds, and that row is
free (`WantedIsFree`).

**The workflow** (`WorkflowProofs`)

| theorem | says |
|---|---|
| `DirectoriesHold` | `WorkflowSpec => []DirectoriesSound` |
| `ReportsHold` | `WorkflowSpec => []ReportTellsInvestigation` |
| `SealedStagesStay` | `WorkflowSpec => SealedIsFinal` |
| `CompleteEarned` | `WorkflowSpec => CompleteIsEarned` |
| `RefusedForCause` | `WorkflowSpec => RefusedOnlyWhenChanged` |

`WorkflowInv` has two halves.  Of the directories nobody altered it says that they are chained,
that the finding of a deterministic run can be found again, and that report and `run.json` tell
the truth (`Untouched`); this holds at every moment, hence after every kill.  Of the running
invocation it says which stages are in place, intact and for its own inputs (`Good`) when it has
reached a place, whatever was done to the directory before (`PlaceSound`).  The first is not
inductive without the second: sealing a stage keeps a directory chained only because the stages
before it are good and none after it is there (`NothingAfter`).

**The row runner** (`RowRunnerProofs`)

| theorem | says |
|---|---|
| `RunRecordHolds` | `RunnerSpec => []RunRecordTrue` |
| `RowsStay` | `RunnerSpec => RowsAreFinal` |
| `AloneAccounts` | `RunnerSpec => AloneAccountsRight` |

`RowInv` ties the counters to the disk: as long as no stop was announced, `ran + skipped` is the
number of the rows `Counted`, each of which is on disk, so that *done* means all.  The overshoot
is bounded by the threads that are `Spent`: once the limit is reached, a thread that has counted
a row starts no other, and `ran` exceeds the limit by no more than there are such threads.  The
accounts of a row are true with one worker because the client then serves one case after the
other (`AloneInv`); the run `rows_shared` shows that they are not with two.

**The investigations** (`InvestigationProofs`, `InvestigatorProofs`)

| theorem | says |
|---|---|
| `InvestigationInvHolds` | `InvestigationSpec => []IInv` |
| `InvestigationAddsUp` | `InvestigationSpec => []InvestigationSound` |
| `RunsAsCalledFor` | `InvestigationSpec => []SpecialistsAsCalledFor` |
| `CitationsShownOrElided` | `InvestigationSpec => []CitesShownOrElided` |
| `OverrunHolds` | `InvestigationSpec => []OverrunBounded` |
| `InvestigatorInvHolds` | `InvestigatorSpec => []IInv` |
| `InvestigatorKeepsBounds` | `InvestigatorSpec => []InvestigatorSound` |
| `ProbesFromEvidence` | `InvestigatorSpec => []ProbesFollowEvidence` |
| `CompleteRunsUndisturbed` | `InvestigatorSpec => []CompleteIsUndisturbed` |
| `VerdictsAreEarned` | `InvestigatorSpec => []VerdictEarned` |

Orchestrated: from the decision for a specialist until its step nothing changes that its gate
asks for, so what runs was still called for (`ChoiceSound`), and the status tells what was left
to run when the loop was left (`StatusSound`).  That nothing eligible was left is used through
`PriorityEligible`: the planner's order finds an eligible specialist whenever there is one.

What is left of a budget depends on where the loop stands (`BudgetSound`): after the check it is
above zero, and each call and specialist since then takes at most its share.  `OverrunBounded` is
not inductive, since it does not speak of the places in between.  `CitesShownOrElided` has to be
argued for every claim that ever cited the event.  A line shows the ids with fewer than the bound
before them in the order `Before`, so that an id that was cut has at least as many before it, all
shown ones among them (`CutFromFullLines`), and whatever stands before a tie is a tie.

Single: the place in the loop counts the probes, answers and steps (`LoopSound`); what a menu
offers was known and has not run, and what ran was named on the menu of its round
(`EvidenceSound`); and each disturbance leaves a trace that is still there when the result is
judged (`AnswersSound`, `ResultSound`).  The hard case is a run that ends in good order *after*
a disturbance: an answer that was not usable in an early round, a tool call refused, tokens not
reported.  `Undisturbed` lists the traces, and no later step removes one.

**The footing** (`FootingProofs`)

| theorem | says |
|---|---|
| `CorrelationInvHolds` | `CorrelationSpec => []CorrelationInv` |
| `CasesAreWholeComponents` | `MinCaseSize <= 2` implies `CorrelationSpec => []CasesAreComponents` |
| `LinksHoldOfProcesses` | `CorrelationSpec => []LinksAreTrue` |
| `FootingInvHolds` | `FootingSpec => []FootingInv` |
| `NoAlarmIsLost` | `Attentive` implies `FootingSpec => []AlarmsAreInvestigated` |

`Walk` is a recursive function, so it has to be shown to compute something at all.  `Ends` are
the places where the walks from an item end; on a forest there is exactly one, and `WalkUnfolds`
concludes that the definition may be unfolded.  A forest has a rank that falls towards the root
(`Graded`); halving a path keeps the rank and the roots, and since the rank falls, `WalkFinds`:
the walk comes to the root of its item, for every forest.  `UnionJoins`: a union joins two
classes and disturbs no other, under another rank that it has to be given.  `CorrelationInv` then
says of the comparisons done so far that links are exactly what the evidence warrants
(`LinksSound`) and that each class is held together by links (`GroupsSound`); the step that
joins two classes uses that a link connects them (`OneGroup`).  That two findings are linked
whichever comes first is `WarrantedBothWays`: every relation between them is symmetric.  A case
is raised for each group once, and in order, because a group has one first position
(`OneOpening`) and positions are counted in order (`NthCounts`).

`LinksAreTrue` needs no induction beyond that: a label *observed* means that two keys of one
authority named one instance (`IdentityMeans`), and for an instance whose rows all come from one
authority, counting tags counts instances (`BurstIsSeen`).  `NoAlarmIsLost` adds that what triage
set aside is not changed by the correlator, and that a veto or a disqualification excludes a
benign disposition whatever the score.

Trying to prove something told three things about the statements.  `CompleteCoversCase` used to
ask that every follow-up a specialist may request has run; that is false for a roster without the
requested specialist, which no instance of the runs has.  It now speaks of the specialists of the
roster, as the planner does.  `TimelyKeepsLease` needs `RoomForFaults`, which the settings
had silently satisfied.  And the rule that a severe finding is investigated even when it is too
small a case (`correlator.py:1094`) asks for a finding *alone*: with `min_case_size` above 2, two
severe findings that are linked to each other are dropped, although either would have been raised
without the other.  The default is 2 and only a test sets another
(`tests/test_instance_join_correlation.py:348`), so this limits the configuration and not the
program as shipped; it is the hypothesis of `CasesAreWholeComponents`.  `Attentive` is the like for the alarms: smallest case 2, `HIGH` enough
for a finding alone, and `MEDIUM` the most that triage may call benign, or anything that lets
more through.

The library's induction theorems take an operator as an argument, which the provers here cannot
instantiate.  Where a least element or a counting argument was needed (`Least`, `Greatest`,
`Nth`, `WalkFinds`) it comes from the well-foundedness of finite sets under inclusion, a fact without such
an argument.

**Only model-checked:**

* Liveness: `EveryJobEnds`, `CrashedRunsComplete`, `ResumedRunsComplete`, `InvestigationEnds`,
  `InvestigatorEnds`.  Liveness under fairness and ENABLED are out of the prover's reach.
* That the claims of the violation runs fail, which is a matter of one counterexample each.

## 6. Not modelled, and why

* Registration of telemetry batches and incidents in either store: idempotent insertion of
  read-only rows.  The schema's migration and the queries that change nothing, likewise.
* Two invocations on one run directory, two runners on one output directory: the code locks
  neither; the models have one process at a time.
* Of the single investigator: the extensions of the policies v2 to v6 (typed assertions,
  observation references, the repair request, control-plane probes, `finalise_evidence`) and
  `generalist.py`.  The facts that tools author cite what they read and are always accepted.
* Of triage and correlation: `feedback.py` (verdicts analysts filed), `require_structural=False`
  (a switch for demonstrations), the statistics and the rendering.  How the environment model
  derives profiles, channels and coverage from telemetry: a pure function of data frames; the
  profiles are constants of `Triage`.
* Hunting rules, features, ATT&CK tables, rendering, parsing, evaluation and manifests:
  stateless or sequential, better served by the unit tests they have.
* `scripts/`: one-off preparation of datasets and audits of experiments that are finished,
  sequential from input files to output files.  With the item above they are most of the
  repository's lines, which is why the map covers few of them.
* HTTP retries of the model clients: their callers see one call that answers or errs.

## 7. Plan

Done, in this order, the most important first: `JobStore` and its abstract specification,
its proofs, `JobWorkers`, `Workflow`, `RowRunner`, `Investigation`, `PgStore`, `Investigator`,
`Correlation`, `Triage` and their composition `Footing`.

Also done: the proofs of every component (section 5).

Next, in order:

1. `JobLifecycle` as what the PostgreSQL store implements: by `CommitsAreStoreCalls` each commit
   already is a step of the store, so that its edges carry over.
2. Concurrent invocations of the workflow on one directory, stating what survives.


## 8. Running

    tlc -workers 2 -config MCWorkers.cfg MCJobWorkers
    tlc -workers 2 -config MCPgStore.cfg MCPgStore
    tlc -workers 2 -config MCFooting.cfg MCFooting
    tlapm JobStoreProofs.tla
    tlapm JobWorkersProofs.tla
    tlapm PgStoreProofs.tla
    tlapm WorkflowProofs.tla
    tlapm RowRunnerProofs.tla
    tlapm InvestigationProofs.tla
    tlapm InvestigatorProofs.tla
    tlapm FootingProofs.tla

The proofs of one module take between one minute and a quarter of an hour from nothing.
