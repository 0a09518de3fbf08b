----------------------------- MODULE RowRunner -----------------------------
(***************************************************************************)
(* The resumable case loop of ath.experiments.runner: an invocation walks  *)
(* the corpora (bundles), fans the cases of each out over a thread pool,   *)
(* and writes one row file per case and repeat.  A rerun skips the rows it *)
(* finds.  A case talks to the model through a client whose token log and  *)
(* request observer are per case.                                          *)
(*                                                                         *)
(* With one worker there is no pool: the same code runs in the main        *)
(* thread, and the first exception leaves the loop.  Scores, headers, the  *)
(* degraded count and the log lines are left out; an accounting entry is   *)
(* known by the row whose case made the call, and a row file by whether    *)
(* what it accounts for are the calls of its own case.                     *)
(***************************************************************************)
EXTENDS Integers, Sequences, FiniteSets, SequencesExt

CONSTANTS
  Bundles,      \* the rows asked for: the tasks of each corpus, in order
  PoolSizes,    \* what invocations are given for run_rows(workers=...),
  StopAfters,   \* run_rows(stop_after=...)
  Overrides,    \* and run_rows(ignore_ram_floor=...)
  MaxCalls,     \* bound: model calls of one case
  MaxEvents,    \* bound: RAM-guard refusals
  MaxMishaps,   \* bound: kills, Ctrl-C's and exceptions together
  None

Rows == UNION {ToSet(Bundles[b]) : b \in DOMAIN Bundles}

\* What a row file accounts for: the calls of its own case, or not only those.
Account == {"its own", "mixed up"}

\* What can end the loop over a bundle, besides the controlled interruption.
Trouble == {"refused", "error", "interrupt"}

\* What RUN_<run_id>.json holds.
RunRecord ==
  [status : {"running", "done", "refused", "interrupted"}, written : SUBSET Rows,
   counts : [ran : Nat, skipped : Nat] \cup {None}]

ASSUME RunnerAssumption ==
  /\ Bundles \in Seq(Seq(Rows)) /\ Len(Bundles) > 0
  /\ \A b \in DOMAIN Bundles :
       /\ Len(Bundles[b]) > 0
       /\ \A i, k \in DOMAIN Bundles[b] : Bundles[b][i] = Bundles[b][k] => i = k
       /\ \A c \in DOMAIN Bundles :
            b # c => ToSet(Bundles[b]) \cap ToSet(Bundles[c]) = {}
  /\ PoolSizes \subseteq Nat \ {0} /\ PoolSizes # {}
  /\ StopAfters \subseteq (Nat \ {0}) \cup {None}
  /\ Overrides \subseteq BOOLEAN
  /\ {MaxCalls, MaxEvents, MaxMishaps} \subseteq Nat
  /\ None \notin Rows \cup Nat \cup Account \cup Trouble
  /\ None \notin RunRecord

VARIABLES
  \* on disk
  row,          \* the row files
  record,       \* RUN_<run_id>.json of the latest invocation; None: unreadable
  events,       \* the lines of GUARD_EVENTS.jsonl
  mishaps,
  \* the arguments of the invocation
  workers, stopAfter, override,
  \* the main thread
  main, bundle, raised, interrupted,
  \* what the threads share
  future,       \* the state of each task of the bundle
  stop, ran, skipped,
  \* the pool's threads
  place, task, made, draft,
  \* the clients and the measurement lists their observers append to
  sink, tokenLog, measured

diskVars == <<row, record, events>>
argVars == <<workers, stopAfter, override>>
mainVars == <<argVars, main, bundle, raised, interrupted>>
sharedVars == <<stop, ran, skipped>>
threadVars == <<place, task, made, draft>>
clientVars == <<sink, tokenLog, measured>>
runnerVars == <<diskVars, mishaps, mainVars, future, sharedVars, threadVars, clientVars>>

Threads == UNION {1 .. n : n \in PoolSizes}
Clients == {p - 1 : p \in Threads}
Tasks == DOMAIN Bundles[bundle]

Row(p) == Bundles[bundle][task[p]]

\* `index % workers', fixed when the task is submitted.
Client(p) == (task[p] - 1) % workers

\* What a RunRecord says while its run is on.
Running == [status |-> "running", written |-> {}, counts |-> None]

-----------------------------------------------------------------------------
RunnerInit ==
  /\ row = [r \in Rows |-> None]
  /\ record = None
  /\ events = 0
  /\ mishaps = 0
  /\ main = "off"
  /\ workers = 1 /\ stopAfter = None /\ override = FALSE
  /\ bundle = 1 /\ raised = None /\ interrupted = FALSE
  /\ future = [i \in DOMAIN Bundles[1] |-> "pending"]
  /\ stop = FALSE /\ ran = 0 /\ skipped = 0
  /\ place = [p \in Threads |-> "idle"]
  /\ task = [p \in Threads |-> 0]
  /\ made = [p \in Threads |-> 0]
  /\ draft = [p \in Threads |-> None]
  /\ sink = [c \in Clients |-> None]
  /\ tokenLog = [c \in Clients |-> <<>>]
  /\ measured = [r \in Rows |-> <<>>]

\* The process is gone, and with it everything that was not on disk.
Exit ==
  /\ main' = "off"
  /\ workers' = 1 /\ stopAfter' = None /\ override' = FALSE
  /\ bundle' = 1 /\ raised' = None /\ interrupted' = FALSE
  /\ future' = [i \in DOMAIN Bundles[1] |-> "pending"]
  /\ stop' = FALSE /\ ran' = 0 /\ skipped' = 0
  /\ place' = [p \in Threads |-> "idle"]
  /\ task' = [p \in Threads |-> 0]
  /\ made' = [p \in Threads |-> 0]
  /\ draft' = [p \in Threads |-> None]
  /\ sink' = [c \in Clients |-> None]
  /\ tokenLog' = [c \in Clients |-> <<>>]
  /\ measured' = [r \in Rows |-> <<>>]

Finish(status, counts) ==
  record' = [record EXCEPT !.status = status, !.counts = counts]

Begin ==
  /\ main = "off"
  /\ main' = "bundle"
  /\ record' = Running
  /\ workers' \in PoolSizes
  /\ stopAfter' \in StopAfters
  /\ override' \in Overrides
  /\ UNCHANGED <<row, events, mishaps, bundle, raised, interrupted, future,
                 sharedVars, threadVars, clientVars>>

\* The guard finds too little memory: an event, and a refusal unless overridden.
LowRam == events < MaxEvents /\ events' = events + 1

Pending == {i \in Tasks : row[Bundles[bundle][i]] = None}

\* One guard before the pool starts, if it has anything to do.
OpenBundle ==
  /\ main = "bundle"
  /\ \/ UNCHANGED events
     \/ workers > 1 /\ Pending # {} /\ override /\ LowRam
  /\ main' = "collect"
  /\ UNCHANGED <<row, record, mishaps, argVars, bundle, raised, interrupted, future,
                 sharedVars, threadVars, clientVars>>

PoolRefused ==
  /\ main = "bundle"
  /\ workers > 1 /\ Pending # {} /\ ~override /\ LowRam
  /\ Finish("refused", None)
  /\ Exit
  /\ UNCHANGED <<row, mishaps>>

-----------------------------------------------------------------------------
(* One task, in a thread of the pool. *)

At(p, here) == place[p] = here

GoTo(p, there) == place' = [place EXCEPT ![p] = there]

\* The function `one' returns or raises.
Yield(p, result) ==
  /\ GoTo(p, "idle")
  /\ future' = [future EXCEPT ![task[p]] = result]
  /\ task' = [task EXCEPT ![p] = 0]
  /\ made' = [made EXCEPT ![p] = 0]
  /\ draft' = [draft EXCEPT ![p] = None]

Reached(n) == IF stopAfter = None THEN FALSE ELSE n >= stopAfter

\* Without a pool an exception leaves the loop over the tasks.
LoopLeft ==
  workers = 1 /\ (raised # None \/ interrupted
                  \/ \E i \in Tasks : future[i] \in {"interrupted", "refused", "error"})

\* A free thread takes the oldest task that is still waiting.
Take(p) ==
  /\ main \in {"collect", "shutdown"}
  /\ p <= workers
  /\ At(p, "idle")
  /\ ~LoopLeft
  /\ \E i \in Tasks :
       /\ future[i] = "pending"
       /\ \A k \in Tasks : future[k] = "pending" => i <= k
       /\ task' = [task EXCEPT ![p] = i]
       /\ future' = [future EXCEPT ![i] = "running"]
  /\ GoTo(p, "begin")
  /\ UNCHANGED <<diskVars, mishaps, mainVars, sharedVars, made, draft, clientVars>>

PassBy(p) ==
  /\ At(p, "begin")
  /\ stop
  /\ Yield(p, "ok")
  /\ UNCHANGED <<diskVars, mishaps, mainVars, sharedVars, clientVars>>

\* Slip: a complete row is run again.
StartAnyway(p) ==
  /\ At(p, "begin")
  /\ ~stop
  /\ GoTo(p, "guard")
  /\ UNCHANGED <<diskVars, mishaps, mainVars, future, sharedVars, task, made, draft,
                 clientVars>>

Start(p) ==
  /\ At(p, "begin")
  /\ ~stop
  /\ row[Row(p)] = None
  /\ GoTo(p, "guard")
  /\ UNCHANGED <<diskVars, mishaps, mainVars, future, sharedVars, task, made, draft,
                 clientVars>>

\* Slip: the rows that were skipped count towards stop_after.
SkipCounts(p) ==
  /\ At(p, "begin")
  /\ ~stop
  /\ row[Row(p)] # None
  /\ skipped' = skipped + 1
  /\ IF Reached(ran + skipped + 1)
     THEN GoTo(p, "reached") /\ UNCHANGED <<future, task, made, draft>>
     ELSE Yield(p, "ok")
  /\ UNCHANGED <<diskVars, mishaps, mainVars, stop, ran, clientVars>>

Skip(p) ==
  /\ At(p, "begin")
  /\ ~stop
  /\ row[Row(p)] # None
  /\ skipped' = skipped + 1
  /\ Yield(p, "ok")
  /\ UNCHANGED <<diskVars, mishaps, mainVars, stop, ran, clientVars>>

Guard(p) ==
  /\ At(p, "guard")
  /\ UNCHANGED events \/ (override /\ LowRam)
  /\ GoTo(p, "attach")
  /\ UNCHANGED <<row, record, mishaps, mainVars, future, sharedVars, task, made, draft,
                 clientVars>>

GuardRefuses(p) ==
  /\ At(p, "guard")
  /\ ~override
  /\ LowRam
  /\ Yield(p, "refused")
  /\ UNCHANGED <<row, record, mishaps, mainVars, sharedVars, clientVars>>

\* Slip: the token log is not started anew.
AttachOnly(p) ==
  /\ At(p, "attach")
  /\ sink' = [sink EXCEPT ![Client(p)] = Row(p)]
  /\ measured' = [measured EXCEPT ![Row(p)] = <<>>]
  /\ GoTo(p, "investigate")
  /\ UNCHANGED <<diskVars, mishaps, mainVars, future, sharedVars, task, made, draft,
                 tokenLog>>

\* The observer points at this case's list, the token log starts anew.
Attach(p) ==
  /\ At(p, "attach")
  /\ sink' = [sink EXCEPT ![Client(p)] = Row(p)]
  /\ tokenLog' = [tokenLog EXCEPT ![Client(p)] = <<>>]
  /\ measured' = [measured EXCEPT ![Row(p)] = <<>>]
  /\ GoTo(p, "investigate")
  /\ UNCHANGED <<diskVars, mishaps, mainVars, future, sharedVars, task, made, draft>>

\* complete(): the observer is told before the call is sent ...
Send(p) ==
  /\ At(p, "investigate")
  /\ made[p] < MaxCalls
  /\ measured' = LET r == sink[Client(p)]
                 IN  IF r = None THEN measured
                     ELSE [measured EXCEPT ![r] = Append(@, Row(p))]
  /\ GoTo(p, "waiting")
  /\ UNCHANGED <<diskVars, mishaps, mainVars, future, sharedVars, task, made, draft,
                 sink, tokenLog>>

\* ... and the usage is logged when the answer is there.
Answer(p) ==
  /\ At(p, "waiting")
  /\ tokenLog' = [tokenLog EXCEPT ![Client(p)] = Append(@, Row(p))]
  /\ made' = [made EXCEPT ![p] = @ + 1]
  /\ GoTo(p, "investigate")
  /\ UNCHANGED <<diskVars, mishaps, mainVars, future, sharedVars, task, draft,
                 sink, measured>>

\* The investigation is over: its tokens are read off the client's log, its
\* requests off the list its observer filled.
EndCase(p) ==
  /\ At(p, "investigate")
  /\ sink' = [sink EXCEPT ![Client(p)] = None]
  /\ draft' = [draft EXCEPT ![p] =
                 [tokens |-> tokenLog[Client(p)], requests |-> measured[Row(p)]]]
  /\ measured' = [measured EXCEPT ![Row(p)] = <<>>]
  /\ GoTo(p, "write")
  /\ UNCHANGED <<diskVars, mishaps, mainVars, future, sharedVars, task, made, tokenLog>>

\* Slip: the row is counted and recorded before it is written.
WriteRowLate(p) ==
  /\ At(p, "write")
  /\ ran' = ran + 1
  /\ record' = [record EXCEPT !.written = @ \cup {Row(p)}]
  /\ GoTo(p, "count")
  /\ UNCHANGED <<row, events, mishaps, mainVars, future, stop, skipped, task, made,
                 draft, clientVars>>

Own(p) == [i \in 1 .. made[p] |-> Row(p)]

\* write_row: the file appears whole, with the token log as it is by now.
WriteRow(p) ==
  /\ At(p, "write")
  /\ row' = [row EXCEPT ![Row(p)] =
               IF /\ draft[p] = [tokens |-> Own(p), requests |-> Own(p)]
                  /\ tokenLog[Client(p)] = Own(p)
               THEN "its own" ELSE "mixed up"]
  /\ GoTo(p, "count")
  /\ UNCHANGED <<record, events, mishaps, mainVars, future, sharedVars, task, made,
                 draft, clientVars>>

\* Counted and recorded under the lock.
Count(p) ==
  /\ At(p, "count")
  /\ ran' = ran + 1
  /\ record' = [record EXCEPT !.written = @ \cup {Row(p)}]
  /\ IF Reached(ran + 1)
     THEN GoTo(p, "reached") /\ UNCHANGED <<future, task, made, draft>>
     ELSE Yield(p, "ok")
  /\ UNCHANGED <<row, events, mishaps, mainVars, stop, skipped, clientVars>>

\* The lock is released; only now is the stop event set.
StopAll(p) ==
  /\ At(p, "reached")
  /\ stop' = TRUE
  /\ Yield(p, "interrupted")
  /\ UNCHANGED <<diskVars, mishaps, mainVars, ran, skipped, clientVars>>

\* An exception of the case or of write_row; the observer is detached.
Fail(p) ==
  /\ place[p] \in {"attach", "investigate", "write"}
  /\ mishaps < MaxMishaps
  /\ mishaps' = mishaps + 1
  /\ sink' = IF At(p, "investigate") THEN [sink EXCEPT ![Client(p)] = None] ELSE sink
  /\ measured' = [measured EXCEPT ![Row(p)] = <<>>]
  /\ Yield(p, "error")
  /\ UNCHANGED <<diskVars, mainVars, sharedVars, tokenLog>>

-----------------------------------------------------------------------------
(* The main thread. *)

Ready == {i \in Tasks : future[i] \in {"ok", "interrupted", "refused", "error"}}

\* as_completed hands over a finished task; a refusal stops the pool.
Collect(i) ==
  /\ main = "collect"
  /\ i \in Ready
  /\ future' = [future EXCEPT ![i] = "collected"]
  /\ interrupted' = (interrupted \/ future[i] = "interrupted")
  /\ IF future[i] \in {"refused", "error"}
     THEN /\ stop' = TRUE
          /\ raised' = IF raised = None THEN future[i] ELSE raised
     ELSE UNCHANGED <<stop, raised>>
  /\ UNCHANGED <<diskVars, mishaps, argVars, main, bundle, ran, skipped, threadVars,
                 clientVars>>

\* The pool is empty, or the loop was left.
Collected ==
  /\ main = "collect"
  /\ \A i \in Tasks : future[i] = "collected" \/ (LoopLeft /\ future[i] = "pending")

CloseBundle ==
  /\ Collected
  /\ raised = None /\ ~interrupted
  /\ IF bundle < Len(Bundles)
     THEN /\ bundle' = bundle + 1
          /\ future' = [i \in DOMAIN Bundles[bundle'] |-> "pending"]
          /\ main' = "bundle"
     ELSE main' = "end" /\ UNCHANGED <<bundle, future>>
  /\ UNCHANGED <<diskVars, mishaps, argVars, raised, interrupted, sharedVars, threadVars,
                 clientVars>>

Done ==
  /\ main = "end"
  /\ Finish("done", [ran |-> ran, skipped |-> skipped])
  /\ Exit
  /\ UNCHANGED <<row, events, mishaps>>

\* A refusal goes before an interruption.  run() catches SystemExit and the
\* controlled interruption; any other exception ends the process with its
\* record as it is.
Raise ==
  /\ Collected
  /\ raised # None \/ interrupted
  /\ CASE raised = "error"   -> UNCHANGED record
       [] raised = "refused" -> Finish("refused", None)
       [] OTHER              -> Finish("interrupted", None)
  /\ Exit
  /\ UNCHANGED <<row, events, mishaps>>

\* Ctrl-C reaches the main thread.  Before there is a pool, or without one,
\* that is the one that works.  With a pool it is waiting for a task, and
\* leaving the `with' block waits for every task there is; only if it is just
\* being handed a finished one does the interrupt stop the pool.
CtrlC ==
  /\ main \in {"bundle", "collect"}
  /\ mishaps < MaxMishaps
  /\ mishaps' = mishaps + 1
  /\ \/ /\ workers = 1 \/ main = "bundle"
        /\ Finish("interrupted", None)
        /\ Exit
     \/ /\ workers > 1 /\ main = "collect"
        /\ main' = "shutdown"
        /\ UNCHANGED <<record, argVars, bundle, raised, interrupted, future, sharedVars,
                       threadVars, clientVars>>
     \/ /\ workers > 1 /\ main = "collect"
        /\ \E i \in Ready : future' = [future EXCEPT ![i] = "collected"]
        /\ stop' = TRUE
        /\ raised' = IF raised = None THEN "interrupt" ELSE raised
        /\ UNCHANGED <<record, argVars, main, bundle, interrupted, ran, skipped,
                       threadVars, clientVars>>
  /\ UNCHANGED <<row, events>>

ShutDown ==
  /\ main = "shutdown"
  /\ \A i \in Tasks : future[i] \notin {"pending", "running"}
  /\ Finish("interrupted", None)
  /\ Exit
  /\ UNCHANGED <<row, events, mishaps>>

\* A row file is replaced as a whole, the run record is written over in
\* place: killed while at it, the process leaves one that cannot be read.
Recording == Collected \/ main = "end" \/ \E p \in Threads : At(p, "count")

Kill ==
  /\ main # "off"
  /\ mishaps < MaxMishaps
  /\ mishaps' = mishaps + 1
  /\ UNCHANGED record \/ (Recording /\ record' = None)
  /\ Exit
  /\ UNCHANGED <<row, events>>

-----------------------------------------------------------------------------
ThreadStep(p) ==
  \/ Take(p)
  \/ PassBy(p)
  \/ Start(p)
  \/ Skip(p)
  \/ Guard(p)
  \/ GuardRefuses(p)
  \/ Attach(p)
  \/ Send(p)
  \/ Answer(p)
  \/ EndCase(p)
  \/ WriteRow(p)
  \/ Count(p)
  \/ StopAll(p)
  \/ Fail(p)

MainStep ==
  \/ OpenBundle
  \/ PoolRefused
  \/ \E i \in Tasks : Collect(i)
  \/ CloseBundle
  \/ Done
  \/ Raise
  \/ ShutDown

RunnerNext ==
  \/ Begin
  \/ MainStep
  \/ \E p \in Threads : ThreadStep(p)
  \/ CtrlC
  \/ Kill

RunnerSpec == RunnerInit /\ [][RunnerNext]_runnerVars

\* An invocation runs until it ends; nobody promises there is another.
FairRunnerSpec ==
  /\ RunnerSpec
  /\ WF_runnerVars(MainStep)
  /\ \A p \in Threads : WF_runnerVars(ThreadStep(p))

-----------------------------------------------------------------------------
\* Types; a thread at work holds a task that is marked as running.
RunnerTypeOK ==
  /\ row \in [Rows -> Account \cup {None}]
  /\ record \in RunRecord \cup {None}
  /\ main \in {"off", "bundle", "collect", "shutdown", "end"}
  /\ bundle \in DOMAIN Bundles
  /\ raised \in Trouble \cup {None}
  /\ events \in 0 .. MaxEvents
  /\ {ran, skipped} \subseteq Nat
  /\ future \in [Tasks -> {"pending", "running", "ok", "interrupted", "refused",
                           "error", "collected"}]
  /\ \A p, q \in Threads :
       /\ place[p] # "idle" => future[task[p]] = "running"
       /\ p # q /\ task[p] # 0 => task[p] # task[q]

\* At most the cases already in flight finish after the stop: a run that was
\* asked to stop after n rows writes at most one more for every other worker,
\* however long a thread is held up between counting its row and telling the
\* others.
OvershootBounded ==
  stopAfter # None => ran <= stopAfter + workers - 1

\* The run record never names a row that is not on disk, at whatever point the
\* process is killed.
RecordedRowsExist ==
  record # None => \A r \in record.written : row[r] # None

\* A run reported as done wrote or skipped every row it was asked for, each
\* once: none is lost in the pool, and no interruption passes for success.
DoneMeansAll ==
  record # None /\ record.status = "done" =>
    /\ \A r \in Rows : row[r] # None
    /\ record.counts.ran + record.counts.skipped = Cardinality(Rows)

\* The run record tells the truth at whatever point the run ended, and the run
\* stopped about where it was asked to.
RunRecordTrue == RunnerTypeOK /\ OvershootBounded /\ RecordedRowsExist /\ DoneMeansAll

\* A row that is there is never run again nor rewritten.
RowsAreFinal ==
  [][ \A r \in Rows : row[r] # None => row'[r] = row[r] ]_runnerVars

\* A run that keeps being resumed ends with every row on disk, whatever it was
\* interrupted by on the way: each invocation adds a row to what it finds.
ResumedRunsComplete ==
  []<><<Begin>>_runnerVars => <>(\A r \in Rows : row[r] # None)

\* A run with one worker accounts for each row with the calls of that row's
\* own case: nothing of the case before it is left on the client.
AloneAccountsRight ==
  [][ workers = 1 =>
        \A r \in Rows : row'[r] = "mixed up" => row[r] = "mixed up" ]_runnerVars

\* Every worker owns a client of its own: the calls, tokens and requests a row
\* accounts for are the ones its own case made, all of them and no others.
CallsAreTheCases == \A r \in Rows : row[r] # "mixed up"

=============================================================================
