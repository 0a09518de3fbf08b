------------------------------ MODULE Workflow ------------------------------
(***************************************************************************)
(* The checkpointed workflow of ath.workflow: one invocation at a time     *)
(* runs or resumes every case of a batch in its run directory.  A stage is *)
(* built in a .partial directory, sealed, and renamed into place; run.json *)
(* is written last.  The process may die between any two steps, the        *)
(* telemetry source and ATH's code may change under it, and between        *)
(* invocations anyone may edit or delete what it left on disk.             *)
(*                                                                         *)
(* Hashes are taken to be injective: a seal is known by a serial number, a *)
(* stage's input hash by the inputs themselves, and the source by how often*)
(* it has changed.  What a slice, a state or a report contains is left out *)
(* but for what it was derived from.                                       *)
(***************************************************************************)
EXTENDS Integers, Sequences

CONSTANTS
  Cases,         \* case keys
  Settings,      \* the batches and mishaps of a behaviour: see Setting
  Replies,       \* the investigations a model may come up with
  MaxBlocks,     \* bound: RAM-guard blocks of one case
  None

Engines == {"deterministic", "d1"}

\* What may be run (a batch's cases in the order of its spec, or one of them);
\* the cases whose seed stage finds one incident; the engines invocations are
\* started with; and bounds on what happens to them: changes to source, code
\* and platform together, edits and deletions in the run directories, kills.
Setting ==
  [orders : SUBSET Seq(Cases), investigable : SUBSET Cases,
   engines : SUBSET Engines,
   changes : Nat, tampers : Nat, crashes : Nat]

-----------------------------------------------------------------------------
(* What is in a run directory. *)

Stages == 1 .. 4    \* 01-telemetry, 02-seed, 03-investigation, 04-report

\* What an investigation finds: a model's reply, or for the rule engine what it
\* was computed from, the slice and the platform.
Finding == Replies \cup (Int \X Int)

\* What each stage is computed for: source and code; the seal of the stage before
\* it, with the engine for 03.
StageInput == <<Int \X Int, [1 .. 1 -> Int], Int \X Engines, [1 .. 1 -> Int]>>

\* And what it holds: the version of the source it was cut from; whether there is
\* an incident; the finding; the report on one.
StageContent == <<Int, BOOLEAN, Finding, [found : Finding, rebuilt : BOOLEAN]>>

SealedStage(s) ==
  [input : StageInput[s], content : StageContent[s], serial : Nat, intact : BOOLEAN]

\* The stages and the seals run.json names.
RunFile ==
  [stages : [Stages -> Nat] \cup [{1, 2} -> Nat], verdict : Finding \cup {None},
   intact : BOOLEAN]

Outcome == {"complete", "blocked", "not investigable"}

ASSUME WorkflowAssumption ==
  /\ Settings \subseteq Setting
  /\ \A s \in Settings : \A batch \in s.orders :
       /\ Len(batch) > 0
       /\ \A i, k \in DOMAIN batch : batch[i] = batch[k] => i = k
  /\ MaxBlocks \in Nat
  /\ None \notin Int \cup Outcome \cup RunFile
  /\ \A s \in Stages : None \notin SealedStage(s)

VARIABLES
  setting,    \* of this behaviour; it never changes
  \* the run directories
  sealed,     \* the stages in place, by case and number
  partial,    \* the .partial directories in each, and what is in them
  record,     \* run.json
  attempts,   \* how many attempts/attempt-N.json there are
  serial,     \* how many stages were ever sealed in each
  index,      \* INDEX.json of the batch: the outcomes it lists
  \* the world around them
  source, code, platform,   \* versions; only the first two are hashed
  changes, tampers, crashes, tampered,
  \* the invocation
  pc, order, at, engine, ownCode, began, cache, loads,
  input, target, live, rebuilt, outcomes

dirVars == <<sealed, partial, record, attempts, serial, index>>
worldVars == <<source, code, platform, changes, tampers, crashes, tampered>>
callVars == <<order, at, engine, ownCode, began, cache, loads, outcomes>>
stageVars == <<input, target, live, rebuilt>>
workflowVars == <<setting, dirVars, worldVars, pc, callVars, stageVars>>

Key == order[at]      \* the case at hand

Sealed(s) == sealed[Key][s] # None

Serial(s) == sealed[Key][s].serial

\* read_stage and the input check of _open_stage: intact, and for this input.
Fits(s, params) == sealed[Key][s].intact /\ sealed[Key][s].input = params

-----------------------------------------------------------------------------
WorkflowInit ==
  /\ setting \in Settings
  /\ sealed = [k \in Cases |-> [s \in Stages |-> None]]
  /\ partial = [k \in Cases |-> [s \in Stages |-> None]]
  /\ record = [k \in Cases |-> None]
  /\ attempts = [k \in Cases |-> 0]
  /\ serial = [k \in Cases |-> 0]
  /\ index = [k \in Cases |-> None]
  /\ source = 0 /\ code = 0 /\ platform = 0
  /\ changes = 0 /\ tampers = 0 /\ crashes = 0
  /\ tampered = [k \in Cases |-> FALSE]
  /\ pc = "off"
  /\ order \in setting.orders /\ at = 1
  /\ engine \in setting.engines
  /\ ownCode = 0 /\ began = 0 /\ cache = None /\ loads = 0
  /\ input = None /\ target = None /\ live = None /\ rebuilt = FALSE
  /\ outcomes = [k \in Cases |-> None]

Goto(place) == pc' = place

ForgetStage ==
  /\ input' = None
  /\ target' = None
  /\ live' = None
  /\ rebuilt' = FALSE

Refuse == Goto("refused")

\* `ath workflow run': ATH's code is hashed once, no source is loaded yet.
Begin ==
  /\ pc \in {"off", "refused"}
  /\ Goto("check")
  /\ order' \in setting.orders /\ at' = 1
  /\ engine' \in setting.engines
  /\ ownCode' = code
  /\ began' = source
  /\ cache' = None
  /\ loads' = 0
  /\ outcomes' = [k \in Cases |-> None]
  /\ ForgetStage
  /\ UNCHANGED <<dirVars, worldVars>>

\* A completed run whose stages are gone is never partly rebuilt.
CheckRun ==
  /\ pc = "check"
  /\ IF record[Key] # None /\ \E s \in DOMAIN record[Key].stages : ~Sealed(s)
     THEN Refuse
     ELSE Goto("telemetry")
  /\ UNCHANGED <<dirVars, worldVars, callVars, stageVars>>

\* Slip: a stage that does not fit is recomputed.
OpenStageRecomputes(s, params, next) ==
  IF Sealed(s) /\ Fits(s, params)
  THEN Goto(next) /\ UNCHANGED <<target, input>>
  ELSE Goto("build") /\ target' = s /\ input' = params

\* _open_stage: reuse what fits, compute what is missing, refuse the rest.
OpenStage(s, params, next) ==
  IF ~Sealed(s)
  THEN Goto("build") /\ target' = s /\ input' = params
  ELSE /\ IF Fits(s, params) THEN Goto(next) ELSE Refuse
       /\ UNCHANGED <<target, input>>

OpenTelemetry ==
  /\ pc = "telemetry"
  /\ OpenStage(1, <<source, ownCode>>, "seed")
  /\ UNCHANGED <<dirVars, worldVars, callVars, live, rebuilt>>

AfterSeed == IF Key \in setting.investigable THEN "investigation" ELSE "record"

OpenSeed ==
  /\ pc = "seed"
  /\ OpenStage(2, <<Serial(1)>>, AfterSeed)
  /\ UNCHANGED <<dirVars, worldVars, callVars, live, rebuilt>>

\* Stages 03 and 04 are opened together: a model run that lost its report is
\* refused, a deterministic one is replayed.
OpenInvestigation ==
  /\ pc = "investigation"
  /\ IF Sealed(3)
     THEN IF ~Fits(3, <<Serial(2), engine>>) THEN Refuse
          ELSE IF Sealed(4) THEN IF Fits(4, <<Serial(3)>>) THEN Goto("record") ELSE Refuse
          ELSE IF engine = "d1" THEN Refuse ELSE Goto("replay")
     ELSE IF Sealed(4) THEN Refuse
          ELSE Goto(IF engine = "d1" THEN "guard" ELSE "investigate")
  /\ UNCHANGED <<dirVars, worldVars, callVars, stageVars>>

\* The next case, or the index once every case has an outcome.
Return(outcome) ==
  /\ outcomes' = [outcomes EXCEPT ![Key] = outcome]
  /\ IF at < Len(order)
     THEN Goto("check") /\ at' = at + 1
     ELSE Goto("index") /\ UNCHANGED at
  /\ ForgetStage

GuardPasses ==
  /\ pc = "guard"
  /\ Goto("load")
  /\ UNCHANGED <<dirVars, worldVars, callVars, stageVars>>

\* Slip: a blocked case leaves no attempt on record.
GuardBlocksSilently ==
  /\ pc = "guard"
  /\ attempts[Key] < MaxBlocks
  /\ Return("blocked")
  /\ UNCHANGED <<dirVars, worldVars, order, engine, ownCode, began, cache, loads>>

\* The RAM guard says no, or cannot tell: the attempt is put on record.
GuardBlocks ==
  /\ pc = "guard"
  /\ attempts[Key] < MaxBlocks
  /\ attempts' = [attempts EXCEPT ![Key] = @ + 1]
  /\ Return("blocked")
  /\ UNCHANGED <<sealed, partial, record, serial, index, worldVars,
                 order, engine, ownCode, began, cache, loads>>

\* The first case that needs the model warms it up.
EnsureLoaded ==
  /\ pc = "load"
  /\ Goto("investigate")
  /\ loads' = IF loads = 0 THEN 1 ELSE loads
  /\ UNCHANGED <<dirVars, worldVars, order, at, engine, ownCode, began, cache,
                 outcomes, stageVars>>

\* The warm-up fails or leaves no model resident: the invocation ends.
WarmUpFails ==
  /\ pc = "load"
  /\ loads = 0
  /\ Refuse
  /\ UNCHANGED <<dirVars, worldVars, callVars, stageVars>>

\* What the engine makes of the sealed slice.
Found ==
  IF engine = "d1" THEN Replies ELSE {<<sealed[Key][1].content, platform>>}

Investigate ==
  /\ pc = "investigate"
  /\ live' \in Found
  /\ target' = 3
  /\ input' = <<Serial(2), engine>>
  /\ rebuilt' = FALSE
  /\ Goto("build")
  /\ UNCHANGED <<dirVars, worldVars, callVars>>

\* The deterministic re-run must reproduce the sealed state.
Replay ==
  /\ pc = "replay"
  /\ live' \in Found
  /\ target' = 4
  /\ input' = <<Serial(3)>>
  /\ rebuilt' = TRUE
  /\ IF live' = sealed[Key][3].content THEN Goto("build") ELSE Refuse
  /\ UNCHANGED <<dirVars, worldVars, callVars>>

\* What a stage is made of: stage 01 reads the source, unless this invocation
\* has read it before; 03 and 04 come from the same live state.
Content ==
  CASE target = 1 -> IF cache = None THEN source ELSE cache
    [] target = 2 -> Key \in setting.investigable
    [] target = 3 -> live
    [] target = 4 -> [found |-> live, rebuilt |-> rebuilt]

\* Slip: a leftover .partial directory is taken for the stage being built.
BuildKeepsLeftover ==
  /\ pc = "build"
  /\ partial' = [partial EXCEPT ![Key][target] = IF @ = None THEN Content ELSE @]
  /\ cache' = IF target = 1 THEN Content ELSE cache
  /\ Goto("seal")
  /\ UNCHANGED <<sealed, record, attempts, serial, index, worldVars, order, at, engine,
                 ownCode, began, loads, outcomes, stageVars>>

\* Slip: a leftover .partial directory is not removed, and mkdir fails on it.
BuildRefusesLeftover ==
  /\ pc = "build"
  /\ partial' = [partial EXCEPT ![Key][target] = Content]
  /\ cache' = IF target = 1 THEN Content ELSE cache
  /\ IF partial[Key][target] = None THEN Goto("seal") ELSE Refuse
  /\ UNCHANGED <<sealed, record, attempts, serial, index, worldVars, order, at, engine,
                 ownCode, began, loads, outcomes, stageVars>>

\* _write_stage up to the rename: a leftover .partial is discarded first.
Build ==
  /\ pc = "build"
  /\ partial' = [partial EXCEPT ![Key][target] = Content]
  /\ cache' = IF target = 1 THEN Content ELSE cache
  /\ Goto("seal")
  /\ UNCHANGED <<sealed, record, attempts, serial, index, worldVars, order, at, engine,
                 ownCode, began, loads, outcomes, stageVars>>

\* The rename; 04 follows 03 from the same live state.
Seal ==
  /\ pc = "seal"
  /\ sealed' = [sealed EXCEPT ![Key][target] =
                  [input |-> input, content |-> partial[Key][target],
                   serial |-> serial[Key] + 1, intact |-> TRUE]]
  /\ serial' = [serial EXCEPT ![Key] = @ + 1]
  /\ partial' = [partial EXCEPT ![Key][target] = None]
  /\ Goto(CASE target = 1 -> "seed"
            [] target = 2 -> AfterSeed
            [] target = 3 -> "build"
            [] target = 4 -> "record")
  /\ target' = IF target = 3 THEN 4 ELSE None
  /\ input' = IF target = 3 THEN <<serial[Key] + 1>> ELSE None
  /\ UNCHANGED <<record, attempts, index, worldVars, callVars, live, rebuilt>>

Named == IF Key \in setting.investigable THEN Stages ELSE {1, 2}

\* The run record of the stages as they stand.
RunRecord ==
  [stages |-> [s \in Named |-> Serial(s)],
   verdict |-> IF Key \in setting.investigable THEN sealed[Key][4].content.found ELSE None,
   intact |-> TRUE]

RunOutcome == IF Key \in setting.investigable THEN "complete" ELSE "not investigable"

\* _run_record: written once, and validated when it is there already.
WriteRecord ==
  /\ pc = "record"
  /\ record[Key] = None
  /\ record' = [record EXCEPT ![Key] = RunRecord]
  /\ Return(RunOutcome)
  /\ UNCHANGED <<sealed, partial, attempts, serial, index, worldVars,
                 order, engine, ownCode, began, cache, loads>>

\* Slip: an existing run.json is taken at its word.
CheckRecordTrusts ==
  /\ pc = "record"
  /\ record[Key] # None
  /\ Return(RunOutcome)
  /\ UNCHANGED <<dirVars, worldVars, order, engine, ownCode, began, cache, loads>>

CheckRecord ==
  /\ pc = "record"
  /\ record[Key] # None
  /\ IF record[Key].intact /\ record[Key].stages = RunRecord.stages
     THEN Return(RunOutcome)
     ELSE Refuse /\ UNCHANGED <<at, outcomes, stageVars>>
  /\ UNCHANGED <<dirVars, worldVars, order, engine, ownCode, began, cache, loads>>

\* A single case has no index.
WriteIndex ==
  /\ pc = "index"
  /\ index' = IF Len(order) > 1 THEN outcomes ELSE index
  /\ Goto("off")
  /\ UNCHANGED <<sealed, partial, record, attempts, serial, worldVars,
                 callVars, stageVars>>

-----------------------------------------------------------------------------
(* What happens around the workflow. *)

\* The process is killed, or an exception that nothing catches (the source is
\* gone, an engine fails) ends it; its .partial directory stays.
Crash ==
  /\ pc \notin {"off", "refused"}
  /\ crashes < setting.crashes
  /\ crashes' = crashes + 1
  /\ Goto("off")
  /\ UNCHANGED <<dirVars, source, code, platform, changes, tampers, tampered,
                 callVars, stageVars>>

\* The export grows or ATH is updated at any time, a library between runs.
Change ==
  /\ changes < setting.changes
  /\ changes' = changes + 1
  /\ \/ source' = source + 1 /\ UNCHANGED <<code, platform>>
     \/ code' = code + 1 /\ UNCHANGED <<source, platform>>
     \/ /\ pc \in {"off", "refused"}
        /\ platform' = platform + 1
        /\ UNCHANGED <<source, code>>
  /\ UNCHANGED <<dirVars, tampers, crashes, tampered, pc, callVars, stageVars>>

\* Between invocations, a stage or run.json is edited or deleted.
Tamper(k) ==
  /\ pc \in {"off", "refused"}
  /\ tampers < setting.tampers
  /\ tampers' = tampers + 1
  /\ tampered' = [tampered EXCEPT ![k] = TRUE]
  /\ \/ \E s \in Stages :
          /\ sealed[k][s] # None
          /\ \/ sealed' = [sealed EXCEPT ![k][s].intact = FALSE]
             \/ sealed' = [sealed EXCEPT ![k][s] = None]
          /\ UNCHANGED record
     \/ /\ record[k] # None
        /\ \/ record' = [record EXCEPT ![k].intact = FALSE]
           \/ record' = [record EXCEPT ![k] = None]
        /\ UNCHANGED sealed
  /\ UNCHANGED <<partial, attempts, serial, index, source, code, platform,
                 changes, crashes, pc, callVars, stageVars>>

RunStep ==
  \/ CheckRun
  \/ OpenTelemetry
  \/ OpenSeed
  \/ OpenInvestigation
  \/ GuardPasses
  \/ GuardBlocks
  \/ EnsureLoaded
  \/ WarmUpFails
  \/ Investigate
  \/ Replay
  \/ Build
  \/ Seal
  \/ WriteRecord
  \/ CheckRecord
  \/ WriteIndex

WorkflowNext ==
  \/ Begin
  \/ RunStep
  \/ Crash
  \/ Change
  \/ \E k \in Cases : Tamper(k)

WorkflowSpec == WorkflowInit /\ [][WorkflowNext /\ UNCHANGED setting]_workflowVars

\* An invocation runs until it ends; nobody promises there is another.
FairWorkflowSpec == WorkflowSpec /\ WF_workflowVars(RunStep /\ UNCHANGED setting)

-----------------------------------------------------------------------------
\* What is true of each stage in place of a run directory nobody tampered
\* with: it was sealed for the seal of the stage before it.
Chained(k) ==
  /\ \A s \in 2 .. 4 : sealed[k][s] # None =>
       sealed[k][s - 1] # None /\ sealed[k][s].input[1] = sealed[k][s - 1].serial
  /\ \A s \in Stages : sealed[k][s] # None => sealed[k][s].intact

\* A stage directory exists only once it is complete, and only after the
\* stages it was computed from; run.json only after all that it names.
StagesChained ==
  \A k \in Cases : ~tampered[k] =>
    /\ Chained(k)
    /\ record[k] # None =>
         /\ \A s \in DOMAIN record[k].stages :
              sealed[k][s] # None /\ record[k].stages[s] = sealed[k][s].serial
         /\ (k \in setting.investigable) <=> (4 \in DOMAIN record[k].stages)

\* The report beside a sealed investigation is the report of that very
\* investigation, through crashes between the two and whatever changed before
\* the report was made up for; and a model's report is never made up for.
ReportTellsInvestigation ==
  \A k \in Cases : ~tampered[k] /\ sealed[k][4] # None =>
    /\ sealed[k][4].content.found = sealed[k][3].content
    /\ sealed[k][4].content.rebuilt => sealed[k][3].input[2] = "deterministic"
    /\ record[k] # None => record[k].verdict = sealed[k][3].content

\* Nothing sealed is ever recomputed, overwritten or removed by the workflow,
\* in particular not what it finds altered; attempts are only added.
SealedIsFinal ==
  [][ tampers' = tampers =>
        \A k \in Cases :
          /\ \A s \in Stages : sealed[k][s] # None => sealed'[k][s] = sealed[k][s]
          /\ record[k] # None => record'[k] = record[k]
          /\ attempts'[k] >= attempts[k]
    ]_workflowVars

\* An invocation reports a case complete only over four intact stages chained
\* to one another and to its own code and engine, all named by run.json: an
\* edited or half-deleted directory never passes for a result.
CompleteIsEarned ==
  [][ \A k \in Cases : outcomes[k] # "complete" /\ outcomes'[k] = "complete" =>
        /\ \A s \in Stages : sealed[k][s] # None
        /\ Chained(k)
        /\ sealed[k][1].input[2] = ownCode
        /\ sealed[k][3].input[2] = engine
        /\ record'[k] # None /\ record'[k].intact
        /\ record'[k].stages = [s \in Stages |-> sealed[k][s].serial]
    ]_workflowVars

\* The one way to lose a case for good without touching its directory: a model
\* run killed between sealing 03 and 04.
Unreplayable(k) ==
  engine = "d1" /\ sealed[k][3] # None /\ sealed[k][4] = None

\* Something the sealed stages depend on is not as it was.
Moved(k) ==
  \/ sealed[k][1] # None /\ sealed[k][1].input # <<source, ownCode>>
  \/ sealed[k][3] # None /\ sealed[k][3].input[2] # engine
  \/ sealed[k][3] # None /\ engine = "deterministic" /\ sealed[k][3].content[2] # platform

\* A crash never spoils a run directory: a directory nobody altered is refused
\* only when what it was computed from has changed, or for a model run that
\* was killed before its report, or when the model itself cannot be loaded.
RefusedOnlyWhenChanged ==
  [][ pc' = "refused" /\ pc \notin {"refused", "load"} =>
        tampered[Key] \/ Moved(Key) \/ Unreplayable(Key)
    ]_workflowVars

\* INDEX.json calls a case complete only if its run directory was.
IndexTrue ==
  \A k \in Cases : ~tampered[k] =>
    /\ index[k] = "complete" => record[k] # None /\ k \in setting.investigable
    /\ index[k] = "blocked" => attempts[k] > 0

\* A batch that keeps being resumed with the deterministic engine ends with
\* every case recorded, however often and wherever the process was killed.
CrashedRunsComplete ==
  (/\ [](engine = "deterministic" /\ changes = 0 /\ tampers = 0)
   /\ []<><<Begin /\ \A k \in Cases : \E i \in DOMAIN order' : order'[i] = k>>_workflowVars)
  => <>(\A k \in Cases : record[k] # None)

\* A stage whose inputs differ from this invocation is refused: a case that an
\* invocation reports on was cut from the source as that invocation found it,
\* if the source did not change while it ran.
ChangedSourceRefused ==
  [][ \A k \in Cases :
        outcomes[k] # outcomes'[k] /\ outcomes'[k] \in {"complete", "not investigable"}
        /\ source = began
        => sealed[k][1].content = source
    ]_workflowVars

\* Types; a stage is never both in place and half built.
WorkflowTypeOK ==
  /\ \A k \in Cases : \A s \in Stages : sealed[k][s] # None =>
       /\ sealed[k][s] \in SealedStage(s) /\ sealed[k][s].serial \in 1 .. serial[k]
       /\ partial[k][s] = None
  /\ record \in [Cases -> RunFile \cup {None}]
  /\ attempts \in [Cases -> 0 .. MaxBlocks]
  /\ index \in [Cases -> Outcome \cup {None}]
  /\ at \in DOMAIN order
  /\ loads \in Nat
  /\ target \in Stages \cup {None}
  /\ pc \in {"off", "refused", "check", "telemetry", "seed", "investigation", "guard",
             "load", "investigate", "replay", "build", "seal", "record", "index"}

\* What is on disk hangs together, at whatever point the process is killed: no
\* stage is half built and in place at once, none is there before what it was
\* computed from, run.json names only what exists, and the batch index claims no
\* more than the run directories hold.
DirectoriesSound == WorkflowTypeOK /\ StagesChained /\ IndexTrue

=============================================================================
