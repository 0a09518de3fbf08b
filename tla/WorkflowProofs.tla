--------------------------- MODULE WorkflowProofs ---------------------------
(***************************************************************************)
(* Proofs about Workflow.  While an invocation runs nobody else touches    *)
(* the run directories, so each place it has reached stands for stages it  *)
(* has found or put in place: intact, chained, and for this invocation's   *)
(* own code and engine.  That is what it may tell of a case, whatever was  *)
(* done to the directory before; and a directory nobody altered is chained *)
(* at every moment, which is all that a crash can leave behind.            *)
(***************************************************************************)
EXTENDS Workflow, TLAPS

Running == {"check", "telemetry", "seed", "investigation", "guard", "load", "investigate",
            "replay", "build", "seal", "record", "index"}

DirTypes ==
  /\ DOMAIN sealed = Cases /\ \A k \in Cases : DOMAIN sealed[k] = Stages
  /\ \A k \in Cases : \A s \in Stages : sealed[k][s] \in SealedStage(s) \cup {None}
  /\ DOMAIN partial = Cases /\ \A k \in Cases : DOMAIN partial[k] = Stages
  /\ record \in [Cases -> RunFile \cup {None}]
  /\ attempts \in [Cases -> 0 .. MaxBlocks]
  /\ serial \in [Cases -> Nat]
  /\ index \in [Cases -> Outcome \cup {None}]

WorldTypes ==
  /\ setting \in Settings
  /\ source \in Nat /\ code \in Nat /\ platform \in Nat /\ tampers \in Nat
  /\ tampered \in [Cases -> BOOLEAN]
  /\ pc \in Running \cup {"off", "refused"}

CallTypes ==
  /\ order \in setting.orders
  /\ at \in DOMAIN order
  /\ engine \in setting.engines
  /\ ownCode \in Nat
  /\ cache \in Nat \cup {None}
  /\ loads \in Nat
  /\ outcomes \in [Cases -> Outcome \cup {None}]

StageTypes ==
  /\ target \in Stages \cup {None}
  /\ rebuilt \in BOOLEAN

\* The rule engine found this in that slice, on some platform.
FoundIn(finding, slice) == finding \in Int \X Int /\ finding[1] = slice

\* What the rule engine found it can find again, on the same platform.
Reproducible(k) ==
  sealed[k][3] # None /\ sealed[k][3].input[2] = "deterministic" =>
    FoundIn(sealed[k][3].content, sealed[k][1].content)

ReportTold(k) ==
  sealed[k][4] # None =>
    /\ k \in setting.investigable
    /\ sealed[k][4].content.found = sealed[k][3].content
    /\ sealed[k][4].content.rebuilt => sealed[k][3].input[2] = "deterministic"

RecordTold(k) ==
  record[k] # None =>
    /\ record[k].intact
    /\ DOMAIN record[k].stages = IF k \in setting.investigable THEN Stages ELSE {1, 2}
    /\ \A s \in DOMAIN record[k].stages :
         sealed[k][s] # None /\ record[k].stages[s] = sealed[k][s].serial
    /\ k \in setting.investigable => record[k].verdict = sealed[k][3].content

\* A run directory as the workflow alone leaves it.
Untouched(k) == Chained(k) /\ Reproducible(k) /\ ReportTold(k) /\ RecordTold(k)

DiskSound ==
  /\ \A k \in Cases : ~tampered[k] => Untouched(k)
  /\ \A k \in Cases : \A s \in Stages : sealed[k][s] # None =>
       /\ sealed[k][s].serial \in 1 .. serial[k]
       /\ partial[k][s] = None

\* What an invocation, and so the index, says of a case.
OutcomesTrue ==
  \A k \in Cases :
    /\ outcomes[k] = "complete" /\ ~tampered[k] =>
         record[k] # None /\ k \in setting.investigable
    /\ outcomes[k] = "blocked" => attempts[k] > 0
    /\ index[k] = "complete" /\ ~tampered[k] =>
         record[k] # None /\ k \in setting.investigable
    /\ index[k] = "blocked" => attempts[k] > 0

\* The stage is in place, intact, and for this invocation and the stage before it.
InputFits(s, params) ==
  CASE s = 1 -> params[2] = ownCode
    [] s = 2 -> params = <<Serial(1)>>
    [] s = 3 -> params = <<Serial(2), engine>>
    [] s = 4 -> params = <<Serial(3)>>

Good(s) == Sealed(s) /\ sealed[Key][s].intact /\ InputFits(s, sealed[Key][s].input)

\* What is about to be sealed.
BuildSound ==
  /\ target \in Stages
  /\ ~Sealed(target)
  /\ \A s \in Stages : s < target => Good(s)
  /\ input \in StageInput[target] /\ InputFits(target, input)
  /\ target \in {3, 4} => Key \in setting.investigable /\ live \in Finding
  /\ target = 3 =>
       /\ ~Sealed(4)
       /\ ~rebuilt
       /\ engine = "deterministic" => FoundIn(live, sealed[Key][1].content)
  /\ target = 4 =>
       /\ live = sealed[Key][3].content
       /\ rebuilt => engine = "deterministic"

PlaceSound ==
  /\ pc \in {"seed", "investigation", "guard", "load", "investigate", "replay"} => Good(1)
  /\ pc \in {"investigation", "guard", "load", "investigate", "replay"} =>
       Good(2) /\ Key \in setting.investigable
  /\ pc \in {"guard", "load", "investigate"} => ~Sealed(3) /\ ~Sealed(4)
  /\ pc = "replay" => Good(3) /\ ~Sealed(4) /\ engine = "deterministic"
  /\ pc = "record" => \A s \in Named : Good(s)
  /\ pc \in {"build", "seal"} => BuildSound
  /\ pc = "seal" => partial[Key][target] \in StageContent[target]
  /\ pc = "seal" /\ target = 3 => partial[Key][3] = live
  /\ pc = "seal" /\ target = 4 => partial[Key][4] = [found |-> live, rebuilt |-> rebuilt]

WorkflowInv ==
  /\ DirTypes /\ WorldTypes /\ CallTypes /\ StageTypes
  /\ DiskSound /\ OutcomesTrue /\ PlaceSound

USE WorkflowAssumption

-----------------------------------------------------------------------------
(* Facts about one state. *)

\* The case at hand is one, and its invocation runs with an engine.
LEMMA CaseFacts ==
  ASSUME WorldTypes, CallTypes
  PROVE  /\ setting \in Setting
         /\ order \in Seq(Cases) /\ order[at] \in Cases /\ Key \in Cases
         /\ at \in Nat /\ at \in 1 .. Len(order) /\ Len(order) \in Nat
         /\ engine \in Engines
         /\ setting.investigable \subseteq Cases
<1>1. setting \in Setting
  BY DEF WorldTypes, WorkflowAssumption
<1>2. /\ setting.orders \subseteq Seq(Cases) /\ setting.engines \subseteq Engines
      /\ setting.investigable \subseteq Cases
  BY <1>1 DEF Setting
<1>3. order \in Seq(Cases) /\ engine \in Engines
  BY <1>2 DEF CallTypes
<1>4. at \in 1 .. Len(order) /\ Len(order) \in Nat
  BY <1>3 DEF CallTypes
<1> QED
  BY <1>1, <1>2, <1>3, <1>4 DEF Key

\* Each stage, and what is known of it when it is in place.
LEMMA StageFacts ==
  ASSUME DirTypes, NEW k \in Cases, NEW s \in Stages, sealed[k][s] # None
  PROVE  /\ sealed[k][s] \in SealedStage(s)
         /\ sealed[k][s].input \in StageInput[s]
         /\ sealed[k][s].content \in StageContent[s]
         /\ sealed[k][s].serial \in Nat
         /\ sealed[k][s].intact \in BOOLEAN
<1>1. sealed[k][s] \in SealedStage(s)
  BY DEF DirTypes
<1> QED
  BY <1>1 DEF SealedStage

\* A sealed stage and a run record are something.
LEMMA SomethingThere ==
  /\ \A s \in Stages : \A st \in SealedStage(s) : st # None
  /\ \A r \in RunFile : r # None
  /\ "complete" # None /\ "blocked" # None /\ "not investigable" # None
  /\ 1 \in Stages /\ 2 \in Stages /\ 3 \in Stages /\ 4 \in Stages
<1>1. /\ \A s \in Stages : None \notin SealedStage(s)
      /\ None \notin RunFile /\ None \notin Outcome
  BY DEF WorkflowAssumption
<1>2. 1 \in Stages /\ 2 \in Stages /\ 3 \in Stages /\ 4 \in Stages
  BY DEF Stages
<1> QED
  BY <1>1, <1>2 DEF Outcome

\* The same case, run and directory: what is good stays good.
LEMMA SameGood ==
  ASSUME UNCHANGED <<sealed, order, at, engine, ownCode>>
  PROVE  /\ Key' = Key
         /\ \A s \in Stages : (Good(s)' <=> Good(s)) /\ (Sealed(s)' <=> Sealed(s))
         /\ \A s : Serial(s)' = Serial(s)
BY DEF Key, Good, Sealed, Serial, InputFits

-----------------------------------------------------------------------------
(* Steps that leave the run directories as they are. *)

LEMMA SameDirectories ==
  ASSUME WorkflowInv, UNCHANGED <<setting, dirVars, tampered, outcomes>>
  PROVE  DirTypes' /\ DiskSound' /\ OutcomesTrue'
<1>1. DirTypes'
  BY DEF WorkflowInv, DirTypes, dirVars
<1>2. DiskSound'
  <2>1. \A k : Untouched(k)' <=> Untouched(k)
    BY DEF Untouched, Chained, Reproducible, ReportTold, RecordTold, dirVars
  <2> QED
    BY <2>1 DEF WorkflowInv, DiskSound, dirVars
<1>3. OutcomesTrue'
  BY DEF WorkflowInv, OutcomesTrue, dirVars
<1> QED
  BY <1>1, <1>2, <1>3

LEMMA StayedWithCase ==
  ASSUME WorkflowInv, UNCHANGED <<setting, dirVars, worldVars, order, at, engine, ownCode>>,
         UNCHANGED <<cache, outcomes>>, loads' \in Nat, pc' \in Running \cup {"refused"},
         StageTypes', PlaceSound'
  PROVE  WorkflowInv'
<1>1. DirTypes' /\ DiskSound' /\ OutcomesTrue'
  BY SameDirectories DEF worldVars
<1>2. WorldTypes'
  BY DEF WorkflowInv, WorldTypes, worldVars
<1>3. CallTypes'
  BY DEF WorkflowInv, CallTypes
<1> QED
  BY <1>1, <1>2, <1>3 DEF WorkflowInv

LEMMA CheckRunInv ==
  ASSUME WorkflowInv, CheckRun, UNCHANGED setting
  PROVE  WorkflowInv'
<1>1. /\ UNCHANGED <<dirVars, worldVars, callVars, stageVars>>
      /\ pc' \in {"telemetry", "refused"}
  BY DEF CheckRun, Goto, Refuse
<1>2. PlaceSound'
  BY <1>1 DEF PlaceSound
<1>3. StageTypes'
  BY <1>1 DEF WorkflowInv, StageTypes, stageVars
<1> QED
  BY <1>1, <1>2, <1>3, StayedWithCase DEF callVars, WorkflowInv, CallTypes, Running

\* _open_stage: the next place is reached over a stage that is good, or the stage
\* that is missing is to be built.
LEMMA OpenedStage ==
  ASSUME WorkflowInv, NEW s \in {1, 2}, NEW params \in StageInput[s], NEW next,
         InputFits(s, params),
         \A n \in Stages : n < s => Good(n),
         OpenStage(s, params, next),
         UNCHANGED <<dirVars, worldVars, callVars, live, rebuilt>>
  PROVE  /\ StageTypes'
         /\ \/ pc' = "build" /\ BuildSound'
            \/ pc' = "refused"
            \/ /\ pc' = next
               /\ \A n \in Stages : n <= s => Good(n)'
<1>0. s \in Stages
  BY DEF Stages
<1>1. /\ Key' = Key
      /\ \A n \in Stages : (Good(n)' <=> Good(n)) /\ (Sealed(n)' <=> Sealed(n))
      /\ \A n : Serial(n)' = Serial(n)
  BY SameGood DEF dirVars, callVars
<1>2. CASE ~Sealed(s)
  <2>1. pc' = "build" /\ target' = s /\ input' = params
    BY <1>2 DEF OpenStage, Goto
  <2>2. InputFits(target, input)'
    BY <1>1, <2>1 DEF InputFits, callVars
  <2>3. BuildSound'
    BY <1>0, <1>1, <1>2, <2>1, <2>2 DEF BuildSound
  <2> QED
    BY <1>0, <2>1, <2>3 DEF StageTypes, WorkflowInv
<1>3. CASE Sealed(s)
  <2>1. /\ UNCHANGED <<target, input>>
        /\ IF Fits(s, params) THEN pc' = next ELSE pc' = "refused"
    BY <1>3 DEF OpenStage, Goto, Refuse
  <2>2. Fits(s, params) => Good(s)
    BY <1>3 DEF Fits, Good
  <2>3. \A n \in Stages : n <= s => n < s \/ n = s
    BY DEF Stages
  <2> QED
    BY <1>1, <2>1, <2>2, <2>3 DEF StageTypes, WorkflowInv
<1> QED
  BY <1>2, <1>3

LEMMA OpenTelemetryInv ==
  ASSUME WorkflowInv, OpenTelemetry, UNCHANGED setting
  PROVE  WorkflowInv'
<1>1. /\ OpenStage(1, <<source, ownCode>>, "seed")
      /\ UNCHANGED <<dirVars, worldVars, callVars, live, rebuilt>>
  BY DEF OpenTelemetry
<1>2. <<source, ownCode>> \in StageInput[1]
  BY DEF StageInput, WorkflowInv, WorldTypes, CallTypes
<1>3. InputFits(1, <<source, ownCode>>)
  BY DEF InputFits
<1>4. \A n \in Stages : ~(n < 1)
  BY DEF Stages
<1>5. /\ StageTypes'
      /\ \/ pc' = "build" /\ BuildSound'
         \/ pc' = "refused"
         \/ pc' = "seed" /\ Good(1)'
  BY <1>1, <1>2, <1>3, <1>4, OpenedStage DEF Stages
<1>6. PlaceSound'
  BY <1>5 DEF PlaceSound
<1> QED
  BY <1>1, <1>5, <1>6, StayedWithCase DEF callVars, WorkflowInv, CallTypes, Running

LEMMA OpenSeedInv ==
  ASSUME WorkflowInv, OpenSeed, UNCHANGED setting
  PROVE  WorkflowInv'
<1>1. /\ OpenStage(2, <<Serial(1)>>, AfterSeed)
      /\ UNCHANGED <<dirVars, worldVars, callVars, live, rebuilt>>
      /\ Good(1)
  BY DEF OpenSeed, WorkflowInv, PlaceSound
<1>2. <<Serial(1)>> \in StageInput[2]
  <2>1. Serial(1) \in Nat
    BY <1>1, CaseFacts, StageFacts, SomethingThere DEF Serial, Good, Sealed, WorkflowInv
  <2> QED
    BY <2>1 DEF StageInput
<1>3. InputFits(2, <<Serial(1)>>)
  BY DEF InputFits
<1>4. \A n \in Stages : n < 2 => n = 1
  BY DEF Stages
<1>5. /\ StageTypes'
      /\ \/ pc' = "build" /\ BuildSound'
         \/ pc' = "refused"
         \/ pc' = AfterSeed /\ Good(1)' /\ Good(2)'
  BY <1>1, <1>2, <1>3, <1>4, OpenedStage DEF Stages
<1>6. Key' = Key
  BY <1>1, SameGood DEF dirVars, callVars
<1>7. PlaceSound'
  BY <1>5, <1>6 DEF PlaceSound, AfterSeed, Named
<1>8. pc' \in Running \cup {"refused"}
  BY <1>5 DEF AfterSeed, Running
<1> QED
  BY <1>1, <1>5, <1>7, <1>8, StayedWithCase DEF callVars, WorkflowInv, CallTypes

LEMMA OpenInvestigationInv ==
  ASSUME WorkflowInv, OpenInvestigation, UNCHANGED setting
  PROVE  WorkflowInv'
<1>1. /\ UNCHANGED <<dirVars, worldVars, callVars, stageVars>>
      /\ Good(1) /\ Good(2) /\ Key \in setting.investigable
      /\ engine \in Engines
  BY CaseFacts DEF OpenInvestigation, WorkflowInv, PlaceSound
<1>2. /\ Key' = Key
      /\ \A n \in Stages : (Good(n)' <=> Good(n)) /\ (Sealed(n)' <=> Sealed(n))
  BY <1>1, SameGood DEF dirVars, callVars
<1>3. \/ pc' = "refused"
      \/ pc' = "record" /\ Good(3) /\ Good(4)
      \/ pc' = "replay" /\ Good(3) /\ ~Sealed(4) /\ engine # "d1"
      \/ pc' \in {"guard", "investigate"} /\ ~Sealed(3) /\ ~Sealed(4)
  BY DEF OpenInvestigation, Goto, Refuse, Fits, Good, InputFits
<1>4. PlaceSound'
  <2>1. \A n \in Stages : n \in {1, 2, 3, 4}
    BY DEF Stages
  <2> QED
    BY <1>1, <1>2, <1>3, <2>1, SomethingThere DEF PlaceSound, Named, callVars, Engines
<1>5. StageTypes'
  BY <1>1 DEF WorkflowInv, StageTypes, stageVars
<1> QED
  BY <1>1, <1>3, <1>4, <1>5, StayedWithCase DEF callVars, WorkflowInv, CallTypes, Running

LEMMA GuardedInv ==
  ASSUME WorkflowInv, GuardPasses \/ EnsureLoaded \/ WarmUpFails, UNCHANGED setting
  PROVE  WorkflowInv'
<1>1. /\ UNCHANGED <<dirVars, worldVars, order, at, engine, ownCode, cache, outcomes, stageVars>>
      /\ pc' = "refused" \/ (pc \in {"guard", "load"} /\ pc' \in {"load", "investigate"})
  BY DEF GuardPasses, EnsureLoaded, WarmUpFails, Goto, Refuse, callVars
<1>2. loads' \in Nat
  BY DEF GuardPasses, EnsureLoaded, WarmUpFails, callVars, WorkflowInv, CallTypes
<1>3. /\ Key' = Key
      /\ \A n \in Stages : (Good(n)' <=> Good(n)) /\ (Sealed(n)' <=> Sealed(n))
  BY <1>1, SameGood DEF dirVars
<1>4. PlaceSound'
  BY <1>1, <1>3, SomethingThere DEF PlaceSound, WorkflowInv
<1>5. StageTypes'
  BY <1>1 DEF WorkflowInv, StageTypes, stageVars
<1> QED
  BY <1>1, <1>2, <1>4, <1>5, StayedWithCase DEF Running

\* What the engine finds, in the slice it is given.
LEMMA FoundFacts ==
  ASSUME WorkflowInv, Good(1), NEW finding \in Found
  PROVE  /\ finding \in Finding
         /\ engine = "deterministic" =>
              /\ FoundIn(finding, sealed[Key][1].content)
              /\ finding = <<sealed[Key][1].content, platform>>
<1>1. Key \in Cases /\ engine \in Engines /\ platform \in Nat
  BY CaseFacts DEF WorkflowInv, WorldTypes
<1>2. sealed[Key][1].content \in Int
  <2>1. sealed[Key][1].content \in StageContent[1]
    BY <1>1, StageFacts, SomethingThere DEF Good, Sealed, WorkflowInv
  <2> QED
    BY <2>1 DEF StageContent
<1> QED
  BY <1>1, <1>2 DEF Found, Finding, FoundIn, Engines

LEMMA InvestigateInv ==
  ASSUME WorkflowInv, Investigate, UNCHANGED setting
  PROVE  WorkflowInv'
<1>1. /\ UNCHANGED <<dirVars, worldVars, callVars>>
      /\ live' \in Found /\ target' = 3 /\ input' = <<Serial(2), engine>>
      /\ rebuilt' = FALSE /\ pc' = "build"
  BY DEF Investigate, Goto
<1>2. /\ Good(1) /\ Good(2) /\ ~Sealed(3) /\ ~Sealed(4) /\ Key \in setting.investigable
  BY DEF Investigate, WorkflowInv, PlaceSound
<1>3. /\ Key' = Key
      /\ \A n \in Stages : (Good(n)' <=> Good(n)) /\ (Sealed(n)' <=> Sealed(n))
      /\ \A n : Serial(n)' = Serial(n)
  BY <1>1, SameGood DEF dirVars, callVars
<1>4. <<Serial(2), engine>> \in StageInput[3]
  <2>1. Serial(2) \in Nat /\ engine \in Engines
    BY <1>2, CaseFacts, StageFacts, SomethingThere DEF Serial, Good, Sealed, WorkflowInv
  <2> QED
    BY <2>1 DEF StageInput
<1>5. InputFits(target, input)'
  BY <1>1, <1>3 DEF InputFits, callVars
<1>6. /\ live' \in Finding
      /\ engine = "deterministic" => FoundIn(live', sealed[Key][1].content)
  BY <1>1, <1>2, FoundFacts
<1>7. BuildSound'
  <2>1. \A n \in Stages : n < 3 => n = 1 \/ n = 2
    BY DEF Stages
  <2>2. /\ target' = 3 /\ engine' = engine /\ sealed' = sealed /\ setting' = setting
        /\ sealed[Key][3] = None /\ sealed[Key][4] = None
    BY <1>1, <1>2 DEF dirVars, callVars, Sealed
  <2>3. \A n \in Stages : n < target' => Good(n)'
    BY <1>2, <1>3, <2>1, <2>2
  <2> QED
    <3>1. target' \in Stages /\ ~Sealed(target)'
      BY <1>3, <2>2, SomethingThere DEF Sealed
    <3>2. input' \in StageInput[target']
      BY <1>1, <1>4, <2>2
    <3>3. target' = 3 => ~Sealed(4)' /\ ~rebuilt'
      BY <1>1, <1>3, <2>2, SomethingThere DEF Sealed
    <3>4. target' = 3 => (engine' = "deterministic" => FoundIn(live', sealed'[Key'][1].content))
      BY <1>3, <1>6, <2>2
    <3> QED
      BY <1>1, <1>2, <1>3, <1>5, <1>6, <2>2, <2>3, <3>1, <3>2, <3>3, <3>4 DEF BuildSound
<1>8. PlaceSound' /\ StageTypes'
  BY <1>1, <1>7, SomethingThere DEF PlaceSound, StageTypes
<1> QED
  BY <1>1, <1>8, StayedWithCase DEF callVars, WorkflowInv, CallTypes, Running

LEMMA ReplayInv ==
  ASSUME WorkflowInv, Replay, UNCHANGED setting
  PROVE  WorkflowInv'
<1>1. /\ UNCHANGED <<dirVars, worldVars, callVars>>
      /\ live' \in Found /\ target' = 4 /\ input' = <<Serial(3)>>
      /\ rebuilt' = TRUE
      /\ \/ pc' = "refused"
         \/ pc' = "build" /\ live' = sealed[Key][3].content
  BY DEF Replay, Goto, Refuse
<1>2. /\ Good(1) /\ Good(2) /\ Good(3) /\ ~Sealed(4) /\ Key \in setting.investigable
      /\ engine = "deterministic"
  BY DEF Replay, WorkflowInv, PlaceSound
<1>3. /\ Key' = Key
      /\ \A n \in Stages : (Good(n)' <=> Good(n)) /\ (Sealed(n)' <=> Sealed(n))
      /\ \A n : Serial(n)' = Serial(n)
  BY <1>1, SameGood DEF dirVars, callVars
<1>4. <<Serial(3)>> \in StageInput[4]
  <2>1. Serial(3) \in Nat
    BY <1>2, CaseFacts, StageFacts, SomethingThere DEF Serial, Good, Sealed, WorkflowInv
  <2> QED
    BY <2>1 DEF StageInput
<1>5. InputFits(target, input)'
  BY <1>1, <1>3 DEF InputFits, callVars
<1>6. live' \in Finding
  BY <1>1, <1>2, FoundFacts
<1>7. pc' = "build" => BuildSound'
  <2>1. \A n \in Stages : n < 4 => n = 1 \/ n = 2 \/ n = 3
    BY DEF Stages
  <2>2. /\ target' = 4 /\ engine' = engine /\ sealed' = sealed /\ setting' = setting
        /\ sealed[Key][4] = None
    BY <1>1, <1>2 DEF dirVars, callVars, Sealed
  <2>3. \A n \in Stages : n < target' => Good(n)'
    BY <1>2, <1>3, <2>1, <2>2
  <2> QED
    <3>1. target' \in Stages /\ ~Sealed(target)'
      BY <1>3, <2>2, SomethingThere DEF Sealed
    <3>2. input' \in StageInput[target']
      BY <1>1, <1>4, <2>2
    <3>3. target' # 3
      BY <2>2
    <3>4. live' = sealed'[Key'][3].content \/ pc' = "refused"
      BY <1>1, <1>3, <2>2
    <3> QED
      BY <1>1, <1>2, <1>3, <1>5, <1>6, <2>2, <2>3, <3>1, <3>2, <3>3, <3>4 DEF BuildSound
<1>8. PlaceSound' /\ StageTypes'
  BY <1>1, <1>7, SomethingThere DEF PlaceSound, StageTypes
<1> QED
  BY <1>1, <1>8, StayedWithCase DEF callVars, WorkflowInv, CallTypes, Running

-----------------------------------------------------------------------------
(* Building a stage and putting it in place. *)

LEMMA ContentTyped ==
  ASSUME WorkflowInv, pc = "build"
  PROVE  /\ Content \in StageContent[target]
         /\ target = 1 => Content \in Nat
<1>1. /\ BuildSound /\ source \in Nat /\ cache \in Nat \cup {None} /\ rebuilt \in BOOLEAN
  BY DEF WorkflowInv, PlaceSound, WorldTypes, CallTypes, StageTypes
<1>2. target = 1 \/ target = 2 \/ target = 3 \/ target = 4
  BY <1>1 DEF BuildSound, Stages
<1>3. CASE target = 1
  <2>1. Content \in Nat
    BY <1>1, <1>3 DEF Content
  <2> QED
    BY <1>3, <2>1 DEF StageContent
<1>4. CASE target = 2
  <2>1. Content = (Key \in setting.investigable)
    BY <1>4 DEF Content
  <2>2. (Key \in setting.investigable) \in BOOLEAN
    OBVIOUS
  <2>3. Content \in BOOLEAN
    BY <2>1, <2>2
  <2> QED
    BY <1>4, <2>3 DEF StageContent
<1>5. CASE target = 3
  <2>1. Content \in Finding
    BY <1>1, <1>5 DEF Content, BuildSound
  <2> QED
    BY <1>5, <2>1 DEF StageContent
<1>6. CASE target = 4
  <2>1. live \in Finding
    BY <1>1, <1>6 DEF BuildSound
  <2>2. Content = [found |-> live, rebuilt |-> rebuilt]
    BY <1>6 DEF Content
  <2>3. Content \in [found : Finding, rebuilt : BOOLEAN]
    BY <1>1, <2>1, <2>2
  <2> QED
    BY <1>6, <2>3 DEF StageContent
<1> QED
  BY <1>2, <1>3, <1>4, <1>5, <1>6

LEMMA BuildInv ==
  ASSUME WorkflowInv, Build, UNCHANGED setting
  PROVE  WorkflowInv'
<1>1. /\ pc = "build" /\ pc' = "seal"
      /\ partial' = [partial EXCEPT ![Key][target] = Content]
      /\ cache' = IF target = 1 THEN Content ELSE cache
      /\ UNCHANGED <<sealed, record, attempts, serial, index, worldVars, order, at, engine>>
      /\ UNCHANGED <<ownCode, began, loads, outcomes, stageVars>>
  BY DEF Build, Goto
<1>2. BuildSound /\ target \in Stages /\ ~Sealed(target) /\ Key \in Cases
  BY <1>1, CaseFacts DEF WorkflowInv, PlaceSound, BuildSound
<1>3. /\ Key' = Key
      /\ \A n \in Stages : (Good(n)' <=> Good(n)) /\ (Sealed(n)' <=> Sealed(n))
      /\ \A n : Serial(n)' = Serial(n)
  BY <1>1, SameGood
<1>4. /\ DOMAIN partial = Cases /\ \A k \in Cases : DOMAIN partial[k] = Stages
  BY DEF WorkflowInv, DirTypes
<1>5. /\ DOMAIN partial' = Cases /\ \A k \in Cases : DOMAIN partial'[k] = Stages
      /\ partial'[Key][target] = Content
      /\ \A k \in Cases : \A s \in Stages :
           k # Key \/ s # target => partial'[k][s] = partial[k][s]
  BY <1>1, <1>2, <1>4
<1>6. DirTypes'
  <2>1. DirTypes
    BY DEF WorkflowInv
  <2> QED
    BY <1>1, <1>5, <2>1 DEF DirTypes
<1>7. DiskSound'
  <2>1. \A k : Untouched(k)' <=> Untouched(k)
    BY <1>1 DEF Untouched, Chained, Reproducible, ReportTold, RecordTold
  <2>2. DiskSound /\ UNCHANGED <<sealed, serial, tampered>>
    BY <1>1 DEF WorkflowInv, worldVars
  <2>3. \A k \in Cases : \A s \in Stages : sealed[k][s] # None =>
          /\ sealed[k][s].serial \in 1 .. serial[k]
          /\ partial'[k][s] = None
    BY <1>2, <1>5, <2>2 DEF DiskSound, Sealed
  <2>4. \A k \in Cases : ~tampered[k] => Untouched(k)
    BY <2>2 DEF DiskSound
  <2> QED
    BY <2>1, <2>2, <2>3, <2>4 DEF DiskSound
<1>8. OutcomesTrue'
  BY <1>1 DEF WorkflowInv, OutcomesTrue, worldVars
<1>9. WorldTypes' /\ StageTypes'
  BY <1>1 DEF WorkflowInv, WorldTypes, StageTypes, worldVars, stageVars, Running
<1>10. CallTypes'
  BY <1>1, ContentTyped DEF WorkflowInv, CallTypes
<1>11. BuildSound'
  <2>1. UNCHANGED <<target, input, live, rebuilt, engine, ownCode, sealed, setting>>
    BY <1>1 DEF stageVars
  <2>2. \A s, p : InputFits(s, p)' <=> InputFits(s, p)
    BY <1>3, <2>1 DEF InputFits
  <2>3. Sealed(target)' <=> Sealed(target)
    BY <1>3, <2>1 DEF Sealed
  <2> QED
    BY <1>2, <1>3, <2>1, <2>2, <2>3, SomethingThere DEF BuildSound
<1>12. PlaceSound'
  <2>1. UNCHANGED <<target, live, rebuilt>>
    BY <1>1 DEF stageVars
  <2>2. partial'[Key'][target'] = Content /\ Content \in StageContent[target]
    BY <1>1, <1>3, <1>5, <2>1, ContentTyped
  <2>3. /\ target = 3 => Content = live
        /\ target = 4 => Content = [found |-> live, rebuilt |-> rebuilt]
    BY DEF Content
  <2> QED
    BY <1>1, <1>11, <2>1, <2>2, <2>3 DEF PlaceSound
<1> QED
  BY <1>6, <1>7, <1>8, <1>9, <1>10, <1>12 DEF WorkflowInv

\* The stage that is renamed into place, and nothing else.
LEMMA SealFacts ==
  ASSUME WorkflowInv, Seal
  PROVE  /\ BuildSound /\ Key \in Cases /\ Key' = Key
         /\ UNCHANGED <<record, attempts, index, worldVars, callVars, live, rebuilt>>
         /\ sealed'[Key][target] =
              [input |-> input, content |-> partial[Key][target],
               serial |-> serial[Key] + 1, intact |-> TRUE]
         /\ sealed'[Key][target] \in SealedStage(target)
         /\ serial'[Key] = serial[Key] + 1
         /\ partial'[Key][target] = None
         /\ DOMAIN sealed' = Cases /\ DOMAIN partial' = Cases
         /\ \A k \in Cases : DOMAIN sealed'[k] = Stages /\ DOMAIN partial'[k] = Stages
         /\ serial' \in [Cases -> Nat]
         /\ \A k \in Cases \ {Key} :
              /\ sealed'[k] = sealed[k] /\ serial'[k] = serial[k]
              /\ partial'[k] = partial[k]
         /\ \A s \in Stages \ {target} :
              sealed'[Key][s] = sealed[Key][s] /\ partial'[Key][s] = partial[Key][s]
<1>1. /\ pc = "seal"
      /\ sealed' = [sealed EXCEPT ![Key][target] =
                      [input |-> input, content |-> partial[Key][target],
                       serial |-> serial[Key] + 1, intact |-> TRUE]]
      /\ serial' = [serial EXCEPT ![Key] = @ + 1]
      /\ partial' = [partial EXCEPT ![Key][target] = None]
      /\ UNCHANGED <<record, attempts, index, worldVars, callVars, live, rebuilt>>
  BY DEF Seal
<1>2. /\ BuildSound /\ target \in Stages /\ Key \in Cases
      /\ partial[Key][target] \in StageContent[target]
      /\ input \in StageInput[target]
  BY <1>1, CaseFacts DEF WorkflowInv, PlaceSound, BuildSound
<1>3. /\ DOMAIN sealed = Cases /\ \A k \in Cases : DOMAIN sealed[k] = Stages
      /\ DOMAIN partial = Cases /\ \A k \in Cases : DOMAIN partial[k] = Stages
      /\ serial \in [Cases -> Nat]
  BY DEF WorkflowInv, DirTypes
<1>4. Key' = Key
  BY <1>1 DEF Key, callVars
<1>5. [input |-> input, content |-> partial[Key][target],
       serial |-> serial[Key] + 1, intact |-> TRUE] \in SealedStage(target)
  BY <1>2, <1>3 DEF SealedStage
<1>6. /\ sealed'[Key][target] =
           [input |-> input, content |-> partial[Key][target],
            serial |-> serial[Key] + 1, intact |-> TRUE]
      /\ DOMAIN sealed' = Cases
      /\ \A k \in Cases : DOMAIN sealed'[k] = Stages
      /\ \A k \in Cases \ {Key} : sealed'[k] = sealed[k]
      /\ \A s \in Stages \ {target} : sealed'[Key][s] = sealed[Key][s]
  BY <1>1, <1>2, <1>3
<1>7. /\ partial'[Key][target] = None
      /\ DOMAIN partial' = Cases
      /\ \A k \in Cases : DOMAIN partial'[k] = Stages
      /\ \A k \in Cases \ {Key} : partial'[k] = partial[k]
      /\ \A s \in Stages \ {target} : partial'[Key][s] = partial[Key][s]
  BY <1>1, <1>2, <1>3
<1>8. /\ serial'[Key] = serial[Key] + 1 /\ serial' \in [Cases -> Nat]
      /\ \A k \in Cases \ {Key} : serial'[k] = serial[k]
  BY <1>1, <1>2, <1>3
<1> QED
  BY <1>1, <1>2, <1>4, <1>5, <1>6, <1>7, <1>8

\* What was good stays good, and the stage in place is good too.
LEMMA SealGood ==
  ASSUME WorkflowInv, Seal
  PROVE  /\ \A s \in Stages : s <= target => Good(s)'
         /\ \A s \in Stages : s < target => Serial(s)' = Serial(s)
         /\ \A s \in Stages : s = target => Serial(s)' = serial[Key] + 1
<1>1. /\ BuildSound /\ Key \in Cases /\ Key' = Key /\ target \in Stages
      /\ UNCHANGED <<engine, ownCode>>
  BY SealFacts DEF callVars, BuildSound
<1>2. /\ sealed'[Key][target].input = input /\ sealed'[Key][target].intact
      /\ sealed'[Key][target].serial = serial[Key] + 1
      /\ sealed'[Key][target] # None
  <2>1. /\ sealed'[Key][target] =
             [input |-> input, content |-> partial[Key][target],
              serial |-> serial[Key] + 1, intact |-> TRUE]
        /\ sealed'[Key][target] \in SealedStage(target)
    BY SealFacts
  <2>2. sealed'[Key][target] # None
    BY <1>1, <2>1, SomethingThere
  <2> QED
    BY <2>1, <2>2
<1>3. \A s \in Stages : s < target => sealed'[Key][s] = sealed[Key][s]
  BY <1>1, SealFacts DEF Stages
<1>4. \A s \in Stages : s < target => sealed'[Key'][s].serial = Serial(s)
  BY <1>1, <1>3 DEF Serial
<1>5. \A s \in Stages : \A p : s <= target /\ InputFits(s, p) => InputFits(s, p)'
  <2> SUFFICES ASSUME NEW s \in Stages, NEW p, s <= target, InputFits(s, p)
               PROVE  InputFits(s, p)'
    OBVIOUS
  <2>1. s = 1 \/ s = 2 \/ s = 3 \/ s = 4
    BY DEF Stages
  <2>2. CASE s = 1
    BY <1>1, <2>2 DEF InputFits
  <2>3. CASE s = 2
    <3>1. Serial(1)' = Serial(1)
      BY <1>1, <1>4, <2>3 DEF Serial, Stages
    <3> QED
      BY <3>1, <2>3 DEF InputFits
  <2>4. CASE s = 3
    <3>1. Serial(2)' = Serial(2)
      BY <1>1, <1>4, <2>4 DEF Serial, Stages
    <3> QED
      BY <1>1, <3>1, <2>4 DEF InputFits
  <2>5. CASE s = 4
    <3>1. Serial(3)' = Serial(3)
      BY <1>1, <1>4, <2>5 DEF Serial, Stages
    <3> QED
      BY <3>1, <2>5 DEF InputFits
  <2> QED
    BY <2>1, <2>2, <2>3, <2>4, <2>5
<1>6. ASSUME NEW s \in Stages, s < target
      PROVE  Good(s)'
  <2>1. Good(s)
    BY <1>1, <1>6 DEF BuildSound
  <2>2. /\ sealed[Key][s] # None /\ sealed[Key][s].intact
        /\ InputFits(s, sealed[Key][s].input)
    BY <2>1 DEF Good, Sealed
  <2>3. InputFits(s, sealed[Key][s].input)'
    <3>1. PICK p : p = sealed[Key][s].input
      OBVIOUS
    <3>2. InputFits(s, p)'
      BY <1>1, <1>5, <1>6, <2>2, <3>1 DEF Stages
    <3>3. sealed'[Key'][s].input = p
      BY <1>1, <1>3, <1>6, <3>1
    <3> QED
      BY <3>2, <3>3 DEF InputFits
  <2> QED
    BY <1>1, <1>3, <1>6, <2>2, <2>3 DEF Good, Sealed
<1>7. \A s \in Stages : s = target => Good(s)'
  <2>1. PICK t : t = target
    OBVIOUS
  <2>2. PICK p : p = input
    OBVIOUS
  <2>3. t \in Stages /\ InputFits(t, p) /\ t <= target
    BY <1>1, <2>1, <2>2 DEF BuildSound, Stages
  <2>4. InputFits(t, p)'
    BY <1>5, <2>3
  <2>5. /\ sealed'[Key'][t].input = p /\ sealed'[Key'][t].intact
        /\ sealed'[Key'][t] # None
    BY <1>1, <1>2, <2>1, <2>2
  <2>6. Good(t)'
    BY <2>4, <2>5 DEF Good, Sealed, InputFits
  <2> QED
    BY <2>1, <2>6
<1>8. \A s \in Stages : s <= target => s < target \/ s = target
  BY <1>1 DEF Stages
<1>9. \A s \in Stages : s = target => Serial(s)' = serial[Key] + 1
  BY <1>1, <1>2 DEF Serial
<1>10. \A s \in Stages : s < target => Serial(s)' = Serial(s)
  BY <1>4 DEF Serial
<1> QED
  BY <1>6, <1>7, <1>8, <1>9, <1>10

\* A stage is put in place after the ones before it and before the ones after it.
LEMMA NothingAfter ==
  ASSUME WorkflowInv, BuildSound, Key \in Cases, Chained(Key)
  PROVE  \A s \in Stages : s >= target => sealed[Key][s] = None
<1>1. target \in Stages /\ sealed[Key][target] = None
  BY DEF BuildSound, Sealed
<1>2. \A s \in 2 .. 4 : sealed[Key][s] # None => sealed[Key][s - 1] # None
  BY DEF Chained
<1>3. /\ sealed[Key][2] # None => sealed[Key][1] # None
      /\ sealed[Key][3] # None => sealed[Key][2] # None
      /\ sealed[Key][4] # None => sealed[Key][3] # None
  <2>1. /\ sealed[Key][2] # None => sealed[Key][2 - 1] # None
        /\ sealed[Key][3] # None => sealed[Key][3 - 1] # None
        /\ sealed[Key][4] # None => sealed[Key][4 - 1] # None
    BY <1>2
  <2>2. 2 - 1 = 1 /\ 3 - 1 = 2 /\ 4 - 1 = 3
    OBVIOUS
  <2> QED
    BY <2>1, <2>2
<1>4. target = 1 \/ target = 2 \/ target = 3 \/ target = 4
  BY <1>1 DEF Stages
<1>5. \A s \in Stages : s = 1 \/ s = 2 \/ s = 3 \/ s = 4
  BY DEF Stages
<1> QED
  BY <1>1, <1>3, <1>4, <1>5

LEMMA SealUntouched ==
  ASSUME WorkflowInv, Seal, UNCHANGED setting, ~tampered[Key]
  PROVE  Untouched(Key)'
<1>1. /\ BuildSound /\ Key \in Cases /\ Key' = Key /\ target \in Stages
      /\ UNCHANGED <<record, engine, live, rebuilt>>
  BY SealFacts DEF callVars, BuildSound
<1>2. Untouched(Key)
  BY <1>1 DEF WorkflowInv, DiskSound
<1>3. \A s \in Stages : s >= target => sealed[Key][s] = None
  BY <1>1, <1>2, NothingAfter DEF Untouched
<1>4. PICK K : K = Key
  OBVIOUS
<1>5. PICK t : t = target
  OBVIOUS
<1>6. K \in Cases /\ t \in Stages /\ Key' = K
  BY <1>1, <1>4, <1>5
<1>7. /\ \A s \in Stages : s < t => sealed'[K][s] = sealed[K][s] /\ sealed[K][s] # None
      /\ \A s \in Stages : s > t => sealed'[K][s] = None
      /\ sealed'[K][t] # None
      /\ sealed'[K][t].intact
      /\ sealed'[K][t].input = input /\ sealed'[K][t].content = partial[K][t]
  <2>1. \A s \in Stages : s < t => sealed[K][s] # None
    BY <1>1, <1>4, <1>5 DEF BuildSound, Good, Sealed
  <2>2. \A s \in Stages \ {t} : sealed'[K][s] = sealed[K][s]
    BY <1>4, <1>5, SealFacts
  <2>3. /\ sealed'[K][t] \in SealedStage(t)
        /\ sealed'[K][t] = [input |-> input, content |-> partial[K][t],
                            serial |-> serial[K] + 1, intact |-> TRUE]
    BY <1>4, <1>5, SealFacts
  <2>4. sealed'[K][t] # None
    BY <1>6, <2>3, SomethingThere
  <2>5. \A s \in Stages : (s < t => s \in Stages \ {t} /\ ~(s > t)) /\ (s > t => s \in Stages \ {t} /\ s >= t)
    BY <1>6 DEF Stages
  <2>6. \A s \in Stages : s > t => sealed[K][s] = None
    BY <1>3, <1>4, <1>5, <2>5
  <2> QED
    BY <2>1, <2>2, <2>3, <2>4, <2>5, <2>6
<1>8. t = 1 \/ t = 2 \/ t = 3 \/ t = 4
  BY <1>6 DEF Stages
<1>9. Chained(K)'
  <2>1. \A s \in 2 .. 4 : s \in Stages /\ s - 1 \in Stages /\ s - 1 < s /\ s > 1
    BY DEF Stages
  <2>2. \A s \in 2 .. 4 : s < t => s - 1 < t
    BY <1>6 DEF Stages
  <2>3. Chained(K)
    BY <1>2, <1>4 DEF Untouched
  <2>4. ASSUME NEW s \in 2 .. 4, sealed'[K][s] # None
        PROVE  sealed'[K][s - 1] # None /\ sealed'[K][s].input[1] = sealed'[K][s - 1].serial
    <3>1. s < t \/ s = t
      BY <1>6, <1>7, <2>1, <2>4 DEF Stages
    <3>2. CASE s < t
      BY <1>7, <2>1, <2>2, <2>3, <3>2 DEF Chained
    <3>3. CASE s = t
      <4>1. InputFits(t, input)
        BY <1>1, <1>5 DEF BuildSound
      <4>2. t = 2 \/ t = 3 \/ t = 4
        BY <3>3
      <4>3. input[1] = Serial(t - 1)
        <5>1. CASE t = 2
          <6>1. input = <<Serial(1)>> /\ t - 1 = 1
            BY <4>1, <5>1 DEF InputFits
          <6> QED
            BY <6>1
        <5>2. CASE t = 3
          <6>1. input = <<Serial(2), engine>> /\ t - 1 = 2
            BY <4>1, <5>2 DEF InputFits
          <6> QED
            BY <6>1
        <5>3. CASE t = 4
          <6>1. input = <<Serial(3)>> /\ t - 1 = 3
            BY <4>1, <5>3 DEF InputFits
          <6> QED
            BY <6>1
        <5> QED
          BY <4>2, <5>1, <5>2, <5>3
      <4>4. Serial(t - 1) = sealed[K][t - 1].serial
        BY <1>4 DEF Serial
      <4>5. t - 1 \in Stages /\ t - 1 < t
        BY <2>1, <3>3
      <4> QED
        BY <1>7, <3>3, <4>3, <4>4, <4>5
    <3> QED
      BY <3>1, <3>2, <3>3
  <2>5. ASSUME NEW s \in Stages, sealed'[K][s] # None
        PROVE  sealed'[K][s].intact
    <3>1. s < t \/ s = t \/ s > t
      BY <1>6 DEF Stages
    <3> QED
      BY <1>7, <2>3, <2>5, <3>1 DEF Chained
  <2> QED
    BY <2>4, <2>5 DEF Chained
<1>10. Reproducible(K)'
  <2>1. CASE t = 3
    <3>1. pc = "seal" /\ partial[K][3] = live
      BY <1>4, <1>5, <2>1 DEF Seal, WorkflowInv, PlaceSound
    <3>2. input[2] = engine
      BY <1>1, <1>5, <2>1 DEF BuildSound, InputFits
    <3>3. engine = "deterministic" => FoundIn(live, sealed[K][1].content)
      BY <1>1, <1>4, <1>5, <2>1 DEF BuildSound
    <3>4. sealed'[K][1] = sealed[K][1]
      BY <1>7, <2>1 DEF Stages
    <3> QED
      BY <1>7, <2>1, <3>1, <3>2, <3>3, <3>4 DEF Reproducible, FoundIn
  <2>2. CASE t = 4
    <3>1. sealed'[K][3] = sealed[K][3] /\ sealed'[K][1] = sealed[K][1]
      BY <1>7, <2>2 DEF Stages
    <3> QED
      BY <1>2, <1>4, <3>1 DEF Untouched, Reproducible, FoundIn
  <2>3. CASE t = 1 \/ t = 2
    <3>1. sealed'[K][3] = None
      BY <1>7, <2>3 DEF Stages
    <3> QED
      BY <3>1 DEF Reproducible
  <2> QED
    BY <1>8, <2>1, <2>2, <2>3
<1>11. ReportTold(K)'
  <2>1. CASE t = 4
    <3>1. /\ pc = "seal" /\ partial[K][4] = [found |-> live, rebuilt |-> rebuilt]
      BY <1>4, <1>5, <2>1 DEF Seal, WorkflowInv, PlaceSound
    <3>2. /\ live = sealed[K][3].content
          /\ rebuilt => engine = "deterministic"
          /\ K \in setting.investigable
      BY <1>1, <1>4, <1>5, <2>1 DEF BuildSound
    <3>3. sealed[K][3].input[2] = engine
      <4>1. Good(3)
        BY <1>1, <1>5, <2>1 DEF BuildSound, Stages
      <4> QED
        BY <1>4, <4>1 DEF Good, InputFits
    <3>4. sealed'[K][3] = sealed[K][3]
      BY <1>7, <2>1 DEF Stages
    <3>5. sealed'[K][4].content.found = live /\ sealed'[K][4].content.rebuilt = rebuilt
      BY <1>7, <2>1, <3>1
    <3> QED
      BY <3>2, <3>3, <3>4, <3>5 DEF ReportTold
  <2>2. CASE t # 4
    <3>1. sealed'[K][4] = None
      BY <1>7, <1>8, <2>2 DEF Stages
    <3> QED
      BY <3>1 DEF ReportTold
  <2> QED
    BY <2>1, <2>2
<1>12. RecordTold(K)'
  <2>1. record[K] = None
    <3>1. SUFFICES ASSUME record[K] # None
                   PROVE  FALSE
      OBVIOUS
    <3>2. /\ DOMAIN record[K].stages = IF K \in setting.investigable THEN Stages ELSE {1, 2}
          /\ \A s \in DOMAIN record[K].stages : sealed[K][s] # None
      BY <1>2, <1>4, <3>1 DEF Untouched, RecordTold
    <3>3. t \in {3, 4} => K \in setting.investigable
      BY <1>1, <1>4, <1>5 DEF BuildSound
    <3>4. t \in DOMAIN record[K].stages
      BY <1>6, <1>8, <3>2, <3>3
    <3>5. sealed[K][t] = None
      BY <1>1, <1>4, <1>5 DEF BuildSound, Sealed
    <3> QED
      BY <3>2, <3>4, <3>5
  <2> QED
    BY <1>1, <2>1 DEF RecordTold
<1> QED
  <2>1. Untouched(K)'
    BY <1>9, <1>10, <1>11, <1>12 DEF Untouched
  <2> QED
    BY <1>6, <2>1 DEF Untouched, Chained, Reproducible, ReportTold, RecordTold

LEMMA SealPlaces ==
  ASSUME WorkflowInv, Seal, UNCHANGED setting
  PROVE  StageTypes' /\ PlaceSound' /\ pc' \in Running
<1>1. /\ BuildSound /\ Key \in Cases /\ Key' = Key /\ target \in Stages
      /\ UNCHANGED <<engine, ownCode, live, rebuilt>>
  BY SealFacts DEF callVars, BuildSound
<1>2. /\ pc = "seal"
      /\ pc' = CASE target = 1 -> "seed"
                 [] target = 2 -> AfterSeed
                 [] target = 3 -> "build"
                 [] target = 4 -> "record"
      /\ target' = IF target = 3 THEN 4 ELSE None
      /\ input' = IF target = 3 THEN <<serial[Key] + 1>> ELSE None
  BY DEF Seal, Goto
<1>3. \A s \in Stages : s <= target => Good(s)'
  BY SealGood
<1>4. target = 1 \/ target = 2 \/ target = 3 \/ target = 4
  BY <1>1 DEF Stages
<1>5. /\ 1 \in Stages /\ 2 \in Stages /\ 3 \in Stages /\ 4 \in Stages
      /\ 1 <= target
  BY <1>1 DEF Stages
<1>6. /\ target = 1 => pc' = "seed"
      /\ target = 2 => pc' = AfterSeed
      /\ target = 3 => pc' = "build" /\ target' = 4 /\ input' = <<serial[Key] + 1>>
      /\ target = 4 => pc' = "record"
  BY <1>2
<1>7. StageTypes'
  BY <1>1, <1>2, SomethingThere DEF WorkflowInv, StageTypes
<1>8. AfterSeed \in {"investigation", "record"}
  BY DEF AfterSeed
<1>9. pc' \in Running
  BY <1>2, <1>4, <1>8 DEF Running
<1>10. PlaceSound'
  <2>1. CASE target = 1
    <3>1. Good(1)' /\ pc' = "seed"
      BY <1>3, <1>5, <1>6, <2>1
    <3> QED
      BY <3>1 DEF PlaceSound
  <2>2. CASE target = 2
    <3>1. Good(1)' /\ Good(2)' /\ pc' = AfterSeed
      BY <1>3, <1>5, <1>6, <2>2
    <3>2. AfterSeed = IF Key' \in setting'.investigable THEN "investigation" ELSE "record"
      BY <1>1 DEF AfterSeed
    <3> QED
      BY <3>1, <3>2 DEF PlaceSound, Named
  <2>3. CASE target = 4
    <3>1. /\ Good(1)' /\ Good(2)' /\ Good(3)' /\ Good(4)'
          /\ pc' = "record"
      BY <1>3, <1>5, <1>6, <2>3
    <3>2. \A s \in Named' : s = 1 \/ s = 2 \/ s = 3 \/ s = 4
      BY DEF Named, Stages
    <3>3. \A s \in Named' : Good(s)'
      BY <3>1, <3>2
    <3> QED
      BY <3>1, <3>3 DEF PlaceSound
  <2>4. CASE target = 3
    <3>1. /\ Good(1)' /\ Good(2)' /\ Good(3)'
          /\ pc' = "build" /\ target' = 4 /\ input' = <<serial[Key] + 1>>
      BY <1>3, <1>5, <1>6, <2>4
    <3>2. BuildSound'
      <4>1. \A s \in Stages : s < target' => Good(s)'
        <5>1. \A s \in Stages : s < 4 => s = 1 \/ s = 2 \/ s = 3
          BY DEF Stages
        <5> QED
          BY <3>1, <5>1
      <4>2. /\ sealed[Key][4] = None /\ partial[Key][3] = live /\ ~rebuilt
            /\ Key \in setting.investigable /\ live \in Finding
        BY <1>1, <1>2, <2>4 DEF BuildSound, Sealed, WorkflowInv, PlaceSound
      <4>3. sealed'[Key'][4] = None
        <5>1. 4 \in Stages \ {target}
          BY <2>4 DEF Stages
        <5> QED
          BY <1>1, <4>2, <5>1, SealFacts
      <4>4. ~Sealed(target)'
        BY <3>1, <4>3 DEF Sealed
      <4>5. Serial(3)' = serial[Key] + 1
        BY <2>4, SealGood, SomethingThere
      <4>6. InputFits(target, input)'
        BY <3>1, <4>5 DEF InputFits
      <4>7. input' \in StageInput[target']
        <5>1. serial[Key] \in Nat
          BY <1>1 DEF WorkflowInv, DirTypes
        <5> QED
          BY <3>1, <5>1 DEF StageInput
      <4>8. live' = sealed'[Key'][3].content
        BY <1>1, <2>4, <4>2, SealFacts
      <4>9. target' # 3 /\ target' \in Stages
        BY <1>5, <3>1
      <4>10. ~rebuilt' /\ live' \in Finding /\ Key' \in setting'.investigable
        BY <1>1, <4>2
      <4> QED
        BY <4>1, <4>4, <4>6, <4>7, <4>8, <4>9, <4>10 DEF BuildSound
    <3> QED
      BY <3>1, <3>2 DEF PlaceSound
  <2> QED
    BY <1>4, <2>1, <2>2, <2>3, <2>4
<1> QED
  BY <1>7, <1>9, <1>10

LEMMA SealInv ==
  ASSUME WorkflowInv, Seal, UNCHANGED setting
  PROVE  WorkflowInv'
<1>1. /\ BuildSound /\ Key \in Cases /\ target \in Stages
      /\ UNCHANGED <<record, attempts, index, worldVars, callVars, live, rebuilt>>
      /\ \A k \in Cases \ {Key} :
           /\ sealed'[k] = sealed[k] /\ serial'[k] = serial[k]
           /\ partial'[k] = partial[k]
  BY SealFacts DEF BuildSound
<1>2. DirTypes'
  <2>1. DirTypes
    BY DEF WorkflowInv
  <2>2. \A k \in Cases : \A s \in Stages : sealed'[k][s] \in SealedStage(s) \cup {None}
    <3> SUFFICES ASSUME NEW k \in Cases, NEW s \in Stages
                 PROVE  sealed'[k][s] \in SealedStage(s) \cup {None}
      OBVIOUS
    <3>1. CASE k # Key
      BY <1>1, <2>1, <3>1 DEF DirTypes
    <3>2. CASE k = Key /\ s # target
      <4>1. sealed'[k][s] = sealed[k][s]
        BY <3>2, SealFacts
      <4> QED
        BY <2>1, <4>1 DEF DirTypes
    <3>3. CASE k = Key /\ s = target
      <4>1. sealed'[Key][target] \in SealedStage(target)
        BY SealFacts
      <4> QED
        BY <3>3, <4>1
    <3> QED
      BY <3>1, <3>2, <3>3
  <2>3. /\ DOMAIN sealed' = Cases /\ DOMAIN partial' = Cases
        /\ \A k \in Cases : DOMAIN sealed'[k] = Stages /\ DOMAIN partial'[k] = Stages
        /\ serial' \in [Cases -> Nat]
    BY SealFacts
  <2> QED
    BY <1>1, <2>1, <2>2, <2>3 DEF DirTypes
<1>3. DiskSound'
  <2>1. DiskSound /\ UNCHANGED tampered /\ serial \in [Cases -> Nat]
    BY <1>1 DEF WorkflowInv, worldVars, DirTypes
  <2>2. ASSUME NEW k \in Cases, ~tampered[k]
        PROVE  Untouched(k)'
    <3>1. CASE k = Key
      <4>1. Untouched(Key)' /\ Key' = Key
        BY <2>2, <3>1, SealUntouched, SealFacts
      <4> QED
        BY <3>1, <4>1 DEF Untouched, Chained, Reproducible, ReportTold, RecordTold
    <3>2. CASE k # Key
      <4>1. Untouched(k)
        BY <2>1, <2>2 DEF DiskSound
      <4>2. sealed'[k] = sealed[k] /\ UNCHANGED record
        BY <1>1, <3>2
      <4> QED
        BY <4>1, <4>2 DEF Untouched, Chained, Reproducible, ReportTold, RecordTold
    <3> QED
      BY <3>1, <3>2
  <2>3. ASSUME NEW k \in Cases, NEW s \in Stages, sealed'[k][s] # None
        PROVE  sealed'[k][s].serial \in 1 .. serial'[k] /\ partial'[k][s] = None
    <3>1. CASE k # Key
      BY <1>1, <2>1, <2>3, <3>1 DEF DiskSound
    <3>2. CASE k = Key /\ s # target
      <4>1. /\ sealed'[k][s] = sealed[k][s] /\ partial'[k][s] = partial[k][s]
            /\ serial'[k] = serial[k] + 1
        BY <3>2, SealFacts
      <4>2. sealed[k][s].serial \in 1 .. serial[k] /\ partial[k][s] = None
        BY <2>1, <2>3, <4>1 DEF DiskSound
      <4>3. serial[k] \in Nat
        BY <2>1
      <4> QED
        BY <4>1, <4>2, <4>3
    <3>3. CASE k = Key /\ s = target
      <4>1. /\ sealed'[k][s] = [input |-> input, content |-> partial[Key][target],
                                serial |-> serial[Key] + 1, intact |-> TRUE]
            /\ partial'[k][s] = None
            /\ serial'[k] = serial[k] + 1
        BY <3>3, SealFacts
      <4>2. serial[k] \in Nat
        BY <2>1
      <4>3. sealed'[k][s].serial = serial[k] + 1
        BY <3>3, <4>1
      <4> QED
        BY <4>1, <4>2, <4>3
    <3> QED
      BY <3>1, <3>2, <3>3
  <2> QED
    BY <2>1, <2>2, <2>3 DEF DiskSound
<1>4. OutcomesTrue'
  BY <1>1 DEF WorkflowInv, OutcomesTrue, worldVars, callVars
<1>5. CallTypes'
  BY <1>1 DEF WorkflowInv, CallTypes, callVars
<1>6. WorldTypes'
  BY <1>1, SealPlaces DEF WorkflowInv, WorldTypes, worldVars
<1> QED
  BY <1>2, <1>3, <1>4, <1>5, <1>6, SealPlaces DEF WorkflowInv

-----------------------------------------------------------------------------
(* The end of a case. *)

\* The next case is another one of the batch, and nothing is under way for it.
LEMMA Returned ==
  ASSUME WorkflowInv, NEW outcome \in Outcome, Return(outcome),
         UNCHANGED <<setting, worldVars, order, engine, ownCode, cache, loads>>
  PROVE  /\ WorldTypes' /\ CallTypes' /\ StageTypes' /\ PlaceSound'
         /\ outcomes' = [outcomes EXCEPT ![Key] = outcome]
<1>1. /\ outcomes' = [outcomes EXCEPT ![Key] = outcome]
      /\ \/ pc' = "check" /\ at < Len(order) /\ at' = at + 1
         \/ pc' = "index" /\ UNCHANGED at
      /\ target' = None /\ rebuilt' = FALSE
  BY DEF Return, Goto, ForgetStage
<1>2. /\ order \in Seq(Cases) /\ Key \in Cases /\ at \in 1 .. Len(order) /\ Len(order) \in Nat
      /\ WorldTypes /\ CallTypes
  BY CaseFacts DEF WorkflowInv
<1>3. at' \in DOMAIN order
  <2>1. at' \in 1 .. Len(order)
    BY <1>1, <1>2
  <2> QED
    BY <1>2, <2>1
<1>4. outcomes' \in [Cases -> Outcome \cup {None}]
  BY <1>1, <1>2 DEF CallTypes
<1>5. CallTypes'
  BY <1>2, <1>3, <1>4 DEF CallTypes
<1>6. WorldTypes'
  BY <1>1, <1>2 DEF WorldTypes, worldVars, Running
<1>7. StageTypes' /\ PlaceSound'
  BY <1>1 DEF StageTypes, PlaceSound
<1> QED
  BY <1>1, <1>5, <1>6, <1>7

LEMMA GuardBlocksInv ==
  ASSUME WorkflowInv, GuardBlocks, UNCHANGED setting
  PROVE  WorkflowInv'
<1>1. /\ attempts[Key] < MaxBlocks
      /\ attempts' = [attempts EXCEPT ![Key] = @ + 1]
      /\ Return("blocked")
      /\ UNCHANGED <<sealed, partial, record, serial, index, worldVars>>
      /\ UNCHANGED <<order, engine, ownCode, began, cache, loads>>
  BY DEF GuardBlocks
<1>2. /\ WorldTypes' /\ CallTypes' /\ StageTypes' /\ PlaceSound'
      /\ outcomes' = [outcomes EXCEPT ![Key] = "blocked"]
  BY <1>1, Returned DEF Outcome
<1>3. /\ Key \in Cases /\ MaxBlocks \in Nat
      /\ attempts \in [Cases -> 0 .. MaxBlocks]
      /\ outcomes \in [Cases -> Outcome \cup {None}]
  BY CaseFacts DEF WorkflowInv, DirTypes, CallTypes, WorkflowAssumption
<1>4. attempts' \in [Cases -> 0 .. MaxBlocks]
  BY <1>1, <1>3
<1>5. \A k \in Cases : attempts'[k] >= attempts[k]
  <2>1. \A k \in Cases : attempts[k] \in Nat /\ attempts'[k] = IF k = Key THEN attempts[k] + 1 ELSE attempts[k]
    BY <1>1, <1>3
  <2> QED
    BY <2>1
<1>6. DirTypes'
  BY <1>1, <1>4 DEF WorkflowInv, DirTypes
<1>7. DiskSound'
  <2>1. \A k : Untouched(k)' <=> Untouched(k)
    BY <1>1 DEF Untouched, Chained, Reproducible, ReportTold, RecordTold
  <2> QED
    BY <1>1, <2>1 DEF WorkflowInv, DiskSound, worldVars
<1>8. OutcomesTrue'
  <2>1. OutcomesTrue
    BY DEF WorkflowInv
  <2>2. attempts'[Key] > 0
    BY <1>1, <1>3
  <2>3. \A k \in Cases : attempts[k] \in Nat /\ attempts'[k] \in Nat
    BY <1>3, <1>4
  <2>4. \A k \in Cases : attempts[k] > 0 => attempts'[k] > 0
    BY <1>5, <2>3
  <2>5. \A k \in Cases : outcomes'[k] = IF k = Key THEN "blocked" ELSE outcomes[k]
    BY <1>2, <1>3
  <2>6. UNCHANGED <<record, setting, index, tampered>>
    BY <1>1 DEF worldVars
  <2> QED
    BY <2>1, <2>2, <2>4, <2>5, <2>6 DEF OutcomesTrue
<1> QED
  BY <1>2, <1>6, <1>7, <1>8 DEF WorkflowInv

\* What run.json says of the stages as they stand.
LEMMA RecordFacts ==
  ASSUME WorkflowInv, pc = "record"
  PROVE  /\ Key \in Cases
         /\ \A s \in Named : Good(s)
         /\ RunRecord.intact
         /\ DOMAIN RunRecord.stages = Named
         /\ \A s \in Named : RunRecord.stages[s] = sealed[Key][s].serial
         /\ Key \in setting.investigable => RunRecord.verdict = sealed[Key][4].content.found
         /\ RunRecord \in RunFile /\ RunRecord # None
         /\ RunOutcome \in Outcome
<1>1. /\ Key \in Cases /\ \A s \in Named : Good(s)
  BY CaseFacts DEF WorkflowInv, PlaceSound
<1>2. \A s \in Named : s \in Stages
  BY DEF Named, Stages
<1>3. \A s \in Named : Serial(s) \in Nat
  BY <1>1, <1>2, StageFacts DEF WorkflowInv, Good, Sealed, Serial
<1>4. [s \in Named |-> Serial(s)] \in [Stages -> Nat] \cup [{1, 2} -> Nat]
  <2>1. [s \in Named |-> Serial(s)] \in [Named -> Nat]
    BY <1>3
  <2>2. Named = Stages \/ Named = {1, 2}
    BY DEF Named
  <2> QED
    BY <2>1, <2>2
<1>5. Key \in setting.investigable => sealed[Key][4].content.found \in Finding
  <2>1. SUFFICES ASSUME Key \in setting.investigable
                 PROVE  sealed[Key][4].content.found \in Finding
    OBVIOUS
  <2>2. Good(4) /\ 4 \in Stages
    BY <1>1, <2>1 DEF Named, Stages
  <2>3. sealed[Key][4].content \in StageContent[4]
    BY <1>1, <2>2, StageFacts DEF WorkflowInv, Good, Sealed
  <2>4. sealed[Key][4].content \in [found : Finding, rebuilt : BOOLEAN]
    BY <2>3 DEF StageContent
  <2> QED
    BY <2>4
<1>6. (IF Key \in setting.investigable THEN sealed[Key][4].content.found ELSE None)
        \in Finding \cup {None}
  BY <1>5
<1>7. RunRecord \in RunFile
  BY <1>4, <1>6 DEF RunRecord, RunFile
<1>8. RunRecord # None
  BY <1>7, SomethingThere
<1>9. /\ RunRecord.stages = [s \in Named |-> Serial(s)]
      /\ RunRecord.intact
      /\ Key \in setting.investigable => RunRecord.verdict = sealed[Key][4].content.found
  BY DEF RunRecord
<1>10. RunOutcome \in Outcome
  BY DEF RunOutcome, Outcome
<1>11. \A s \in Named : RunRecord.stages[s] = sealed[Key][s].serial
  BY <1>9 DEF Serial
<1> QED
  BY <1>1, <1>7, <1>8, <1>9, <1>10, <1>11

LEMMA WriteRecordInv ==
  ASSUME WorkflowInv, WriteRecord, UNCHANGED setting
  PROVE  WorkflowInv'
<1>1. /\ pc = "record" /\ record[Key] = None
      /\ record' = [record EXCEPT ![Key] = RunRecord]
      /\ Return(RunOutcome)
      /\ UNCHANGED <<sealed, partial, attempts, serial, index, worldVars>>
      /\ UNCHANGED <<order, engine, ownCode, began, cache, loads>>
  BY DEF WriteRecord
<1>2. /\ WorldTypes' /\ CallTypes' /\ StageTypes' /\ PlaceSound'
      /\ outcomes' = [outcomes EXCEPT ![Key] = RunOutcome]
  BY <1>1, RecordFacts, Returned
<1>3. /\ Key \in Cases
      /\ record \in [Cases -> RunFile \cup {None}]
      /\ outcomes \in [Cases -> Outcome \cup {None}]
  BY CaseFacts DEF WorkflowInv, DirTypes, CallTypes
<1>4. PICK r : r = RunRecord
  OBVIOUS
<1>5. /\ r \in RunFile /\ r # None
      /\ r.intact /\ DOMAIN r.stages = Named
      /\ \A s \in Named : Good(s) /\ r.stages[s] = sealed[Key][s].serial
      /\ Key \in setting.investigable => r.verdict = sealed[Key][4].content.found
  BY <1>1, <1>4, RecordFacts
<1>6. /\ record' \in [Cases -> RunFile \cup {None}]
      /\ record'[Key] = r
      /\ \A k \in Cases : k # Key => record'[k] = record[k]
  BY <1>1, <1>3, <1>4, <1>5
<1>7. DirTypes'
  BY <1>1, <1>6 DEF WorkflowInv, DirTypes
<1>8. DiskSound'
  <2>1. /\ DiskSound /\ UNCHANGED <<setting, sealed, serial, partial, tampered>>
    BY <1>1 DEF WorkflowInv, worldVars
  <2>2. ASSUME NEW k \in Cases, ~tampered[k]
        PROVE  Untouched(k)'
    <3>1. Untouched(k)
      BY <2>1, <2>2 DEF DiskSound
    <3>2. Chained(k)' /\ Reproducible(k)' /\ ReportTold(k)'
      BY <2>1, <3>1 DEF Untouched, Chained, Reproducible, ReportTold
    <3>3. CASE k # Key
      BY <1>6, <2>1, <3>1, <3>2, <3>3 DEF Untouched, RecordTold
    <3>4. CASE k = Key
      <4>1. /\ k \in setting.investigable => Named = Stages
            /\ k \notin setting.investigable => Named = {1, 2}
        BY <3>4 DEF Named
      <4>2. \A s \in Named : sealed[k][s] # None
        BY <1>5, <3>4 DEF Good, Sealed
      <4>3. k \in setting.investigable => r.verdict = sealed[k][3].content
        <5>1. SUFFICES ASSUME k \in setting.investigable
                       PROVE  r.verdict = sealed[k][3].content
          OBVIOUS
        <5>2. sealed[k][4] # None
          BY <4>1, <4>2, <5>1 DEF Stages
        <5> QED
          BY <1>5, <3>1, <3>4, <5>1, <5>2 DEF Untouched, ReportTold
      <4>4. DOMAIN r.stages = IF k \in setting.investigable THEN Stages ELSE {1, 2}
        BY <1>5, <4>1
      <4>5. \A s \in DOMAIN r.stages : sealed[k][s] # None /\ r.stages[s] = sealed[k][s].serial
        BY <1>5, <3>4, <4>2
      <4>6. record'[k] = r /\ UNCHANGED <<setting, sealed>>
        BY <1>6, <2>1, <3>4
      <4>7. RecordTold(k)'
        BY <1>5, <4>3, <4>4, <4>5, <4>6 DEF RecordTold
      <4> QED
        BY <3>2, <4>7 DEF Untouched
    <3> QED
      BY <3>3, <3>4
  <2> QED
    BY <2>1, <2>2 DEF DiskSound
<1>9. OutcomesTrue'
  <2>1. OutcomesTrue /\ UNCHANGED <<setting, attempts, index, tampered>>
    BY <1>1 DEF WorkflowInv, worldVars
  <2>2. \A k \in Cases : record[k] # None => record'[k] # None
    BY <1>5, <1>6
  <2>3. \A k \in Cases : outcomes'[k] = IF k = Key THEN RunOutcome ELSE outcomes[k]
    BY <1>2, <1>3
  <2>4. RunOutcome = "complete" => Key \in setting.investigable
    BY DEF RunOutcome
  <2>5. RunOutcome # "blocked"
    BY DEF RunOutcome
  <2> QED
    BY <1>5, <1>6, <2>1, <2>2, <2>3, <2>4, <2>5 DEF OutcomesTrue
<1> QED
  BY <1>2, <1>7, <1>8, <1>9 DEF WorkflowInv

LEMMA CheckRecordInv ==
  ASSUME WorkflowInv, CheckRecord, UNCHANGED setting
  PROVE  WorkflowInv'
<1>1. /\ pc = "record" /\ record[Key] # None
      /\ \/ Return(RunOutcome)
         \/ pc' = "refused" /\ UNCHANGED <<at, outcomes, stageVars>>
      /\ UNCHANGED <<dirVars, worldVars>>
      /\ UNCHANGED <<order, engine, ownCode, began, cache, loads>>
  BY DEF CheckRecord, Refuse, Goto
<1>2. CASE Return(RunOutcome)
  <2>1. /\ WorldTypes' /\ CallTypes' /\ StageTypes' /\ PlaceSound'
        /\ outcomes' = [outcomes EXCEPT ![Key] = RunOutcome]
    BY <1>1, <1>2, RecordFacts, Returned
  <2>2. DirTypes'
    BY <1>1 DEF WorkflowInv, DirTypes, dirVars
  <2>3. DiskSound'
    <3>1. \A k : Untouched(k)' <=> Untouched(k)
      BY <1>1 DEF Untouched, Chained, Reproducible, ReportTold, RecordTold, dirVars
    <3> QED
      BY <1>1, <3>1 DEF WorkflowInv, DiskSound, dirVars, worldVars
  <2>4. OutcomesTrue'
    <3>1. OutcomesTrue /\ UNCHANGED <<setting, record, attempts, index, tampered>>
      BY <1>1 DEF WorkflowInv, worldVars, dirVars
    <3>2. outcomes \in [Cases -> Outcome \cup {None}]
      BY DEF WorkflowInv, CallTypes
    <3>3. \A k \in Cases : outcomes'[k] = IF k = Key THEN RunOutcome ELSE outcomes[k]
      BY <2>1, <3>2
    <3>4. /\ RunOutcome = "complete" => Key \in setting.investigable
          /\ RunOutcome # "blocked"
      BY DEF RunOutcome
    <3> QED
      BY <1>1, <3>1, <3>3, <3>4 DEF OutcomesTrue
  <2> QED
    BY <2>1, <2>2, <2>3, <2>4 DEF WorkflowInv
<1>3. CASE pc' = "refused" /\ UNCHANGED <<at, outcomes, stageVars>>
  <2>1. PlaceSound'
    BY <1>3 DEF PlaceSound
  <2>2. StageTypes'
    BY <1>3 DEF WorkflowInv, StageTypes, stageVars
  <2>3. loads' \in Nat
    BY <1>1 DEF WorkflowInv, CallTypes
  <2> QED
    BY <1>1, <1>3, <2>1, <2>2, <2>3, StayedWithCase
<1> QED
  BY <1>1, <1>2, <1>3

LEMMA WriteIndexInv ==
  ASSUME WorkflowInv, WriteIndex, UNCHANGED setting
  PROVE  WorkflowInv'
<1>1. /\ pc' = "off"
      /\ index' = IF Len(order) > 1 THEN outcomes ELSE index
      /\ UNCHANGED <<sealed, partial, record, attempts, serial, worldVars>>
      /\ UNCHANGED <<callVars, stageVars>>
  BY DEF WriteIndex, Goto
<1>2. index' \in [Cases -> Outcome \cup {None}]
  BY <1>1 DEF WorkflowInv, DirTypes, CallTypes
<1>3. DirTypes'
  BY <1>1, <1>2 DEF WorkflowInv, DirTypes
<1>4. DiskSound'
  <2>1. \A k : Untouched(k)' <=> Untouched(k)
    BY <1>1 DEF Untouched, Chained, Reproducible, ReportTold, RecordTold
  <2> QED
    BY <1>1, <2>1 DEF WorkflowInv, DiskSound, worldVars
<1>5. OutcomesTrue'
  <2>1. OutcomesTrue /\ UNCHANGED <<setting, record, attempts, outcomes, tampered>>
    BY <1>1 DEF WorkflowInv, worldVars, callVars
  <2>2. index' = outcomes \/ index' = index
    BY <1>1
  <2> QED
    BY <2>1, <2>2 DEF OutcomesTrue
<1>6. WorldTypes' /\ CallTypes' /\ StageTypes'
  BY <1>1 DEF WorkflowInv, WorldTypes, CallTypes, StageTypes, worldVars, callVars, stageVars
<1>7. PlaceSound'
  BY <1>1 DEF PlaceSound
<1> QED
  BY <1>3, <1>4, <1>5, <1>6, <1>7 DEF WorkflowInv

-----------------------------------------------------------------------------
(* Around the workflow. *)

LEMMA BatchesBegin ==
  ASSUME setting \in Settings, NEW batch \in setting.orders
  PROVE  batch \in Seq(Cases) /\ 1 \in DOMAIN batch
<1>1. setting \in Setting /\ Len(batch) > 0
  BY DEF WorkflowAssumption
<1>2. batch \in Seq(Cases)
  BY <1>1 DEF Setting
<1>3. 1 \in 1 .. Len(batch)
  BY <1>1, <1>2
<1> QED
  BY <1>2, <1>3

LEMMA InitInv ==
  ASSUME WorkflowInit
  PROVE  WorkflowInv
<1>1. DirTypes
  BY DEF WorkflowInit, DirTypes, WorkflowAssumption
<1>2. WorldTypes
  BY DEF WorkflowInit, WorldTypes
<1>3. CallTypes
  BY BatchesBegin DEF WorkflowInit, CallTypes
<1>4. StageTypes
  BY DEF WorkflowInit, StageTypes
<1>5. \A k \in Cases : \A s \in Stages : sealed[k][s] = None
  BY DEF WorkflowInit
<1>6. DiskSound
  <2>1. ASSUME NEW k \in Cases
        PROVE  Untouched(k)
    <3>1. record[k] = None
      BY DEF WorkflowInit
    <3>2. \A s \in 2 .. 4 : s \in Stages
      BY DEF Stages
    <3> QED
      BY <1>5, <3>1, <3>2, SomethingThere
         DEF Untouched, Chained, Reproducible, ReportTold, RecordTold
  <2> QED
    BY <1>5, <2>1 DEF DiskSound
<1>7. OutcomesTrue
  BY SomethingThere DEF WorkflowInit, OutcomesTrue
<1>8. PlaceSound
  BY DEF WorkflowInit, PlaceSound
<1> QED
  BY <1>1, <1>2, <1>3, <1>4, <1>6, <1>7, <1>8 DEF WorkflowInv

LEMMA BeginInv ==
  ASSUME WorkflowInv, Begin, UNCHANGED setting
  PROVE  WorkflowInv'
<1>1. /\ pc' = "check"
      /\ order' \in setting.orders /\ at' = 1 /\ engine' \in setting.engines
      /\ ownCode' = code /\ cache' = None /\ loads' = 0
      /\ outcomes' = [k \in Cases |-> None]
      /\ target' = None /\ rebuilt' = FALSE
      /\ UNCHANGED <<dirVars, worldVars>>
  BY DEF Begin, Goto, ForgetStage
<1>2. WorldTypes' /\ setting \in Settings /\ code \in Nat
  BY <1>1 DEF WorkflowInv, WorldTypes, worldVars, Running
<1>3. CallTypes'
  <2>1. order' \in Seq(Cases) /\ at' \in DOMAIN order'
    BY <1>1, <1>2, BatchesBegin
  <2> QED
    BY <1>1, <1>2, <2>1 DEF CallTypes
<1>4. StageTypes' /\ PlaceSound'
  BY <1>1 DEF StageTypes, PlaceSound
<1>5. DirTypes'
  BY <1>1 DEF WorkflowInv, DirTypes, dirVars
<1>6. DiskSound'
  <2>1. \A k : Untouched(k)' <=> Untouched(k)
    BY <1>1 DEF Untouched, Chained, Reproducible, ReportTold, RecordTold, dirVars
  <2> QED
    BY <1>1, <2>1 DEF WorkflowInv, DiskSound, dirVars, worldVars
<1>7. OutcomesTrue'
  BY <1>1, SomethingThere DEF WorkflowInv, OutcomesTrue, dirVars, worldVars
<1> QED
  BY <1>2, <1>3, <1>4, <1>5, <1>6, <1>7 DEF WorkflowInv

LEMMA CrashInv ==
  ASSUME WorkflowInv, Crash, UNCHANGED setting
  PROVE  WorkflowInv'
<1>1. /\ pc' = "off"
      /\ UNCHANGED <<dirVars, source, code, platform, tampers, tampered, callVars, stageVars>>
  BY DEF Crash, Goto
<1>2. DirTypes' /\ DiskSound' /\ OutcomesTrue'
  BY <1>1, SameDirectories DEF callVars
<1>3. WorldTypes' /\ CallTypes' /\ StageTypes'
  BY <1>1 DEF WorkflowInv, WorldTypes, CallTypes, StageTypes, callVars, stageVars
<1>4. PlaceSound'
  BY <1>1 DEF PlaceSound
<1> QED
  BY <1>2, <1>3, <1>4 DEF WorkflowInv

\* Where an invocation is does not depend on the world around it.
LEMMA SamePlace ==
  ASSUME WorkflowInv,
         UNCHANGED <<setting, dirVars, pc, callVars, stageVars>>
  PROVE  PlaceSound'
<1>1. /\ Key' = Key
      /\ \A n \in Stages : (Good(n)' <=> Good(n)) /\ (Sealed(n)' <=> Sealed(n))
  BY SameGood DEF dirVars, callVars
<1>2. Named' = Named /\ Named \subseteq Stages
  BY <1>1 DEF Named, Stages
<1>3. UNCHANGED <<partial, sealed, engine, ownCode, target, input, live, rebuilt>>
  BY DEF dirVars, callVars, stageVars
<1>4. BuildSound => BuildSound'
  <2>1. \A s, p : InputFits(s, p)' <=> InputFits(s, p)
    BY <1>1, <1>3 DEF InputFits, Serial
  <2>2. Sealed(target)' <=> Sealed(target)
    BY <1>1, <1>3 DEF Sealed
  <2>3. Sealed(4)' <=> Sealed(4)
    BY <1>1, <1>3 DEF Sealed
  <2> QED
    BY <1>1, <1>3, <2>1, <2>2, <2>3 DEF BuildSound
<1>5. PlaceSound
  BY DEF WorkflowInv
<1> QED
  BY <1>1, <1>2, <1>3, <1>4, <1>5, SomethingThere DEF PlaceSound

LEMMA ChangeInv ==
  ASSUME WorkflowInv, Change, UNCHANGED setting
  PROVE  WorkflowInv'
<1>1. /\ UNCHANGED <<dirVars, tampers, crashes, tampered, pc, callVars, stageVars>>
      /\ source' \in {source, source + 1} /\ code' \in {code, code + 1}
      /\ platform' \in {platform, platform + 1}
  BY DEF Change
<1>2. DirTypes' /\ DiskSound' /\ OutcomesTrue'
  BY <1>1, SameDirectories DEF callVars
<1>3. WorldTypes' /\ CallTypes' /\ StageTypes'
  BY <1>1 DEF WorkflowInv, WorldTypes, CallTypes, StageTypes, callVars, stageVars
<1>4. PlaceSound'
  BY <1>1, SamePlace
<1> QED
  BY <1>2, <1>3, <1>4 DEF WorkflowInv

\* Whoever alters a directory does so to one case, between invocations.
LEMMA TamperInv ==
  ASSUME WorkflowInv, NEW c \in Cases, Tamper(c), UNCHANGED setting
  PROVE  WorkflowInv'
<1>1. /\ pc \in {"off", "refused"}
      /\ tampered' = [tampered EXCEPT ![c] = TRUE] /\ tampers' = tampers + 1
      /\ UNCHANGED <<partial, attempts, serial, index, source, code, platform, pc>>
      /\ UNCHANGED <<callVars, stageVars>>
  BY DEF Tamper
<1>2. /\ DirTypes /\ DiskSound /\ OutcomesTrue /\ WorldTypes
      /\ \A s \in Stages : SealedStage(s) = [input : StageInput[s], content : StageContent[s],
                                             serial : Nat, intact : BOOLEAN]
  BY DEF WorkflowInv, SealedStage
<1>3. /\ DOMAIN sealed' = Cases /\ \A k \in Cases : DOMAIN sealed'[k] = Stages
      /\ \A k \in Cases : k # c => sealed'[k] = sealed[k]
      /\ \A s \in Stages :
           \/ sealed'[c][s] = sealed[c][s]
           \/ sealed'[c][s] = None
           \/ /\ sealed[c][s] # None
              /\ sealed'[c][s] = [sealed[c][s] EXCEPT !.intact = FALSE]
  <2>1. DOMAIN sealed = Cases /\ \A k \in Cases : DOMAIN sealed[k] = Stages
    BY <1>2 DEF DirTypes
  <2>2. CASE UNCHANGED sealed
    BY <2>1, <2>2
  <2>3. CASE \E s \in Stages : sealed[c][s] # None /\ sealed' = [sealed EXCEPT ![c][s].intact = FALSE]
    <3>1. PICK n \in Stages : /\ sealed[c][n] # None
                              /\ sealed' = [sealed EXCEPT ![c][n].intact = FALSE]
      BY <2>3
    <3>2. PICK st : st = [sealed[c][n] EXCEPT !.intact = FALSE]
      OBVIOUS
    <3>3. sealed' = [sealed EXCEPT ![c][n] = st]
      BY <3>1, <3>2
    <3>4. /\ DOMAIN sealed' = Cases /\ \A k \in Cases : DOMAIN sealed'[k] = Stages
          /\ \A k \in Cases : k # c => sealed'[k] = sealed[k]
          /\ \A s \in Stages : s # n => sealed'[c][s] = sealed[c][s]
          /\ sealed'[c][n] = st
      BY <2>1, <3>3
    <3> QED
      BY <3>1, <3>2, <3>4
  <2>4. CASE \E s \in Stages : sealed' = [sealed EXCEPT ![c][s] = None]
    BY <2>1, <2>4
  <2> QED
    BY <2>2, <2>3, <2>4 DEF Tamper
<1>4. /\ record' \in [Cases -> RunFile \cup {None}]
      /\ \A k \in Cases : k # c => record'[k] = record[k]
  <2>1. record \in [Cases -> RunFile \cup {None}]
    BY <1>2 DEF DirTypes
  <2>2. CASE UNCHANGED record
    BY <2>1, <2>2
  <2>3. CASE record' = [record EXCEPT ![c] = None]
    BY <2>1, <2>3
  <2>4. CASE record[c] # None /\ record' = [record EXCEPT ![c].intact = FALSE]
    <3>1. PICK r : r = record[c]
      OBVIOUS
    <3>2. r \in RunFile
      BY <2>1, <2>4, <3>1
    <3>3. [r EXCEPT !.intact = FALSE] \in RunFile
      BY <3>2 DEF RunFile
    <3>4. record' = [record EXCEPT ![c] = [r EXCEPT !.intact = FALSE]]
      BY <2>4, <3>1
    <3> QED
      BY <2>1, <3>3, <3>4
  <2> QED
    BY <2>2, <2>3, <2>4 DEF Tamper
<1>5. \A k \in Cases : \A s \in Stages :
        /\ sealed'[k][s] \in SealedStage(s) \cup {None}
        /\ sealed'[k][s] # None =>
             sealed[k][s] # None /\ sealed'[k][s].serial = sealed[k][s].serial
  <2> SUFFICES ASSUME NEW k \in Cases, NEW s \in Stages
               PROVE  /\ sealed'[k][s] \in SealedStage(s) \cup {None}
                      /\ sealed'[k][s] # None =>
                           /\ sealed[k][s] # None
                           /\ sealed'[k][s].serial = sealed[k][s].serial
    OBVIOUS
  <2>1. sealed[k][s] \in SealedStage(s) \cup {None}
    BY <1>2 DEF DirTypes
  <2>2. CASE sealed'[k][s] = sealed[k][s] \/ sealed'[k][s] = None
    BY <2>1, <2>2
  <2>3. CASE sealed[k][s] # None /\ sealed'[k][s] = [sealed[k][s] EXCEPT !.intact = FALSE]
    <3>1. PICK st : st = sealed[k][s]
      OBVIOUS
    <3>2. st \in SealedStage(s)
      BY <2>1, <2>3, <3>1
    <3>3. PICK I : I = StageInput[s]
      OBVIOUS
    <3>4. PICK C : C = StageContent[s]
      OBVIOUS
    <3>5. SealedStage(s) = [input : I, content : C, serial : Nat, intact : BOOLEAN]
      BY <1>2, <3>3, <3>4
    <3>6. st \in [input : I, content : C, serial : Nat, intact : BOOLEAN]
      BY <3>2, <3>5
    <3>7. /\ [st EXCEPT !.intact = FALSE] \in
               [input : I, content : C, serial : Nat, intact : BOOLEAN]
          /\ [st EXCEPT !.intact = FALSE].serial = st.serial
      BY <3>6
    <3> QED
      BY <2>3, <3>1, <3>5, <3>7
  <2> QED
    BY <1>3, <2>2, <2>3
<1>6. DirTypes'
  BY <1>1, <1>2, <1>3, <1>4, <1>5 DEF DirTypes
<1>7. /\ tampered' \in [Cases -> BOOLEAN]
      /\ \A k \in Cases : ~tampered'[k] => k # c /\ ~tampered[k]
  BY <1>1, <1>2 DEF WorldTypes
<1>8. DiskSound'
  <2>1. ASSUME NEW k \in Cases, ~tampered'[k]
        PROVE  Untouched(k)'
    <3>1. Untouched(k) /\ sealed'[k] = sealed[k] /\ record'[k] = record[k]
      BY <1>2, <1>3, <1>4, <1>7, <2>1 DEF DiskSound
    <3> QED
      BY <3>1 DEF Untouched, Chained, Reproducible, ReportTold, RecordTold
  <2> QED
    BY <1>1, <1>2, <1>5, <2>1 DEF DiskSound
<1>9. OutcomesTrue'
  BY <1>1, <1>2, <1>4, <1>7 DEF OutcomesTrue, callVars
<1>10. WorldTypes' /\ CallTypes' /\ StageTypes'
  BY <1>1, <1>7 DEF WorkflowInv, WorldTypes, CallTypes, StageTypes, callVars, stageVars
<1>11. PlaceSound'
  BY <1>1 DEF PlaceSound
<1> QED
  BY <1>6, <1>8, <1>9, <1>10, <1>11 DEF WorkflowInv

-----------------------------------------------------------------------------
LEMMA StutterInv ==
  ASSUME WorkflowInv, UNCHANGED workflowVars
  PROVE  WorkflowInv'
<1>1. UNCHANGED <<setting, dirVars, worldVars, pc, callVars, stageVars>>
  BY DEF workflowVars
<1>2. DirTypes' /\ DiskSound' /\ OutcomesTrue'
  BY <1>1, SameDirectories DEF worldVars, callVars
<1>3. WorldTypes' /\ CallTypes' /\ StageTypes'
  BY <1>1 DEF WorkflowInv, WorldTypes, CallTypes, StageTypes, worldVars, callVars, stageVars
<1> QED
  BY <1>1, <1>2, <1>3, SamePlace DEF WorkflowInv

\* Every step of the workflow, and of the world around it, keeps the invariant.
LEMMA StepInv ==
  ASSUME WorkflowInv, [WorkflowNext /\ UNCHANGED setting]_workflowVars
  PROVE  WorkflowInv'
<1>1. CASE UNCHANGED workflowVars
  BY <1>1, StutterInv
<1>2. CASE WorkflowNext /\ UNCHANGED setting
  <2>1. CASE Begin
    BY <1>2, <2>1, BeginInv
  <2>2. CASE RunStep
    <3>1. CASE CheckRun
      BY <1>2, <3>1, CheckRunInv
    <3>2. CASE OpenTelemetry
      BY <1>2, <3>2, OpenTelemetryInv
    <3>3. CASE OpenSeed
      BY <1>2, <3>3, OpenSeedInv
    <3>4. CASE OpenInvestigation
      BY <1>2, <3>4, OpenInvestigationInv
    <3>5. CASE GuardPasses \/ EnsureLoaded \/ WarmUpFails
      BY <1>2, <3>5, GuardedInv
    <3>6. CASE GuardBlocks
      BY <1>2, <3>6, GuardBlocksInv
    <3>7. CASE Investigate
      BY <1>2, <3>7, InvestigateInv
    <3>8. CASE Replay
      BY <1>2, <3>8, ReplayInv
    <3>9. CASE Build
      BY <1>2, <3>9, BuildInv
    <3>10. CASE Seal
      BY <1>2, <3>10, SealInv
    <3>11. CASE WriteRecord
      BY <1>2, <3>11, WriteRecordInv
    <3>12. CASE CheckRecord
      BY <1>2, <3>12, CheckRecordInv
    <3>13. CASE WriteIndex
      BY <1>2, <3>13, WriteIndexInv
    <3> QED
      BY <2>2, <3>1, <3>2, <3>3, <3>4, <3>5, <3>6, <3>7, <3>8, <3>9, <3>10, <3>11, <3>12, <3>13
         DEF RunStep
  <2>3. CASE Crash
    BY <1>2, <2>3, CrashInv
  <2>4. CASE Change
    BY <1>2, <2>4, ChangeInv
  <2>5. CASE \E k \in Cases : Tamper(k)
    BY <1>2, <2>5, TamperInv
  <2> QED
    BY <1>2, <2>1, <2>2, <2>3, <2>4, <2>5 DEF WorkflowNext
<1> QED
  BY <1>1, <1>2

\* The inductive invariant of the checkpointed workflow: the directories nobody
\* altered hang together, outcomes claim no more than they hold, and wherever an
\* invocation is, the stages behind it are intact and its own.
THEOREM WorkflowInvHolds == WorkflowSpec => []WorkflowInv
<1>1. WorkflowInit => WorkflowInv
  BY InitInv
<1>2. WorkflowInv /\ [WorkflowNext /\ UNCHANGED setting]_workflowVars => WorkflowInv'
  BY StepInv
<1> QED
  BY <1>1, <1>2, PTL DEF WorkflowSpec

-----------------------------------------------------------------------------
(* What the invariant says of the run directories. *)

LEMMA InvDirectories ==
  ASSUME WorkflowInv
  PROVE  DirectoriesSound
<1>1. DirTypes /\ WorldTypes /\ CallTypes /\ StageTypes /\ DiskSound /\ OutcomesTrue
  BY DEF WorkflowInv
<1>2. WorkflowTypeOK
  <2>1. \A k \in Cases : \A s \in Stages : sealed[k][s] # None =>
          /\ sealed[k][s] \in SealedStage(s) /\ sealed[k][s].serial \in 1 .. serial[k]
          /\ partial[k][s] = None
    BY <1>1 DEF DirTypes, DiskSound
  <2> QED
    BY <1>1, <2>1 DEF WorkflowTypeOK, DirTypes, WorldTypes, CallTypes, StageTypes, Running
<1>3. StagesChained
  <2> SUFFICES ASSUME NEW k \in Cases, ~tampered[k]
               PROVE  /\ Chained(k)
                      /\ record[k] # None =>
                           /\ \A s \in DOMAIN record[k].stages :
                                /\ sealed[k][s] # None
                                /\ record[k].stages[s] = sealed[k][s].serial
                           /\ (k \in setting.investigable) <=> (4 \in DOMAIN record[k].stages)
    BY DEF StagesChained
  <2>1. Untouched(k)
    BY <1>1 DEF DiskSound
  <2>2. Chained(k) /\ RecordTold(k)
    BY <2>1 DEF Untouched
  <2>3. 4 \in Stages /\ 4 \notin {1, 2}
    BY DEF Stages
  <2> QED
    BY <2>2, <2>3 DEF RecordTold
<1>4. IndexTrue
  BY <1>1 DEF OutcomesTrue, IndexTrue
<1> QED
  BY <1>2, <1>3, <1>4 DEF DirectoriesSound

\* Wherever the process is killed, what is on disk hangs together: no stage is in
\* place and half built at once, none is there before what it was computed from,
\* run.json names only what exists, and INDEX.json claims no more than that.
THEOREM DirectoriesHold == WorkflowSpec => []DirectoriesSound
<1>1. WorkflowInv => DirectoriesSound
  BY InvDirectories
<1> QED
  BY <1>1, WorkflowInvHolds, PTL

LEMMA InvReports ==
  ASSUME WorkflowInv
  PROVE  ReportTellsInvestigation
<1> SUFFICES ASSUME NEW k \in Cases, ~tampered[k], sealed[k][4] # None
             PROVE  /\ sealed[k][4].content.found = sealed[k][3].content
                    /\ sealed[k][4].content.rebuilt => sealed[k][3].input[2] = "deterministic"
                    /\ record[k] # None => record[k].verdict = sealed[k][3].content
  BY DEF ReportTellsInvestigation
<1>1. ReportTold(k) /\ RecordTold(k)
  BY DEF WorkflowInv, DiskSound, Untouched
<1> QED
  BY <1>1 DEF ReportTold, RecordTold

\* The report beside a sealed investigation, and the verdict of run.json, are that
\* very investigation's, whatever crashed or changed in between; and a report is
\* made up for only where the rule engine can find the same again.
THEOREM ReportsHold == WorkflowSpec => []ReportTellsInvestigation
<1>1. WorkflowInv => ReportTellsInvestigation
  BY InvReports
<1> QED
  BY <1>1, WorkflowInvHolds, PTL

-----------------------------------------------------------------------------
(* What a step may do. *)

FinalStep ==
  tampers' = tampers =>
    \A k \in Cases :
      /\ \A s \in Stages : sealed[k][s] # None => sealed'[k][s] = sealed[k][s]
      /\ record[k] # None => record'[k] = record[k]
      /\ attempts'[k] >= attempts[k]

LEMMA StepFinal ==
  ASSUME WorkflowInv, [WorkflowNext /\ UNCHANGED setting]_workflowVars
  PROVE  FinalStep
<1>1. /\ \A k \in Cases : attempts[k] \in Nat
      /\ Key \in Cases /\ tampers \in Nat
  <2>1. attempts \in [Cases -> 0 .. MaxBlocks] /\ MaxBlocks \in Nat /\ tampers \in Nat
    BY DEF WorkflowInv, DirTypes, WorldTypes, WorkflowAssumption
  <2> QED
    BY <2>1, CaseFacts DEF WorkflowInv
<1>2. CASE UNCHANGED <<sealed, record, attempts>>
  BY <1>1, <1>2 DEF FinalStep
<1>3. CASE GuardBlocks
  <2>1. /\ UNCHANGED <<sealed, record>>
        /\ attempts' = [attempts EXCEPT ![Key] = @ + 1]
        /\ attempts \in [Cases -> 0 .. MaxBlocks]
    BY <1>3 DEF GuardBlocks, WorkflowInv, DirTypes
  <2>2. \A k \in Cases : attempts'[k] = IF k = Key THEN attempts[k] + 1 ELSE attempts[k]
    BY <2>1
  <2> QED
    BY <1>1, <2>1, <2>2 DEF FinalStep
<1>4. CASE Seal
  <2>1. /\ sealed[Key][target] = None /\ UNCHANGED <<record, attempts>>
        /\ \A k \in Cases \ {Key} : sealed'[k] = sealed[k]
        /\ \A s \in Stages \ {target} : sealed'[Key][s] = sealed[Key][s]
    BY <1>4, SealFacts DEF BuildSound, Sealed
  <2>2. \A k \in Cases : \A s \in Stages : sealed[k][s] # None => sealed'[k][s] = sealed[k][s]
    BY <2>1
  <2> QED
    BY <1>1, <2>1, <2>2 DEF FinalStep
<1>5. CASE WriteRecord
  <2>1. /\ UNCHANGED <<sealed, attempts>> /\ record[Key] = None
        /\ record' = [record EXCEPT ![Key] = RunRecord]
        /\ DOMAIN record = Cases
    BY <1>5 DEF WriteRecord, WorkflowInv, DirTypes
  <2>2. \A k \in Cases : record[k] # None => record'[k] = record[k]
    BY <2>1
  <2> QED
    BY <1>1, <2>1, <2>2 DEF FinalStep
<1>6. CASE \E k \in Cases : Tamper(k)
  <2>1. tampers' = tampers + 1
    BY <1>6 DEF Tamper
  <2> QED
    BY <1>1, <2>1 DEF FinalStep
<1>7. \/ UNCHANGED <<sealed, record, attempts>>
      \/ GuardBlocks \/ Seal \/ WriteRecord
      \/ \E k \in Cases : Tamper(k)
  <2>1. CASE UNCHANGED workflowVars
    BY <2>1 DEF workflowVars, dirVars
  <2>2. CASE Begin \/ Crash \/ Change
    BY <2>2 DEF Begin, Crash, Change, dirVars
  <2>3. CASE RunStep
    BY <2>3 DEF RunStep, CheckRun, OpenTelemetry, OpenSeed, OpenInvestigation, GuardPasses,
                EnsureLoaded, WarmUpFails, Investigate, Replay, Build, CheckRecord, WriteIndex,
                dirVars
  <2> QED
    BY <2>1, <2>2, <2>3 DEF WorkflowNext
<1> QED
  BY <1>2, <1>3, <1>4, <1>5, <1>6, <1>7

\* The workflow never recomputes, overwrites or removes what is sealed, least of
\* all what it finds altered; run.json is written once and attempts are only added.
THEOREM SealedStagesStay == WorkflowSpec => SealedIsFinal
<1>1. WorkflowInv /\ [WorkflowNext /\ UNCHANGED setting]_workflowVars => [FinalStep]_workflowVars
  BY StepFinal
<1>2. WorkflowSpec => [][FinalStep]_workflowVars
  BY <1>1, WorkflowInvHolds, PTL DEF WorkflowSpec
<1> QED
  BY <1>2 DEF SealedIsFinal, FinalStep

EarnedStep ==
  \A k \in Cases : outcomes[k] # "complete" /\ outcomes'[k] = "complete" =>
    /\ \A s \in Stages : sealed[k][s] # None
    /\ Chained(k)
    /\ sealed[k][1].input[2] = ownCode
    /\ sealed[k][3].input[2] = engine
    /\ record'[k] # None /\ record'[k].intact
    /\ record'[k].stages = [s \in Stages |-> sealed[k][s].serial]

\* Four good stages are chained, and this invocation's own.
LEMMA FourGood ==
  ASSUME \A s \in Stages : Good(s)
  PROVE  /\ \A s \in Stages : sealed[Key][s] # None
         /\ Chained(Key)
         /\ sealed[Key][1].input[2] = ownCode
         /\ sealed[Key][3].input[2] = engine
<1>1. /\ \A s \in Stages : sealed[Key][s] # None /\ sealed[Key][s].intact
      /\ InputFits(1, sealed[Key][1].input) /\ InputFits(2, sealed[Key][2].input)
      /\ InputFits(3, sealed[Key][3].input) /\ InputFits(4, sealed[Key][4].input)
  BY DEF Good, Sealed, Stages
<1>2. /\ sealed[Key][1].input[2] = ownCode
      /\ sealed[Key][2].input = <<Serial(1)>>
      /\ sealed[Key][3].input = <<Serial(2), engine>>
      /\ sealed[Key][4].input = <<Serial(3)>>
  BY <1>1 DEF InputFits
<1>3. /\ sealed[Key][2].input[1] = sealed[Key][1].serial
      /\ sealed[Key][3].input[1] = sealed[Key][2].serial
      /\ sealed[Key][4].input[1] = sealed[Key][3].serial
      /\ sealed[Key][3].input[2] = engine
  BY <1>2 DEF Serial
<1>4. Chained(Key)
  <2>1. ASSUME NEW s \in 2 .. 4
        PROVE  sealed[Key][s - 1] # None /\ sealed[Key][s].input[1] = sealed[Key][s - 1].serial
    <3>1. /\ s - 1 \in Stages
          /\ \/ s = 2 /\ s - 1 = 1
             \/ s = 3 /\ s - 1 = 2
             \/ s = 4 /\ s - 1 = 3
      BY DEF Stages
    <3> QED
      BY <1>1, <1>3, <3>1
  <2> QED
    BY <1>1, <2>1 DEF Chained
<1> QED
  BY <1>1, <1>2, <1>3, <1>4

LEMMA StepEarned ==
  ASSUME WorkflowInv, [WorkflowNext /\ UNCHANGED setting]_workflowVars
  PROVE  EarnedStep
<1>1. Key \in Cases /\ outcomes \in [Cases -> Outcome \cup {None}]
  BY CaseFacts DEF WorkflowInv, CallTypes
<1>2. CASE \A k \in Cases : outcomes'[k] \in {outcomes[k], "blocked", None}
  BY <1>2, SomethingThere DEF EarnedStep
<1>3. ASSUME pc = "record", outcomes' = [outcomes EXCEPT ![Key] = RunOutcome],
             record'[Key] # None, record'[Key].intact,
             record'[Key].stages = RunRecord.stages
      PROVE  EarnedStep
  <2> SUFFICES ASSUME NEW k \in Cases, outcomes[k] # "complete", outcomes'[k] = "complete"
               PROVE  /\ \A s \in Stages : sealed[k][s] # None
                      /\ Chained(k)
                      /\ sealed[k][1].input[2] = ownCode
                      /\ sealed[k][3].input[2] = engine
                      /\ record'[k] # None /\ record'[k].intact
                      /\ record'[k].stages = [s \in Stages |-> sealed[k][s].serial]
    BY DEF EarnedStep
  <2>1. k = Key /\ Key \in setting.investigable
    BY <1>1, <1>3 DEF RunOutcome
  <2>2. Named = Stages
    BY <2>1 DEF Named
  <2>3. \A s \in Stages : Good(s)
    BY <1>3, <2>2, RecordFacts
  <2>4. record'[k].stages = [s \in Stages |-> sealed[k][s].serial]
    BY <1>3, <2>1, <2>2 DEF RunRecord, Serial
  <2> QED
    BY <1>3, <2>1, <2>3, <2>4, FourGood
<1>4. CASE WriteRecord
  <2>1. /\ pc = "record" /\ record' = [record EXCEPT ![Key] = RunRecord]
        /\ outcomes' = [outcomes EXCEPT ![Key] = RunOutcome]
        /\ DOMAIN record = Cases
    BY <1>4 DEF WriteRecord, Return, WorkflowInv, DirTypes
  <2>2. record'[Key] = RunRecord
    BY <1>1, <2>1
  <2> QED
    BY <1>3, <2>1, <2>2, RecordFacts
<1>5. CASE CheckRecord
  <2>1. CASE Return(RunOutcome) /\ record[Key].intact /\ record[Key].stages = RunRecord.stages
    <3>1. /\ pc = "record" /\ record[Key] # None /\ record' = record
          /\ outcomes' = [outcomes EXCEPT ![Key] = RunOutcome]
      BY <1>5, <2>1 DEF CheckRecord, Return, dirVars
    <3> QED
      BY <1>3, <2>1, <3>1
  <2>2. CASE UNCHANGED outcomes
    BY <1>2, <2>2
  <2> QED
    BY <1>5, <2>1, <2>2 DEF CheckRecord
<1>6. \/ \A k \in Cases : outcomes'[k] \in {outcomes[k], "blocked", None}
      \/ WriteRecord \/ CheckRecord
  <2>1. CASE UNCHANGED workflowVars
    BY <2>1 DEF workflowVars, callVars
  <2>2. CASE Begin
    BY <2>2 DEF Begin
  <2>3. CASE GuardBlocks
    <3>1. outcomes' = [outcomes EXCEPT ![Key] = "blocked"]
      BY <2>3 DEF GuardBlocks, Return
    <3> QED
      BY <1>1, <3>1
  <2>4. CASE Crash \/ Change \/ \E k \in Cases : Tamper(k)
    <3>1. UNCHANGED outcomes
      BY <2>4 DEF Crash, Change, Tamper, callVars
    <3> QED
      BY <3>1
  <2>5. CASE RunStep /\ ~GuardBlocks
    <3>1. UNCHANGED outcomes \/ WriteRecord \/ CheckRecord
      BY <2>5 DEF RunStep, CheckRun, OpenTelemetry, OpenSeed, OpenInvestigation, GuardPasses,
                  EnsureLoaded, WarmUpFails, Investigate, Replay, Build, Seal, WriteIndex, callVars
    <3> QED
      BY <3>1
  <2> QED
    BY <2>1, <2>2, <2>3, <2>4, <2>5 DEF WorkflowNext
<1> QED
  BY <1>2, <1>4, <1>5, <1>6

\* An invocation reports a case complete only over four intact stages, chained to
\* one another and to its own code and engine and all named by an intact run.json:
\* an edited or half-deleted directory never passes for a result.
THEOREM CompleteEarned == WorkflowSpec => CompleteIsEarned
<1>1. WorkflowInv /\ [WorkflowNext /\ UNCHANGED setting]_workflowVars => [EarnedStep]_workflowVars
  BY StepEarned
<1>2. WorkflowSpec => [][EarnedStep]_workflowVars
  BY <1>1, WorkflowInvHolds, PTL DEF WorkflowSpec
<1> QED
  BY <1>2, PTL DEF CompleteIsEarned, EarnedStep

RefusedStep ==
  pc' = "refused" /\ pc \notin {"refused", "load"} =>
    tampered[Key] \/ Moved(Key) \/ Unreplayable(Key)

\* Why a stage that is there does not fit, in a directory nobody altered.
LEMMA Misfits ==
  ASSUME WorkflowInv, ~tampered[Key], NEW s \in Stages, Sealed(s), NEW params,
         ~Fits(s, params)
  PROVE  /\ s = 1 /\ params = <<source, ownCode>> => Moved(Key)
         /\ s = 2 => params # <<Serial(1)>>
         /\ s = 3 /\ params = <<Serial(2), engine>> => Moved(Key)
         /\ s = 4 => params # <<Serial(3)>>
<1>1. Key \in Cases /\ Chained(Key) /\ sealed[Key][s] # None
  BY CaseFacts DEF WorkflowInv, DiskSound, Untouched, Sealed
<1>2. sealed[Key][s].intact /\ sealed[Key][s].input # params
  BY <1>1 DEF Chained, Fits
<1>3. sealed[Key][s].input \in StageInput[s]
  BY <1>1, StageFacts DEF WorkflowInv
<1>4. \A n \in 2 .. 4 : sealed[Key][n] # None =>
        sealed[Key][n].input[1] = sealed[Key][n - 1].serial
  BY <1>1 DEF Chained
<1>5. s = 1 /\ params = <<source, ownCode>> => Moved(Key)
  BY <1>1, <1>2 DEF Moved
<1>6. s = 2 => params # <<Serial(1)>>
  <2> SUFFICES ASSUME s = 2
               PROVE  params # <<Serial(1)>>
    OBVIOUS
  <2>1. sealed[Key][2].input \in [1 .. 1 -> Int]
    BY <1>3 DEF StageInput
  <2>2. sealed[Key][2].input[1] = Serial(1)
    <3>1. sealed[Key][2].input[1] = sealed[Key][2 - 1].serial
      BY <1>1, <1>4
    <3> QED
      BY <3>1 DEF Serial
  <2>3. sealed[Key][2].input = <<Serial(1)>>
    BY <2>1, <2>2
  <2> QED
    BY <1>2, <2>3
<1>7. s = 3 /\ params = <<Serial(2), engine>> => Moved(Key)
  <2> SUFFICES ASSUME s = 3, params = <<Serial(2), engine>>
               PROVE  Moved(Key)
    OBVIOUS
  <2>1. sealed[Key][3].input \in Int \X Engines
    BY <1>3 DEF StageInput
  <2>2. sealed[Key][3].input[1] = Serial(2)
    <3>1. sealed[Key][3].input[1] = sealed[Key][3 - 1].serial
      BY <1>1, <1>4
    <3> QED
      BY <3>1 DEF Serial
  <2>3. sealed[Key][3].input[2] # engine
    BY <1>2, <2>1, <2>2
  <2> QED
    BY <1>1, <2>3 DEF Moved
<1>8. s = 4 => params # <<Serial(3)>>
  <2> SUFFICES ASSUME s = 4
               PROVE  params # <<Serial(3)>>
    OBVIOUS
  <2>1. sealed[Key][4].input \in [1 .. 1 -> Int]
    BY <1>3 DEF StageInput
  <2>2. sealed[Key][4].input[1] = Serial(3)
    <3>1. sealed[Key][4].input[1] = sealed[Key][4 - 1].serial
      BY <1>1, <1>4
    <3> QED
      BY <3>1 DEF Serial
  <2>3. sealed[Key][4].input = <<Serial(3)>>
    BY <2>1, <2>2
  <2> QED
    BY <1>2, <2>3
<1> QED
  BY <1>5, <1>6, <1>7, <1>8

LEMMA StepRefused ==
  ASSUME WorkflowInv, [WorkflowNext /\ UNCHANGED setting]_workflowVars
  PROVE  RefusedStep
<1> SUFFICES ASSUME pc' = "refused", pc \notin {"refused", "load"}, ~tampered[Key],
                    ~Moved(Key), ~Unreplayable(Key)
             PROVE  FALSE
  BY DEF RefusedStep
<1>1. /\ Key \in Cases /\ engine \in Engines
      /\ Untouched(Key)
  BY CaseFacts DEF WorkflowInv, DiskSound
<1>2. sealed[Key][4] # None => sealed[Key][3] # None
  <2>1. sealed[Key][4] # None => sealed[Key][4 - 1] # None
    BY <1>1 DEF Untouched, Chained
  <2> QED
    BY <2>1
<1>3. CASE CheckRun
  <2>1. record[Key] # None /\ \E s \in DOMAIN record[Key].stages : ~Sealed(s)
    BY <1>3 DEF CheckRun, Goto
  <2> QED
    BY <1>1, <2>1 DEF Untouched, RecordTold, Sealed
<1>4. CASE OpenTelemetry
  <2>1. Sealed(1) /\ ~Fits(1, <<source, ownCode>>)
    BY <1>4 DEF OpenTelemetry, OpenStage, Goto
  <2> QED
    BY <2>1, Misfits, SomethingThere
<1>5. CASE OpenSeed
  <2>1. Sealed(2) /\ ~Fits(2, <<Serial(1)>>)
    BY <1>5 DEF OpenSeed, OpenStage, Goto, AfterSeed
  <2> QED
    BY <2>1, Misfits, SomethingThere
<1>6. CASE OpenInvestigation
  <2>1. \/ Sealed(3) /\ ~Fits(3, <<Serial(2), engine>>)
        \/ Sealed(4) /\ ~Fits(4, <<Serial(3)>>)
        \/ Sealed(3) /\ ~Sealed(4) /\ engine = "d1"
        \/ ~Sealed(3) /\ Sealed(4)
    BY <1>6 DEF OpenInvestigation, Goto
  <2>2. ~(Sealed(3) /\ ~Fits(3, <<Serial(2), engine>>))
    BY Misfits, SomethingThere
  <2>3. ~(Sealed(4) /\ ~Fits(4, <<Serial(3)>>))
    BY Misfits, SomethingThere
  <2>4. ~(Sealed(3) /\ ~Sealed(4) /\ engine = "d1")
    BY DEF Unreplayable, Sealed
  <2>5. ~(~Sealed(3) /\ Sealed(4))
    BY <1>2 DEF Sealed
  <2> QED
    BY <2>1, <2>2, <2>3, <2>4, <2>5
<1>7. CASE Replay
  <2>1. /\ Good(1) /\ Good(3) /\ engine = "deterministic"
        /\ live' \in Found /\ live' # sealed[Key][3].content
    BY <1>7 DEF Replay, Goto, WorkflowInv, PlaceSound
  <2>2. live' = <<sealed[Key][1].content, platform>>
    BY <2>1, FoundFacts
  <2>3. sealed[Key][3] # None /\ sealed[Key][3].input = <<Serial(2), engine>>
    BY <2>1 DEF Good, Sealed, InputFits
  <2>4. sealed[Key][3].input[2] = "deterministic"
    BY <2>1, <2>3
  <2>5. FoundIn(sealed[Key][3].content, sealed[Key][1].content)
    BY <1>1, <2>3, <2>4 DEF Untouched, Reproducible
  <2>6. sealed[Key][3].content \in Int \X Int /\ sealed[Key][3].content[1] = sealed[Key][1].content
    BY <2>5 DEF FoundIn
  <2>7. sealed[Key][3].content[2] = platform
    BY <2>1, <2>3 DEF Moved
  <2>8. sealed[Key][3].content = <<sealed[Key][1].content, platform>>
    BY <2>6, <2>7
  <2> QED
    BY <2>1, <2>2, <2>8
<1>8. CASE CheckRecord
  <2>1. /\ pc = "record" /\ record[Key] # None
        /\ ~(record[Key].intact /\ record[Key].stages = RunRecord.stages)
    <3>1. ~Return(RunOutcome)
      BY DEF Return, Goto
    <3> QED
      BY <1>8, <3>1 DEF CheckRecord
  <2>2. /\ record[Key].intact
        /\ DOMAIN record[Key].stages = Named
        /\ \A s \in Named : record[Key].stages[s] = sealed[Key][s].serial
    BY <1>1, <2>1 DEF Untouched, RecordTold, Named
  <2>3. record[Key].stages \in [Stages -> Nat] \cup [{1, 2} -> Nat]
    <3>1. record[Key] \in RunFile
      BY <1>1, <2>1 DEF WorkflowInv, DirTypes
    <3> QED
      BY <3>1 DEF RunFile
  <2>4. record[Key].stages = [s \in Named |-> Serial(s)]
    <3>1. record[Key].stages \in [Named -> Nat]
      BY <2>2, <2>3
    <3> QED
      BY <2>2, <3>1 DEF Serial
  <2> QED
    BY <2>1, <2>2, <2>4 DEF RunRecord
<1>9. \/ CheckRun \/ OpenTelemetry \/ OpenSeed \/ OpenInvestigation \/ Replay \/ CheckRecord
  <2>1. ~UNCHANGED workflowVars
    BY DEF workflowVars
  <2>2. ~(Begin \/ Crash \/ Change \/ \E k \in Cases : Tamper(k))
    BY DEF Begin, Crash, Change, Tamper, Goto
  <2>3. ~(GuardPasses \/ EnsureLoaded \/ WarmUpFails \/ GuardBlocks)
    BY DEF GuardPasses, EnsureLoaded, WarmUpFails, GuardBlocks, Return, Goto
  <2>4. ~(Investigate \/ Build \/ WriteRecord \/ WriteIndex)
    BY DEF Investigate, Build, WriteRecord, WriteIndex, Return, Goto
  <2>5. ~Seal
    <3>1. UNCHANGED setting
      BY <2>1
    <3>2. Seal => pc' \in Running
      BY <3>1, SealPlaces
    <3> QED
      BY <3>2 DEF Running
  <2> QED
    BY <2>1, <2>2, <2>3, <2>4, <2>5 DEF WorkflowNext, RunStep
<1> QED
  BY <1>3, <1>4, <1>5, <1>6, <1>7, <1>8, <1>9

\* A crash never spoils a run directory: one that nobody altered is refused only
\* when what it was computed from has changed, for a model run killed before its
\* report was sealed, or when the model cannot be loaded.
THEOREM RefusedForCause == WorkflowSpec => RefusedOnlyWhenChanged
<1>1. WorkflowInv /\ [WorkflowNext /\ UNCHANGED setting]_workflowVars => [RefusedStep]_workflowVars
  BY StepRefused
<1>2. WorkflowSpec => [][RefusedStep]_workflowVars
  BY <1>1, WorkflowInvHolds, PTL DEF WorkflowSpec
<1> QED
  BY <1>2, PTL DEF RefusedOnlyWhenChanged, RefusedStep

=============================================================================
