--------------------------- MODULE Investigation ---------------------------
(***************************************************************************)
(* One investigation of ath.agent: specialists are run one after the       *)
(* other, chosen from those whose gate passes by a model or by a fixed     *)
(* order, until none is left or a budget is spent; then the model may      *)
(* propose further claims.  Two runtimes execute the same orchestrator:    *)
(* its own loop (orchestrator.py) and a LangGraph graph (graph.py).        *)
(*                                                                         *)
(* A case is known by what the gates of the specialists ask of it, a claim *)
(* by the events it cites, and one of the model by its type too.  What a   *)
(* model is asked is left out but for the events the synthesis prompt      *)
(* shows, what it answers but for the kind of answer, what a budget        *)
(* measures but for what is left of it; the plan log and the notes on      *)
(* unparseable replies are only written, never read by the loop, and are   *)
(* left out.                                                               *)
(***************************************************************************)
EXTENDS Integers, Sequences, SequencesExt, FiniteSets, FiniteSetsExt

CONSTANTS
  Roster,      \* the specialists, in the order of the roster
  Configs,     \* the settings investigations run with: see Config
  Runtimes,    \* a subset of {"direct", "graph"}
  KnownIds,    \* the events that are in the telemetry
  ModelCites,  \* the sets of ids, known or not, a claim of the model may cite
  Citings,     \* what one claim of a specialist may cite, in the order of its tool
  MaxClaims,   \* bound: verified claims of one step
  MaxProposed, \* bound: claims in one reply
  MaxTook,     \* bound: time one call or specialist takes
  MaxUsed,     \* bound: tokens of one call
  None

Specialists == ToSet(Roster)

\* InvestigationConfig, and whether the client has a model to ask.  The code
\* counts tool_output_budget in bytes; ids are taken to be of one length.
Config ==
  [max_steps : Nat \ {0}, available : BOOLEAN,
   use_llm_planner : BOOLEAN, use_llm_synthesis : BOOLEAN, max_synthesis_claims : Nat,
   tool_output_budget : (Nat \ {0}) \cup {None},
   time_budget : (Nat \ {0}) \cup {None}, token_budget : (Nat \ {0}) \cup {None}]

ASSUME InvestigationAssumption ==
  /\ Roster \in Seq(Specialists) /\ Len(Roster) > 0
  /\ \A i, k \in DOMAIN Roster : Roster[i] = Roster[k] => i = k
  /\ Configs \subseteq Config /\ Configs # {}
  /\ Runtimes \subseteq {"direct", "graph"}
  /\ Citings \subseteq Seq(KnownIds)
  /\ {MaxClaims, MaxProposed, MaxTook, MaxUsed} \subseteq Nat
  /\ None \notin Int \cup Specialists

VARIABLES
  \* fixed for the investigation
  runtime, config,
  triggered,    \* the specialists whose channels or tactics the case touches
  unobserved,   \* those whose telemetry the environment does not have
  mapped,       \* whether the case has ATT&CK mappings
  \* InvestigationState
  status, results, llm_requested, llm_errors, decisions,
  claims,       \* what each verified claim of a specialist cites,
  modelClaims,  \* and the claims of the model that were accepted
  \* where the runtime stands
  pc, chosen, timeLeft, tokensLeft,
  failed        \* how many calls the model has failed; nobody keeps this

caseVars == <<runtime, config, triggered, unobserved, mapped>>
claimVars == <<claims, modelClaims>>
stateVars == <<status, results, llm_requested, llm_errors, decisions, claimVars>>
budgetVars == <<timeLeft, tokensLeft>>
investigationVars == <<caseVars, stateVars, pc, chosen, budgetVars, failed>>

PlannerDecisions ==
  {"only-eligible", "planner-not-consulted", "model-chosen", "model-unparseable",
   "model-error", "model-declined", "model-invalid-name"}

DefaultPriority == <<"endpoint", "identity", "network", "attack">>

AcceptsFollowUp == {"network"}

Proposal == [type : {"FACT", "INFERENCE", "HYPOTHESIS"}, cites : ModelCites]

Step == Len(results)

HasRun(s) == \E i \in DOMAIN results : results[i].agent = s

FollowUps == {f \in UNION {results[i].follow_up : i \in DOMAIN results} : ~HasRun(f)}

-----------------------------------------------------------------------------
(* Which specialists may run. *)

HasWork(s) ==
  IF s = "attack" THEN mapped /\ Step > 0
  ELSE s \in triggered \/ (s \in AcceptsFollowUp /\ s \in FollowUps)

\* Slip: what has run is forgotten.
ShouldRunAgain(s) == s \notin unobserved /\ HasWork(s)

ShouldRun(s) == ~HasRun(s) /\ s \notin unobserved /\ HasWork(s)

Eligible == {s \in Specialists : ShouldRun(s)}

\* The first of the fixed order; for a specialist it does not name, of the roster.
ByPriority ==
  LET order == DefaultPriority \o Roster
  IN  order[Min({i \in DOMAIN order : order[i] \in Eligible})]

MayStep == Step < config.max_steps

\* What is left of a budget is below zero when the last call cost more.
Spent(left) == left # None /\ left <= 0

\* Slip: the budgets are spent only together.
BudgetExhaustedBoth == Spent(timeLeft) /\ Spent(tokensLeft)

BudgetExhausted == Spent(timeLeft) \/ Spent(tokensLeft)

Less(left, n) == IF left = None THEN None ELSE left - n

Passes == \E t \in 0 .. MaxTook : timeLeft' = Less(timeLeft, t)

\* A call to the model takes time and, as far as it reports them, tokens.
Called ==
  /\ Passes
  /\ \E n \in 0 .. MaxUsed : tokensLeft' = Less(tokensLeft, n)

CallFails == failed' = failed + 1 /\ llm_errors' = llm_errors + 1

-----------------------------------------------------------------------------
InvestigationInit ==
  /\ runtime \in Runtimes
  /\ config \in Configs
  /\ triggered \in SUBSET (Specialists \ {"attack"})
  /\ unobserved \in SUBSET (Specialists \ {"attack"})
  /\ mapped \in BOOLEAN
  /\ status = "pending"
  /\ results = <<>>
  /\ claims = <<>> /\ modelClaims = {}
  /\ llm_requested = FALSE
  /\ llm_errors = 0
  /\ decisions = [d \in PlannerDecisions |-> 0]
  /\ pc = "start"
  /\ chosen = None
  /\ timeLeft = config.time_budget
  /\ tokensLeft = config.token_budget
  /\ failed = 0

Investigate ==
  /\ pc = "start"
  /\ status' = "in_progress"
  /\ llm_requested' =
       (/\ runtime = "direct" /\ config.available
        /\ config.use_llm_planner \/ config.use_llm_synthesis)
  /\ pc' = "step"
  /\ UNCHANGED <<caseVars, results, claimVars, llm_errors, decisions, chosen, budgetVars,
                 failed>>

\* The head of the loop, and of the graph's only node.
StepLimit ==
  /\ pc = "step"
  /\ ~MayStep
  /\ status' = "step_limit"
  /\ pc' = "synthesise"
  /\ UNCHANGED <<caseVars, results, claimVars, llm_requested, llm_errors, decisions, chosen,
                 budgetVars, failed>>

\* Only the orchestrator's own loop looks at the budgets.
BudgetLimit ==
  /\ pc = "step"
  /\ MayStep
  /\ runtime = "direct"
  /\ BudgetExhausted
  /\ llm_errors' = llm_errors + 1
  /\ status' = "budget_limit"
  /\ pc' = "done"
  /\ UNCHANGED <<caseVars, results, claimVars, llm_requested, decisions, chosen, budgetVars,
                 failed>>

Planning ==
  /\ pc = "step"
  /\ MayStep
  /\ runtime = "direct" => ~BudgetExhausted

\* Slip: the loop is left only once something ran.
NothingEligibleAfterSome ==
  /\ Planning
  /\ Eligible = {} /\ results # <<>>
  /\ status' = "complete"
  /\ pc' = "synthesise"
  /\ UNCHANGED <<caseVars, results, claimVars, llm_requested, llm_errors, decisions, chosen,
                 budgetVars, failed>>

NothingEligible ==
  /\ Planning
  /\ Eligible = {}
  /\ status' = IF results # <<>> THEN "complete" ELSE "exhausted"
  /\ pc' = "synthesise"
  /\ UNCHANGED <<caseVars, results, claimVars, llm_requested, llm_errors, decisions, chosen,
                 budgetVars, failed>>

Choose(s, decision) ==
  /\ decisions' = [decisions EXCEPT ![decision] = @ + 1]
  /\ chosen' = s
  /\ pc' = "act"
  /\ UNCHANGED <<caseVars, status, results, claimVars, llm_requested>>

OnlyEligible ==
  /\ Planning
  /\ \E s \in Eligible : Eligible = {s} /\ Choose(s, "only-eligible")
  /\ UNCHANGED <<llm_errors, budgetVars, failed>>

PlannerNotConsulted ==
  /\ Planning
  /\ Cardinality(Eligible) > 1
  /\ ~(config.use_llm_planner /\ config.available)
  /\ Choose(ByPriority, "planner-not-consulted")
  /\ UNCHANGED <<llm_errors, budgetVars, failed>>

\* Slip: a reply that could not be used is not counted.
AskPlannerUncounted ==
  /\ Planning
  /\ Cardinality(Eligible) > 1
  /\ config.use_llm_planner /\ config.available
  /\ Called
  /\ \/ \E s \in Eligible : Choose(s, "model-chosen") /\ UNCHANGED <<llm_errors, failed>>
     \/ /\ chosen' = ByPriority /\ pc' = "act"
        /\ UNCHANGED <<caseVars, status, results, claimVars, llm_requested, decisions,
                       llm_errors, failed>>
     \/ Choose(ByPriority, "model-error") /\ CallFails

\* The model chooses from the menu, or the fixed order does.
AskPlanner ==
  /\ Planning
  /\ Cardinality(Eligible) > 1
  /\ config.use_llm_planner /\ config.available
  /\ Called
  /\ \/ \E s \in Eligible : Choose(s, "model-chosen") /\ UNCHANGED <<llm_errors, failed>>
     \/ /\ \E d \in {"model-unparseable", "model-declined", "model-invalid-name"} :
             Choose(ByPriority, d)
        /\ UNCHANGED <<llm_errors, failed>>
     \/ Choose(ByPriority, "model-error") /\ CallFails

\* What one specialist asks another for.
Suggests(s) ==
  CASE s = "endpoint" -> {"network", "identity"}
    [] s = "identity" -> {"network"}
    [] s = "network"  -> {"attack"}
    [] OTHER          -> {}

\* The verifier: every id exists, and all but hypotheses cite something.
Verified(c) == c.cites \subseteq KnownIds /\ (c.type = "HYPOTHESIS" \/ c.cites # {})

\* What the chosen specialist's verified claims cite; one that raises, or
\* whose claims are rejected, adds none.
AddsClaims == \E new \in SeqOf(Citings, MaxClaims) : claims' = claims \o new

\* act, verify and record.
Act ==
  /\ pc = "act"
  /\ Passes
  /\ AddsClaims
  /\ \E f \in SUBSET Suggests(chosen) :
       results' = Append(results, [agent |-> chosen, follow_up |-> f])
  /\ chosen' = None
  /\ pc' = "step"
  /\ UNCHANGED <<caseVars, status, llm_requested, llm_errors, decisions, modelClaims,
                 tokensLeft, failed>>

-----------------------------------------------------------------------------
(* Synthesis. *)

MaySynthesise == config.use_llm_synthesis /\ config.available /\ claims # <<>>

\* InvestigationState.evidence_ids: what any verified claim cites.
Evidence == UNION {ToSet(claims[i]) : i \in DOMAIN claims}

\* The ties between claims: what more than one of them cites.
Shared ==
  {e \in Evidence : \E i, k \in DOMAIN claims :
     i # k /\ e \in ToSet(claims[i]) /\ e \in ToSet(claims[k])}

\* Slip: the ids are taken as the tool returned them.
BeforeAsReturned(ids, i, k) == i < k

\* The i-th id of a claim is preferred to the k-th.
Before(ids, i, k) ==
  \/ ids[i] \in Shared /\ ids[k] \notin Shared
  \/ (ids[i] \in Shared <=> ids[k] \in Shared) /\ i < k

\* What a claim's line in the prompt shows, once there is a bound.
BoundedEvidence(ids) ==
  {ids[k] : k \in {k \in DOMAIN ids :
     Cardinality({i \in DOMAIN ids : Before(ids, i, k)}) < config.tool_output_budget}}

\* The events the model is shown.
Shown ==
  IF config.tool_output_budget = None THEN Evidence
  ELSE UNION {BoundedEvidence(claims[i]) : i \in DOMAIN claims}

SkipSynthesis ==
  /\ pc = "synthesise"
  /\ ~MaySynthesise
  /\ pc' = "done"
  /\ UNCHANGED <<caseVars, stateVars, chosen, budgetVars, failed>>

SynthesisUnusable ==
  /\ pc = "synthesise"
  /\ MaySynthesise
  /\ Called
  /\ CallFails \/ UNCHANGED <<llm_errors, failed>>
  /\ pc' = "done"
  /\ UNCHANGED <<caseVars, status, results, claimVars, llm_requested, decisions, chosen>>

\* Claims of another shape than asked for (a null, a string for a record)
\* raise out of synthesise; only what Claim refuses is caught.
SynthesisRaises ==
  /\ pc = "synthesise"
  /\ MaySynthesise
  /\ Called
  /\ pc' = "raised"
  /\ UNCHANGED <<caseVars, stateVars, chosen, failed>>

\* Of what the model proposes, the first few, no facts, nothing that cites
\* other events than the verified claims do.  That is more than Shown when a
\* line was cut; reject_unretrieved accepts the same and only words the
\* rejections differently.
Accepted(reply) ==
  LET heard == SubSeq(reply, 1, Min({config.max_synthesis_claims, Len(reply)}))
  IN  {p \in ToSet(heard) : p.type # "FACT" /\ p.cites \subseteq Evidence /\ Verified(p)}

Synthesise ==
  /\ pc = "synthesise"
  /\ MaySynthesise
  /\ Called
  /\ \E reply \in SeqOf(Proposal, MaxProposed) :
       modelClaims' = Accepted(reply)
  /\ pc' = "done"
  /\ UNCHANGED <<caseVars, status, results, llm_requested, llm_errors, decisions, claims,
                 chosen, failed>>

InvestigationNext ==
  \/ Investigate
  \/ StepLimit
  \/ BudgetLimit
  \/ NothingEligible
  \/ OnlyEligible
  \/ PlannerNotConsulted
  \/ AskPlanner
  \/ Act
  \/ SkipSynthesis
  \/ SynthesisUnusable
  \/ SynthesisRaises
  \/ Synthesise

InvestigationSpec == InvestigationInit /\ [][InvestigationNext]_investigationVars

\* Every call returns: clients and specialists have timeouts or only compute.
FairInvestigationSpec == InvestigationSpec /\ WF_investigationVars(InvestigationNext)

-----------------------------------------------------------------------------
InvestigationTypeOK ==
  /\ config \in Configs
  /\ triggered \cup unobserved \subseteq Specialists
  /\ status \in {"pending", "in_progress", "complete", "exhausted", "step_limit",
                 "budget_limit"}
  /\ \A i \in DOMAIN results :
       /\ results[i].agent \in Specialists
       /\ results[i].follow_up \subseteq {"identity", "network", "attack"}
  /\ Step <= config.max_steps
  /\ claims \in Seq(Citings) /\ modelClaims \subseteq Proposal
  /\ \A c \in modelClaims : c.type # "FACT"
  /\ Cardinality(modelClaims) <= config.max_synthesis_claims
  /\ {llm_errors, failed} \subseteq Nat
  /\ {timeLeft, tokensLeft} \subseteq Int \cup {None}
  /\ pc \in {"start", "step", "act", "synthesise", "done", "raised"}
  /\ pc = "act" <=> chosen \in Specialists

\* A specialist runs at most once, never where its telemetry is missing, and
\* only if the case touches it or one that ran before asked for it; the
\* interpretation of mappings never comes first.  No answer of the model, no
\* failure and no order of steps gets around it.
SpecialistsEarned ==
  \A i \in DOMAIN results :
    LET s == results[i].agent
        before == {results[k] : k \in 1 .. i - 1}
    IN  /\ s \notin {r.agent : r \in before}
        /\ s \notin unobserved
        /\ IF s = "attack" THEN mapped /\ before # {}
           ELSE s \in triggered \/ \E r \in before : s \in r.follow_up

\* A complete investigation left out no specialist that the case, a mapping or
\* another specialist called for, and an exhausted one had none to run.
CompleteCoversCase ==
  /\ status = "complete" =>
       /\ Step > 0
       /\ \A s \in (triggered \cup (Specialists \cap AcceptsFollowUp \cap FollowUps)) \ unobserved :
            HasRun(s)
       /\ mapped /\ "attack" \in Specialists => HasRun("attack")
  /\ status = "exhausted" => Step = 0 /\ triggered \subseteq unobserved

\* The specialists that ran are the ones the case called for, no more and, once
\* the investigation is complete, no fewer.
SpecialistsAsCalledFor == SpecialistsEarned /\ CompleteCoversCase

DecisionsMade ==
  decisions["only-eligible"] + decisions["planner-not-consulted"] + decisions["model-chosen"]
    + decisions["model-unparseable"] + decisions["model-error"] + decisions["model-declined"]
    + decisions["model-invalid-name"]

\* Every step that ran was decided by somebody, and counted once under who it
\* was: the shares of model and fixed order in a run can be read off.
DecisionsCounted == DecisionsMade = Step + (IF pc = "act" THEN 1 ELSE 0)

\* The state an investigation returns adds up.
InvestigationSound == InvestigationTypeOK /\ DecisionsCounted

\* Bounding the prompt loses no relationship it need not lose.  What the model
\* adds is grounded in verified claims; an event it cites without having seen
\* it was cut from every line that had it, each longer than the bound and not
\* left empty, and a tie between claims was cut only in favour of other ties.
\* (That it may be cited unseen at all is against what synthesise promises.)
CitesShownOrElided ==
  \A c \in modelClaims : \A e \in c.cites :
    /\ e \in Evidence
    /\ e \notin Shown =>
         \A i \in DOMAIN claims : e \in ToSet(claims[i]) =>
           LET line == ToSet(claims[i]) \cap Shown
           IN  /\ config.tool_output_budget # None
               /\ Len(claims[i]) > config.tool_output_budget
               /\ line # {}
               /\ e \in Shared => line \subseteq Shared

\* No more of a budget than this was overdrawn.
Overdrawn(left, by) == left = None \/ left > -by

\* The own loop looks at the budgets at the head of each step only, and never
\* before synthesis: a specialist starts with nothing left when the call that
\* chose it took the rest, and so does the synthesis after the last step
\* allowed.  Still the overrun stays below what these take together, which is
\* a planner's call and a specialist, and synthesis on top of them only if
\* these were the last step allowed: after any other end of the loop it starts
\* with something left.  Whoever is stopped by a budget has spent it.
OverrunBounded ==
  runtime = "direct" =>
    /\ status = "budget_limit" => BudgetExhausted /\ modelClaims = {}
    /\ LET step == status \in {"in_progress", "budget_limit", "step_limit"}
           synthesis == pc \in {"done", "raised"} /\ status # "budget_limit"
           calls == (IF step THEN 1 ELSE 0) + (IF synthesis THEN 1 ELSE 0)
           specialists == IF step THEN 1 ELSE 0
       IN  /\ Overdrawn(timeLeft, (calls + specialists) * MaxTook)
           /\ Overdrawn(tokensLeft, calls * MaxUsed)

\* Either runtime comes to an end: failing specialists and useless replies use
\* up what may still be done.
InvestigationEnds == <>(pc \in {"done", "raised"})

\* A run that lost its model says so: llm_degraded is true whenever a call to
\* the model failed, under whichever runtime.
DegradedTold == pc = "done" /\ failed > 0 => llm_requested /\ llm_errors > 0

=============================================================================
