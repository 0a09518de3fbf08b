---------------------------- MODULE Investigator ----------------------------
(***************************************************************************)
(* The single bounded investigator of ath.agent: it retrieves what a case  *)
(* cites, then lets a model choose from a menu one probe a round, until    *)
(* the model asks for no more, a bound is reached or a call cannot be      *)
(* used; the explanations of the model's last answer become claims.        *)
(*                                                                         *)
(* It runs on its own, as an arm of an experiment (investigator.py), or as *)
(* the operational policy (operational.py): each call to the model goes    *)
(* through a guarded client, every irregularity of the run makes the       *)
(* result incomplete, and a benign guard may withhold a clearance          *)
(* (benign_guard.py).  An operational run without a model is that of       *)
(* module Investigation.                                                   *)
(*                                                                         *)
(* A tool's result is the events it hands over and those of them that are  *)
(* rendered to the model; an explanation is the events it cites.  The      *)
(* facts the tools author cite what they read, are always accepted, and    *)
(* are left out.                                                           *)
(***************************************************************************)
EXTENDS Integers, Sequences, SequencesExt, FiniteSets

CONSTANTS
  KnownIds,        \* the events of the telemetry,
  EventIds,        \* and all that a model may cite
  Probes,          \* what a menu may offer: a tool with its arguments
  Calls,           \* the seed's calls to the tools
  ResultOf,        \* what each probe and call returns: see Result
  Settings,        \* the cases and policies to investigate under: see Setting
  Answers,         \* what a model may answer: see Answer
  Costs,           \* tokens a call may report
  MaxMenu,         \* probes on one menu (the code: 8),
  MaxTrees,        \* cited processes, and children, on it (3 each),
  MaxDestinations, \* and destinations (2)
  None

\* ids: what the tool hands over; shown: what of it the model is shown;
\* children, destinations: the probes those events give rise to.
Result ==
  [ids : SUBSET KnownIds, shown : SUBSET KnownIds,
   children : Seq(Probes), destinations : Seq(Probes)]

\* seed: the calls for the case's findings, its rows (events) and techniques;
\* trees, accounts, hosts: probes from its cited processes, users and devices;
\* ancestry: for each process it starts from, the records of the parent.
\* The rest is what the investigator is configured with, None standing for no
\* budget and timed for a budget of time; the policy always has both.
Setting ==
  [seed : Seq(Calls), events : Calls, trees : Seq(Probes), accounts : Seq(Probes),
   hosts : Seq(Probes), ancestry : SUBSET SUBSET KnownIds,
   available : BOOLEAN, operational : BOOLEAN, guard : BOOLEAN,
   maxSteps : Nat \ {0}, maxProbes : Nat, toolBudget : Nat \cup {None}, timed : BOOLEAN,
   tokenBudget : (Nat \ {0}) \cup {None}]

Disposition == {"malicious", "benign", "abstain"}

\* dropped: the parser had to drop something; probe: 0 for none, n for P<n>.
Answer ==
  [explanations : Seq(SUBSET EventIds), dropped : BOOLEAN, probe : Nat,
   disposition : Disposition]

StopReason ==
  {"no model available", "budget exhausted", "model call unusable", "model chose no probe",
   "probe budget spent", "step or tool budget spent"}

Outcome == {"complete", "incomplete"}

ASSUME InvestigatorAssumption ==
  /\ KnownIds \subseteq EventIds
  /\ ResultOf \in [Probes \cup Calls -> Result]
  /\ \A call \in Probes \cup Calls : ResultOf[call].shown \subseteq ResultOf[call].ids
  /\ Settings \subseteq Setting
  /\ \A s \in Settings : s.guard => s.operational
  /\ \A s \in Settings :
       s.operational => s.maxSteps >= s.maxProbes + 2 /\ s.timed /\ s.tokenBudget # None
  /\ Answers \subseteq Answer
  /\ Costs \subseteq Nat
  /\ {MaxMenu, MaxTrees, MaxDestinations} \subseteq Nat
  /\ None \notin Nat \cup Probes \cup Disposition \cup StopReason \cup Outcome
  /\ None \notin Answers

VARIABLES
  setting,    \* fixed for the investigation
  at,         \* where it stands
  calls,      \* the calls made to the tools, with whether each was refused
  shown,      \* the events rendered to the model
  menu,       \* what the round offers
  children, destinations,
  rounds,     \* what the model answered in each round; None: nothing usable
  late,       \* whether the time budget has run out
  tokens,     \* spent, or None once a call did not report its usage
  llmErrors,  \* whether any was noted
  stop,       \* why the loop stopped
  steps, status, claims, rejected,
  outcome, disposition

investigatorVars ==
  <<setting, at, calls, shown, menu, children, destinations, rounds, late, tokens,
    llmErrors, stop, steps, status, claims, rejected, outcome, disposition>>

toolVars == <<calls, shown, children, destinations>>
modelVars == <<rounds, tokens, llmErrors>>
resultVars == <<status, claims, rejected, outcome, disposition>>

-----------------------------------------------------------------------------
(* The tools. *)

Served == Cardinality({i \in DOMAIN calls : ~calls[i].refused})

ToolBudgetExhausted == setting.toolBudget # None /\ Served >= setting.toolBudget

\* The calls, made in order: a refused call takes nothing from the budget.
CallsMade(names) ==
  [i \in DOMAIN names |->
     [call |-> names[i],
      refused |-> setting.toolBudget # None /\ Served + i > setting.toolBudget]]

Results(made) == {ResultOf[made[i].call] : i \in {k \in DOMAIN made : ~made[k].refused}}

\* Every event a tool handed over.
Retrieved == UNION {r.ids : r \in Results(calls)}

AlreadyRun == {calls[i].call : i \in DOMAIN calls} \cap Probes

-----------------------------------------------------------------------------
(* The menu. *)

\* The entries of s at some of its positions, in order.
Pick(s, positions) ==
  LET nth(n) == CHOOSE i \in positions : Cardinality({k \in positions : k < i}) = n - 1
  IN  [n \in 1 .. Cardinality(positions) |-> s[nth(n)]]

FirstOf(probes, n) == SubSeq(probes, 1, IF n < Len(probes) THEN n ELSE Len(probes))

\* The cited rows, and so their processes, are known if the tool gave them.
CitedTrees ==
  IF \E i \in DOMAIN calls : calls[i].call = setting.events /\ ~calls[i].refused
  THEN FirstOf(setting.trees, MaxTrees) ELSE <<>>

Candidates ==
  CitedTrees \o FirstOf(children, MaxTrees) \o setting.accounts \o setting.hosts
    \o FirstOf(destinations, MaxDestinations)

\* Where a candidate stands first that is not in old.
Fresh(old) ==
  {i \in DOMAIN Candidates :
     Candidates[i] \notin old /\ \A k \in 1 .. i - 1 : Candidates[k] # Candidates[i]}

\* Slip: a probe is offered again after it has run.
BuildMenuAgain == FirstOf(Pick(Candidates, Fresh({})), MaxMenu)

BuildMenu == FirstOf(Pick(Candidates, Fresh(AlreadyRun)), MaxMenu)

-----------------------------------------------------------------------------
InvestigatorInit ==
  /\ setting \in Settings
  /\ at = "seed"
  /\ calls = <<>> /\ shown = {}
  /\ menu = <<>> /\ children = <<>> /\ destinations = <<>>
  /\ rounds = <<>> /\ tokens = 0 /\ llmErrors = FALSE
  /\ late = FALSE
  /\ stop = None
  /\ steps = 0
  /\ status = "in_progress"
  /\ claims = {} /\ rejected = FALSE
  /\ outcome = None /\ disposition = None

TimePasses ==
  /\ setting.timed /\ ~late /\ at # "done"
  /\ late' = TRUE
  /\ UNCHANGED <<setting, at, toolVars, menu, modelVars, stop, steps, resultVars>>

Seed ==
  /\ at = "seed"
  /\ calls' = CallsMade(setting.seed)
  /\ shown' = UNION {r.shown : r \in Results(calls')}
  /\ steps' = 1
  /\ IF setting.available THEN at' = "round" /\ UNCHANGED stop
     ELSE at' = "conclude" /\ stop' = "no model available"
  /\ UNCHANGED <<setting, menu, children, destinations, modelVars, late, resultVars>>

TokensSpent ==
  setting.tokenBudget # None /\ tokens # None /\ tokens >= setting.tokenBudget

\* A round begins with a look at the budgets; then the menu is made.
BeginRound ==
  /\ at = "round"
  /\ IF late \/ TokensSpent
     THEN /\ at' = "conclude"
          /\ stop' = "budget exhausted"
          /\ llmErrors' = TRUE
          /\ UNCHANGED menu
     ELSE /\ at' = "ask"
          /\ menu' = BuildMenu
          /\ UNCHANGED <<stop, llmErrors>>
  /\ UNCHANGED <<setting, toolVars, rounds, tokens, late, steps, resultVars>>

-----------------------------------------------------------------------------
(* The model. *)

\* Slip: a call that gave nothing is made again.
UnusableAskAgain(spent, noted) ==
  /\ tokens' = spent
  /\ at' = "round"
  /\ UNCHANGED <<rounds, llmErrors, stop>>

\* The loop ends with the first call that gives no answer.
Unusable(spent, noted) ==
  /\ rounds' = Append(rounds, [answer |-> None, menu |-> menu])
  /\ tokens' = spent
  /\ llmErrors' = (llmErrors \/ noted)
  /\ stop' = "model call unusable"
  /\ at' = "conclude"

\* The guarded client does not even ask.
MayNotAsk == setting.operational /\ (late \/ TokensSpent \/ tokens = None)

Withhold == MayNotAsk /\ Unusable(tokens, TRUE)

\* What calls have used by then, if that is counted; an exception, or a reply that
\* does not tell, leaves it unknown under the policy and adds nothing in an arm.
Spent(used) ==
  IF setting.tokenBudget = None \/ (used = None /\ ~setting.operational) THEN tokens
  ELSE IF used = None THEN None ELSE tokens + used

\* An error or an exception of the client, a prompt that may not be sent; under the
\* policy also a truncated or misshapen reply, and one of unknown cost.
Fail == \E used \in {0, None} \cup Costs : Unusable(Spent(used), TRUE)

\* No JSON: an arm counts it as no error of the model.
FailToParse ==
  /\ ~setting.operational
  /\ Unusable(tokens, FALSE)

\* The probe an answer names, if the menu has it.
Chosen(answer) == IF answer.probe \in DOMAIN menu THEN menu[answer.probe] ELSE None

\* Slip: one probe more than there are rounds for it.
StopAfterOneMore(answer) ==
  CASE Chosen(answer) = None -> "model chose no probe"
    [] Chosen(answer) # None /\ Len(rounds) > setting.maxProbes -> "probe budget spent"
    [] OTHER -> IF steps >= setting.maxSteps \/ ToolBudgetExhausted
                THEN "step or tool budget spent" ELSE None

\* Why the loop ends with this answer, if it does.
StopAfter(answer) ==
  CASE Chosen(answer) = None -> "model chose no probe"
    [] Chosen(answer) # None /\ Len(rounds) >= setting.maxProbes -> "probe budget spent"
    [] OTHER -> IF steps >= setting.maxSteps \/ ToolBudgetExhausted
                THEN "step or tool budget spent" ELSE None

Reply ==
  \E answer \in Answers, used \in Costs :
    /\ rounds' = Append(rounds, [answer |-> answer, menu |-> menu])
    /\ tokens' = Spent(used)
    /\ stop' = StopAfter(answer)
    /\ at' = IF stop' = None THEN "probe" ELSE "conclude"
    /\ UNCHANGED llmErrors

Ask ==
  /\ at = "ask"
  /\ \/ Withhold
     \/ ~MayNotAsk /\ (Fail \/ FailToParse \/ Reply)
  /\ UNCHANGED <<setting, toolVars, menu, late, steps, resultVars>>

RunProbe ==
  /\ at = "probe"
  /\ LET probe == Chosen(Last(rounds).answer)
         made == CallsMade(<<probe>>)
         found == ResultOf[probe].destinations
     IN  /\ calls' = calls \o made
         /\ shown' = shown \cup UNION {r.shown : r \in Results(made)}
         /\ IF made[1].refused THEN UNCHANGED <<children, destinations>>
            ELSE /\ children' = children \o ResultOf[probe].children
                 /\ destinations' = destinations \o
                      Pick(found, {i \in DOMAIN found : ~Contains(destinations, found[i])})
  /\ steps' = steps + 1
  /\ at' = "round"
  /\ UNCHANGED <<setting, menu, modelVars, late, stop, resultVars>>

-----------------------------------------------------------------------------
(* The result. *)

Usable == {i \in DOMAIN rounds : rounds[i].answer # None}

\* An arm drops the events it did not show, unless one of them does not exist.
Cited(explanation) ==
  IF ~setting.operational /\ explanation \subseteq KnownIds THEN explanation \cap shown
  ELSE explanation

\* Slip: the verifier is not told what was retrieved.
AcceptedIfKnown(cites) == cites \subseteq KnownIds

\* The verifier: the policy tells it what was shown.
Accepted(cites) ==
  /\ cites \subseteq KnownIds
  /\ setting.operational => cites \subseteq shown

Conclude ==
  /\ at = "conclude"
  /\ steps' = steps + 1
  /\ IF Usable = {}
     THEN UNCHANGED <<claims, rejected, disposition>>
     ELSE LET answer == rounds[Max(Usable)].answer
              proposed == {Cited(e) : e \in ToSet(answer.explanations)}
          IN  /\ claims' = {cites \in proposed : Accepted(cites)}
              /\ rejected' = (claims' # proposed)
              /\ disposition' = answer.disposition
  /\ status' = CASE stop = "budget exhausted" -> "budget_limit"
                 [] stop = "step or tool budget spent" /\ steps' >= setting.maxSteps ->
                      "step_limit"
                 [] OTHER -> IF Usable # {} THEN "complete" ELSE "exhausted"
  /\ at' = IF setting.operational THEN "report" ELSE "done"
  /\ UNCHANGED <<setting, toolVars, menu, modelVars, late, stop, outcome>>

InvalidRound(r) ==
  /\ r.answer # None
  /\ r.answer.dropped \/ r.answer.probe \notin {0} \cup DOMAIN r.menu

\* Slip: how the loop stopped is not asked.
IrregularButForStop ==
  \/ llmErrors \/ ~setting.available \/ late \/ TokensSpent
  \/ status \in {"step_limit", "budget_limit"}
  \/ \E i \in DOMAIN calls : calls[i].refused
  \/ rejected
  \/ \E i \in DOMAIN rounds : InvalidRound(rounds[i])
  \/ disposition \in {"malicious", "benign"} /\ \A cites \in claims : cites = {}

\* The reasons for which a result counts as incomplete.
Irregular ==
  \/ llmErrors \/ ~setting.available \/ late \/ TokensSpent
  \/ status \in {"step_limit", "budget_limit"}
  \/ stop # "model chose no probe"
  \/ \E i \in DOMAIN calls : calls[i].refused
  \/ rejected
  \/ \E i \in DOMAIN rounds : InvalidRound(rounds[i])
  \/ disposition \in {"malicious", "benign"} /\ \A cites \in claims : cites = {}

\* benign_guard_decision: some process the case starts from, and no record of its
\* parent among what the tools handed over.
BenignGuard ==
  /\ setting.guard
  /\ disposition = "benign"
  /\ \E parents \in setting.ancestry : parents \cap Retrieved = {}

\* investigate_operational, from the end of the loop on.
Report ==
  /\ at = "report"
  /\ IF Irregular
     THEN /\ outcome' = "incomplete"
          /\ status' = "incomplete"
          /\ claims' = {}
          /\ disposition' = "abstain"
     ELSE /\ outcome' = "complete"
          /\ disposition' = IF BenignGuard THEN "abstain" ELSE disposition
          /\ UNCHANGED <<status, claims>>
  /\ at' = "done"
  /\ UNCHANGED <<setting, toolVars, menu, modelVars, late, stop, steps, rejected>>

Step == Seed \/ BeginRound \/ Ask \/ RunProbe \/ Conclude \/ Report

InvestigatorNext == Step \/ TimePasses

InvestigatorSpec == InvestigatorInit /\ [][InvestigatorNext]_investigatorVars

\* Every call to a tool returns, and every call to the model within its timeout.
FairInvestigatorSpec == InvestigatorSpec /\ WF_investigatorVars(Step)

-----------------------------------------------------------------------------
(* Correctness. *)

\* The calls after the seed's: the probes that were run.
ProbeCalls == SubSeq(calls, Len(setting.seed) + 1, Len(calls))

\* The probes that were known of before the n-th was run.
Known(n) ==
  ToSet(setting.accounts) \cup ToSet(setting.hosts)
    \cup (IF \E i \in DOMAIN calls : calls[i] = [call |-> setting.events, refused |-> FALSE]
          THEN ToSet(setting.trees) ELSE {})
    \cup UNION {ToSet(ResultOf[c.call].children) \cup ToSet(ResultOf[c.call].destinations)
                  : c \in {ProbeCalls[m] : m \in {m \in DOMAIN ProbeCalls :
                                                    m < n /\ ~ProbeCalls[m].refused}}}

\* What the state consists of, and the bounds: at most maxProbes probes and one
\* call to the model more than that, no more tool results than the budget has,
\* and under the policy no more steps than its profile.
InvestigatorSound ==
  /\ at \in {"seed", "round", "ask", "probe", "conclude", "report", "done"}
  /\ \A i \in DOMAIN calls : calls[i].call \in Probes \cup Calls
  /\ shown \subseteq Retrieved
  /\ tokens \in Nat \cup {None}
  /\ disposition \in Disposition \cup {None}
  /\ outcome \in Outcome \cup {None}
  /\ Len(rounds) <= setting.maxProbes + 1
  /\ Len(ProbeCalls) <= setting.maxProbes
  /\ setting.toolBudget # None => Served <= setting.toolBudget
  /\ setting.operational => steps <= setting.maxSteps

\* No probe runs twice; each is the one its round's answer named on the menu of
\* that round, and comes from the case or from what an earlier call returned.
ProbesFollowEvidence ==
  \A n \in DOMAIN ProbeCalls :
    LET probe == ProbeCalls[n].call
    IN  /\ \A m \in DOMAIN ProbeCalls : ProbeCalls[m].call = probe => m = n
        /\ probe \in Probes
        /\ probe = rounds[n].menu[rounds[n].answer.probe]
        /\ probe \in Known(n)

\* A complete operational result had nothing go wrong anywhere: every call to the
\* model was answered in full, in time and at a known price, every probe it asked
\* for was run, no tool refused, and in the end it asked for nothing more.
CompleteIsUndisturbed ==
  outcome = "complete" =>
    /\ setting.available
    /\ ~late
    /\ tokens # None /\ tokens < setting.tokenBudget
    /\ \A i \in DOMAIN calls : ~calls[i].refused
    /\ \A i \in DOMAIN rounds : rounds[i].answer # None /\ ~rounds[i].answer.dropped
    /\ Len(rounds) = Len(ProbeCalls) + 1
    /\ Last(rounds).answer.probe = 0

\* The model's claims cite only events it was shown.  A verdict of the policy rests
\* on such a claim and on a complete run, an incomplete run publishes nothing of the
\* model, and with the guard no process is cleared whose parent no tool handed over.
VerdictEarned ==
  at = "done" =>
    /\ \A cites \in claims : cites \subseteq shown
    /\ outcome = "incomplete" => claims = {} /\ disposition = "abstain"
    /\ setting.operational /\ disposition \in {"malicious", "benign"} =>
         outcome = "complete" /\ \E cites \in claims : cites # {}
    /\ setting.guard /\ disposition = "benign" =>
         \A parents \in setting.ancestry : parents \cap Retrieved # {}

\* Every investigation ends, whatever the model answers or fails to.
InvestigatorEnds == <>(at = "done")

=============================================================================
