------------------------- MODULE InvestigationProofs ------------------------
(***************************************************************************)
(* Proofs about Investigation.  From the decision for a specialist until   *)
(* its step is recorded nothing changes that its gate asks for, so what    *)
(* runs was still called for; once the loop is left nothing runs any more, *)
(* so what it said of the specialists that are left stays true.  What was  *)
(* overdrawn of a budget follows from where the loop stands.  What a       *)
(* bounded line shows is a beginning of its ids, ties first; an id that is *)
(* not in it has everything the line shows before it.                      *)
(***************************************************************************)
EXTENDS Investigation, FiniteSetTheorems, WellFoundedInduction, TLAPS

ResultRecord == [agent : Specialists, follow_up : SUBSET {"identity", "network", "attack"}]

InvestigationTypes ==
  /\ config \in Configs
  /\ triggered \subseteq Specialists \ {"attack"}
  /\ unobserved \subseteq Specialists \ {"attack"}
  /\ mapped \in BOOLEAN
  /\ status \in {"pending", "in_progress", "complete", "exhausted", "step_limit",
                 "budget_limit"}
  /\ results \in Seq(ResultRecord)
  /\ claims \in Seq(Citings) /\ modelClaims \subseteq Proposal
  /\ llm_errors \in Nat /\ failed \in Nat
  /\ decisions \in [PlannerDecisions -> Nat]
  /\ timeLeft \in Int \cup {None} /\ tokensLeft \in Int \cup {None}
  /\ pc \in {"start", "step", "act", "synthesise", "done", "raised"}

\* Between the decision and the step nothing changes what the decision rests on.
ChoiceSound ==
  /\ pc = "act" <=> chosen \in Specialists
  /\ pc = "act" => ShouldRun(chosen) /\ Step < config.max_steps
  /\ Step <= config.max_steps

\* The status tells why the loop was left, and what was left to run then.
StatusSound ==
  /\ pc = "start" => status = "pending"
  /\ pc \in {"step", "act"} => status = "in_progress"
  /\ status \in {"complete", "exhausted"} => Eligible = {}
  /\ status = "complete" => results # <<>>
  /\ status = "exhausted" => results = <<>>
  /\ status = "budget_limit" => pc = "done"
  /\ pc \in {"synthesise", "done", "raised"} => status \notin {"pending", "in_progress"}

\* Of what the model proposed.
ModelClaimsSound ==
  /\ \A c \in modelClaims : c.type # "FACT" /\ c.cites \subseteq Evidence
  /\ Cardinality(modelClaims) <= config.max_synthesis_claims

IInv ==
  /\ InvestigationTypes /\ ChoiceSound /\ StatusSound /\ DecisionsCounted
  /\ SpecialistsEarned
  /\ pc \notin {"done", "raised"} => modelClaims = {}
  /\ ModelClaimsSound

-----------------------------------------------------------------------------
(* Least elements, by the well-foundedness of finite sets. *)

LEMMA Least ==
  ASSUME NEW S, S \subseteq Nat, S # {}
  PROVE  \E n \in S : \A m \in S : n <= m
<1> DEFINE T == {1 .. n : n \in S}
<1>1. IsWellFoundedOn(StrictSubsetOrdering(Nat), FiniteSubsetsOf(Nat))
  BY FS_StrictSubsetOrderingWellFounded
<1>2. T \subseteq FiniteSubsetsOf(Nat) /\ T # {}
  <2>1. \A n \in S : 1 .. n \subseteq Nat /\ IsFiniteSet(1 .. n)
    BY FS_Interval
  <2> QED
    BY <2>1 DEF FiniteSubsetsOf
<1>3. PICK x \in T : \A y \in T : ~ (<<y, x>> \in StrictSubsetOrdering(Nat))
  BY <1>1, <1>2, WFMin
<1>4. PICK n \in S : x = 1 .. n
  OBVIOUS
<1>5. \A m \in S : n <= m
  <2> SUFFICES ASSUME NEW m \in S, m < n
               PROVE  FALSE
    OBVIOUS
  <2>1. 1 .. m \subseteq 1 .. n /\ n \in 1 .. n /\ n \notin 1 .. m
    OBVIOUS
  <2>2. 1 .. m \in SUBSET Nat /\ 1 .. n \in SUBSET Nat
    OBVIOUS
  <2>3. <<1 .. m, 1 .. n>> \in StrictSubsetOrdering(Nat)
    BY <2>1, <2>2 DEF StrictSubsetOrdering
  <2> QED
    BY <1>3, <1>4, <2>3
<1> QED
  BY <1>5

LEMMA MinOf ==
  ASSUME NEW S, S \subseteq Nat, S # {}
  PROVE  Min(S) \in S /\ \A m \in S : Min(S) <= m
<1>1. \E n \in S : \A m \in S : n <= m
  BY Least
<1> QED
  BY <1>1 DEF Min

\* The entries of a sequence are no more than its positions.
LEMMA EntriesCounted ==
  ASSUME NEW S, NEW s \in Seq(S)
  PROVE  IsFiniteSet(ToSet(s)) /\ Cardinality(ToSet(s)) <= Len(s)
<1>1. Len(s) \in Nat /\ DOMAIN s = 1 .. Len(s)
  OBVIOUS
<1>2. IsFiniteSet(1 .. Len(s)) /\ Cardinality(1 .. Len(s)) = Len(s)
  BY <1>1, FS_Interval
<1>3. PICK f : f = [i \in 1 .. Len(s) |-> s[i]]
  OBVIOUS
<1>4. f \in Surjection(1 .. Len(s), ToSet(s))
  BY <1>1, <1>3 DEF Surjection, ToSet
<1> QED
  BY <1>2, <1>4, FS_Surjection

-----------------------------------------------------------------------------
(* The choice. *)

LEMMA Constants ==
  /\ Roster \in Seq(Specialists)
  /\ \A s \in Specialists : s # None
  /\ config \in Configs =>
       /\ config.max_steps \in Nat /\ config.max_steps > 0
       /\ config.max_synthesis_claims \in Nat
       /\ config.time_budget \in Nat \cup {None} /\ config.token_budget \in Nat \cup {None}
<1>1. Roster \in Seq(Specialists) /\ \A s \in Specialists : s # None
  BY InvestigationAssumption
<1>2. ASSUME config \in Configs
      PROVE  /\ config.max_steps \in Nat /\ config.max_steps > 0
             /\ config.max_synthesis_claims \in Nat
             /\ config.time_budget \in Nat \cup {None} /\ config.token_budget \in Nat \cup {None}
  <2>1. config \in Config
    BY <1>2, InvestigationAssumption
  <2> QED
    BY <2>1 DEF Config
<1> QED
  BY <1>1, <1>2

\* Whom the fixed order names may run, if anyone may.
LEMMA PriorityEligible ==
  ASSUME Eligible # {}
  PROVE  ByPriority \in Eligible
<1> DEFINE order == DefaultPriority \o Roster
           positions == {i \in DOMAIN order : order[i] \in Eligible}
<1>1. PICK All : All = Specialists \cup {"endpoint", "identity", "network", "attack"}
  OBVIOUS
<1>2. DefaultPriority \in Seq(All) /\ Roster \in Seq(All)
  BY <1>1, Constants DEF DefaultPriority
<1>3. Len(DefaultPriority) \in Nat /\ Len(Roster) \in Nat /\ DOMAIN Roster = 1 .. Len(Roster)
  BY <1>2
<1>4. /\ order \in Seq(All) /\ Len(order) = Len(DefaultPriority) + Len(Roster)
      /\ DOMAIN order = 1 .. Len(order)
  BY <1>2
<1>5. PICK s \in Eligible : TRUE
  OBVIOUS
<1>6. PICK i \in DOMAIN Roster : Roster[i] = s
  BY <1>5 DEF Eligible, Specialists, ToSet
<1>7. order[Len(DefaultPriority) + i] = s /\ Len(DefaultPriority) + i \in DOMAIN order
  <2>1. order[Len(DefaultPriority) + i] = Roster[i]
    BY <1>2, <1>3, <1>6
  <2>2. Len(DefaultPriority) + i \in 1 .. Len(DefaultPriority) + Len(Roster)
    BY <1>3, <1>6
  <2> QED
    BY <1>4, <1>6, <2>1, <2>2
<1>8. positions # {} /\ positions \subseteq Nat
  <2>1. Len(DefaultPriority) + i \in positions
    BY <1>5, <1>7
  <2>2. positions \subseteq 1 .. Len(order)
    BY <1>4
  <2> QED
    BY <2>1, <2>2
<1> HIDE DEF positions
<1>9. Min(positions) \in positions
  BY <1>8, MinOf
<1>10. ByPriority = order[Min(positions)]
  BY DEF ByPriority, positions
<1> QED
  BY <1>9, <1>10 DEF positions

\* Who may run depends on the case and on what has run.
LEMMA SameResults ==
  ASSUME UNCHANGED <<caseVars, results>>
  PROVE  /\ Step' = Step /\ Eligible' = Eligible
         /\ \A s \in Specialists : ShouldRun(s)' <=> ShouldRun(s)
         /\ SpecialistsEarned' <=> SpecialistsEarned
<1>1. UNCHANGED <<triggered, unobserved, mapped, results>>
  BY DEF caseVars
<1>2. Step' = Step /\ FollowUps' = FollowUps
  BY <1>1 DEF Step, FollowUps, HasRun
<1>3. \A s \in Specialists : ShouldRun(s)' <=> ShouldRun(s)
  BY <1>1, <1>2 DEF ShouldRun, HasRun, HasWork
<1>4. Eligible' = Eligible
  BY <1>1, <1>2 DEF Eligible, ShouldRun, HasRun, HasWork
<1>5. SpecialistsEarned' <=> SpecialistsEarned
  BY <1>1 DEF SpecialistsEarned
<1> QED
  BY <1>2, <1>3, <1>4, <1>5

LEMMA LessTyped ==
  ASSUME NEW left \in Int \cup {None}, NEW n \in Nat
  PROVE  Less(left, n) \in Int \cup {None}
BY DEF Less

LEMMA PassesTyped ==
  ASSUME timeLeft \in Int \cup {None}, Passes
  PROVE  timeLeft' \in Int \cup {None}
<1>1. PICK t \in 0 .. MaxTook : timeLeft' = Less(timeLeft, t)
  BY DEF Passes
<1>2. t \in Nat
  BY InvestigationAssumption
<1> QED
  BY <1>1, <1>2, LessTyped

LEMMA CalledTyped ==
  ASSUME timeLeft \in Int \cup {None}, tokensLeft \in Int \cup {None}, Called
  PROVE  timeLeft' \in Int \cup {None} /\ tokensLeft' \in Int \cup {None}
<1>1. PICK n \in 0 .. MaxUsed : tokensLeft' = Less(tokensLeft, n)
  BY DEF Called
<1>2. n \in Nat
  BY InvestigationAssumption
<1>3. Passes
  BY DEF Called
<1> QED
  BY <1>1, <1>2, <1>3, LessTyped, PassesTyped

-----------------------------------------------------------------------------
(* Steps that neither choose a specialist nor run one. *)

LEMMA NoChoiceKept ==
  ASSUME ChoiceSound, DecisionsCounted, SpecialistsEarned,
         UNCHANGED <<caseVars, results, decisions, chosen>>, pc # "act", pc' # "act"
  PROVE  ChoiceSound' /\ DecisionsCounted' /\ SpecialistsEarned'
<1>1. Step' = Step /\ (SpecialistsEarned' <=> SpecialistsEarned)
  BY SameResults
<1>2. config' = config /\ chosen' = chosen /\ decisions' = decisions
  BY DEF caseVars
<1>3. Specialists' = Specialists
  BY DEF Specialists
<1>4. ChoiceSound'
  BY <1>1, <1>2, <1>3 DEF ChoiceSound
<1>5. DecisionsCounted'
  BY <1>1, <1>2 DEF DecisionsCounted, DecisionsMade
<1> QED
  BY <1>1, <1>4, <1>5

LEMMA ClaimsKept ==
  ASSUME ModelClaimsSound, UNCHANGED <<caseVars, claimVars>>
  PROVE  ModelClaimsSound'
BY DEF ModelClaimsSound, Evidence, caseVars, claimVars

LEMMA InvestigateKeeps ==
  ASSUME IInv, Investigate
  PROVE  IInv'
<1>1. /\ InvestigationTypes /\ ChoiceSound /\ StatusSound /\ DecisionsCounted
      /\ SpecialistsEarned /\ ModelClaimsSound /\ modelClaims = {}
  BY DEF IInv, Investigate
<1>2. /\ pc = "start" /\ status' = "in_progress" /\ pc' = "step"
      /\ UNCHANGED <<caseVars, results, claimVars, llm_errors, decisions, chosen, budgetVars, failed>>
  BY DEF Investigate
<1>3. InvestigationTypes'
  BY <1>1, <1>2 DEF InvestigationTypes, caseVars, claimVars, budgetVars
<1>4. StatusSound'
  BY <1>2 DEF StatusSound
<1> QED
  BY <1>1, <1>2, <1>3, <1>4, NoChoiceKept, ClaimsKept DEF IInv, claimVars

LEMMA StepLimitKeeps ==
  ASSUME IInv, StepLimit
  PROVE  IInv'
<1>1. /\ InvestigationTypes /\ ChoiceSound /\ StatusSound /\ DecisionsCounted
      /\ SpecialistsEarned /\ ModelClaimsSound /\ modelClaims = {}
  BY DEF IInv, StepLimit
<1>2. /\ pc = "step" /\ status' = "step_limit" /\ pc' = "synthesise"
      /\ UNCHANGED <<caseVars, results, claimVars, llm_errors, decisions, chosen, budgetVars, failed>>
  BY DEF StepLimit
<1>3. InvestigationTypes'
  BY <1>1, <1>2 DEF InvestigationTypes, caseVars, claimVars, budgetVars
<1>4. StatusSound'
  BY <1>2 DEF StatusSound
<1> QED
  BY <1>1, <1>2, <1>3, <1>4, NoChoiceKept, ClaimsKept DEF IInv, claimVars

LEMMA BudgetLimitKeeps ==
  ASSUME IInv, BudgetLimit
  PROVE  IInv'
<1>1. /\ InvestigationTypes /\ ChoiceSound /\ StatusSound /\ DecisionsCounted
      /\ SpecialistsEarned /\ ModelClaimsSound /\ modelClaims = {}
  BY DEF IInv, BudgetLimit
<1>2. /\ pc = "step" /\ status' = "budget_limit" /\ pc' = "done" /\ llm_errors' = llm_errors + 1
      /\ UNCHANGED <<caseVars, results, claimVars, decisions, chosen, budgetVars, failed>>
  BY DEF BudgetLimit
<1>3. llm_errors' \in Nat
  BY <1>1, <1>2 DEF InvestigationTypes
<1>4. InvestigationTypes'
  BY <1>1, <1>2, <1>3 DEF InvestigationTypes, caseVars, claimVars, budgetVars
<1>5. StatusSound'
  BY <1>2 DEF StatusSound
<1> QED
  BY <1>1, <1>2, <1>4, <1>5, NoChoiceKept, ClaimsKept DEF IInv, claimVars

LEMMA NothingEligibleKeeps ==
  ASSUME IInv, NothingEligible
  PROVE  IInv'
<1>1. /\ InvestigationTypes /\ ChoiceSound /\ StatusSound /\ DecisionsCounted
      /\ SpecialistsEarned /\ ModelClaimsSound /\ modelClaims = {}
  BY DEF IInv, NothingEligible, Planning
<1>2. /\ pc = "step" /\ Eligible = {} /\ pc' = "synthesise"
      /\ status' = IF results # <<>> THEN "complete" ELSE "exhausted"
      /\ UNCHANGED <<caseVars, results, claimVars, llm_errors, decisions, chosen, budgetVars, failed>>
  BY DEF NothingEligible, Planning
<1>3. InvestigationTypes'
  BY <1>1, <1>2 DEF InvestigationTypes, caseVars, claimVars, budgetVars
<1>4. StatusSound'
  <2>1. Eligible' = {} /\ results' = results
    BY <1>2, SameResults
  <2> QED
    BY <1>2, <2>1 DEF StatusSound
<1> QED
  BY <1>1, <1>2, <1>3, <1>4, NoChoiceKept, ClaimsKept DEF IInv, claimVars

-----------------------------------------------------------------------------
(* Synthesis. *)

LEMMA SynthesisStatus ==
  ASSUME StatusSound, pc = "synthesise", pc' \in {"done", "raised"},
         UNCHANGED <<caseVars, results, status>>
  PROVE  StatusSound'
<1>1. Eligible' = Eligible /\ status' = status /\ results' = results
  BY SameResults
<1> QED
  BY <1>1 DEF StatusSound

LEMMA SynthesisGivesUp ==
  ASSUME IInv, SkipSynthesis \/ SynthesisUnusable \/ SynthesisRaises
  PROVE  IInv'
<1>1. /\ InvestigationTypes /\ ChoiceSound /\ StatusSound /\ DecisionsCounted
      /\ SpecialistsEarned /\ ModelClaimsSound
  BY DEF IInv
<1>2. /\ pc = "synthesise" /\ pc' \in {"done", "raised"}
      /\ UNCHANGED <<caseVars, status, results, claimVars, decisions, chosen>>
  BY DEF SkipSynthesis, SynthesisUnusable, SynthesisRaises, stateVars
<1>3. llm_errors' \in Nat /\ failed' \in Nat
  <2>1. llm_errors \in Nat /\ failed \in Nat
    BY <1>1 DEF InvestigationTypes
  <2>2. \/ llm_errors' = llm_errors /\ failed' = failed
        \/ llm_errors' = llm_errors + 1 /\ failed' = failed + 1
    BY DEF SkipSynthesis, SynthesisUnusable, SynthesisRaises, stateVars, CallFails
  <2> QED
    BY <2>1, <2>2
<1>4. timeLeft' \in Int \cup {None} /\ tokensLeft' \in Int \cup {None}
  <2>1. Called \/ UNCHANGED budgetVars
    BY DEF SkipSynthesis, SynthesisUnusable, SynthesisRaises
  <2> QED
    BY <1>1, <2>1, CalledTyped DEF InvestigationTypes, budgetVars
<1>5. InvestigationTypes'
  BY <1>1, <1>2, <1>3, <1>4 DEF InvestigationTypes, caseVars, claimVars
<1>6. StatusSound'
  BY <1>1, <1>2, SynthesisStatus
<1> QED
  BY <1>1, <1>2, <1>5, <1>6, NoChoiceKept, ClaimsKept DEF IInv

\* What is accepted of a reply is no more than the cap and cites what was shown.
LEMMA AcceptedGrounded ==
  ASSUME InvestigationTypes, NEW reply \in SeqOf(Proposal, MaxProposed)
  PROVE  /\ Accepted(reply) \subseteq Proposal
         /\ \A c \in Accepted(reply) : c.type # "FACT" /\ c.cites \subseteq Evidence
         /\ Cardinality(Accepted(reply)) <= config.max_synthesis_claims
<1>1. PICK cap \in Nat : cap = config.max_synthesis_claims
  BY Constants DEF InvestigationTypes
<1>2. reply \in Seq(Proposal)
  <2>1. PICK m \in 0 .. MaxProposed : reply \in [1 .. m -> Proposal]
    BY DEF SeqOf
  <2>2. m \in Nat
    BY InvestigationAssumption
  <2> QED
    BY <2>1, <2>2
<1>3. PICK n : n = Min({cap, Len(reply)})
  OBVIOUS
<1>4. n \in Nat /\ n <= cap /\ n <= Len(reply)
  <2>1. {cap, Len(reply)} \subseteq Nat /\ {cap, Len(reply)} # {}
    BY <1>2
  <2> QED
    BY <1>3, <2>1, MinOf
<1>5. PICK heard : heard = SubSeq(reply, 1, n)
  OBVIOUS
<1>6. heard \in Seq(Proposal) /\ Len(heard) <= cap /\ Len(heard) \in Nat
  <2>1. Len(reply) \in Nat
    BY <1>2
  <2>2. heard \in Seq(Proposal) /\ Len(heard) = n
    BY <1>2, <1>4, <1>5, <2>1
  <2> QED
    BY <1>4, <2>2
<1>7. Accepted(reply) = {p \in ToSet(heard) : p.type # "FACT" /\ p.cites \subseteq Evidence /\ Verified(p)}
  BY <1>1, <1>3, <1>5 DEF Accepted
<1>8. ToSet(heard) \subseteq Proposal
  BY <1>6 DEF ToSet
<1>9. Cardinality(Accepted(reply)) <= cap
  <2>1. IsFiniteSet(ToSet(heard)) /\ Cardinality(ToSet(heard)) <= Len(heard)
    BY <1>6, EntriesCounted
  <2>2. Accepted(reply) \in SUBSET ToSet(heard)
    BY <1>7
  <2>3. /\ Cardinality(Accepted(reply)) <= Cardinality(ToSet(heard))
        /\ Cardinality(Accepted(reply)) \in Nat /\ Cardinality(ToSet(heard)) \in Nat
    BY <2>1, <2>2, FS_Subset, FS_CardinalityType
  <2> QED
    BY <1>6, <2>1, <2>3
<1> QED
  BY <1>1, <1>7, <1>8, <1>9

LEMMA SynthesiseKeeps ==
  ASSUME IInv, Synthesise
  PROVE  IInv'
<1>1. /\ InvestigationTypes /\ ChoiceSound /\ StatusSound /\ DecisionsCounted
      /\ SpecialistsEarned
  BY DEF IInv
<1>2. /\ pc = "synthesise" /\ pc' = "done" /\ Called
      /\ UNCHANGED <<caseVars, status, results, llm_errors, decisions, claims, chosen, failed>>
  BY DEF Synthesise
<1>3. PICK reply \in SeqOf(Proposal, MaxProposed) : modelClaims' = Accepted(reply)
  BY DEF Synthesise
<1>4. /\ modelClaims' \subseteq Proposal
      /\ \A c \in modelClaims' : c.type # "FACT" /\ c.cites \subseteq Evidence
      /\ Cardinality(modelClaims') <= config.max_synthesis_claims
  BY <1>1, <1>3, AcceptedGrounded
<1>5. timeLeft' \in Int \cup {None} /\ tokensLeft' \in Int \cup {None}
  BY <1>1, <1>2, CalledTyped DEF InvestigationTypes
<1>6. InvestigationTypes'
  BY <1>1, <1>2, <1>4, <1>5 DEF InvestigationTypes, caseVars
<1>7. StatusSound'
  BY <1>1, <1>2, SynthesisStatus
<1>8. ModelClaimsSound'
  <2>1. Evidence' = Evidence /\ config' = config
    BY <1>2 DEF caseVars, Evidence
  <2> QED
    BY <1>4, <2>1 DEF ModelClaimsSound
<1> QED
  BY <1>1, <1>2, <1>6, <1>7, <1>8, NoChoiceKept DEF IInv

-----------------------------------------------------------------------------
(* Choosing a specialist, and running it. *)

LEMMA ChooseKeeps ==
  ASSUME IInv, pc = "step", MayStep, NEW s \in Eligible, NEW d \in PlannerDecisions,
         Choose(s, d), llm_errors' \in Nat, failed' \in Nat,
         timeLeft' \in Int \cup {None}, tokensLeft' \in Int \cup {None}
  PROVE  IInv'
<1>1. /\ InvestigationTypes /\ ChoiceSound /\ StatusSound /\ DecisionsCounted
      /\ SpecialistsEarned /\ ModelClaimsSound /\ modelClaims = {}
  BY DEF IInv
<1>2. /\ decisions' = [decisions EXCEPT ![d] = @ + 1] /\ chosen' = s /\ pc' = "act"
      /\ UNCHANGED <<caseVars, status, results, claimVars, llm_requested>>
  BY DEF Choose
<1>3. decisions \in [PlannerDecisions -> Nat]
  BY <1>1 DEF InvestigationTypes
<1>4. decisions' \in [PlannerDecisions -> Nat]
  BY <1>2, <1>3
<1>5. InvestigationTypes'
  BY <1>1, <1>2, <1>4 DEF InvestigationTypes, caseVars, claimVars
<1>6. s \in Specialists /\ ShouldRun(s)
  BY DEF Eligible
<1>7. /\ Step' = Step /\ Eligible' = Eligible /\ (SpecialistsEarned' <=> SpecialistsEarned)
      /\ ShouldRun(s)'
  BY <1>2, <1>6, SameResults
<1>8. ShouldRun(chosen)'
  BY <1>2, <1>7 DEF ShouldRun, HasRun, HasWork, FollowUps, Step
<1>9. ChoiceSound'
  <2>1. Step < config.max_steps /\ Step <= config.max_steps
    BY <1>1 DEF MayStep, ChoiceSound
  <2>2. config' = config
    BY <1>2 DEF caseVars
  <2> QED
    BY <1>2, <1>6, <1>7, <1>8, <2>1, <2>2 DEF ChoiceSound
<1>10. StatusSound'
  BY <1>1, <1>2, <1>7 DEF StatusSound
<1>11. DecisionsCounted'
  <2>1. Step \in Nat
    BY <1>1 DEF InvestigationTypes, Step
  <2>2. DecisionsMade = Step
    BY <1>1, <2>1 DEF DecisionsCounted
  <2>3. DecisionsMade' = DecisionsMade + 1
    BY <1>2, <1>3 DEF DecisionsMade, PlannerDecisions
  <2> QED
    BY <1>2, <1>7, <2>1, <2>2, <2>3 DEF DecisionsCounted
<1> QED
  BY <1>1, <1>2, <1>5, <1>7, <1>9, <1>10, <1>11, ClaimsKept DEF IInv, claimVars

LEMMA PlanningKeeps ==
  ASSUME IInv, OnlyEligible \/ PlannerNotConsulted \/ AskPlanner
  PROVE  IInv'
<1>1. /\ llm_errors \in Nat /\ failed \in Nat
      /\ timeLeft \in Int \cup {None} /\ tokensLeft \in Int \cup {None}
  BY DEF IInv, InvestigationTypes
<1>2. pc = "step" /\ MayStep
  BY DEF OnlyEligible, PlannerNotConsulted, AskPlanner, Planning
<1>3. CASE OnlyEligible
  <2>1. PICK s \in Eligible : Choose(s, "only-eligible")
    BY <1>3 DEF OnlyEligible
  <2>2. UNCHANGED <<llm_errors, budgetVars, failed>> /\ "only-eligible" \in PlannerDecisions
    BY <1>3 DEF OnlyEligible, PlannerDecisions
  <2> QED
    BY <1>1, <1>2, <2>1, <2>2, ChooseKeeps DEF budgetVars
<1>4. ASSUME Cardinality(Eligible) > 1
      PROVE  ByPriority \in Eligible
  <2>1. Eligible # {}
    BY <1>4, FS_EmptySet
  <2> QED
    BY <2>1, PriorityEligible
<1>5. CASE PlannerNotConsulted
  <2>1. Choose(ByPriority, "planner-not-consulted") /\ ByPriority \in Eligible
    BY <1>4, <1>5 DEF PlannerNotConsulted
  <2>2. UNCHANGED <<llm_errors, budgetVars, failed>> /\ "planner-not-consulted" \in PlannerDecisions
    BY <1>5 DEF PlannerNotConsulted, PlannerDecisions
  <2> QED
    BY <1>1, <1>2, <2>1, <2>2, ChooseKeeps DEF budgetVars
<1>6. CASE AskPlanner
  <2>1. Called /\ ByPriority \in Eligible
    BY <1>4, <1>6 DEF AskPlanner
  <2>2. timeLeft' \in Int \cup {None} /\ tokensLeft' \in Int \cup {None}
    BY <1>1, <2>1, CalledTyped
  <2>3. PICK s \in Eligible, d \in PlannerDecisions : Choose(s, d)
    BY <1>6, <2>1 DEF AskPlanner, PlannerDecisions
  <2>4. llm_errors' \in Nat /\ failed' \in Nat
    <3>1. \/ llm_errors' = llm_errors /\ failed' = failed
          \/ llm_errors' = llm_errors + 1 /\ failed' = failed + 1
      BY <1>6 DEF AskPlanner, CallFails
    <3> QED
      BY <1>1, <3>1
  <2> QED
    BY <1>2, <2>2, <2>3, <2>4, ChooseKeeps
<1> QED
  BY <1>3, <1>5, <1>6

LEMMA ActKeeps ==
  ASSUME IInv, Act
  PROVE  IInv'
<1>1. /\ InvestigationTypes /\ ChoiceSound /\ StatusSound /\ DecisionsCounted
      /\ SpecialistsEarned /\ modelClaims = {}
  BY DEF IInv, Act
<1>2. PICK f \in SUBSET Suggests(chosen) :
        results' = Append(results, [agent |-> chosen, follow_up |-> f])
  BY DEF Act
<1>3. /\ pc = "act" /\ pc' = "step" /\ Passes /\ AddsClaims /\ chosen' = None
      /\ UNCHANGED <<caseVars, status, llm_requested, llm_errors, decisions, modelClaims,
                     tokensLeft, failed>>
  BY DEF Act
<1>4. chosen \in Specialists /\ ShouldRun(chosen) /\ Step < config.max_steps
  BY <1>1, <1>3 DEF ChoiceSound
<1>5. f \subseteq {"identity", "network", "attack"}
  BY <1>2 DEF Suggests
<1>6. results \in Seq(ResultRecord)
  BY <1>1 DEF InvestigationTypes
<1>7. PICK new \in ResultRecord : new = [agent |-> chosen, follow_up |-> f]
  BY <1>4, <1>5 DEF ResultRecord
<1>8. PICK n \in Nat : n = Len(results)
  BY <1>6
<1>9. /\ results' \in Seq(ResultRecord) /\ Len(results') = n + 1
      /\ DOMAIN results = 1 .. n /\ DOMAIN results' = 1 .. n + 1
      /\ \A i \in 1 .. n : results'[i] = results[i]
      /\ results'[n + 1] = new
  BY <1>2, <1>6, <1>7, <1>8
<1>10. Step = n /\ Step' = n + 1
  BY <1>8, <1>9 DEF Step
<1>11. claims' \in Seq(Citings)
  <2>1. PICK more \in SeqOf(Citings, MaxClaims) : claims' = claims \o more
    BY <1>3 DEF AddsClaims
  <2>2. PICK m \in 0 .. MaxClaims : more \in [1 .. m -> Citings]
    BY DEF SeqOf
  <2>3. m \in Nat /\ claims \in Seq(Citings)
    BY <1>1, InvestigationAssumption DEF InvestigationTypes
  <2>4. more \in Seq(Citings)
    BY <2>2, <2>3
  <2> QED
    BY <2>1, <2>3, <2>4
<1>12. timeLeft' \in Int \cup {None}
  BY <1>1, <1>3, PassesTyped DEF InvestigationTypes
<1>13. InvestigationTypes'
  BY <1>1, <1>3, <1>9, <1>11, <1>12 DEF InvestigationTypes, caseVars
<1>14. ChoiceSound'
  <2>1. config' = config /\ config.max_steps \in Nat
    BY <1>1, <1>3, Constants DEF caseVars, InvestigationTypes
  <2>2. None \notin Specialists
    BY Constants
  <2> QED
    BY <1>3, <1>4, <1>10, <2>1, <2>2 DEF ChoiceSound
<1>15. StatusSound'
  BY <1>1, <1>3 DEF StatusSound
<1>16. DecisionsCounted'
  <2>1. DecisionsMade = n + 1
    BY <1>1, <1>3, <1>10 DEF DecisionsCounted
  <2>2. DecisionsMade' = DecisionsMade
    BY <1>3 DEF DecisionsMade
  <2> QED
    BY <1>3, <1>10, <2>1, <2>2 DEF DecisionsCounted
<1>17. ASSUME NEW i \in DOMAIN results'
       PROVE  /\ results'[i].agent \notin {r.agent : r \in {results'[k] : k \in 1 .. i - 1}}
              /\ results'[i].agent \notin unobserved
              /\ IF results'[i].agent = "attack"
                 THEN mapped /\ {results'[k] : k \in 1 .. i - 1} # {}
                 ELSE \/ results'[i].agent \in triggered
                      \/ \E r \in {results'[k] : k \in 1 .. i - 1} : results'[i].agent \in r.follow_up
  <2>1. \A m \in 0 .. n : {results'[k] : k \in 1 .. m} = {results[k] : k \in 1 .. m}
    BY <1>9
  <2>2. CASE i \in 1 .. n
    <3>1. i - 1 \in 0 .. n
      BY <2>2
    <3>2. {results'[k] : k \in 1 .. i - 1} = {results[k] : k \in 1 .. i - 1}
      BY <2>1, <3>1
    <3>3. i \in DOMAIN results /\ results'[i] = results[i]
      BY <1>9, <2>2
    <3> QED
      BY <1>1, <3>2, <3>3 DEF SpecialistsEarned
  <2>3. CASE i = n + 1
    <3> DEFINE before == {results[k] : k \in 1 .. n}
    <3>1. {results'[k] : k \in 1 .. i - 1} = before /\ results'[i].agent = chosen
      BY <1>7, <1>9, <2>1, <2>3
    <3>2. ~HasRun(chosen) /\ chosen \notin unobserved /\ HasWork(chosen)
      BY <1>4 DEF ShouldRun
    <3>3. chosen \notin {r.agent : r \in before}
      BY <1>9, <3>2 DEF HasRun
    <3>4. CASE chosen = "attack"
      <4>1. mapped /\ n > 0
        BY <1>10, <3>2, <3>4 DEF HasWork
      <4>2. results[1] \in before
        BY <4>1
      <4> QED
        BY <3>1, <3>2, <3>3, <3>4, <4>1, <4>2
    <3>5. CASE chosen # "attack"
      <4>1. chosen \in triggered \/ chosen \in FollowUps
        BY <3>2, <3>5 DEF HasWork
      <4>2. ASSUME chosen \in FollowUps
            PROVE  \E r \in before : chosen \in r.follow_up
        <5>1. PICK k \in DOMAIN results : chosen \in results[k].follow_up
          BY <4>2 DEF FollowUps
        <5> QED
          BY <1>9, <5>1
      <4> QED
        BY <3>1, <3>2, <3>3, <3>5, <4>1, <4>2
    <3> QED
      BY <3>4, <3>5
  <2> QED
    BY <1>9, <2>2, <2>3
<1>18. SpecialistsEarned'
  <2>1. unobserved' = unobserved /\ mapped' = mapped /\ triggered' = triggered
    BY <1>3 DEF caseVars
  <2> QED
    BY <1>17, <2>1 DEF SpecialistsEarned
<1>19. modelClaims' = {}
  BY <1>1, <1>3
<1>20. ModelClaimsSound'
  <2>1. config'.max_synthesis_claims \in Nat
    BY <1>1, <1>3, Constants DEF InvestigationTypes, caseVars
  <2>2. Cardinality(modelClaims') = 0
    BY <1>19, FS_EmptySet
  <2> QED
    BY <1>19, <2>1, <2>2 DEF ModelClaimsSound
<1> QED
  BY <1>13, <1>14, <1>15, <1>16, <1>18, <1>19, <1>20 DEF IInv

-----------------------------------------------------------------------------
(* The theorems. *)

LEMMA IInvKept ==
  ASSUME IInv, [InvestigationNext]_investigationVars
  PROVE  IInv'
<1>1. CASE Investigate
  BY <1>1, InvestigateKeeps
<1>2. CASE StepLimit
  BY <1>2, StepLimitKeeps
<1>3. CASE BudgetLimit
  BY <1>3, BudgetLimitKeeps
<1>4. CASE NothingEligible
  BY <1>4, NothingEligibleKeeps
<1>5. CASE OnlyEligible \/ PlannerNotConsulted \/ AskPlanner
  BY <1>5, PlanningKeeps
<1>6. CASE Act
  BY <1>6, ActKeeps
<1>7. CASE SkipSynthesis \/ SynthesisUnusable \/ SynthesisRaises
  BY <1>7, SynthesisGivesUp
<1>8. CASE Synthesise
  BY <1>8, SynthesiseKeeps
<1>9. CASE UNCHANGED investigationVars
  <2>1. UNCHANGED <<caseVars, stateVars, pc, chosen, budgetVars, failed>>
    BY <1>9 DEF investigationVars
  <2>2. /\ UNCHANGED <<caseVars, results, status, decisions, claimVars, llm_errors, failed>>
        /\ UNCHANGED <<pc, chosen, budgetVars>>
    BY <2>1 DEF stateVars
  <2>3. /\ InvestigationTypes /\ ChoiceSound /\ StatusSound /\ DecisionsCounted
        /\ SpecialistsEarned /\ ModelClaimsSound
        /\ pc \notin {"done", "raised"} => modelClaims = {}
    BY DEF IInv
  <2>4. Step' = Step /\ Eligible' = Eligible /\ (SpecialistsEarned' <=> SpecialistsEarned)
    BY <2>2, SameResults
  <2>5. InvestigationTypes'
    BY <2>2, <2>3 DEF InvestigationTypes, caseVars, claimVars, budgetVars
  <2>6. ChoiceSound'
    BY <2>2, <2>3, <2>4 DEF ChoiceSound, ShouldRun, HasRun, HasWork, FollowUps, caseVars
  <2>7. StatusSound'
    BY <2>2, <2>3, <2>4 DEF StatusSound
  <2>8. DecisionsCounted'
    BY <2>2, <2>3, <2>4 DEF DecisionsCounted, DecisionsMade
  <2>9. ModelClaimsSound'
    BY <2>2, <2>3, ClaimsKept
  <2>10. pc' \notin {"done", "raised"} => modelClaims' = {}
    BY <2>2, <2>3 DEF claimVars
  <2> QED
    BY <2>3, <2>4, <2>5, <2>6, <2>7, <2>8, <2>9, <2>10 DEF IInv
<1> QED
  BY <1>1, <1>2, <1>3, <1>4, <1>5, <1>6, <1>7, <1>8, <1>9 DEF InvestigationNext

\* The invariant holds in every reachable state.
THEOREM InvestigationInvHolds == InvestigationSpec => []IInv
<1>1. ASSUME InvestigationInit
      PROVE  IInv
  <2>1. /\ config \in Configs /\ mapped \in BOOLEAN
        /\ triggered \subseteq Specialists \ {"attack"}
        /\ unobserved \subseteq Specialists \ {"attack"}
        /\ status = "pending" /\ results = <<>> /\ claims = <<>>
        /\ modelClaims = {} /\ llm_errors = 0 /\ failed = 0
        /\ decisions = [d \in PlannerDecisions |-> 0]
        /\ pc = "start" /\ chosen = None
        /\ timeLeft = config.time_budget /\ tokensLeft = config.token_budget
    BY <1>1 DEF InvestigationInit
  <2>2. /\ config.max_steps \in Nat /\ config.max_steps > 0
        /\ config.max_synthesis_claims \in Nat
        /\ config.time_budget \in Nat \cup {None} /\ config.token_budget \in Nat \cup {None}
        /\ None \notin Specialists
    BY <2>1, Constants
  <2>3. InvestigationTypes
    <3>1. <<>> \in Seq(ResultRecord) /\ <<>> \in Seq(Citings)
      OBVIOUS
    <3>2. decisions \in [PlannerDecisions -> Nat]
      BY <2>1
    <3> QED
      BY <2>1, <2>2, <3>1, <3>2 DEF InvestigationTypes
  <2>4. Step = 0
    BY <2>1 DEF Step
  <2>5. ChoiceSound
    BY <2>1, <2>2, <2>4 DEF ChoiceSound
  <2>6. StatusSound
    BY <2>1 DEF StatusSound
  <2>7. DecisionsCounted
    <3>1. DecisionsMade = 0
      BY <2>1 DEF DecisionsMade, PlannerDecisions
    <3> QED
      BY <2>1, <2>4, <3>1 DEF DecisionsCounted
  <2>8. SpecialistsEarned
    BY <2>1 DEF SpecialistsEarned
  <2>9. ModelClaimsSound
    BY <2>1, <2>2, FS_EmptySet DEF ModelClaimsSound
  <2> QED
    BY <2>1, <2>3, <2>5, <2>6, <2>7, <2>8, <2>9 DEF IInv
<1>2. IInv /\ [InvestigationNext]_investigationVars => IInv'
  BY IInvKept
<1> QED
  BY <1>1, <1>2, PTL DEF InvestigationSpec

\* The state an investigation returns is well formed and its decisions add up.
THEOREM InvestigationAddsUp == InvestigationSpec => []InvestigationSound
<1>1. ASSUME IInv
      PROVE  InvestigationSound
  <2>1. InvestigationTypes /\ ChoiceSound /\ DecisionsCounted /\ ModelClaimsSound
    BY <1>1 DEF IInv
  <2>2. \A i \in DOMAIN results :
          /\ results[i].agent \in Specialists
          /\ results[i].follow_up \subseteq {"identity", "network", "attack"}
    <3>1. \A i \in DOMAIN results : results[i] \in ResultRecord
      BY <2>1 DEF InvestigationTypes
    <3> QED
      BY <3>1 DEF ResultRecord
  <2>3. Step <= config.max_steps /\ (pc = "act" <=> chosen \in Specialists)
    BY <2>1 DEF ChoiceSound
  <2>4. /\ config \in Configs /\ triggered \cup unobserved \subseteq Specialists
        /\ status \in {"pending", "in_progress", "complete", "exhausted", "step_limit",
                       "budget_limit"}
        /\ claims \in Seq(Citings) /\ modelClaims \subseteq Proposal
        /\ \A c \in modelClaims : c.type # "FACT"
        /\ Cardinality(modelClaims) <= config.max_synthesis_claims
        /\ {llm_errors, failed} \subseteq Nat
        /\ {timeLeft, tokensLeft} \subseteq Int \cup {None}
        /\ pc \in {"start", "step", "act", "synthesise", "done", "raised"}
    BY <2>1 DEF InvestigationTypes, ModelClaimsSound
  <2>5. InvestigationTypeOK
    BY <2>2, <2>3, <2>4 DEF InvestigationTypeOK
  <2> QED
    BY <2>1, <2>5 DEF InvestigationSound
<1> QED
  BY <1>1, InvestigationInvHolds, PTL

\* What runs was called for, and a complete investigation left nothing out.
THEOREM RunsAsCalledFor == InvestigationSpec => []SpecialistsAsCalledFor
<1>1. ASSUME IInv
      PROVE  SpecialistsAsCalledFor
  <2>1. InvestigationTypes /\ StatusSound /\ SpecialistsEarned
    BY <1>1 DEF IInv
  <2>2. triggered \subseteq Specialists \ {"attack"} /\ unobserved \subseteq Specialists \ {"attack"}
    BY <2>1 DEF InvestigationTypes
  <2>3. Step \in Nat /\ (results # <<>> => Step > 0) /\ (results = <<>> => Step = 0)
    BY <2>1 DEF InvestigationTypes, Step
  <2>4. ASSUME Eligible = {}, NEW s \in Specialists, s \notin unobserved, HasWork(s)
        PROVE  HasRun(s)
    BY <2>4 DEF Eligible, ShouldRun
  <2>5. ASSUME status = "complete"
        PROVE  /\ Step > 0
               /\ \A s \in (triggered \cup (Specialists \cap AcceptsFollowUp \cap FollowUps))
                             \ unobserved : HasRun(s)
               /\ mapped /\ "attack" \in Specialists => HasRun("attack")
    <3>1. Eligible = {} /\ Step > 0
      BY <2>1, <2>3, <2>5 DEF StatusSound
    <3>2. ASSUME NEW s \in (triggered \cup (Specialists \cap AcceptsFollowUp \cap FollowUps))
                             \ unobserved
          PROVE  HasRun(s)
      <4>1. s \in Specialists /\ s # "attack" /\ s \notin unobserved
        BY <2>2, <3>2 DEF AcceptsFollowUp
      <4>2. HasWork(s)
        BY <3>2, <4>1 DEF HasWork
      <4> QED
        BY <2>4, <3>1, <4>1, <4>2
    <3>3. ASSUME mapped, "attack" \in Specialists
          PROVE  HasRun("attack")
      <4>1. HasWork("attack") /\ "attack" \notin unobserved
        BY <2>2, <3>1, <3>3 DEF HasWork
      <4> QED
        BY <2>4, <3>1, <3>3, <4>1
    <3> QED
      BY <3>1, <3>2, <3>3
  <2>6. ASSUME status = "exhausted"
        PROVE  Step = 0 /\ triggered \subseteq unobserved
    <3>1. Eligible = {} /\ results = <<>> /\ Step = 0
      BY <2>1, <2>3, <2>6 DEF StatusSound
    <3>2. ASSUME NEW s \in triggered, s \notin unobserved
          PROVE  FALSE
      <4>1. s \in Specialists /\ HasWork(s)
        BY <2>2, <3>2 DEF HasWork
      <4>2. HasRun(s)
        BY <2>4, <3>1, <3>2, <4>1
      <4> QED
        BY <3>1, <4>2 DEF HasRun
    <3> QED
      BY <3>1, <3>2
  <2>7. CompleteCoversCase
    BY <2>5, <2>6 DEF CompleteCoversCase
  <2> QED
    BY <2>1, <2>7 DEF SpecialistsAsCalledFor
<1> QED
  BY <1>1, InvestigationInvHolds, PTL

-----------------------------------------------------------------------------
(* The budgets. *)

\* Time is overdrawn by no more than so many calls and specialists take together,
\* and tokens by no more than so many calls use.
Within(timed, called) ==
  Overdrawn(timeLeft, timed * MaxTook) /\ Overdrawn(tokensLeft, called * MaxUsed)

\* What may be overdrawn where the own loop stands.
BudgetSound ==
  runtime = "direct" =>
    /\ pc = "start" => Within(0, 0)
    /\ pc = "step" => Within(2, 1)
    /\ pc = "act" => Within(1, 1)
    /\ pc = "synthesise" /\ status = "step_limit" => Within(2, 1)
    /\ pc = "synthesise" /\ status # "step_limit" => Within(0, 0)
    /\ pc \in {"done", "raised"} /\ status = "step_limit" => Within(3, 2)
    /\ pc \in {"done", "raised"} /\ status \in {"complete", "exhausted"} => Within(1, 1)
    /\ status = "budget_limit" => Within(2, 1) /\ BudgetExhausted /\ modelClaims = {}

LEMMA LessWithin ==
  ASSUME NEW left \in Int \cup {None}, NEW most \in Nat, NEW n \in 0 .. most, NEW by \in Nat,
         Overdrawn(left, by)
  PROVE  Overdrawn(Less(left, n), by + most)
<1>1. n \in Nat /\ None \notin Int
  BY InvestigationAssumption
<1> QED
  BY <1>1 DEF Less, Overdrawn

LEMMA PassesWithin ==
  ASSUME timeLeft \in Int \cup {None}, Passes, NEW timed \in Nat,
         Overdrawn(timeLeft, timed * MaxTook)
  PROVE  Overdrawn(timeLeft', (timed + 1) * MaxTook)
<1>1. PICK t \in 0 .. MaxTook : timeLeft' = Less(timeLeft, t)
  BY DEF Passes
<1>2. MaxTook \in Nat
  BY InvestigationAssumption
<1>3. timed * MaxTook \in Nat /\ (timed + 1) * MaxTook = timed * MaxTook + MaxTook
  BY <1>2
<1> QED
  BY <1>1, <1>2, <1>3, LessWithin

LEMMA CalledWithin ==
  ASSUME timeLeft \in Int \cup {None}, tokensLeft \in Int \cup {None}, Called,
         NEW timed \in Nat, NEW called \in Nat, Within(timed, called)
  PROVE  /\ Overdrawn(timeLeft', (timed + 1) * MaxTook)
         /\ Overdrawn(tokensLeft', (called + 1) * MaxUsed)
<1>1. PICK n \in 0 .. MaxUsed : tokensLeft' = Less(tokensLeft, n)
  BY DEF Called
<1>2. MaxUsed \in Nat
  BY InvestigationAssumption
<1>3. called * MaxUsed \in Nat /\ (called + 1) * MaxUsed = called * MaxUsed + MaxUsed
  BY <1>2
<1>4. Passes
  BY DEF Called
<1> QED
  BY <1>1, <1>2, <1>3, <1>4, LessWithin, PassesWithin DEF Within

\* One who may be overdrawn by little may be overdrawn by more.
LEMMA WithinMore ==
  ASSUME timeLeft \in Int \cup {None}, tokensLeft \in Int \cup {None},
         NEW t1 \in Nat, NEW t2 \in Nat, NEW c1 \in Nat, NEW c2 \in Nat,
         t1 <= t2, c1 <= c2, Within(t1, c1)
  PROVE  Within(t2, c2)
<1>1. MaxTook \in Nat /\ MaxUsed \in Nat /\ None \notin Int
  BY InvestigationAssumption
<1>2. PICK dt \in Nat : t2 = t1 + dt
  <2>1. t2 - t1 \in Nat /\ t2 = t1 + (t2 - t1)
    OBVIOUS
  <2> QED
    BY <2>1
<1>3. PICK dc \in Nat : c2 = c1 + dc
  <2>1. c2 - c1 \in Nat /\ c2 = c1 + (c2 - c1)
    OBVIOUS
  <2> QED
    BY <2>1
<1>4. t2 * MaxTook = t1 * MaxTook + dt * MaxTook /\ dt * MaxTook \in Nat /\ t1 * MaxTook \in Nat
  BY <1>1, <1>2
<1>5. c2 * MaxUsed = c1 * MaxUsed + dc * MaxUsed /\ dc * MaxUsed \in Nat /\ c1 * MaxUsed \in Nat
  BY <1>1, <1>3
<1> QED
  BY <1>1, <1>4, <1>5 DEF Within, Overdrawn

\* With something left nothing is overdrawn.
LEMMA LeftWithin ==
  ASSUME timeLeft \in Int \cup {None}, tokensLeft \in Int \cup {None}, ~BudgetExhausted
  PROVE  Within(0, 0)
<1>1. 0 * MaxTook = 0 /\ 0 * MaxUsed = 0
  BY InvestigationAssumption
<1> QED
  BY <1>1 DEF Within, Overdrawn, BudgetExhausted, Spent

LEMMA BudgetInit ==
  ASSUME InvestigationInit
  PROVE  BudgetSound
<1>1. config \in Config /\ timeLeft = config.time_budget /\ tokensLeft = config.token_budget
  BY InvestigationAssumption DEF InvestigationInit
<1>2. /\ config.time_budget \in (Nat \ {0}) \cup {None}
      /\ config.token_budget \in (Nat \ {0}) \cup {None}
  BY <1>1 DEF Config
<1>3. ~BudgetExhausted
  BY <1>1, <1>2 DEF BudgetExhausted, Spent
<1>4. Within(0, 0)
  BY <1>1, <1>2, <1>3, LeftWithin
<1>5. pc = "start" /\ status = "pending"
  BY DEF InvestigationInit
<1> QED
  BY <1>4, <1>5 DEF BudgetSound

LEMMA BudgetKept ==
  ASSUME IInv, BudgetSound, [InvestigationNext]_investigationVars
  PROVE  BudgetSound'
<1> SUFFICES ASSUME runtime' = "direct"
             PROVE  BudgetSound'
  BY DEF BudgetSound
<1>1. /\ timeLeft \in Int \cup {None} /\ tokensLeft \in Int \cup {None}
      /\ StatusSound /\ (pc \notin {"done", "raised"} => modelClaims = {})
  BY DEF IInv, InvestigationTypes
<1>2. runtime = "direct"
  BY DEF InvestigationNext, Investigate, StepLimit, BudgetLimit, NothingEligible, OnlyEligible,
     PlannerNotConsulted, AskPlanner, Choose, Act, SkipSynthesis, SynthesisUnusable,
     SynthesisRaises, Synthesise, investigationVars, caseVars
<1>3. ASSUME UNCHANGED budgetVars, NEW timed \in Nat, NEW called \in Nat, Within(timed, called)
      PROVE  Within(timed, called)'
  BY <1>3 DEF Within, Overdrawn, budgetVars
<1>4. CASE Investigate
  <2>1. pc = "start" /\ pc' = "step" /\ status' = "in_progress" /\ UNCHANGED budgetVars
    BY <1>4 DEF Investigate
  <2>2. Within(2, 1)
    BY <1>1, <1>2, <2>1, WithinMore DEF BudgetSound
  <2>3. Within(2, 1)'
    BY <1>3, <2>1, <2>2
  <2> QED
    BY <2>1, <2>3 DEF BudgetSound
<1>5. CASE StepLimit
  <2>1. pc = "step" /\ pc' = "synthesise" /\ status' = "step_limit" /\ UNCHANGED budgetVars
    BY <1>5 DEF StepLimit
  <2>2. Within(2, 1)'
    BY <1>2, <1>3, <2>1 DEF BudgetSound
  <2> QED
    BY <2>1, <2>2 DEF BudgetSound
<1>6. CASE BudgetLimit
  <2>1. /\ pc = "step" /\ pc' = "done" /\ status' = "budget_limit" /\ BudgetExhausted
        /\ UNCHANGED <<budgetVars, modelClaims>>
    BY <1>6 DEF BudgetLimit, claimVars
  <2>2. Within(2, 1)'
    BY <1>2, <1>3, <2>1 DEF BudgetSound
  <2>3. BudgetExhausted' /\ modelClaims' = {}
    BY <1>1, <2>1 DEF BudgetExhausted, budgetVars
  <2> QED
    BY <2>1, <2>2, <2>3 DEF BudgetSound
<1>7. CASE NothingEligible
  <2>1. /\ pc' = "synthesise" /\ status' \in {"complete", "exhausted"}
        /\ ~BudgetExhausted /\ UNCHANGED budgetVars
    BY <1>2, <1>7 DEF NothingEligible, Planning
  <2>2. Within(0, 0)'
    BY <1>1, <1>3, <2>1, LeftWithin
  <2> QED
    BY <2>1, <2>2 DEF BudgetSound
<1>8. CASE OnlyEligible \/ PlannerNotConsulted \/ AskPlanner
  <2>1. /\ pc = "step" /\ pc' = "act" /\ ~BudgetExhausted /\ status' = status
        /\ Called \/ UNCHANGED budgetVars
    BY <1>2, <1>8 DEF OnlyEligible, PlannerNotConsulted, AskPlanner, Planning, Choose
  <2>2. Within(0, 0)
    BY <1>1, <2>1, LeftWithin
  <2>3. CASE Called
    <3>1. Within(1, 1)'
      BY <1>1, <2>2, <2>3, CalledWithin DEF Within, Overdrawn
    <3> QED
      BY <1>1, <2>1, <3>1 DEF BudgetSound, StatusSound
  <2>4. CASE UNCHANGED budgetVars
    <3>1. Within(1, 1)
      BY <1>1, <2>2, WithinMore
    <3>2. Within(1, 1)'
      BY <1>3, <2>4, <3>1
    <3> QED
      BY <1>1, <2>1, <3>2 DEF BudgetSound, StatusSound
  <2> QED
    BY <2>1, <2>3, <2>4
<1>9. CASE Act
  <2>1. /\ pc = "act" /\ pc' = "step" /\ status' = status /\ status = "in_progress"
        /\ Passes /\ UNCHANGED tokensLeft
    BY <1>1, <1>9 DEF Act, StatusSound
  <2>2. Within(1, 1)
    BY <1>2, <2>1 DEF BudgetSound
  <2>3. Within(2, 1)'
    BY <1>1, <2>1, <2>2, PassesWithin DEF Within, Overdrawn
  <2> QED
    BY <2>1, <2>3 DEF BudgetSound
<1>10. CASE SkipSynthesis \/ SynthesisUnusable \/ SynthesisRaises \/ Synthesise
  <2>1. /\ pc = "synthesise" /\ pc' \in {"done", "raised"} /\ status' = status
        /\ Called \/ UNCHANGED budgetVars
    BY <1>10 DEF SkipSynthesis, SynthesisUnusable, SynthesisRaises, Synthesise, stateVars
  <2>2. status # "budget_limit"
    BY <1>1, <2>1 DEF StatusSound
  <2>3. CASE status = "step_limit"
    <3>1. Within(2, 1)
      BY <1>2, <2>1, <2>3 DEF BudgetSound
    <3>2. Within(3, 2)'
      <4>1. CASE Called
        BY <1>1, <3>1, <4>1, CalledWithin DEF Within, Overdrawn
      <4>2. CASE UNCHANGED budgetVars
        <5>1. Within(3, 2)
          BY <1>1, <3>1, WithinMore
        <5> QED
          BY <1>3, <4>2, <5>1
      <4> QED
        BY <2>1, <4>1, <4>2
    <3> QED
      BY <2>1, <2>3, <3>2 DEF BudgetSound
  <2>4. CASE status # "step_limit"
    <3>1. Within(0, 0)
      BY <1>2, <2>1, <2>4 DEF BudgetSound
    <3>2. Within(1, 1)'
      <4>1. CASE Called
        BY <1>1, <3>1, <4>1, CalledWithin DEF Within, Overdrawn
      <4>2. CASE UNCHANGED budgetVars
        <5>1. Within(1, 1)
          BY <1>1, <3>1, WithinMore
        <5> QED
          BY <1>3, <4>2, <5>1
      <4> QED
        BY <2>1, <4>1, <4>2
    <3> QED
      BY <2>1, <2>2, <2>4, <3>2 DEF BudgetSound
  <2> QED
    BY <2>3, <2>4
<1>11. CASE UNCHANGED investigationVars
  BY <1>2, <1>11 DEF BudgetSound, Within, BudgetExhausted, investigationVars, stateVars,
     claimVars, budgetVars
<1> QED
  BY <1>4, <1>5, <1>6, <1>7, <1>8, <1>9, <1>10, <1>11 DEF InvestigationNext

\* However long calls and specialists take, the own loop overdraws a budget by
\* less than a step and, after the last step allowed, the synthesis.
THEOREM OverrunHolds == InvestigationSpec => []OverrunBounded
<1>1. InvestigationInit => BudgetSound
  BY BudgetInit
<1>2. IInv /\ BudgetSound /\ [InvestigationNext]_investigationVars => BudgetSound'
  BY BudgetKept
<1>3. ASSUME IInv, BudgetSound
      PROVE  OverrunBounded
  <2> SUFFICES ASSUME runtime = "direct"
               PROVE  OverrunBounded
    BY DEF OverrunBounded
  <2>1. /\ timeLeft \in Int \cup {None} /\ tokensLeft \in Int \cup {None}
        /\ StatusSound
        /\ status \in {"pending", "in_progress", "complete", "exhausted", "step_limit",
                       "budget_limit"}
        /\ pc \in {"start", "step", "act", "synthesise", "done", "raised"}
    BY <1>3 DEF IInv, InvestigationTypes
  <2>2. /\ 0 * MaxTook = 0 /\ 0 * MaxUsed = 0
        /\ MaxTook \in Nat /\ MaxUsed \in Nat
    BY InvestigationAssumption
  <2>3. CASE status = "in_progress"
    <3>1. pc \in {"step", "act"}
      BY <2>1, <2>3 DEF StatusSound
    <3>2. Within(2, 1)
      BY <1>3, <2>1, <3>1, WithinMore DEF BudgetSound
    <3> QED
      BY <2>2, <2>3, <3>1, <3>2 DEF OverrunBounded, Within
  <2>4. CASE status = "budget_limit"
    <3>1. Within(2, 1) /\ BudgetExhausted /\ modelClaims = {}
      BY <1>3, <2>4 DEF BudgetSound
    <3> QED
      BY <2>2, <2>4, <3>1 DEF OverrunBounded, Within
  <2>5. CASE status = "pending"
    <3>1. pc = "start" /\ Within(0, 0)
      BY <1>3, <2>1, <2>5 DEF StatusSound, BudgetSound
    <3> QED
      BY <2>2, <2>5, <3>1 DEF OverrunBounded, Within
  <2>6. CASE status = "step_limit"
    <3>1. pc \in {"synthesise", "done", "raised"}
      BY <2>1, <2>6 DEF StatusSound
    <3>2. CASE pc = "synthesise"
      <4>1. Within(2, 1)
        BY <1>3, <2>6, <3>2 DEF BudgetSound
      <4> QED
        BY <2>2, <2>6, <3>2, <4>1 DEF OverrunBounded, Within
    <3>3. CASE pc \in {"done", "raised"}
      <4>1. Within(3, 2)
        BY <1>3, <2>6, <3>3 DEF BudgetSound
      <4> QED
        BY <2>2, <2>6, <3>3, <4>1 DEF OverrunBounded, Within
    <3> QED
      BY <3>1, <3>2, <3>3
  <2>7. CASE status \in {"complete", "exhausted"}
    <3>1. pc \in {"synthesise", "done", "raised"}
      BY <2>1, <2>7 DEF StatusSound
    <3>2. CASE pc = "synthesise"
      <4>1. Within(0, 0)
        BY <1>3, <2>7, <3>2 DEF BudgetSound
      <4> QED
        BY <2>2, <2>7, <3>2, <4>1 DEF OverrunBounded, Within
    <3>3. CASE pc \in {"done", "raised"}
      <4>1. Within(1, 1)
        BY <1>3, <2>7, <3>3 DEF BudgetSound
      <4> QED
        BY <2>2, <2>7, <3>3, <4>1 DEF OverrunBounded, Within
    <3> QED
      BY <3>1, <3>2, <3>3
  <2> QED
    BY <2>1, <2>3, <2>4, <2>5, <2>6, <2>7
<1> QED
  BY <1>1, <1>2, <1>3, InvestigationInvHolds, PTL DEF InvestigationSpec

-----------------------------------------------------------------------------
(* What a bounded prompt shows. *)

Ahead(ids, k) == {i \in DOMAIN ids : Before(ids, i, k)}

LEMMA AheadFinite ==
  ASSUME NEW ids \in Seq(KnownIds), NEW k \in DOMAIN ids
  PROVE  /\ IsFiniteSet(Ahead(ids, k)) /\ Cardinality(Ahead(ids, k)) \in Nat
         /\ Cardinality(Ahead(ids, k)) < Len(ids)
<1>1. PICK n \in Nat : n = Len(ids) /\ DOMAIN ids = 1 .. n
  OBVIOUS
<1>2. IsFiniteSet(1 .. n) /\ Cardinality(1 .. n) = n
  BY FS_Interval
<1>3. k \notin Ahead(ids, k) /\ Ahead(ids, k) \subseteq 1 .. n /\ k \in 1 .. n
  BY <1>1 DEF Ahead, Before
<1>4. /\ IsFiniteSet(Ahead(ids, k)) /\ Cardinality(Ahead(ids, k)) <= n
      /\ Cardinality(Ahead(ids, k)) # n
  BY <1>2, <1>3, FS_Subset
<1>5. Cardinality(Ahead(ids, k)) \in Nat
  BY <1>4, FS_CardinalityType
<1> QED
  BY <1>1, <1>4, <1>5

\* Whatever is ahead of a tie is ahead of every id that is none.
LEMMA TiesAhead ==
  ASSUME NEW ids \in Seq(KnownIds), NEW k \in DOMAIN ids, NEW j \in DOMAIN ids,
         ids[k] \in Shared, ids[j] \notin Shared
  PROVE  Cardinality(Ahead(ids, k)) <= Cardinality(Ahead(ids, j))
<1>1. Ahead(ids, k) \subseteq Ahead(ids, j)
  BY DEF Ahead, Before
<1>2. IsFiniteSet(Ahead(ids, j))
  BY AheadFinite
<1> QED
  BY <1>1, <1>2, FS_Subset

\* Of a line that is not empty something is shown.
LEMMA FirstShown ==
  ASSUME NEW ids \in Seq(KnownIds), ids # <<>>
  PROVE  \E k \in DOMAIN ids : Cardinality(Ahead(ids, k)) = 0
<1> DEFINE ties == {k \in DOMAIN ids : ids[k] \in Shared}
<1>1. DOMAIN ids = 1 .. Len(ids) /\ Len(ids) \in Nat /\ 1 \in DOMAIN ids
  OBVIOUS
<1>2. CASE ties = {}
  <2>1. Ahead(ids, 1) = {}
    BY <1>1, <1>2 DEF Ahead, Before
  <2> QED
    BY <1>1, <2>1, FS_EmptySet
<1>3. CASE ties # {}
  <2>1. PICK k \in ties : \A m \in ties : k <= m
    <3>1. ties \subseteq Nat
      BY <1>1
    <3> QED
      BY <1>3, <3>1, Least
  <2>2. \A i \in DOMAIN ids : ~Before(ids, i, k)
    BY <1>1, <2>1 DEF Before
  <2>3. Ahead(ids, k) = {}
    BY <2>2 DEF Ahead
  <2> QED
    BY <2>1, <2>3, FS_EmptySet
<1> QED
  BY <1>2, <1>3

LEMMA BoundedEvidenceOf ==
  ASSUME NEW ids
  PROVE  BoundedEvidence(ids) =
           {ids[k] : k \in {k \in DOMAIN ids :
              Cardinality(Ahead(ids, k)) < config.tool_output_budget}}
BY DEF BoundedEvidence, Ahead

\* What is cut from the prompt was cut from every line that had it.
LEMMA CutFromFullLines ==
  ASSUME InvestigationTypes, NEW e \in Evidence, e \notin Shown,
         NEW i \in DOMAIN claims, e \in ToSet(claims[i])
  PROVE  LET line == ToSet(claims[i]) \cap Shown
         IN  /\ config.tool_output_budget # None
             /\ Len(claims[i]) > config.tool_output_budget
             /\ line # {}
             /\ e \in Shared => line \subseteq Shared
<1>1. config.tool_output_budget # None
  BY DEF Shown
<1>2. PICK most \in Nat \ {0} : most = config.tool_output_budget
  <2>1. config \in Config
    BY InvestigationAssumption DEF InvestigationTypes
  <2> QED
    BY <1>1, <2>1 DEF Config
<1>3. \A n \in DOMAIN claims : claims[n] \in Seq(KnownIds)
  BY InvestigationAssumption DEF InvestigationTypes
<1>4. Shown = UNION {BoundedEvidence(claims[n]) : n \in DOMAIN claims}
  BY <1>1 DEF Shown
<1>5. \A n \in DOMAIN claims : \A k \in DOMAIN claims[n] :
        Cardinality(Ahead(claims[n], k)) < most => claims[n][k] \in Shown
  BY <1>2, <1>4, BoundedEvidenceOf
<1>6. ASSUME NEW x \in Shown
      PROVE  \E n \in DOMAIN claims : \E k \in DOMAIN claims[n] :
               claims[n][k] = x /\ Cardinality(Ahead(claims[n], k)) < most
  BY <1>2, <1>4, <1>6, BoundedEvidenceOf
<1>7. PICK k \in DOMAIN claims[i] : claims[i][k] = e
  BY DEF ToSet
<1>8. /\ Cardinality(Ahead(claims[i], k)) \in Nat
      /\ Cardinality(Ahead(claims[i], k)) < Len(claims[i])
  BY <1>3, <1>7, AheadFinite
<1>9. Cardinality(Ahead(claims[i], k)) >= most
  BY <1>2, <1>5, <1>7, <1>8
<1>10. Len(claims[i]) > most
  <2>1. Len(claims[i]) \in Nat
    BY <1>3
  <2> QED
    BY <1>8, <1>9, <2>1
<1>11. ToSet(claims[i]) \cap Shown # {}
  <2>1. claims[i] # <<>>
    BY <1>7
  <2>2. PICK f \in DOMAIN claims[i] : Cardinality(Ahead(claims[i], f)) = 0
    BY <1>3, <2>1, FirstShown
  <2>3. claims[i][f] \in Shown
    BY <1>5, <2>2
  <2> QED
    BY <2>3 DEF ToSet
<1>12. ASSUME e \in Shared, NEW x \in ToSet(claims[i]) \cap Shown, x \notin Shared
       PROVE  FALSE
  <2>1. PICK n \in DOMAIN claims : \E j \in DOMAIN claims[n] :
          claims[n][j] = x /\ Cardinality(Ahead(claims[n], j)) < most
    BY <1>6, <1>12
  <2>2. PICK j \in DOMAIN claims[n] : claims[n][j] = x /\ Cardinality(Ahead(claims[n], j)) < most
    BY <2>1
  <2>3. CASE n # i
    <3>1. x \in ToSet(claims[n]) /\ x \in ToSet(claims[i]) /\ x \in Evidence
      BY <1>12, <2>2 DEF ToSet, Evidence
    <3> QED
      BY <1>12, <2>3, <3>1 DEF Shared
  <2>4. CASE n = i
    <3>1. Cardinality(Ahead(claims[i], k)) <= Cardinality(Ahead(claims[i], j))
      BY <1>3, <1>7, <1>12, <2>2, <2>4, TiesAhead
    <3>2. Cardinality(Ahead(claims[i], j)) \in Nat
      BY <1>3, <2>2, <2>4, AheadFinite
    <3> QED
      BY <1>8, <1>9, <2>2, <2>4, <3>1, <3>2
  <2> QED
    BY <2>3, <2>4
<1> QED
  BY <1>1, <1>2, <1>10, <1>11, <1>12

\* Whatever the specialists cite and the model answers, the model's claims cite
\* events of verified claims, and those it was not shown were cut from lines
\* that were full, ties between claims only for other ties.
THEOREM CitationsShownOrElided == InvestigationSpec => []CitesShownOrElided
<1>1. ASSUME IInv
      PROVE  CitesShownOrElided
  <2>1. InvestigationTypes /\ ModelClaimsSound
    BY <1>1 DEF IInv
  <2>2. ASSUME NEW c \in modelClaims, NEW e \in c.cites
        PROVE  e \in Evidence
    BY <2>1, <2>2 DEF ModelClaimsSound
  <2> QED
    BY <2>1, <2>2, CutFromFullLines DEF CitesShownOrElided
<1> QED
  BY <1>1, InvestigationInvHolds, PTL

=============================================================================
