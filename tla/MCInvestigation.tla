-------------------------- MODULE MCInvestigation --------------------------
(* Small instances of Investigation: three specialists over three events,  *)
(* one of which two claims may have in common.                             *)
EXTENDS Investigation

CONSTANTS own, other, common, invented

ThreeSpecialists == <<"endpoint", "network", "attack">>
ThreeKnown == {own, other, common}
TieLast == {<<own, common>>, <<other, common>>}
FewCites == {{own, common}, {invented}}
BothRuntimes == {"direct", "graph"}

\* The planner for as long as it takes; everything within budgets and two
\* steps, with one id a line; no model at all.
PlannerOnly ==
  [max_steps |-> 3, available |-> TRUE, use_llm_planner |-> TRUE,
   use_llm_synthesis |-> FALSE, max_synthesis_claims |-> 1, tool_output_budget |-> None,
   time_budget |-> None, token_budget |-> None]
Bounded ==
  [PlannerOnly EXCEPT !.max_steps = 2, !.use_llm_synthesis = TRUE, !.tool_output_budget = 1,
                      !.time_budget = 2, !.token_budget = 2]
Deterministic ==
  [PlannerOnly EXCEPT !.available = FALSE, !.time_budget = 2]

ThreeConfigs == {PlannerOnly, Bounded, Deterministic}

=============================================================================
