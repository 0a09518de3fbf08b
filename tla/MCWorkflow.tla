----------------------------- MODULE MCWorkflow -----------------------------
(* Small instances of Workflow: a batch of two cases cut from one source. *)
EXTENDS Workflow

CONSTANTS a, b, r1, r2

TwoCases == {a, b}
TwoReplies == {r1, r2}
AnyEngine == {"deterministic", "d1"}

\* The batch or its second case, of which only the first has an incident,
\* through a change, an edit and two kills.
Troubled ==
  [orders |-> {<<a, b>>, <<b>>}, investigable |-> {a}, engines |-> AnyEngine,
   changes |-> 1, tampers |-> 1, crashes |-> 2]

\* A batch with two incidents, killed three times and otherwise left alone.
Killed ==
  [orders |-> {<<a, b>>}, investigable |-> TwoCases, engines |-> AnyEngine,
   changes |-> 0, tampers |-> 0, crashes |-> 3]

\* The rule engine over a source that may change once.
Drifting ==
  [orders |-> {<<a, b>>, <<b>>}, investigable |-> TwoCases,
   engines |-> {"deterministic"}, changes |-> 1, tampers |-> 0, crashes |-> 0]

TroubledOrKilled == {Troubled, Killed}
OnlyDrifting == {Drifting}

=============================================================================
