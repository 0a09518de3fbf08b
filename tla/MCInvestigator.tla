--------------------------- MODULE MCInvestigator ---------------------------
(* Small instances of Investigator: a process, its parent and child. *)
EXTENDS Investigator, TLC

CONSTANTS
  process, parent, child, elsewhere,    \* events,
  fabricated,                           \* and one that does not exist
  finding, rows, tree, grandtree, logons, beacon

FourKnown == {process, parent, child, elsewhere}
FiveIds == FourKnown \cup {fabricated}
FourProbes == {tree, grandtree, logons, beacon}
TwoCalls == {finding, rows}
OneToken == {1}

Returns(ids, shows) == [ids |-> ids, shown |-> shows, children |-> <<>>, destinations |-> <<>>]
Telemetry ==
  finding :> Returns({process}, {process})
    @@ rows :> Returns({process}, {process})
    @@ tree :> [Returns({process, parent, child}, {process, child})
                  EXCEPT !.children = <<tree, grandtree>>]
    @@ grandtree :> Returns({child}, {child})
    @@ logons :> [Returns({elsewhere}, {}) EXCEPT !.destinations = <<beacon>>]
    @@ beacon :> Returns({}, {})

\* The policy with the guard, with enough of everything but time.
Guarded ==
  [seed |-> <<finding, rows>>, events |-> rows, trees |-> <<tree>>, accounts |-> <<logons>>,
   hosts |-> <<>>, ancestry |-> {{parent}}, available |-> TRUE, operational |-> TRUE,
   guard |-> TRUE, maxSteps |-> 4, maxProbes |-> 2, toolBudget |-> 4, timed |-> TRUE,
   tokenBudget |-> 9]
\* Too few tool calls for a second probe, and too few tokens for a third round.
Scarce == [Guarded EXCEPT !.toolBudget = 3, !.tokenBudget = 2, !.guard = FALSE]
\* Not even the case's rows can be read.
Starved == [Guarded EXCEPT !.toolBudget = 1]
Unavailable == [Guarded EXCEPT !.available = FALSE]
\* An arm of an experiment, with steps to spare and no budget, with a step too
\* few, and with a budget of time and one of tokens for two rounds.
Arm == [Guarded EXCEPT !.operational = FALSE, !.guard = FALSE, !.toolBudget = None,
                       !.timed = FALSE, !.tokenBudget = None]
ShortArm == [Arm EXCEPT !.maxSteps = 2]
HeldArm == [Arm EXCEPT !.timed = TRUE, !.tokenBudget = 2]

SevenSettings ==
  {Guarded, Scarce, Starved, Unavailable, Arm, ShortArm, HeldArm}

SomeAnswers ==
  [explanations : {<<>>, <<{process}>>, <<{parent}>>, <<{process, child}, {elsewhere}>>,
                   <<{process, fabricated}>>},
   dropped : {FALSE}, probe : {0, 1, 2, 9}, disposition : {"benign", "abstain"}]
  \cup [explanations : {<<{process}>>}, dropped : {TRUE}, probe : {0}, disposition : {"malicious"}]

=============================================================================
