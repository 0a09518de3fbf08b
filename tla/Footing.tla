------------------------------ MODULE Footing ------------------------------
(***************************************************************************)
(* What every investigation starts from (derive_footing in worker.py, and  *)
(* the same three calls in the command line): the findings of a hunt,      *)
(* triaged, then correlated into cases with what triage set aside.         *)
(***************************************************************************)
EXTENDS Triage, Correlation

\* The correlator is told which findings are benign, and does not decide it.
FootingInit == CorrelationInit /\ setAside = SetAsideIds(ToSet(ordered))
FootingSpec == FootingInit /\ [][CorrelationNext]_correlationVars

Linked(f) == \E n \in DOMAIN links : f \in {links[n].left, links[n].right}

\* What no amount of reassuring evidence may outweigh, as detection noted it
\* and as the environment knows the names.
Alarming(f) ==
  LET m == f.metadata
  IN  \/ "some" \in {m.evasion, m.download}
      \/ m.cleartext
      \/ m.contacts >= SustainedContactThreshold
      \/ m.parent \in OfficeApplications
      \/ \E name \in {m.parent, m.process} \ {Absent} : IdentityConflict(name)
      \/ <<f.device, m.address>> \in Regular

\* Neither triage nor the correlator loses an alarm: a finding that detection
\* graded HIGH is investigated even alone, and one that carries an incriminating
\* or disqualifying mark is as soon as anything is linked to it, however popular
\* its destination, well known its parent and reassuring its company.
AlarmsAreInvestigated ==
  pc = "done" => \A f \in Findings :
    f.severity >= 3 \/ (Alarming(f) /\ Linked(f)) => \E c \in ToSet(cases) : f \in c.findings

=============================================================================
