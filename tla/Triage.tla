------------------------------- MODULE Triage -------------------------------
(***************************************************************************)
(* The benign triage of ath.triage: what argues for a finding being        *)
(* ordinary activity, what forbids to say so, and the disposition that     *)
(* follows.  It reads what detection noted of the finding and what the     *)
(* environment model knows of the names in it, and changes neither.        *)
(***************************************************************************)
EXTENDS Integers, FiniteSets, FiniteSetsExt

CONSTANTS
  Names, Addresses,
  Processes,          \* the environment's profile of each process name
  OfficeApplications,
  Destinations,       \* its profile of each address
  Regular,            \* device and address, where contact is machine-regular
  BenignThreshold, MaxSeverityForBenign, SustainedContactThreshold,
  Absent              \* not noted

\* product: named like a known security tool; signers: how many organisations
\* signed what ran under the name; statuses: whether that was found valid;
\* estate: on half the hosts, with five children or more.
Profile ==
  [product : BOOLEAN, signers : Nat, statuses : SUBSET {"valid", "other"}, estate : BOOLEAN]

\* popular: contacted by half the hosts through three processes or more.
Destination == [popular : BOOLEAN, established : BOOLEAN]

\* A rule that did not look for a marker leaves it absent.
TriageMetadata ==
  [parent : Names \cup {Absent}, process : Names \cup {Absent},
   evasion : {"none", "some", Absent}, download : {"none", "some", Absent},
   address : Addresses \cup {Absent}, contacts : Nat,
   tlsOnly : BOOLEAN, cleartext : BOOLEAN]

ASSUME TriageAssumption ==
  /\ Processes \in [Names -> Profile]
  /\ OfficeApplications \subseteq Names
  /\ Destinations \in [Addresses -> Destination]
  /\ Absent \notin Names \cup Addresses \cup {"none", "some"}
  /\ {BenignThreshold, SustainedContactThreshold} \subseteq Nat
  /\ MaxSeverityForBenign \in 0 .. 4

-----------------------------------------------------------------------------

\* Recognised by more than its name.
IsKnownSecurityTool(name) ==
  /\ Processes[name].product
  /\ Processes[name].signers = 1
  /\ Processes[name].statuses = {"valid"}

\* The name stands for different things in different places.
IdentityConflict(name) ==
  \/ Processes[name].signers > 1
  \/ Processes[name].signers > 0 /\ "other" \in Processes[name].statuses

\* Something is positively known of the activity.
Affirmative(m) ==
  {s \in {"known_management_tool"} : m.parent # Absent /\ IsKnownSecurityTool(m.parent)}
  \cup {s \in {"established_tooling"} :
          m.parent # Absent /\ ~IsKnownSecurityTool(m.parent) /\ Processes[m.parent].estate}
  \cup {s \in {"ubiquitous_destination"} :
          m.address # Absent
          /\ Destinations[m.address].popular /\ Destinations[m.address].established}

\* A marker was looked for and not found.
Supporting(m) ==
  {s \in {"no_evasion_indicators"} : m.evasion = "none"}
  \cup {s \in {"no_download_indicators"} : m.download = "none"}
  \cup {s \in {"encrypted_standard_port"} : m.tlsOnly /\ ~m.cleartext}

BenignWeight ==
  [known_management_tool |-> 3, established_tooling |-> 2, ubiquitous_destination |-> 3,
   no_evasion_indicators |-> 2, no_download_indicators |-> 2, encrypted_standard_port |-> 1]

BenignScore(m) == MapThenSumSet(LAMBDA s : BenignWeight[s], Affirmative(m) \cup Supporting(m))

\* A boundary one grade too high.
HighSeverityLate(f) == f.severity > MaxSeverityForBenign + 1

\* What the detection itself is sure of.
HighSeverity(f) == f.severity > MaxSeverityForBenign

\* Any one blocks a benign disposition, whatever speaks for it.
Vetoed(f) ==
  LET m == f.metadata
  IN  \/ m.evasion = "some"
      \/ m.download = "some"
      \/ m.parent \in OfficeApplications
      \/ m.cleartext
      \/ m.contacts >= SustainedContactThreshold
      \/ \E name \in {m.parent, m.process} \ {Absent} : IdentityConflict(name)
      \/ HighSeverity(f)

\* Withdraws reassurance without incriminating.
Disqualified(f) == <<f.device, f.metadata.address>> \in Regular

AssessFinding(f) ==
  IF Vetoed(f) THEN "likely_malicious"
  ELSE IF /\ ~Disqualified(f)
          /\ BenignScore(f.metadata) >= BenignThreshold
          /\ Affirmative(f.metadata) # {}
       THEN "likely_benign"
       ELSE "needs_review"

SetAsideIds(findings) == {f.id : f \in {g \in findings : AssessFinding(g) = "likely_benign"}}

=============================================================================
