---------------------------- MODULE Correlation ----------------------------
(***************************************************************************)
(* The correlator of ath.correlation: it compares the findings pair by     *)
(* pair in the order they were first seen, links those that evidence       *)
(* relates, joins the linked ones in a union-find, and raises the groups   *)
(* as investigation cases unless triage set all of a group aside.          *)
(*                                                                         *)
(* A row of telemetry names a process by the identity its source gives it, *)
(* or by its slot, the device and the pid, which the operating system      *)
(* reissues.  A key here carries the instance it is about; the code sees   *)
(* the instance only where there is an identity, and then only as that     *)
(* source's name for it.                                                   *)
(***************************************************************************)
EXTENDS Integers, Sequences, SequencesExt, FiniteSets, FiniteSetsExt

CONSTANTS
  FindingIds,
  Instances,         \* process instances,
  SlotOf,            \* the slot each ran in, None where no pid is recorded
  Schemes,           \* the authorities that identify instances
  Telemetry,         \* the rows by event: see Row
  Devices, Users, Principals,
  Metadata,          \* what else detection notes of a finding; the correlator does not ask
  Hunts,             \* the sets of findings a run may be given
  MinScore, MinCaseSize, SingletonMinSeverity,
  MaxGap, TightWindow, AuthExecWindow, CrossDomainWindow, SiblingWindow,
  MaxSessionFanOut, MaxSessionSpan,
  None

Key == [instance : Instances, scheme : Schemes \cup {None}]

\* created: the row is that of a process, not of a connection; names: the
\* principals it names.  Every key has an identity or a slot.
Row ==
  [process : Key \cup {None}, parent : Key \cup {None}, created : BOOLEAN,
   time : Nat, names : SUBSET Principals]

\* hosts: the devices it moved from and to; families: the kinds of telemetry it
\* rests on; severity: from 0, INFO, to 4, CRITICAL.
Finding ==
  [id : FindingIds, rule : Nat, events : SUBSET DOMAIN Telemetry, device : Devices,
   hosts : SUBSET Devices, user : Users, severity : 0 .. 4, first : Nat, last : Nat,
   families : SUBSET {"endpoint", "identity", "network", "control_plane"},
   metadata : Metadata]

ASSUME CorrelationAssumption ==
  /\ IsFiniteSet(DOMAIN Telemetry)
  /\ \A e \in DOMAIN Telemetry :
       /\ Telemetry[e] \in Row
       /\ \A k \in {Telemetry[e].process, Telemetry[e].parent} \ {None} :
            k.scheme = None => SlotOf[k.instance] # None
       /\ ~Telemetry[e].created => Telemetry[e].parent = None
  /\ \A hunt \in Hunts :
       IsFiniteSet(hunt) /\ \A f \in hunt : f \in Finding /\ f.first <= f.last
  /\ CrossDomainWindow <= MaxGap
  /\ {MinCaseSize, SingletonMinSeverity} \subseteq Nat
  /\ None \notin Key \cup Schemes

VARIABLES
  setAside,  \* the findings triage found likely benign
  ordered,   \* all findings, as sorted
  pc,
  at,        \* the pair to compare next, by position
  parent,    \* the union-find over finding ids
  links,     \* those made
  cases      \* those raised, in the order they are numbered

correlationVars == <<setAside, ordered, pc, at, parent, links, cases>>

-----------------------------------------------------------------------------
(* Process instances.                                                       *)

\* What a key is equal by: its identity, or its slot.
Tag(key) ==
  [by |-> key.scheme, of |-> IF key.scheme # None THEN key.instance ELSE SlotOf[key.instance]]

\* Both are the same authority's answer, and can confirm or refute each other.
Comparable(a, b) == a.scheme # None /\ a.scheme = b.scheme

Joins(a, b) ==
  IF Comparable(a, b) THEN a.instance = b.instance
  ELSE SlotOf[a.instance] = SlotOf[b.instance] /\ SlotOf[a.instance] # None

\* What a join of the two rests on.
Basis(a, b) == IF Comparable(a, b) THEN "identity" ELSE "slot"

\* The basis noted of every pair compared, also of those that do not join.
MatchKeysHeedless(left, right) ==
  {Basis(p[1], p[2]) :
     p \in {q \in left \X right : \E r \in left \X right : Joins(r[1], r[2])}}

\* What the joins between the two sides rest on; none: {}.  One on an identity
\* makes the match an observed one; only "slot" makes it inferred.
MatchKeys(left, right) ==
  {Basis(p[1], p[2]) : p \in {q \in left \X right : Joins(q[1], q[2])}}

Keys(f) == {Telemetry[e].process : e \in f.events} \ {None}
ParentKeys(f) == {Telemetry[e].parent : e \in f.events} \ {None}

Width(times) == IF times = {} THEN 0 ELSE Max(times) - Min(times)

\* What each parent was seen to start, as the rows tag it.
Spawned ==
  [tag \in {Tag(k) : k \in {Telemetry[e].parent : e \in DOMAIN Telemetry} \ {None}} |->
     {e \in DOMAIN Telemetry : Telemetry[e].parent # None /\ Tag(Telemetry[e].parent) = tag}]

FanOut ==
  [tag \in DOMAIN Spawned |->
     Cardinality({Tag(k) : k \in {Telemetry[e].process : e \in Spawned[tag]} \ {None}})]

SpawnSpan == [tag \in DOMAIN Spawned |-> Width({Telemetry[e].time : e \in Spawned[tag]})]

SessionParents(f) ==
  {p \in ParentKeys(f) :
     FanOut[Tag(p)] <= MaxSessionFanOut /\ SpawnSpan[Tag(p)] <= MaxSessionSpan}

-----------------------------------------------------------------------------
(* The relations between two findings.                                      *)

Gap(a, b) ==
  IF a.last >= b.first /\ b.last >= a.first THEN 0
  ELSE IF b.first > a.last THEN b.first - a.last ELSE a.first - b.last

HostsOf(f) == {f.device} \cup f.hosts
PrincipalsOf(f) == UNION {Telemetry[e].names : e \in f.events}

AuthThenExec(auth, exec) ==
  /\ "identity" \in auth.families
  /\ "endpoint" \in exec.families
  /\ auth.device = exec.device
  /\ exec.first - auth.last \in 0 .. AuthExecWindow

CrossChannel(a, b) ==
  IF a.families = {} \/ b.families = {} \/ a.families \cap b.families # {} THEN {}
  ELSE IF AuthThenExec(a, b) \/ AuthThenExec(b, a) THEN {"auth_then_exec"}
  ELSE IF Gap(a, b) <= CrossDomainWindow /\ PrincipalsOf(a) \cap PrincipalsOf(b) # {}
       THEN {"shared_principal"} ELSE {}

\* The same process, or the parent of one is in the other, or one parent of both
\* that reads as one session: each with what it rests on.
SameProcess(a, b) == MatchKeys(Keys(a), Keys(b))
Lineage(a, b) == MatchKeys(Keys(a), ParentKeys(b)) \cup MatchKeys(Keys(b), ParentKeys(a))
Sibling(a, b) ==
  IF Gap(a, b) <= SiblingWindow THEN MatchKeys(SessionParents(a), SessionParents(b)) ELSE {}

Structural(a, b) ==
  {"shared_evidence" : e \in a.events \cap b.events}
  \cup {"same_process" : basis \in SameProcess(a, b)}
  \cup {"process_lineage" : basis \in Lineage(a, b)}
  \cup {"sibling_lineage" : basis \in Sibling(a, b)}
  \cup {s \in {"host_movement"} :
          a.device # b.device /\ (a.device \in HostsOf(b) \/ b.device \in HostsOf(a))}
  \cup CrossChannel(a, b)

Circumstantial(a, b) ==
  {s \in {"same_device"} : a.device = b.device}
  \cup {s \in {"same_user"} : a.user = b.user}
  \cup {IF Gap(a, b) <= TightWindow THEN "temporal_close" ELSE "temporal_near"}

Weight ==
  [shared_evidence |-> 3, same_process |-> 3, process_lineage |-> 3, sibling_lineage |-> 2,
   host_movement |-> 3, auth_then_exec |-> 3, shared_principal |-> 3,
   same_device |-> 2, same_user |-> 2, temporal_close |-> 2, temporal_near |-> 1]

Score(signals) == MapThenSumSet(LAMBDA s : Weight[s], signals)

\* Two findings no further apart than the horizon, related by enough, and by
\* more than circumstance.
Warranted(a, b) ==
  /\ Gap(a, b) <= MaxGap
  /\ Structural(a, b) # {}
  /\ Score(Structural(a, b) \cup Circumstantial(a, b)) >= MinScore

LinkOf(a, b) ==
  [left |-> a, right |-> b, signals |-> Structural(a, b),
   inferred |-> {"slot"} \in {SameProcess(a, b), Lineage(a, b), Sibling(a, b)}]

-----------------------------------------------------------------------------
(* The union-find.                                                          *)

\* The item a walk has come to, and the parents as they are then.
Walks == [root : FindingIds, parent : [FindingIds -> FindingIds]]

\* From an item to its root, halving the path on the way.
Walk[w \in Walks] ==
  IF w.parent[w.root] = w.root THEN w
  ELSE LET up == w.parent[w.parent[w.root]]
       IN  Walk[[root |-> up, parent |-> [w.parent EXCEPT ![w.root] = up]]]

Find(p, x) == Walk[[root |-> x, parent |-> p]]

\* The second item itself is moved, without what it was joined to.
UnionUnrooted(p, a, b) ==
  LET left == Find(p, a)
  IN  IF left.root # b THEN [left.parent EXCEPT ![b] = left.root] ELSE left.parent

Union(p, a, b) ==
  LET left  == Find(p, a)
      right == Find(left.parent, b)
  IN  IF left.root # right.root THEN [right.parent EXCEPT ![right.root] = left.root]
      ELSE right.parent

-----------------------------------------------------------------------------
(* One run.                                                                 *)

\* First seen first, then by rule; findings alike in both stay as they came.
Sorted(seq) ==
  \A i, k \in DOMAIN seq : i < k =>
    \/ seq[i].first < seq[k].first
    \/ seq[i].first = seq[k].first /\ seq[i].rule <= seq[k].rule

CorrelationInit ==
  /\ \E hunt \in Hunts : ordered \in {s \in SetToSeqs(hunt) : Sorted(s)}
  /\ setAside \in SUBSET {ordered[i].id : i \in DOMAIN ordered}
  /\ pc = "check"
  /\ at = <<1, 2>>
  /\ parent = [f \in FindingIds |-> f]
  /\ links = <<>>
  /\ cases = <<>>

Ids == {ordered[i].id : i \in DOMAIN ordered}

\* Two findings of one id would be one node of the graph: an error.
CheckIds ==
  /\ pc = "check"
  /\ pc' = IF Cardinality(Ids) < Len(ordered) THEN "refused" ELSE "compare"
  /\ UNCHANGED <<setAside, ordered, at, parent, links, cases>>

InRange == at[1] < Len(ordered)
Advance == at' = IF at[2] < Len(ordered) THEN <<at[1], at[2] + 1>> ELSE <<at[1] + 1, at[1] + 2>>
Left == ordered[at[1]]
Right == ordered[at[2]]

Link ==
  /\ pc = "compare" /\ InRange
  /\ Warranted(Left, Right)
  /\ links' = Append(links, LinkOf(Left, Right))
  /\ parent' = Union(parent, Left.id, Right.id)
  /\ Advance
  /\ UNCHANGED <<setAside, ordered, pc, cases>>

PassBy ==
  /\ pc = "compare" /\ InRange
  /\ ~Warranted(Left, Right)
  /\ Advance
  /\ UNCHANGED <<setAside, ordered, pc, parent, links, cases>>

Findings == ToSet(ordered)

GroupOf(x) == {f \in Findings : Find(parent, f.id).root = Find(parent, x.id).root}

IsRaised(members) ==
  /\ \E f \in members : f.id \notin setAside
  /\ \/ Cardinality(members) >= MinCaseSize
     \/ Cardinality(members) = 1 /\ \E f \in members : f.severity >= SingletonMinSeverity

\* Where a group that is raised begins.
Openings ==
  {i \in DOMAIN ordered :
     /\ \A k \in 1 .. i - 1 : ordered[k] \notin GroupOf(ordered[i])
     /\ IsRaised(GroupOf(ordered[i]))}

\* The n-th of some positions.
Nth(positions, n) == CHOOSE i \in positions : Cardinality({k \in positions : k < i}) = n - 1

CaseOf(members) ==
  [findings |-> members,
   links    |-> {l \in ToSet(links) : {l.left, l.right} \subseteq members}]

\* The groups in the order of their earliest finding; sorting the cases by
\* their start keeps that order, because the findings were in it.
CasesRaised ==
  [n \in 1 .. Cardinality(Openings) |-> CaseOf(GroupOf(ordered[Nth(Openings, n)]))]

Raise ==
  /\ pc = "compare" /\ ~InRange
  /\ cases' = CasesRaised
  /\ pc' = "done"
  /\ UNCHANGED <<setAside, ordered, at, parent, links>>

CorrelationNext == CheckIds \/ Link \/ PassBy \/ Raise
CorrelationSpec == CorrelationInit /\ [][CorrelationNext]_correlationVars

-----------------------------------------------------------------------------
(* Properties.                                                              *)

Pairs(ls) == {<<l.left, l.right>> : l \in ls} \cup {<<l.right, l.left>> : l \in ls}

\* S is held together by its links, and all that is linked to it is in it.
Connected(S, ls) == \A X \in (SUBSET S) \ {{}, S} : Pairs(ls) \cap (X \X (S \ X)) # {}
Closed(S) == Pairs(ToSet(links)) \cap (S \X (Findings \ S)) = {}

Unexplained(S) == \E f \in S : f.id \notin setAside
WorthACase(S) == Cardinality(S) >= MinCaseSize \/ (\E f \in S : f.severity >= SingletonMinSeverity)

\* The cases are the connected components of what evidence relates, whatever
\* order findings seen at the same time came in: two findings are linked as
\* their evidence warrants from either side, a case is held together by the
\* links it reports, and nothing linked to it is left outside.  And nothing
\* unexplained is lost: a finding is in no case only if all it is connected to
\* was set aside by triage, or if it is alone and not severe.
CasesAreComponents ==
  pc = "done" =>
    LET raised == {c.findings : c \in ToSet(cases)}
    IN  /\ \A a, b \in Findings : a # b =>
             (Warranted(a, b) <=> <<a, b>> \in Pairs(ToSet(links)))
        /\ \A c \in ToSet(cases) :
             /\ Connected(c.findings, c.links) /\ Closed(c.findings)
             /\ Unexplained(c.findings) /\ WorthACase(c.findings)
        /\ Cardinality(raised) = Len(cases)
        /\ \A S, T \in raised : S # T => S \cap T = {}
        /\ \A f \in Findings \ UNION raised :
             \E S \in SUBSET Findings :
               /\ f \in S /\ Closed(S) /\ Connected(S, ToSet(links))
               /\ ~Unexplained(S) \/ ~WorthACase(S)
        /\ \A m, n \in DOMAIN cases : m < n =>
             Min({f.first : f \in cases[m].findings}) <= Min({f.first : f \in cases[n].findings})

InstancesOf(keys) == {k.instance : k \in keys}

\* The rows of the processes an instance started.
StartedBy(i) == {e \in DOMAIN Telemetry : Telemetry[e].parent # None /\ Telemetry[e].parent.instance = i}

\* All that an instance started names it, and is named, by one authority.
WellObserved(i) ==
  \E s \in Schemes : \A e \in StartedBy(i) :
    Telemetry[e].parent.scheme = s /\ Telemetry[e].process # None /\ Telemetry[e].process.scheme = s

IsBurst(i) ==
  /\ Cardinality({Telemetry[e].process.instance : e \in StartedBy(i)}) <= MaxSessionFanOut
  /\ Width({Telemetry[e].time : e \in StartedBy(i)}) <= MaxSessionSpan

\* A link that is not labelled as inferred from a pid is true of the processes
\* themselves, however slots were reused: the two findings did share a process,
\* one's did start the other's, or one instance started both; and where that
\* instance was well observed it was a burst of activity and not a launcher.
LinksAreTrue ==
  \A n \in DOMAIN links :
    LET a == links[n].left
        b == links[n].right
        common == InstancesOf(ParentKeys(a)) \cap InstancesOf(ParentKeys(b))
    IN  ~links[n].inferred =>
          /\ "same_process" \in links[n].signals =>
               InstancesOf(Keys(a)) \cap InstancesOf(Keys(b)) # {}
          /\ "process_lineage" \in links[n].signals =>
               \/ InstancesOf(Keys(a)) \cap InstancesOf(ParentKeys(b)) # {}
               \/ InstancesOf(Keys(b)) \cap InstancesOf(ParentKeys(a)) # {}
          /\ "sibling_lineage" \in links[n].signals =>
               \E i \in common : WellObserved(i) => IsBurst(i)

=============================================================================
