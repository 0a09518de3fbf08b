------------------------- MODULE InvestigatorProofs -------------------------
(***************************************************************************)
(* Proofs about Investigator.  Where the loop is tells how many probes     *)
(* ran, how many answers were had and how many steps were taken; what a    *)
(* menu offers was known from the case or from an earlier call and has not *)
(* run; and whatever goes wrong leaves a trace (an error, a refusal, a     *)
(* round without an answer, another reason to stop) that is still there    *)
(* when the result is judged.                                              *)
(***************************************************************************)
EXTENDS Investigator, FiniteSetTheorems, WellFoundedInduction, TLAPS

CallRecord == [call : Probes \cup Calls, refused : BOOLEAN]
RoundRecord == [answer : Answers \cup {None}, menu : Seq(Probes)]

InvestigatorTypes ==
  /\ setting \in Settings
  /\ at \in {"seed", "round", "ask", "probe", "conclude", "report", "done"}
  /\ calls \in Seq(CallRecord)
  /\ menu \in Seq(Probes) /\ children \in Seq(Probes) /\ destinations \in Seq(Probes)
  /\ rounds \in Seq(RoundRecord)
  /\ tokens \in Nat \cup {None} /\ (tokens = None => setting.operational)
  /\ late \in BOOLEAN /\ llmErrors \in BOOLEAN
  /\ stop \in StopReason \cup {None}
  /\ steps \in Nat
  /\ disposition \in Disposition \cup {None}
  /\ outcome \in Outcome \cup {None}

\* How many probes were run, and where the first of them stands among the calls.
First == Len(setting.seed) + 1
Ran == Len(calls) - Len(setting.seed)

\* Where the loop is tells how many probes ran, answers were had and steps taken.
LoopSound ==
  /\ at = "seed" =>
       /\ calls = <<>> /\ rounds = <<>> /\ shown = {} /\ steps = 0
       /\ children = <<>> /\ destinations = <<>>
  /\ at # "seed" => Ran \in 0 .. setting.maxProbes
  /\ at \in {"round", "ask", "probe", "conclude"} => steps = Ran + 1
  /\ at \in {"report", "done"} => steps = Ran + 2
  /\ at \in {"round", "ask"} => Len(rounds) = Ran
  /\ at = "probe" => Len(rounds) = Ran + 1 /\ Ran < setting.maxProbes
  /\ at \in {"conclude", "report", "done"} => Len(rounds) \in {Ran, Ran + 1}
  /\ at \in {"seed", "round", "ask", "probe"} <=> stop = None
  /\ at = "report" => setting.operational

\* A round in which the model named a probe of its menu.
Named(r) == r.answer # None /\ r.answer.probe \in DOMAIN r.menu

AnswersSound ==
  /\ at = "probe" => rounds[Len(rounds)].menu = menu /\ Named(rounds[Len(rounds)])
  /\ stop # "model call unusable" => \A i \in DOMAIN rounds : rounds[i].answer # None
  /\ stop = "model chose no probe" =>
       Len(rounds) = Ran + 1 /\ ~Named(rounds[Len(rounds)])

\* The probes known of from the case and from the first calls.
KnownAt(n) ==
  ToSet(setting.accounts) \cup ToSet(setting.hosts)
    \cup {p \in ToSet(setting.trees) :
            \E i \in DOMAIN calls : calls[i] = [call |-> setting.events, refused |-> FALSE]}
    \cup UNION {ToSet(ResultOf[calls[i].call].children)
                  \cup ToSet(ResultOf[calls[i].call].destinations)
                  : i \in {k \in DOMAIN calls : k \in First .. n /\ ~calls[k].refused}}

EvidenceSound ==
  /\ \A i \in DOMAIN calls : i >= First =>
       /\ calls[i].call \in Probes
       /\ Named(rounds[i - Len(setting.seed)])
       /\ calls[i].call =
            rounds[i - Len(setting.seed)].menu[rounds[i - Len(setting.seed)].answer.probe]
       /\ calls[i].call \in KnownAt(i - 1)
       /\ \A k \in DOMAIN calls : k >= First /\ calls[k].call = calls[i].call => k = i
  /\ ToSet(children) \cup ToSet(destinations) \subseteq KnownAt(Len(calls))
  /\ at \in {"ask", "probe"} => ToSet(menu) \subseteq KnownAt(Len(calls)) \ AlreadyRun

ToolsSound ==
  /\ shown \subseteq Retrieved
  /\ setting.toolBudget # None => Served <= setting.toolBudget

\* What a complete run had before its result was judged, and still has.
Undisturbed ==
  /\ setting.available /\ ~late
  /\ tokens # None /\ tokens < setting.tokenBudget
  /\ stop = "model chose no probe"
  /\ \A i \in DOMAIN calls : ~calls[i].refused
  /\ \A i \in DOMAIN rounds : ~InvalidRound(rounds[i])

ResultSound ==
  /\ tokens = None => llmErrors
  /\ at \notin {"report", "done"} => claims = {} /\ disposition = None
  /\ at # "done" => outcome = None
  /\ at = "done" /\ setting.operational => outcome # None
  /\ \A cites \in claims : cites \subseteq shown
  /\ outcome = "complete" => Undisturbed

IInv ==
  /\ InvestigatorTypes /\ LoopSound /\ AnswersSound /\ EvidenceSound /\ ToolsSound
  /\ ResultSound /\ VerdictEarned

-----------------------------------------------------------------------------
(* Least and greatest elements, by the well-foundedness of finite sets. *)

LEMMA Least ==
  ASSUME NEW S, S \subseteq Nat, S # {}
  PROVE  \E n \in S : \A m \in S : n <= m
<1> DEFINE T == {1 .. n : n \in S}
<1>1. IsWellFoundedOn(StrictSubsetOrdering(Nat), FiniteSubsetsOf(Nat))
  BY FS_StrictSubsetOrderingWellFounded
<1>2. T \subseteq FiniteSubsetsOf(Nat) /\ T # {}
  <2>1. \A n \in S : 1 .. n \subseteq Nat /\ IsFiniteSet(1 .. n)
    BY FS_Interval
  <2> QED
    BY <2>1 DEF FiniteSubsetsOf
<1>3. PICK x \in T : \A y \in T : ~ (<<y, x>> \in StrictSubsetOrdering(Nat))
  BY <1>1, <1>2, WFMin
<1>4. PICK n \in S : x = 1 .. n
  OBVIOUS
<1>5. \A m \in S : n <= m
  <2> SUFFICES ASSUME NEW m \in S, m < n
               PROVE  FALSE
    OBVIOUS
  <2>1. 1 .. m \subseteq 1 .. n /\ n \in 1 .. n /\ n \notin 1 .. m
    OBVIOUS
  <2>2. 1 .. m \in SUBSET Nat /\ 1 .. n \in SUBSET Nat
    OBVIOUS
  <2>3. <<1 .. m, 1 .. n>> \in StrictSubsetOrdering(Nat)
    BY <2>1, <2>2 DEF StrictSubsetOrdering
  <2> QED
    BY <1>3, <1>4, <2>3
<1> QED
  BY <1>5

LEMMA Greatest ==
  ASSUME NEW n \in Nat, NEW S, S \subseteq 1 .. n, S # {}
  PROVE  Max(S) \in S
<1> DEFINE below == {n - i : i \in S}
<1>1. below \subseteq Nat /\ below # {}
  <2>1. \A i \in S : n - i \in Nat
    OBVIOUS
  <2> QED
    BY <2>1
<1>2. PICK b \in below : \A c \in below : b <= c
  BY <1>1, Least
<1>3. PICK i \in S : b = n - i
  OBVIOUS
<1>4. \A k \in S : i >= k
  <2> SUFFICES ASSUME NEW k \in S
               PROVE  i >= k
    OBVIOUS
  <2>1. n - k \in below
    OBVIOUS
  <2> HIDE DEF below
  <2>2. n - i <= n - k /\ i \in Int /\ k \in Int
    BY <1>2, <1>3, <2>1
  <2> QED
    BY <2>2
<1> QED
  BY <1>4 DEF Max

-----------------------------------------------------------------------------
(* The operators on sequences. *)

\* A finite set of positions has an n-th one.
LEMMA Nth ==
  ASSUME NEW length \in Nat, NEW I, I \subseteq 1 .. length,
         NEW n \in 1 .. Cardinality(I)
  PROVE  \E i \in I : Cardinality({k \in I : k < i}) = n - 1
<1> DEFINE upTo(i) == {k \in I : k <= i}
<1> DEFINE enough == {i \in Nat : Cardinality(upTo(i)) >= n}
<1>0. \A i \in I : i \in Nat /\ i <= length /\ i >= 1
  OBVIOUS
<1>1. IsFiniteSet(1 .. length)
  BY FS_Interval
<1>2. IsFiniteSet(I) /\ Cardinality(I) \in Nat
  BY <1>1, FS_Subset, FS_CardinalityType
<1>3. \A i \in Nat : IsFiniteSet(upTo(i)) /\ Cardinality(upTo(i)) \in Nat
  <2> TAKE i \in Nat
  <2>1. upTo(i) \in SUBSET I
    OBVIOUS
  <2> QED
    BY <1>2, <2>1, FS_Subset, FS_CardinalityType
<1>4. length \in enough
  <2>1. upTo(length) = I
    BY <1>0
  <2> QED
    BY <1>2, <2>1
<1>5. PICK i \in enough : \A j \in enough : i <= j
  <2>1. enough \subseteq Nat /\ enough # {}
    BY <1>4
  <2> HIDE DEF enough
  <2> QED
    BY <2>1, Least
<1>6. i # 0
  <2>1. \A k \in I : ~(k <= 0)
    BY <1>0
  <2>2. upTo(0) = {}
    BY <2>1
  <2>3. Cardinality(upTo(0)) = 0
    BY <2>2, FS_EmptySet
  <2> QED
    BY <2>3
<1>7. i \in Nat /\ i - 1 \in Nat /\ i - 1 \notin enough
  <2>1. i \in Nat /\ \A j \in enough : i <= j
    BY <1>5
  <2> HIDE DEF enough
  <2> QED
    BY <1>6, <2>1
<1>8. Cardinality(upTo(i - 1)) < n /\ Cardinality(upTo(i)) >= n
  <2>1. ~(Cardinality(upTo(i - 1)) >= n) /\ Cardinality(upTo(i)) >= n
    BY <1>7
  <2>2. Cardinality(upTo(i - 1)) \in Nat
    BY <1>3, <1>7
  <2> HIDE DEF upTo
  <2> QED
    BY <2>1, <2>2
<1>9. upTo(i) = upTo(i - 1) \cup ({i} \cap I)
  <2>1. \A k \in I : k <= i <=> k <= i - 1 \/ k = i
    BY <1>0, <1>7
  <2> QED
    BY <2>1, <1>7
<1>10. i \in I
  <2> SUFFICES ASSUME i \notin I
               PROVE  FALSE
    OBVIOUS
  <2>1. upTo(i) = upTo(i - 1)
    BY <1>9
  <2> QED
    BY <1>3, <1>7, <1>8, <2>1
<1>11. Cardinality(upTo(i)) = Cardinality(upTo(i - 1)) + 1
  <2>1. upTo(i) = upTo(i - 1) \cup {i} /\ i \notin upTo(i - 1)
    BY <1>9, <1>10
  <2>2. IsFiniteSet(upTo(i - 1))
    BY <1>3, <1>7
  <2> HIDE DEF upTo
  <2> QED
    BY <2>1, <2>2, FS_AddElement
<1>12. {k \in I : k < i} = upTo(i - 1)
  <2>1. \A k \in I : k < i <=> k <= i - 1
    BY <1>0, <1>7
  <2> QED
    BY <2>1
<1>13. Cardinality(upTo(i - 1)) = n - 1
  <2>1. Cardinality(upTo(i - 1)) \in Nat /\ Cardinality(upTo(i)) \in Nat
    BY <1>3, <1>7
  <2> HIDE DEF upTo
  <2> QED
    BY <1>8, <1>11, <2>1
<1> QED
  BY <1>10, <1>12, <1>13

\* What is picked are entries at the positions given.
LEMMA Picked ==
  ASSUME NEW S, NEW s \in Seq(S), NEW I, I \subseteq DOMAIN s
  PROVE  /\ Pick(s, I) \in Seq(S)
         /\ \A p \in ToSet(Pick(s, I)) : \E i \in I : p = s[i]
<1> DEFINE nth(n) == CHOOSE i \in I : Cardinality({k \in I : k < i}) = n - 1
<1>1. Len(s) \in Nat /\ I \subseteq 1 .. Len(s)
  OBVIOUS
<1>2. \A n \in 1 .. Cardinality(I) : nth(n) \in I
  <2> TAKE n \in 1 .. Cardinality(I)
  <2>1. \E i \in I : Cardinality({k \in I : k < i}) = n - 1
    BY <1>1, Nth
  <2> QED
    BY <2>1
<1>3. Cardinality(I) \in Nat
  <2>1. IsFiniteSet(1 .. Len(s))
    BY <1>1, FS_Interval
  <2> QED
    BY <1>1, <2>1, FS_Subset, FS_CardinalityType
<1>4. Pick(s, I) = [n \in 1 .. Cardinality(I) |-> s[nth(n)]]
  BY DEF Pick
<1> HIDE DEF nth
<1>5. \A n \in 1 .. Cardinality(I) : s[nth(n)] \in S
  BY <1>2
<1>6. Pick(s, I) \in Seq(S)
  BY <1>3, <1>4, <1>5
<1> QED
  BY <1>2, <1>4, <1>6 DEF ToSet

LEMMA FirstOfSome ==
  ASSUME NEW S, NEW s \in Seq(S), NEW n \in Nat
  PROVE  FirstOf(s, n) \in Seq(S) /\ ToSet(FirstOf(s, n)) \subseteq ToSet(s)
BY DEF FirstOf, ToSet

LEMMA Joined ==
  ASSUME NEW S, NEW s \in Seq(S), NEW t \in Seq(S)
  PROVE  /\ s \o t \in Seq(S) /\ Len(s \o t) = Len(s) + Len(t)
         /\ \A i \in 1 .. Len(s) : (s \o t)[i] = s[i]
         /\ \A i \in 1 .. Len(t) : (s \o t)[Len(s) + i] = t[i]
OBVIOUS

LEMMA JoinedOne ==
  ASSUME NEW S, NEW s \in Seq(S), NEW t \in Seq(S)
  PROVE  Len(t) = 1 => (s \o t)[Len(s) + 1] = t[1]
<1>1. \A i \in 1 .. Len(t) : (s \o t)[Len(s) + i] = t[i]
  BY Joined
<1>2. PICK u : u = s \o t
  OBVIOUS
<1>3. \A i \in 1 .. Len(t) : u[Len(s) + i] = t[i]
  BY <1>1, <1>2
<1>4. Len(t) = 1 => 1 \in 1 .. Len(t)
  OBVIOUS
<1>5. Len(t) = 1 => u[Len(s) + 1] = t[1]
  BY <1>3, <1>4
<1> QED
  BY <1>2, <1>5

LEMMA BothParts ==
  ASSUME NEW S, NEW s \in Seq(S), NEW t \in Seq(S)
  PROVE  s \o t \in Seq(S) /\ ToSet(s \o t) = ToSet(s) \cup ToSet(t)
<1>1. s \o t \in Seq(S) /\ Len(s \o t) = Len(s) + Len(t)
  BY Joined
<1>2. \A i \in 1 .. Len(s) : (s \o t)[i] = s[i]
  BY Joined
<1>3. \A i \in 1 .. Len(t) : (s \o t)[Len(s) + i] = t[i]
  BY Joined
<1>4. ToSet(s) \subseteq ToSet(s \o t)
  BY <1>1, <1>2 DEF ToSet
<1>5. ToSet(t) \subseteq ToSet(s \o t)
  <2> SUFFICES ASSUME NEW i \in 1 .. Len(t)
               PROVE  \E k \in DOMAIN (s \o t) : (s \o t)[k] = t[i]
    BY DEF ToSet
  <2>1. Len(s) + i \in DOMAIN (s \o t)
    BY <1>1
  <2> QED
    BY <1>3, <2>1
<1>6. ToSet(s \o t) \subseteq ToSet(s) \cup ToSet(t)
  <2> SUFFICES ASSUME NEW i \in DOMAIN (s \o t)
               PROVE  (s \o t)[i] \in ToSet(s) \cup ToSet(t)
    BY DEF ToSet
  <2>1. CASE i <= Len(s)
    BY <1>1, <1>2, <2>1 DEF ToSet
  <2>2. CASE i > Len(s)
    <3>1. i - Len(s) \in 1 .. Len(t)
      BY <1>1, <2>2
    <3>2. (s \o t)[i] = t[i - Len(s)]
      BY <1>1, <1>3, <3>1
    <3> QED
      BY <3>1, <3>2 DEF ToSet
  <2> QED
    BY <1>1, <2>1, <2>2
<1> QED
  BY <1>1, <1>4, <1>5, <1>6

-----------------------------------------------------------------------------
(* The constants. *)

LEMMA SettingFields ==
  ASSUME setting \in Settings
  PROVE  /\ setting.seed \in Seq(Calls) /\ setting.trees \in Seq(Probes)
         /\ setting.accounts \in Seq(Probes) /\ setting.hosts \in Seq(Probes)
         /\ setting.maxSteps \in Nat /\ setting.maxProbes \in Nat
         /\ setting.toolBudget \in Nat \cup {None} /\ setting.tokenBudget \in Nat \cup {None}
         /\ setting.guard => setting.operational
         /\ setting.operational =>
              setting.maxSteps >= setting.maxProbes + 2 /\ setting.tokenBudget # None
<1>1. setting \in Setting
  BY InvestigatorAssumption
<1>2. /\ setting.guard => setting.operational
      /\ setting.operational =>
           setting.maxSteps >= setting.maxProbes + 2 /\ setting.tokenBudget # None
  BY InvestigatorAssumption
<1>3. /\ setting.seed \in Seq(Calls) /\ setting.trees \in Seq(Probes)
      /\ setting.accounts \in Seq(Probes) /\ setting.hosts \in Seq(Probes)
      /\ setting.maxSteps \in Nat /\ setting.maxProbes \in Nat
      /\ setting.toolBudget \in Nat \cup {None} /\ setting.tokenBudget \in Nat \cup {None}
  BY <1>1 DEF Setting
<1> QED
  BY <1>2, <1>3

LEMMA ResultFields ==
  ASSUME NEW call \in Probes \cup Calls
  PROVE  /\ ResultOf[call].shown \subseteq ResultOf[call].ids
         /\ ResultOf[call].children \in Seq(Probes)
         /\ ResultOf[call].destinations \in Seq(Probes)
<1>1. ResultOf[call] \in Result
  BY InvestigatorAssumption
<1> QED
  BY <1>1, InvestigatorAssumption DEF Result

LEMMA AnswerFields ==
  ASSUME NEW answer \in Answers
  PROVE  /\ answer.probe \in Nat /\ answer.disposition \in Disposition
         /\ answer # None
<1>1. answer \in Answer
  BY InvestigatorAssumption
<1> QED
  BY <1>1, InvestigatorAssumption DEF Answer

LEMMA CallsTyped ==
  ASSUME calls \in Seq(CallRecord)
  PROVE  /\ Len(calls) \in Nat /\ DOMAIN calls = 1 .. Len(calls)
         /\ \A i \in DOMAIN calls :
              /\ calls[i].call \in Probes \cup Calls
              /\ calls[i].refused \in BOOLEAN
<1>1. \A i \in DOMAIN calls : calls[i] \in CallRecord
  OBVIOUS
<1> QED
  BY <1>1 DEF CallRecord

LEMMA RoundsTyped ==
  ASSUME rounds \in Seq(RoundRecord)
  PROVE  /\ Len(rounds) \in Nat /\ DOMAIN rounds = 1 .. Len(rounds)
         /\ \A i \in DOMAIN rounds :
              /\ rounds[i].answer \in Answers \cup {None}
              /\ rounds[i].menu \in Seq(Probes)
<1>1. \A i \in DOMAIN rounds : rounds[i] \in RoundRecord
  OBVIOUS
<1> QED
  BY <1>1 DEF RoundRecord

-----------------------------------------------------------------------------
(* The tools and the menu. *)

\* What is computed from the calls changes with them only.
LEMMA SameCalls ==
  ASSUME UNCHANGED <<setting, calls>>
  PROVE  /\ First' = First /\ Ran' = Ran
         /\ Served' = Served /\ Retrieved' = Retrieved /\ AlreadyRun' = AlreadyRun
         /\ \A n \in Int : KnownAt(n)' = KnownAt(n)
<1>1. First' = First /\ Ran' = Ran
  BY DEF First, Ran
<1>2. Served' = Served
  BY DEF Served
<1>3. Retrieved' = Retrieved /\ AlreadyRun' = AlreadyRun
  BY DEF Retrieved, Results, AlreadyRun
<1>4. \A n \in Int : KnownAt(n)' = KnownAt(n)
  BY <1>1 DEF KnownAt
<1> QED
  BY <1>1, <1>2, <1>3, <1>4

LEMMA CandidatesKnown ==
  ASSUME InvestigatorTypes, ToSet(children) \cup ToSet(destinations) \subseteq KnownAt(Len(calls))
  PROVE  Candidates \in Seq(Probes) /\ ToSet(Candidates) \subseteq KnownAt(Len(calls))
<1>1. /\ setting.trees \in Seq(Probes) /\ setting.accounts \in Seq(Probes)
      /\ setting.hosts \in Seq(Probes)
      /\ children \in Seq(Probes) /\ destinations \in Seq(Probes)
      /\ MaxTrees \in Nat /\ MaxDestinations \in Nat
  BY SettingFields, InvestigatorAssumption DEF InvestigatorTypes
<1>2. CitedTrees \in Seq(Probes) /\ ToSet(CitedTrees) \subseteq KnownAt(Len(calls))
  <2>1. CASE \E i \in DOMAIN calls : calls[i].call = setting.events /\ ~calls[i].refused
    <3>1. PICK i \in DOMAIN calls : calls[i].call = setting.events /\ ~calls[i].refused
      BY <2>1
    <3>2. calls[i] = [call |-> setting.events, refused |-> FALSE]
      <4>1. calls[i] \in CallRecord
        BY DEF InvestigatorTypes
      <4> QED
        BY <3>1, <4>1 DEF CallRecord
    <3>3. ToSet(setting.trees) \subseteq KnownAt(Len(calls))
      BY <3>2 DEF KnownAt
    <3>4. CitedTrees = FirstOf(setting.trees, MaxTrees)
      BY <2>1 DEF CitedTrees
    <3> QED
      BY <1>1, <3>3, <3>4, FirstOfSome
  <2>2. CASE ~ \E i \in DOMAIN calls : calls[i].call = setting.events /\ ~calls[i].refused
    BY <2>2 DEF CitedTrees, ToSet
  <2> QED
    BY <2>1, <2>2
<1>3. /\ FirstOf(children, MaxTrees) \in Seq(Probes)
      /\ ToSet(FirstOf(children, MaxTrees)) \subseteq KnownAt(Len(calls))
      /\ FirstOf(destinations, MaxDestinations) \in Seq(Probes)
      /\ ToSet(FirstOf(destinations, MaxDestinations)) \subseteq KnownAt(Len(calls))
  BY <1>1, FirstOfSome
<1>4. ToSet(setting.accounts) \cup ToSet(setting.hosts) \subseteq KnownAt(Len(calls))
  BY DEF KnownAt
<1> DEFINE a == CitedTrees \o FirstOf(children, MaxTrees)
           b == a \o setting.accounts
           c == b \o setting.hosts
<1>5. a \in Seq(Probes) /\ ToSet(a) \subseteq KnownAt(Len(calls))
  BY <1>2, <1>3, BothParts
<1>6. b \in Seq(Probes) /\ ToSet(b) \subseteq KnownAt(Len(calls))
  <2> HIDE DEF a
  <2> QED
    BY <1>1, <1>4, <1>5, BothParts
<1>7. c \in Seq(Probes) /\ ToSet(c) \subseteq KnownAt(Len(calls))
  <2> HIDE DEF b
  <2> QED
    BY <1>1, <1>4, <1>6, BothParts
<1>8. Candidates = c \o FirstOf(destinations, MaxDestinations)
  BY DEF Candidates
<1> HIDE DEF c
<1> QED
  BY <1>3, <1>7, <1>8, BothParts

\* A menu offers what is known and has not run.
LEMMA MenuKnown ==
  ASSUME InvestigatorTypes, ToSet(children) \cup ToSet(destinations) \subseteq KnownAt(Len(calls))
  PROVE  BuildMenu \in Seq(Probes) /\ ToSet(BuildMenu) \subseteq KnownAt(Len(calls)) \ AlreadyRun
<1> DEFINE offered == Pick(Candidates, Fresh(AlreadyRun))
<1>1. Candidates \in Seq(Probes) /\ ToSet(Candidates) \subseteq KnownAt(Len(calls))
  BY CandidatesKnown
<1>2. /\ Fresh(AlreadyRun) \subseteq DOMAIN Candidates
      /\ \A i \in Fresh(AlreadyRun) : Candidates[i] \notin AlreadyRun
  BY DEF Fresh
<1>3. /\ offered \in Seq(Probes)
      /\ \A p \in ToSet(offered) : \E i \in Fresh(AlreadyRun) : p = Candidates[i]
  BY <1>1, <1>2, Picked
<1>4. \A i \in DOMAIN Candidates : Candidates[i] \in KnownAt(Len(calls))
  BY <1>1 DEF ToSet
<1>5. ToSet(offered) \subseteq KnownAt(Len(calls)) \ AlreadyRun
  BY <1>2, <1>3, <1>4
<1>6. MaxMenu \in Nat /\ BuildMenu = FirstOf(offered, MaxMenu)
  BY InvestigatorAssumption DEF BuildMenu
<1> HIDE DEF offered
<1> QED
  BY <1>3, <1>5, <1>6, FirstOfSome

LEMMA MadeTyped ==
  ASSUME NEW names \in Seq(Probes \cup Calls)
  PROVE  /\ CallsMade(names) \in Seq(CallRecord) /\ Len(CallsMade(names)) = Len(names)
         /\ \A i \in 1 .. Len(names) :
              /\ CallsMade(names)[i].call = names[i]
              /\ CallsMade(names)[i].refused
                   <=> setting.toolBudget # None /\ Served + i > setting.toolBudget
<1> DEFINE made == [i \in 1 .. Len(names) |->
                      [call |-> names[i],
                       refused |-> setting.toolBudget # None /\ Served + i > setting.toolBudget]]
<1>1. Len(names) \in Nat /\ DOMAIN names = 1 .. Len(names)
  OBVIOUS
<1>2. CallsMade(names) = made
  BY <1>1 DEF CallsMade
<1>3. \A i \in 1 .. Len(names) : made[i] \in CallRecord
  BY DEF CallRecord
<1>4. made \in Seq(CallRecord) /\ Len(made) = Len(names)
  BY <1>1, <1>3
<1>5. \A i \in 1 .. Len(names) : made[i].call = names[i]
  OBVIOUS
<1>6. ASSUME NEW i \in 1 .. Len(names)
      PROVE  made[i].refused <=> setting.toolBudget # None /\ Served + i > setting.toolBudget
  <2>1. made[i].refused = (setting.toolBudget # None /\ Served + i > setting.toolBudget)
    OBVIOUS
  <2> QED
    BY <2>1
<1> HIDE DEF made
<1> QED
  BY <1>2, <1>4, <1>5, <1>6

\* What the model is shown of a result the tool handed over.
LEMMA ShownHandedOver ==
  ASSUME NEW made \in Seq(CallRecord)
  PROVE  UNION {r.shown : r \in Results(made)} \subseteq UNION {r.ids : r \in Results(made)}
<1> SUFFICES ASSUME NEW r \in Results(made)
             PROVE  r.shown \subseteq r.ids
  OBVIOUS
<1>1. PICK i \in DOMAIN made : r = ResultOf[made[i].call]
  BY DEF Results
<1>2. made[i] \in CallRecord
  OBVIOUS
<1> QED
  BY <1>1, <1>2, ResultFields DEF CallRecord

LEMMA ResultsOfBoth ==
  ASSUME NEW s \in Seq(CallRecord), NEW t \in Seq(CallRecord)
  PROVE  Results(s \o t) = Results(s) \cup Results(t)
<1> DEFINE served(made) == {made[i] : i \in {k \in DOMAIN made : ~made[k].refused}}
<1>1. \A made \in Seq(CallRecord) : Results(made) = {ResultOf[c.call] : c \in served(made)}
  BY DEF Results
<1>2. \A made \in Seq(CallRecord) : served(made) = {c \in ToSet(made) : ~c.refused}
  BY DEF ToSet
<1>3. s \o t \in Seq(CallRecord) /\ ToSet(s \o t) = ToSet(s) \cup ToSet(t)
  BY BothParts
<1>4. served(s \o t) = served(s) \cup served(t)
  BY <1>2, <1>3
<1> HIDE DEF served
<1> QED
  BY <1>1, <1>3, <1>4

LEMMA ServedFinite ==
  ASSUME calls \in Seq(CallRecord)
  PROVE  /\ IsFiniteSet({i \in DOMAIN calls : ~calls[i].refused})
         /\ Served \in Nat
<1>1. Len(calls) \in Nat /\ DOMAIN calls = 1 .. Len(calls)
  BY CallsTyped
<1>2. IsFiniteSet(1 .. Len(calls))
  BY <1>1, FS_Interval
<1>3. {i \in DOMAIN calls : ~calls[i].refused} \in SUBSET (1 .. Len(calls))
  BY <1>1
<1> HIDE <1>1
<1> QED
  BY <1>2, <1>3, FS_Subset, FS_CardinalityType DEF Served

\* The seed's calls, made from an unspent budget.
LEMMA SeedCalls ==
  ASSUME InvestigatorTypes, calls = <<>>, calls' = CallsMade(setting.seed), UNCHANGED setting
  PROVE  /\ calls' \in Seq(CallRecord) /\ Len(calls') = Len(setting.seed)
         /\ setting.toolBudget # None => Served' <= setting.toolBudget
<1>1. /\ setting.seed \in Seq(Probes \cup Calls) /\ Len(setting.seed) \in Nat
      /\ setting.toolBudget \in Nat \cup {None}
  <2>1. setting.seed \in Seq(Calls)
    BY SettingFields DEF InvestigatorTypes
  <2> QED
    BY <2>1, SettingFields DEF InvestigatorTypes
<1>2. Served = 0
  <2>1. {i \in DOMAIN calls : ~calls[i].refused} = {}
    OBVIOUS
  <2> QED
    BY <2>1, FS_EmptySet DEF Served
<1>3. /\ calls' \in Seq(CallRecord) /\ Len(calls') = Len(setting.seed)
      /\ \A i \in 1 .. Len(setting.seed) :
           calls'[i].refused <=> setting.toolBudget # None /\ Served + i > setting.toolBudget
  BY <1>1, MadeTyped
<1>4. ASSUME setting.toolBudget # None
      PROVE  Served' <= setting.toolBudget
  <2>1. setting.toolBudget \in Nat
    BY <1>1, <1>4
  <2>2. {i \in DOMAIN calls' : ~calls'[i].refused} \in SUBSET (1 .. setting.toolBudget)
    <3> SUFFICES ASSUME NEW i \in DOMAIN calls', ~calls'[i].refused
                 PROVE  i \in 1 .. setting.toolBudget
      OBVIOUS
    <3>1. i \in 1 .. Len(setting.seed)
      BY <1>1, <1>3
    <3>2. ~(0 + i > setting.toolBudget)
      BY <1>2, <1>3, <1>4, <3>1
    <3> QED
      BY <1>1, <2>1, <3>1, <3>2
  <2>3. IsFiniteSet(1 .. setting.toolBudget) /\ Cardinality(1 .. setting.toolBudget) = setting.toolBudget
    <3>1. PICK n \in Nat : n = setting.toolBudget
      BY <2>1
    <3>2. IsFiniteSet(1 .. n) /\ Cardinality(1 .. n) = n
      BY FS_Interval
    <3> QED
      BY <3>1, <3>2
  <2>4. Served' = Cardinality({i \in DOMAIN calls' : ~calls'[i].refused})
    BY DEF Served
  <2> QED
    BY <2>1, <2>2, <2>3, <2>4, FS_Subset
<1> QED
  BY <1>3, <1>4

\* One more call, of a probe.
LEMMA OneMoreCall ==
  ASSUME InvestigatorTypes, NEW probe \in Probes,
         calls' = calls \o CallsMade(<<probe>>), UNCHANGED setting
  PROVE  /\ calls' \in Seq(CallRecord) /\ Len(calls') = Len(calls) + 1
         /\ \A i \in 1 .. Len(calls) : calls'[i] = calls[i]
         /\ calls'[Len(calls) + 1] = CallsMade(<<probe>>)[1]
         /\ calls'[Len(calls) + 1].call = probe
         /\ Results(calls') = Results(calls) \cup Results(CallsMade(<<probe>>))
<1> DEFINE made == CallsMade(<<probe>>)
<1>1. made \in Seq(CallRecord) /\ Len(made) = 1 /\ made[1].call = probe
  <2>1. <<probe>> \in Seq(Probes \cup Calls) /\ Len(<<probe>>) = 1 /\ <<probe>>[1] = probe
    OBVIOUS
  <2>2. PICK names : names = <<probe>>
    OBVIOUS
  <2>3. names \in Seq(Probes \cup Calls) /\ Len(names) = 1 /\ names[1] = probe
    BY <2>1, <2>2
  <2>4. /\ CallsMade(names) \in Seq(CallRecord) /\ Len(CallsMade(names)) = 1
        /\ CallsMade(names)[1].call = names[1]
    BY <2>3, MadeTyped
  <2> QED
    BY <2>2, <2>3, <2>4
<1>2. calls \in Seq(CallRecord) /\ Len(calls) \in Nat
  BY CallsTyped DEF InvestigatorTypes
<1> HIDE DEF made
<1>3. Results(calls \o made) = Results(calls) \cup Results(made)
  BY <1>1, <1>2, ResultsOfBoth
<1>4. /\ calls \o made \in Seq(CallRecord) /\ Len(calls \o made) = Len(calls) + 1
      /\ \A i \in 1 .. Len(calls) : (calls \o made)[i] = calls[i]
      /\ (calls \o made)[Len(calls) + 1] = made[1]
  <2>1. calls \o made \in Seq(CallRecord) /\ Len(calls \o made) = Len(calls) + Len(made)
    BY <1>1, <1>2, Joined
  <2>2. \A i \in 1 .. Len(calls) : (calls \o made)[i] = calls[i]
    BY <1>1, <1>2, Joined
  <2>3. (calls \o made)[Len(calls) + 1] = made[1]
    BY <1>1, <1>2, JoinedOne
  <2> QED
    BY <1>1, <2>1, <2>2, <2>3
<1> QED
  BY <1>1, <1>3, <1>4 DEF made

LEMMA OneMoreServed ==
  ASSUME InvestigatorTypes, NEW probe \in Probes,
         calls' = calls \o CallsMade(<<probe>>), UNCHANGED setting,
         setting.toolBudget # None, Served <= setting.toolBudget
  PROVE  Served' <= setting.toolBudget
<1> DEFINE before == {i \in DOMAIN calls : ~calls[i].refused}
           after == {i \in DOMAIN calls' : ~calls'[i].refused}
<1>1. /\ calls' \in Seq(CallRecord) /\ Len(calls') = Len(calls) + 1
      /\ \A i \in 1 .. Len(calls) : calls'[i] = calls[i]
      /\ calls'[Len(calls) + 1] = CallsMade(<<probe>>)[1]
  BY OneMoreCall
<1>2. calls \in Seq(CallRecord) /\ Len(calls) \in Nat /\ DOMAIN calls = 1 .. Len(calls)
  BY CallsTyped DEF InvestigatorTypes
<1>3. DOMAIN calls' = 1 .. Len(calls) + 1
  BY <1>1, <1>2
<1>4. IsFiniteSet(before) /\ Served = Cardinality(before) /\ Served \in Nat
  BY <1>2, ServedFinite DEF Served
<1>5. Served' = Cardinality(after)
  BY DEF Served
<1>6. setting.toolBudget \in Nat
  BY SettingFields DEF InvestigatorTypes
<1>7. CallsMade(<<probe>>)[1].refused <=> Served + 1 > setting.toolBudget
  <2>1. PICK names : names = <<probe>>
    OBVIOUS
  <2>2. names \in Seq(Probes \cup Calls) /\ Len(names) = 1
    BY <2>1
  <2>3. CallsMade(names)[1].refused <=> setting.toolBudget # None /\ Served + 1 > setting.toolBudget
    BY <2>2, MadeTyped
  <2> QED
    BY <2>1, <2>3
<1>8. CASE CallsMade(<<probe>>)[1].refused
  <2>1. after = before
    BY <1>1, <1>2, <1>3, <1>8
  <2> QED
    BY <1>4, <1>5, <2>1
<1>9. CASE ~CallsMade(<<probe>>)[1].refused
  <2>1. after = before \cup {Len(calls) + 1}
    BY <1>1, <1>2, <1>3, <1>9
  <2>2. Len(calls) + 1 \notin before
    BY <1>2
  <2> HIDE DEF before, after
  <2>3. Cardinality(after) = Cardinality(before) + 1
    BY <1>4, <2>1, <2>2, FS_AddElement
  <2> QED
    BY <1>4, <1>5, <1>6, <1>7, <1>9, <2>3
<1> QED
  BY <1>8, <1>9

-----------------------------------------------------------------------------
(* What the steps that make no call to a tool leave alone. *)

LEMMA NoneIsNone ==
  /\ None \notin Nat /\ None \notin Probes /\ None \notin Answers
  /\ \A reason \in StopReason : reason # None
  /\ \A d \in Disposition : d # None
  /\ \A o \in Outcome : o # None
BY InvestigatorAssumption

\* Rounds are only added.
LEMMA EvidenceKept ==
  ASSUME InvestigatorTypes, LoopSound, EvidenceSound, UNCHANGED <<setting, toolVars>>,
         \A i \in 1 .. Len(rounds) : rounds'[i] = rounds[i],
         at' \in {"ask", "probe"} => ToSet(menu') \subseteq KnownAt(Len(calls)) \ AlreadyRun
  PROVE  EvidenceSound'
<1>1. UNCHANGED <<setting, calls, children, destinations>>
  BY DEF toolVars
<1>2. /\ First' = First /\ AlreadyRun' = AlreadyRun
      /\ \A n \in Int : KnownAt(n)' = KnownAt(n)
  BY <1>1, SameCalls
<1>3. Len(calls) \in Nat /\ DOMAIN calls = 1 .. Len(calls)
  BY CallsTyped DEF InvestigatorTypes
<1>4. Len(setting.seed) \in Nat /\ First = Len(setting.seed) + 1
  BY SettingFields DEF InvestigatorTypes, First
<1>5. ASSUME NEW i \in DOMAIN calls, i >= First
      PROVE  i - Len(setting.seed) \in 1 .. Len(rounds)
  <2>1. at # "seed"
    BY <1>3, <1>5 DEF LoopSound
  <2>2. PICK ran \in Int : ran = Len(calls) - Len(setting.seed)
    <3>1. PICK n \in Nat : n = Len(calls)
      BY <1>3
    <3>2. PICK m \in Nat : m = Len(setting.seed)
      BY <1>4
    <3>3. n - m \in Int
      OBVIOUS
    <3> QED
      BY <3>1, <3>2, <3>3
  <2>3. Len(rounds) \in Nat /\ Len(rounds) >= Len(calls) - Len(setting.seed)
    <3>1. Ran = ran
      BY <2>2 DEF Ran
    <3>2. Len(rounds) = ran \/ Len(rounds) = ran + 1
      BY <2>1, <3>1 DEF LoopSound, InvestigatorTypes
    <3>3. Len(rounds) \in Nat
      BY RoundsTyped DEF InvestigatorTypes
    <3>4. Len(rounds) >= ran
      BY <3>2, <3>3
    <3> QED
      BY <2>2, <3>3, <3>4
  <2>4. i \in Nat /\ i <= Len(calls) /\ i >= Len(setting.seed) + 1
    BY <1>3, <1>4, <1>5
  <2> QED
    BY <1>3, <1>4, <2>3, <2>4
<1>6. ASSUME NEW i \in DOMAIN calls', i >= First'
      PROVE  /\ calls'[i].call \in Probes
             /\ Named(rounds'[i - Len(setting'.seed)])
             /\ calls'[i].call =
                  rounds'[i - Len(setting'.seed)].menu[rounds'[i - Len(setting'.seed)].answer.probe]
             /\ calls'[i].call \in KnownAt(i - 1)'
             /\ \A k \in DOMAIN calls' : k >= First' /\ calls'[k].call = calls'[i].call => k = i
  <2>1. i \in DOMAIN calls /\ i >= First
    BY <1>1, <1>2, <1>6
  <2>2. rounds'[i - Len(setting.seed)] = rounds[i - Len(setting.seed)]
    BY <1>5, <2>1
  <2>3. KnownAt(i - 1)' = KnownAt(i - 1)
    <3>1. i - 1 \in Int
      BY <1>3, <2>1
    <3> QED
      BY <1>1, <1>2, <3>1 DEF KnownAt
  <2>4. /\ calls[i].call \in Probes
        /\ Named(rounds[i - Len(setting.seed)])
        /\ calls[i].call =
             rounds[i - Len(setting.seed)].menu[rounds[i - Len(setting.seed)].answer.probe]
        /\ calls[i].call \in KnownAt(i - 1)
        /\ \A k \in DOMAIN calls : k >= First /\ calls[k].call = calls[i].call => k = i
    BY <2>1 DEF EvidenceSound
  <2> QED
    BY <1>1, <1>2, <2>2, <2>3, <2>4
<1>7. KnownAt(Len(calls))' = KnownAt(Len(calls))
  BY <1>1, <1>2 DEF KnownAt
<1>8. ToSet(children') \cup ToSet(destinations') \subseteq KnownAt(Len(calls))'
  BY <1>1, <1>7 DEF EvidenceSound
<1>9. at' \in {"ask", "probe"} => ToSet(menu') \subseteq KnownAt(Len(calls))' \ AlreadyRun'
  BY <1>2, <1>7
<1> QED
  BY <1>6, <1>8, <1>9 DEF EvidenceSound, ToSet

LEMMA ToolsKept ==
  ASSUME ToolsSound, UNCHANGED <<setting, toolVars>>
  PROVE  ToolsSound'
<1>1. UNCHANGED <<setting, calls, shown>>
  BY DEF toolVars
<1>2. Served' = Served /\ Retrieved' = Retrieved
  BY <1>1, SameCalls
<1> QED
  BY <1>1, <1>2 DEF ToolsSound

\* Nothing is published before the result is judged.
LEMMA ResultKept ==
  ASSUME InvestigatorTypes, ResultSound, VerdictEarned, UNCHANGED resultVars,
         at \notin {"report", "done"}, at' \notin {"report", "done"},
         tokens' = None => llmErrors'
  PROVE  ResultSound' /\ VerdictEarned'
<1>1. claims' = {} /\ disposition' = None /\ outcome' = None
  BY DEF ResultSound, resultVars
<1>2. outcome' # "complete"
  BY <1>1, NoneIsNone DEF Outcome
<1>3. at' # "done"
  OBVIOUS
<1> QED
  BY <1>1, <1>2, <1>3 DEF ResultSound, VerdictEarned

LEMMA BeginRoundKeeps ==
  ASSUME IInv, BeginRound
  PROVE  IInv'
<1>1. /\ at = "round" /\ UNCHANGED <<setting, toolVars, rounds, tokens, late, steps, resultVars>>
      /\ at' \in {"ask", "conclude"}
  BY DEF BeginRound
<1>2. BuildMenu \in Seq(Probes) /\ ToSet(BuildMenu) \subseteq KnownAt(Len(calls)) \ AlreadyRun
  BY MenuKnown DEF IInv, EvidenceSound
<1>3. InvestigatorTypes'
  <2>1. InvestigatorTypes
    BY DEF IInv
  <2> QED
    BY <1>2, <2>1 DEF InvestigatorTypes, BeginRound, toolVars, resultVars, StopReason
<1>4. Ran' = Ran /\ First' = First
  BY <1>1, SameCalls DEF toolVars
<1>5. at' = "conclude" => stop' = "budget exhausted"
  BY DEF BeginRound
<1>6. at' = "ask" => stop' = stop
  BY DEF BeginRound
<1>7. LoopSound'
  <2>1. LoopSound
    BY DEF IInv
  <2>2. stop = None /\ "budget exhausted" # None
    BY <1>1, <2>1, NoneIsNone DEF LoopSound, StopReason
  <2> QED
    BY <1>1, <1>4, <1>5, <1>6, <2>1, <2>2 DEF LoopSound
<1>8. AnswersSound'
  <2>1. stop = None /\ None # "model call unusable"
    BY <1>1, NoneIsNone DEF IInv, LoopSound, StopReason
  <2>2. stop' \in {None, "budget exhausted"} /\ None # "model chose no probe"
    BY <1>1, <1>5, <1>6, <2>1, NoneIsNone DEF StopReason
  <2> QED
    BY <1>1, <2>1, <2>2 DEF IInv, AnswersSound
<1>9. EvidenceSound'
  <2>1. at' \in {"ask", "probe"} => ToSet(menu') \subseteq KnownAt(Len(calls)) \ AlreadyRun
    BY <1>2 DEF BeginRound
  <2> QED
    BY <1>1, <2>1, EvidenceKept DEF IInv
<1>10. ToolsSound'
  BY <1>1, ToolsKept DEF IInv
<1>11. ResultSound' /\ VerdictEarned'
  <2>1. tokens' = None => llmErrors'
    BY DEF IInv, ResultSound, BeginRound
  <2> QED
    BY <1>1, <2>1, ResultKept DEF IInv
<1> QED
  BY <1>3, <1>7, <1>8, <1>9, <1>10, <1>11 DEF IInv

-----------------------------------------------------------------------------
(* The model answers, or does not. *)

LEMMA RoundAdded ==
  ASSUME InvestigatorTypes, NEW answer \in Answers \cup {None},
         rounds' = Append(rounds, [answer |-> answer, menu |-> menu])
  PROVE  /\ rounds' \in Seq(RoundRecord) /\ Len(rounds') = Len(rounds) + 1
         /\ \A i \in 1 .. Len(rounds) : rounds'[i] = rounds[i]
         /\ rounds'[Len(rounds')] = [answer |-> answer, menu |-> menu]
<1>1. [answer |-> answer, menu |-> menu] \in RoundRecord
  BY DEF InvestigatorTypes, RoundRecord
<1> QED
  BY <1>1 DEF InvestigatorTypes

LEMMA UnusableKeeps ==
  ASSUME IInv, at = "ask", NEW spent \in Nat \cup {None}, NEW noted \in BOOLEAN,
         spent = None => (llmErrors \/ noted) /\ setting.operational,
         Unusable(spent, noted),
         UNCHANGED <<setting, toolVars, menu, late, steps, resultVars>>
  PROVE  IInv'
<1>1. /\ InvestigatorTypes /\ LoopSound /\ AnswersSound /\ EvidenceSound /\ ToolsSound
      /\ ResultSound /\ VerdictEarned
  BY DEF IInv
<1>2. /\ at' = "conclude" /\ stop' = "model call unusable" /\ tokens' = spent
      /\ llmErrors' = (llmErrors \/ noted)
      /\ rounds' = Append(rounds, [answer |-> None, menu |-> menu])
  BY DEF Unusable
<1>3. /\ rounds' \in Seq(RoundRecord) /\ Len(rounds') = Len(rounds) + 1
      /\ \A i \in 1 .. Len(rounds) : rounds'[i] = rounds[i]
  BY <1>1, <1>2, RoundAdded
<1>4. llmErrors' \in BOOLEAN
  BY <1>1, <1>2 DEF InvestigatorTypes
<1>5. InvestigatorTypes'
  BY <1>1, <1>2, <1>3, <1>4 DEF InvestigatorTypes, toolVars, resultVars, StopReason
<1>6. Ran' = Ran /\ First' = First
  BY SameCalls DEF toolVars
<1>7. LoopSound'
  <2>1. stop' # None
    BY <1>2, NoneIsNone DEF StopReason
  <2>2. at # "seed" /\ Ran \in 0 .. setting.maxProbes /\ steps = Ran + 1 /\ Len(rounds) = Ran
    BY <1>1 DEF LoopSound
  <2> QED
    BY <1>2, <1>3, <1>6, <2>1, <2>2 DEF LoopSound
<1>8. AnswersSound'
  BY <1>2 DEF AnswersSound
<1>9. EvidenceSound'
  BY <1>1, <1>2, <1>3, EvidenceKept
<1>10. ToolsSound'
  BY <1>1, ToolsKept
<1>11. ResultSound' /\ VerdictEarned'
  <2>1. tokens' = None => llmErrors'
    BY <1>2
  <2> QED
    BY <1>1, <1>2, <2>1, ResultKept
<1> QED
  BY <1>5, <1>7, <1>8, <1>9, <1>10, <1>11 DEF IInv

LEMMA SpentTyped ==
  ASSUME InvestigatorTypes, NEW used \in Nat \cup {None}, tokens \in Nat \/ ~setting.operational
  PROVE  /\ Spent(used) \in Nat \cup {None}
         /\ Spent(used) = None => used = None /\ setting.operational
<1>1. used = None \/ used \in Nat
  OBVIOUS
<1>2. tokens \in Nat
  BY DEF InvestigatorTypes
<1>3. CASE setting.tokenBudget = None \/ (used = None /\ ~setting.operational)
  <2>1. Spent(used) = tokens
    BY <1>3 DEF Spent
  <2>2. Spent(used) \in Nat
    BY <1>2, <2>1
  <2> QED
    BY <2>2, NoneIsNone
<1>4. CASE setting.tokenBudget # None /\ used = None /\ setting.operational
  BY <1>4 DEF Spent
<1>5. CASE setting.tokenBudget # None /\ used # None
  <2>1. Spent(used) = tokens + used /\ used \in Nat
    BY <1>1, <1>5 DEF Spent
  <2>2. Spent(used) \in Nat
    BY <1>2, <2>1
  <2> QED
    BY <2>2, NoneIsNone
<1> QED
  BY <1>3, <1>4, <1>5

LEMMA ReplyKeeps ==
  ASSUME IInv, at = "ask", ~MayNotAsk, Reply,
         UNCHANGED <<setting, toolVars, menu, late, steps, resultVars>>
  PROVE  IInv'
<1>1. /\ InvestigatorTypes /\ LoopSound /\ AnswersSound /\ EvidenceSound /\ ToolsSound
      /\ ResultSound /\ VerdictEarned
  BY DEF IInv
<1>2. PICK answer \in Answers, used \in Costs :
        /\ rounds' = Append(rounds, [answer |-> answer, menu |-> menu])
        /\ tokens' = Spent(used)
        /\ stop' = StopAfter(answer)
        /\ at' = IF stop' = None THEN "probe" ELSE "conclude"
        /\ UNCHANGED llmErrors
  BY DEF Reply
<1>3. /\ rounds' \in Seq(RoundRecord) /\ Len(rounds') = Len(rounds) + 1
      /\ \A i \in 1 .. Len(rounds) : rounds'[i] = rounds[i]
      /\ rounds'[Len(rounds')] = [answer |-> answer, menu |-> menu]
  BY <1>1, <1>2, RoundAdded
<1>4. tokens' \in Nat \cup {None} /\ tokens' # None
  <2>1. used \in Nat /\ used # None
    BY InvestigatorAssumption
  <2>2. tokens \in Nat \/ ~setting.operational
    BY <1>1 DEF MayNotAsk, InvestigatorTypes
  <2> QED
    BY <1>1, <1>2, <2>1, <2>2, SpentTyped
<1>5. stop' \in {None, "model chose no probe", "probe budget spent", "step or tool budget spent"}
  BY <1>2 DEF StopAfter
<1>6. \A reason \in StopReason : reason # None
  BY NoneIsNone
<1>7. at' \in {"probe", "conclude"} /\ (at' = "probe" <=> stop' = None)
  BY <1>2
<1>8. InvestigatorTypes'
  BY <1>1, <1>2, <1>3, <1>4, <1>5, <1>7 DEF InvestigatorTypes, toolVars, resultVars, StopReason
<1>9. Ran' = Ran /\ First' = First
  BY SameCalls DEF toolVars
<1>10. answer # None /\ menu \in Seq(Probes)
  BY <1>1, AnswerFields DEF InvestigatorTypes
<1>11. Chosen(answer) = None <=> answer.probe \notin DOMAIN menu
  <2>1. \A i \in DOMAIN menu : menu[i] # None
    BY <1>10, NoneIsNone
  <2> QED
    BY <2>1 DEF Chosen
<1>12. stop' = "model chose no probe" <=> Chosen(answer) = None
  BY <1>2, <1>6 DEF StopAfter, StopReason
<1>13. stop' = None => Len(rounds) < setting.maxProbes
  <2>1. Len(rounds) \in Nat /\ setting.maxProbes \in Nat
    BY <1>1, RoundsTyped, SettingFields DEF InvestigatorTypes
  <2>2. stop' = None => ~(Len(rounds) >= setting.maxProbes)
    BY <1>2, <1>6 DEF StopAfter, StopReason
  <2> QED
    BY <2>1, <2>2
<1>14. LoopSound'
  <2>1. at # "seed" /\ Ran \in 0 .. setting.maxProbes /\ steps = Ran + 1 /\ Len(rounds) = Ran
    BY <1>1 DEF LoopSound
  <2> QED
    BY <1>3, <1>7, <1>9, <1>13, <2>1 DEF LoopSound
<1>15. Named(rounds'[Len(rounds')]) <=> stop' # "model chose no probe"
  <2>1. Named([answer |-> answer, menu |-> menu]) <=> answer.probe \in DOMAIN menu
    BY <1>10 DEF Named
  <2>2. Named(rounds'[Len(rounds')]) <=> Named([answer |-> answer, menu |-> menu])
    BY <1>3
  <2> QED
    BY <1>11, <1>12, <2>1, <2>2
<1>16. AnswersSound'
  <2>1. stop = None /\ stop # "model call unusable" /\ Len(rounds) = Ran
    BY <1>1, <1>6 DEF LoopSound, StopReason
  <2>2. \A i \in DOMAIN rounds : rounds[i].answer # None
    BY <1>1, <2>1 DEF AnswersSound
  <2>3. Len(rounds) \in Nat /\ DOMAIN rounds = 1 .. Len(rounds) /\ DOMAIN rounds' = 1 .. Len(rounds')
    BY <1>1, <1>3, RoundsTyped DEF InvestigatorTypes
  <2>4. \A i \in DOMAIN rounds' : rounds'[i].answer # None
    <3> SUFFICES ASSUME NEW i \in DOMAIN rounds'
                 PROVE  rounds'[i].answer # None
      OBVIOUS
    <3>1. CASE i = Len(rounds')
      BY <1>3, <1>10, <3>1
    <3>2. CASE i # Len(rounds')
      <4>1. i \in 1 .. Len(rounds)
        BY <1>3, <2>3, <3>2
      <4> QED
        BY <1>3, <2>2, <2>3, <4>1
    <3> QED
      BY <3>1, <3>2
  <2>5. at' = "probe" => rounds'[Len(rounds')].menu = menu' /\ Named(rounds'[Len(rounds')])
    <3>1. at' = "probe" => stop' # "model chose no probe"
      BY <1>6, <1>7 DEF StopReason
    <3>2. rounds'[Len(rounds')].menu = menu'
      <4>1. [answer |-> answer, menu |-> menu].menu = menu /\ menu' = menu
        OBVIOUS
      <4> QED
        BY <1>3, <4>1
    <3> QED
      BY <1>15, <3>1, <3>2
  <2>6. stop' = "model chose no probe" => Len(rounds') = Ran' + 1 /\ ~Named(rounds'[Len(rounds')])
    BY <1>3, <1>9, <1>15, <2>1
  <2> QED
    BY <2>4, <2>5, <2>6 DEF AnswersSound
<1>17. EvidenceSound'
  <2>1. ToSet(menu) \subseteq KnownAt(Len(calls)) \ AlreadyRun
    BY <1>1 DEF EvidenceSound
  <2> QED
    BY <1>1, <1>3, <2>1, EvidenceKept
<1>18. ToolsSound'
  BY <1>1, ToolsKept
<1>19. ResultSound' /\ VerdictEarned'
  <2>1. tokens' = None => llmErrors'
    BY <1>1, <1>2, <1>4 DEF ResultSound
  <2> QED
    BY <1>1, <1>7, <2>1, ResultKept
<1> QED
  BY <1>8, <1>14, <1>16, <1>17, <1>18, <1>19 DEF IInv

LEMMA AskKeeps ==
  ASSUME IInv, Ask
  PROVE  IInv'
<1>1. at = "ask" /\ UNCHANGED <<setting, toolVars, menu, late, steps, resultVars>>
  BY DEF Ask
<1>2. InvestigatorTypes /\ ResultSound /\ tokens \in Nat \cup {None}
  BY DEF IInv, InvestigatorTypes
<1>3. CASE Withhold
  BY <1>1, <1>2, <1>3, UnusableKeeps DEF Withhold, InvestigatorTypes
<1>4. CASE ~MayNotAsk /\ Fail
  <2>1. PICK used \in {0, None} \cup Costs : Unusable(Spent(used), TRUE)
    BY <1>4 DEF Fail
  <2>2. used \in Nat \cup {None}
    BY InvestigatorAssumption
  <2>3. tokens \in Nat \/ ~setting.operational
    BY <1>2, <1>4 DEF MayNotAsk
  <2>4. Spent(used) \in Nat \cup {None} /\ (Spent(used) = None => setting.operational)
    BY <1>2, <2>2, <2>3, SpentTyped
  <2> QED
    BY <1>1, <2>1, <2>4, UnusableKeeps
<1>5. CASE FailToParse
  <2>1. Unusable(tokens, FALSE) /\ (tokens = None => llmErrors /\ setting.operational)
    BY <1>2, <1>5 DEF FailToParse, ResultSound, InvestigatorTypes
  <2> QED
    BY <1>1, <1>2, <2>1, UnusableKeeps
<1>6. CASE ~MayNotAsk /\ Reply
  BY <1>1, <1>6, ReplyKeeps
<1> QED
  BY <1>3, <1>4, <1>5, <1>6 DEF Ask

-----------------------------------------------------------------------------
(* The calls to the tools. *)

LEMMA SeedKeeps ==
  ASSUME IInv, Seed
  PROVE  IInv'
<1>1. /\ InvestigatorTypes /\ LoopSound /\ AnswersSound /\ EvidenceSound /\ ToolsSound
      /\ ResultSound /\ VerdictEarned
  BY DEF IInv
<1>2. /\ at = "seed" /\ calls' = CallsMade(setting.seed) /\ steps' = 1
      /\ shown' = UNION {r.shown : r \in Results(calls')}
      /\ UNCHANGED <<setting, menu, children, destinations, modelVars, late, resultVars>>
      /\ \/ at' = "round" /\ stop' = stop
         \/ at' = "conclude" /\ stop' = "no model available"
  BY DEF Seed
<1>3. /\ calls = <<>> /\ rounds = <<>> /\ shown = {} /\ stop = None
      /\ children = <<>> /\ destinations = <<>>
  BY <1>1, <1>2 DEF LoopSound
<1>4. /\ calls' \in Seq(CallRecord) /\ Len(calls') = Len(setting.seed)
      /\ setting.toolBudget # None => Served' <= setting.toolBudget
  BY <1>1, <1>2, <1>3, SeedCalls
<1>5. Len(setting.seed) \in Nat /\ setting.maxProbes \in Nat /\ DOMAIN calls' = 1 .. Len(setting.seed)
  BY <1>1, <1>4, SettingFields DEF InvestigatorTypes
<1>6. rounds' = <<>> /\ children' = <<>> /\ destinations' = <<>> /\ setting' = setting
  BY <1>2, <1>3 DEF modelVars
<1>7. InvestigatorTypes'
  BY <1>1, <1>2, <1>4 DEF InvestigatorTypes, modelVars, resultVars, StopReason
<1>8. Ran' = 0 /\ First' = Len(setting.seed) + 1
  BY <1>4, <1>5, <1>6 DEF Ran, First
<1>9. LoopSound'
  <2>1. "no model available" # None
    BY NoneIsNone DEF StopReason
  <2>2. Len(rounds') = 0 /\ 0 \in 0 .. setting'.maxProbes
    BY <1>5, <1>6
  <2>3. at' \in {"round", "conclude"} /\ (at' = "round" <=> stop' = None)
    BY <1>2, <1>3, <2>1
  <2>4. steps' = Ran' + 1 /\ Len(rounds') = Ran' /\ Ran' \in 0 .. setting'.maxProbes
    <3>1. steps' = 1
      BY DEF Seed
    <3> QED
      BY <1>8, <2>2, <3>1
  <2> QED
    BY <2>3, <2>4 DEF LoopSound
<1>10. AnswersSound'
  <2>1. DOMAIN rounds' = {}
    BY <1>6
  <2>2. stop' # "model chose no probe"
    BY <1>2, <1>3, NoneIsNone DEF StopReason
  <2> QED
    BY <1>2, <2>1, <2>2 DEF AnswersSound
<1>11. EvidenceSound'
  <2>1. \A i \in DOMAIN calls' : ~(i >= First')
    BY <1>5, <1>8
  <2>2. ToSet(children') = {} /\ ToSet(destinations') = {}
    BY <1>6 DEF ToSet
  <2> QED
    BY <1>2, <2>1, <2>2 DEF EvidenceSound, ToSet
<1>12. ToolsSound'
  <2>1. shown' \subseteq Retrieved'
    <3>1. UNION {r.shown : r \in Results(calls')} \subseteq UNION {r.ids : r \in Results(calls')}
      BY <1>4, ShownHandedOver
    <3>2. Retrieved' = UNION {r.ids : r \in Results(calls')}
      BY DEF Retrieved, Results
    <3> QED
      BY <1>2, <3>1, <3>2
  <2> QED
    BY <1>4, <1>6, <2>1 DEF ToolsSound
<1>13. ResultSound' /\ VerdictEarned'
  <2>1. tokens' = None => llmErrors'
    BY <1>1, <1>2 DEF ResultSound, modelVars
  <2> QED
    BY <1>1, <1>2, <2>1, ResultKept
<1> QED
  BY <1>7, <1>9, <1>10, <1>11, <1>12, <1>13 DEF IInv

\* More calls are made known by, never fewer.
LEMMA KnownGrows ==
  ASSUME UNCHANGED setting, DOMAIN calls \subseteq DOMAIN calls',
         \A i \in DOMAIN calls : calls'[i] = calls[i],
         NEW n \in Int, NEW m \in Int, n <= m,
         DOMAIN calls' \subseteq Nat, Len(setting.seed) \in Nat
  PROVE  KnownAt(n) \subseteq KnownAt(m)'
<1>1. First' = First /\ First \in Int
  BY DEF First
<1>2. {k \in DOMAIN calls : k \in First .. n /\ ~calls[k].refused}
        \subseteq {k \in DOMAIN calls' : k \in First' .. m /\ ~calls'[k].refused}
  BY <1>1
<1>3. \A i \in {k \in DOMAIN calls : k \in First .. n /\ ~calls[k].refused} :
        ToSet(ResultOf[calls[i].call].children) \cup ToSet(ResultOf[calls[i].call].destinations)
          \subseteq KnownAt(m)'
  <2> TAKE i \in {k \in DOMAIN calls : k \in First .. n /\ ~calls[k].refused}
  <2>1. i \in {k \in DOMAIN calls' : k \in First' .. m /\ ~calls'[k].refused} /\ calls'[i] = calls[i]
    BY <1>2
  <2> QED
    BY <2>1 DEF KnownAt, ToSet
<1>4. /\ ToSet(setting.accounts) \cup ToSet(setting.hosts) \subseteq KnownAt(m)'
      /\ {p \in ToSet(setting.trees) :
            \E i \in DOMAIN calls : calls[i] = [call |-> setting.events, refused |-> FALSE]}
           \subseteq KnownAt(m)'
  BY DEF KnownAt, ToSet
<1> QED
  BY <1>3, <1>4 DEF KnownAt

LEMMA RunProbeKeeps ==
  ASSUME IInv, RunProbe
  PROVE  IInv'
<1>1. /\ InvestigatorTypes /\ LoopSound /\ AnswersSound /\ EvidenceSound /\ ToolsSound
      /\ ResultSound /\ VerdictEarned
  BY DEF IInv
<1>2. PICK probe : probe = Chosen(Last(rounds).answer)
  OBVIOUS
<1> DEFINE made == CallsMade(<<probe>>)
           found == ResultOf[probe].destinations
           new == {i \in DOMAIN found : ~Contains(destinations, found[i])}
<1>3. /\ at = "probe" /\ at' = "round" /\ steps' = steps + 1
      /\ calls' = calls \o made
      /\ shown' = shown \cup UNION {r.shown : r \in Results(made)}
      /\ \/ made[1].refused /\ UNCHANGED <<children, destinations>>
         \/ /\ ~made[1].refused
            /\ children' = children \o ResultOf[probe].children
            /\ destinations' = destinations \o Pick(found, new)
      /\ UNCHANGED <<setting, menu, modelVars, late, stop, resultVars>>
  BY <1>2 DEF RunProbe
<1>4. /\ Len(rounds) \in Nat /\ rounds[Len(rounds)].menu = menu /\ Named(rounds[Len(rounds)])
      /\ Last(rounds) = rounds[Len(rounds)]
  BY <1>1, <1>3, RoundsTyped DEF AnswersSound, InvestigatorTypes, Last
<1>5. /\ rounds[Len(rounds)].answer.probe \in DOMAIN menu
      /\ probe = menu[rounds[Len(rounds)].answer.probe]
      /\ probe \in ToSet(menu)
  BY <1>2, <1>4 DEF Named, Chosen, ToSet
<1>6. menu \in Seq(Probes) /\ probe \in Probes
  BY <1>1, <1>5 DEF InvestigatorTypes
<1>7. probe \in KnownAt(Len(calls)) /\ probe \notin AlreadyRun
  BY <1>1, <1>3, <1>5 DEF EvidenceSound
<1>8. \A i \in DOMAIN calls : calls[i].call # probe
  BY <1>6, <1>7 DEF AlreadyRun
<1>9. setting' = setting /\ rounds' = rounds /\ stop' = stop
  BY <1>3 DEF modelVars
<1>10. /\ calls' \in Seq(CallRecord) /\ Len(calls') = Len(calls) + 1
       /\ \A i \in 1 .. Len(calls) : calls'[i] = calls[i]
       /\ calls'[Len(calls) + 1] = made[1]
       /\ calls'[Len(calls) + 1].call = probe
       /\ Results(calls') = Results(calls) \cup Results(made)
  BY <1>1, <1>3, <1>6, <1>9, OneMoreCall
<1>11. PICK n \in Nat : n = Len(calls)
  BY <1>1, CallsTyped DEF InvestigatorTypes
<1>12. PICK base \in Nat : base = Len(setting.seed)
  BY <1>1, SettingFields DEF InvestigatorTypes
<1>13. DOMAIN calls = 1 .. n /\ DOMAIN calls' = 1 .. n + 1
  BY <1>1, <1>10, <1>11, CallsTyped DEF InvestigatorTypes
<1>14. Ran = n - base /\ Ran' = n + 1 - base /\ First = base + 1 /\ First' = base + 1
  BY <1>9, <1>10, <1>11, <1>12 DEF Ran, First
<1>15. /\ Ran \in 0 .. setting.maxProbes /\ Ran < setting.maxProbes
       /\ steps = Ran + 1 /\ Len(rounds) = Ran + 1 /\ stop = None /\ setting.maxProbes \in Nat
  BY <1>1, <1>3, SettingFields DEF LoopSound, InvestigatorTypes
<1>16. n >= base
  BY <1>14, <1>15
<1>17. \A k \in 0 .. n, m \in 0 .. n + 1 : k <= m => KnownAt(k) \subseteq KnownAt(m)'
  <2>1. /\ DOMAIN calls \subseteq DOMAIN calls' /\ DOMAIN calls' \subseteq Nat
        /\ \A i \in DOMAIN calls : calls'[i] = calls[i]
    BY <1>10, <1>11, <1>13
  <2>2. Len(setting.seed) \in Nat
    BY <1>12
  <2> SUFFICES ASSUME NEW k \in 0 .. n, NEW m \in 0 .. n + 1, k <= m
               PROVE  KnownAt(k) \subseteq KnownAt(m)'
    OBVIOUS
  <2>3. k \in Int /\ m \in Int
    OBVIOUS
  <2> QED
    BY <1>9, <2>1, <2>2, <2>3, KnownGrows
<1>18. /\ ResultOf[probe].children \in Seq(Probes) /\ found \in Seq(Probes)
       /\ Pick(found, new) \in Seq(Probes) /\ ToSet(Pick(found, new)) \subseteq ToSet(found)
  <2>1. ResultOf[probe].children \in Seq(Probes) /\ found \in Seq(Probes)
    BY <1>6, ResultFields
  <2>2. new \subseteq DOMAIN found
    OBVIOUS
  <2> HIDE DEF found, new
  <2>3. /\ Pick(found, new) \in Seq(Probes)
        /\ \A p \in ToSet(Pick(found, new)) : \E i \in new : p = found[i]
    BY <2>1, <2>2, Picked
  <2> QED
    BY <2>1, <2>2, <2>3 DEF ToSet
<1>19. ~made[1].refused =>
         ToSet(ResultOf[probe].children) \cup ToSet(found) \subseteq KnownAt(n + 1)'
  <2>1. n + 1 \in DOMAIN calls' /\ n + 1 \in First' .. n + 1
    BY <1>13, <1>14, <1>16
  <2>2. calls'[n + 1].call = probe /\ calls'[n + 1].refused = made[1].refused
    BY <1>10, <1>11
  <2> HIDE DEF made
  <2> QED
    BY <2>1, <2>2 DEF KnownAt, ToSet
<1>20. children \in Seq(Probes) /\ destinations \in Seq(Probes)
  BY <1>1 DEF InvestigatorTypes
<1> HIDE DEF made, found, new
<1>21. children' \in Seq(Probes) /\ destinations' \in Seq(Probes)
  <2>1. CASE made[1].refused
    BY <1>3, <1>20, <2>1
  <2>2. CASE ~made[1].refused
    <3>1. children' = children \o ResultOf[probe].children /\ destinations' = destinations \o Pick(found, new)
      BY <1>3, <2>2
    <3> QED
      BY <1>18, <1>20, <3>1, Joined
  <2> QED
    BY <2>1, <2>2
<1>22. ToSet(children') \cup ToSet(destinations') \subseteq KnownAt(n + 1)'
  <2>1. KnownAt(n) \subseteq KnownAt(n + 1)'
    BY <1>17
  <2>2. ToSet(children) \cup ToSet(destinations) \subseteq KnownAt(n)
    BY <1>1, <1>11 DEF EvidenceSound
  <2>3. CASE made[1].refused
    BY <1>3, <2>1, <2>2, <2>3
  <2>4. CASE ~made[1].refused
    <3>1. /\ ToSet(children') = ToSet(children) \cup ToSet(ResultOf[probe].children)
          /\ ToSet(destinations') = ToSet(destinations) \cup ToSet(Pick(found, new))
      <4>1. children' = children \o ResultOf[probe].children /\ destinations' = destinations \o Pick(found, new)
        BY <1>3, <2>4
      <4>2. ToSet(children \o ResultOf[probe].children) = ToSet(children) \cup ToSet(ResultOf[probe].children)
        BY <1>18, <1>20, BothParts
      <4>3. ToSet(destinations \o Pick(found, new)) = ToSet(destinations) \cup ToSet(Pick(found, new))
        BY <1>18, <1>20, BothParts
      <4> QED
        BY <4>1, <4>2, <4>3 DEF ToSet
    <3> QED
      BY <1>18, <1>19, <2>1, <2>2, <2>4, <3>1
  <2> QED
    BY <2>3, <2>4
<1>23. InvestigatorTypes'
  BY <1>1, <1>3, <1>9, <1>10, <1>15, <1>21 DEF InvestigatorTypes, modelVars, resultVars
<1>24. LoopSound'
  <2>1. Ran' = Ran + 1 /\ Ran \in Int
    BY <1>14
  <2> QED
    BY <1>3, <1>9, <1>15, <2>1 DEF LoopSound
<1>25. AnswersSound'
  <2>1. stop' # "model chose no probe" /\ at' # "probe"
    BY <1>3, <1>9, <1>15, NoneIsNone DEF StopReason
  <2> QED
    BY <1>1, <1>9, <2>1 DEF AnswersSound
<1>26. ASSUME NEW i \in DOMAIN calls', i >= First'
       PROVE  /\ calls'[i].call \in Probes
              /\ Named(rounds'[i - Len(setting'.seed)])
              /\ calls'[i].call =
                   rounds'[i - Len(setting'.seed)].menu[rounds'[i - Len(setting'.seed)].answer.probe]
              /\ calls'[i].call \in KnownAt(i - 1)'
              /\ \A k \in DOMAIN calls' : k >= First' /\ calls'[k].call = calls'[i].call => k = i
  <2>1. i \in 1 .. n + 1 /\ i - 1 \in 0 .. n
    BY <1>13, <1>26
  <2>2. CASE i = n + 1
    <3>1. i - base = Len(rounds)
      BY <1>14, <1>15, <2>2
    <3>2. calls'[i].call = probe
      BY <1>10, <1>11, <2>2
    <3>3. KnownAt(n) \subseteq KnownAt(i - 1)'
      BY <1>17, <2>1, <2>2
    <3>4. \A k \in DOMAIN calls' : k >= First' /\ calls'[k].call = calls'[i].call => k = i
      <4> SUFFICES ASSUME NEW k \in DOMAIN calls', calls'[k].call = probe, k # i
                   PROVE  FALSE
        BY <3>2
      <4>1. k \in 1 .. n
        BY <1>13, <2>2
      <4> QED
        BY <1>8, <1>10, <1>11, <1>13, <4>1
    <3>5. Named(rounds[Len(rounds)]) /\ probe = rounds[Len(rounds)].menu[rounds[Len(rounds)].answer.probe]
      BY <1>4, <1>5
    <3> QED
      BY <1>6, <1>7, <1>9, <1>11, <1>12, <3>1, <3>2, <3>3, <3>4, <3>5
  <2>3. CASE i # n + 1
    <3>1. i \in 1 .. n /\ i \in DOMAIN calls /\ i >= First /\ calls'[i] = calls[i]
      BY <1>10, <1>11, <1>13, <1>14, <1>26, <2>1, <2>3
    <3>2. /\ calls[i].call \in Probes
          /\ Named(rounds[i - Len(setting.seed)])
          /\ calls[i].call =
               rounds[i - Len(setting.seed)].menu[rounds[i - Len(setting.seed)].answer.probe]
          /\ calls[i].call \in KnownAt(i - 1)
          /\ \A k \in DOMAIN calls : k >= First /\ calls[k].call = calls[i].call => k = i
      BY <1>1, <3>1 DEF EvidenceSound
    <3>3. KnownAt(i - 1) \subseteq KnownAt(i - 1)'
      <4>1. i - 1 \in 0 .. n /\ i - 1 \in 0 .. n + 1 /\ i - 1 <= i - 1
        BY <2>1
      <4> QED
        BY <1>17, <4>1
    <3>4. \A k \in DOMAIN calls' : k >= First' /\ calls'[k].call = calls'[i].call => k = i
      <4> SUFFICES ASSUME NEW k \in DOMAIN calls', k >= First', calls'[k].call = calls[i].call
                   PROVE  k = i
        BY <3>1
      <4>1. CASE k = n + 1
        BY <1>8, <1>10, <1>11, <3>1, <4>1
      <4>2. CASE k # n + 1
        <5>1. k \in 1 .. n
          BY <1>13, <4>2
        <5>2. k \in DOMAIN calls /\ k >= First /\ calls'[k] = calls[k]
          BY <1>10, <1>11, <1>13, <1>14, <5>1
        <5> QED
          BY <3>2, <5>2
      <4> QED
        BY <4>1, <4>2
    <3> QED
      BY <1>9, <3>1, <3>2, <3>3, <3>4
  <2> QED
    BY <2>2, <2>3
<1>27. EvidenceSound'
  <2>1. Len(calls') = n + 1
    BY <1>10, <1>11
  <2>2. KnownAt(Len(calls))' = KnownAt(n + 1)'
    BY <2>1 DEF KnownAt
  <2>3. ToSet(children') \cup ToSet(destinations') \subseteq KnownAt(Len(calls))'
    BY <1>22, <2>2
  <2>4. at' \notin {"ask", "probe"}
    BY <1>3
  <2> QED
    BY <1>26, <2>3, <2>4 DEF EvidenceSound, ToSet
<1>28. ToolsSound'
  <2>1. shown' \subseteq Retrieved'
    <3>1. UNION {r.shown : r \in Results(made)} \subseteq UNION {r.ids : r \in Results(made)}
      <4>1. PICK names : names = <<probe>>
        OBVIOUS
      <4>2. names \in Seq(Probes \cup Calls)
        BY <1>6, <4>1
      <4>3. made \in Seq(CallRecord)
        BY <4>1, <4>2, MadeTyped DEF made
      <4> QED
        BY <4>3, ShownHandedOver
    <3>2. Retrieved' = UNION {r.ids : r \in Results(calls')}
      BY DEF Retrieved, Results
    <3>3. Retrieved = UNION {r.ids : r \in Results(calls)}
      BY DEF Retrieved
    <3>4. shown \subseteq Retrieved
      BY <1>1 DEF ToolsSound
    <3> QED
      BY <1>3, <1>10, <3>1, <3>2, <3>3, <3>4
  <2>2. setting.toolBudget # None => Served' <= setting.toolBudget
    <3>1. setting.toolBudget # None => Served <= setting.toolBudget
      BY <1>1 DEF ToolsSound
    <3>2. calls' = calls \o CallsMade(<<probe>>)
      BY <1>3 DEF made
    <3> QED
      BY <1>1, <1>6, <1>9, <3>1, <3>2, OneMoreServed
  <2> QED
    BY <1>9, <2>1, <2>2 DEF ToolsSound
<1>29. ResultSound' /\ VerdictEarned'
  <2>1. tokens' = None => llmErrors'
    BY <1>1, <1>3 DEF ResultSound, modelVars
  <2> QED
    BY <1>1, <1>3, <2>1, ResultKept
<1> QED
  BY <1>23, <1>24, <1>25, <1>27, <1>28, <1>29 DEF IInv

-----------------------------------------------------------------------------
(* The result. *)

\* What the verifier accepts of an answer was shown to the model.
LEMMA AcceptedWasShown ==
  ASSUME NEW explanation, Accepted(Cited(explanation))
  PROVE  Cited(explanation) \subseteq shown
<1>1. CASE setting.operational
  BY <1>1 DEF Accepted
<1>2. CASE ~setting.operational
  BY <1>2 DEF Accepted, Cited
<1> QED
  BY <1>1, <1>2

LEMMA ConcludeKeeps ==
  ASSUME IInv, Conclude
  PROVE  IInv'
<1>1. /\ InvestigatorTypes /\ LoopSound /\ AnswersSound /\ EvidenceSound /\ ToolsSound
      /\ ResultSound /\ VerdictEarned
  BY DEF IInv
<1>2. /\ at = "conclude" /\ steps' = steps + 1
      /\ at' = IF setting.operational THEN "report" ELSE "done"
      /\ UNCHANGED <<setting, toolVars, menu, modelVars, late, stop, outcome>>
  BY DEF Conclude
<1>3. claims = {} /\ disposition = None /\ outcome = None
  BY <1>1, <1>2 DEF ResultSound
<1>4. disposition' \in Disposition \cup {None} /\ \A cites \in claims' : cites \subseteq shown
  <2>1. CASE Usable = {}
    BY <1>3, <2>1 DEF Conclude
  <2>2. CASE Usable # {}
    <3>1. PICK answer : answer = rounds[Max(Usable)].answer
      OBVIOUS
    <3>2. /\ claims' = {cites \in {Cited(e) : e \in ToSet(answer.explanations)} : Accepted(cites)}
          /\ disposition' = answer.disposition
      BY <2>2, <3>1 DEF Conclude
    <3>3. answer \in Answers
      <4>1. /\ Len(rounds) \in Nat /\ DOMAIN rounds = 1 .. Len(rounds)
            /\ \A i \in DOMAIN rounds : rounds[i].answer \in Answers \cup {None}
        BY <1>1, RoundsTyped DEF InvestigatorTypes
      <4>2. Usable \subseteq 1 .. Len(rounds) /\ \A i \in Usable : rounds[i].answer # None
        BY <4>1 DEF Usable
      <4>3. Max(Usable) \in Usable
        BY <2>2, <4>1, <4>2, Greatest
      <4> QED
        BY <3>1, <4>1, <4>2, <4>3
    <3>4. answer.disposition \in Disposition
      BY <3>3, AnswerFields
    <3>5. \A cites \in claims' : cites \subseteq shown
      BY <3>2, AcceptedWasShown
    <3> QED
      BY <3>2, <3>4, <3>5
  <2> QED
    BY <2>1, <2>2
<1>5. rounds' = rounds /\ setting' = setting /\ stop' = stop /\ tokens' = tokens /\ llmErrors' = llmErrors
  BY <1>2 DEF modelVars
<1>6. at' \in {"report", "done"} /\ (at' = "report" <=> setting.operational)
  BY <1>2
<1>7. InvestigatorTypes'
  BY <1>1, <1>2, <1>4, <1>5, <1>6 DEF InvestigatorTypes, toolVars
<1>8. Ran' = Ran /\ First' = First
  BY <1>2, SameCalls DEF toolVars
<1>9. LoopSound'
  <2>1. /\ Ran \in 0 .. setting.maxProbes /\ steps = Ran + 1 /\ stop # None
        /\ Len(rounds) \in {Ran, Ran + 1}
    BY <1>1, <1>2 DEF LoopSound
  <2>2. steps' = Ran' + 2
    BY <1>2, <1>8, <2>1
  <2> QED
    BY <1>5, <1>6, <1>8, <2>1, <2>2 DEF LoopSound
<1>10. AnswersSound'
  BY <1>1, <1>5, <1>6, <1>8 DEF AnswersSound
<1>11. EvidenceSound'
  <2>1. /\ \A i \in 1 .. Len(rounds) : rounds'[i] = rounds[i]
        /\ at' \in {"ask", "probe"} => ToSet(menu') \subseteq KnownAt(Len(calls)) \ AlreadyRun
    BY <1>5, <1>6
  <2> QED
    BY <1>1, <1>2, <2>1, EvidenceKept
<1>12. ToolsSound'
  BY <1>1, <1>2, ToolsKept
<1>13. shown' = shown /\ outcome' = None /\ outcome' # "complete" /\ outcome' # "incomplete"
  BY <1>2, <1>3, NoneIsNone DEF toolVars, Outcome
<1>14. ResultSound'
  BY <1>1, <1>4, <1>5, <1>6, <1>13 DEF ResultSound
<1>15. VerdictEarned'
  <2>1. setting.guard => setting.operational
    BY <1>1, SettingFields DEF InvestigatorTypes
  <2> QED
    BY <1>4, <1>5, <1>6, <1>13, <2>1 DEF VerdictEarned
<1> QED
  BY <1>7, <1>9, <1>10, <1>11, <1>12, <1>14, <1>15 DEF IInv

LEMMA ReportKeeps ==
  ASSUME IInv, Report
  PROVE  IInv'
<1>1. /\ InvestigatorTypes /\ LoopSound /\ AnswersSound /\ EvidenceSound /\ ToolsSound
      /\ ResultSound /\ VerdictEarned
  BY DEF IInv
<1>2. /\ at = "report" /\ at' = "done"
      /\ UNCHANGED <<setting, toolVars, menu, modelVars, late, stop, steps, rejected>>
  BY DEF Report
<1>3. rounds' = rounds /\ setting' = setting /\ stop' = stop /\ tokens' = tokens
      /\ llmErrors' = llmErrors /\ calls' = calls /\ shown' = shown
  BY <1>2 DEF modelVars, toolVars
<1>4. Ran' = Ran /\ First' = First /\ Retrieved' = Retrieved
  BY <1>3, SameCalls
<1>5. \/ /\ Irregular /\ outcome' = "incomplete" /\ claims' = {} /\ disposition' = "abstain"
      \/ /\ ~Irregular /\ outcome' = "complete" /\ claims' = claims
         /\ disposition' = IF BenignGuard THEN "abstain" ELSE disposition
  BY DEF Report
<1>6. InvestigatorTypes'
  <2>1. outcome' \in Outcome /\ disposition' \in Disposition \cup {None}
    BY <1>1, <1>5 DEF InvestigatorTypes, Outcome, Disposition
  <2> QED
    BY <1>1, <1>2, <1>3, <2>1 DEF InvestigatorTypes, toolVars, modelVars
<1>7. LoopSound'
  <2>1. /\ Ran \in 0 .. setting.maxProbes /\ steps = Ran + 2 /\ stop # None
        /\ Len(rounds) \in {Ran, Ran + 1}
    BY <1>1, <1>2 DEF LoopSound
  <2> QED
    BY <1>2, <1>3, <1>4, <2>1 DEF LoopSound
<1>8. AnswersSound'
  BY <1>1, <1>2, <1>3, <1>4 DEF AnswersSound
<1>9. EvidenceSound'
  <2>1. /\ \A i \in 1 .. Len(rounds) : rounds'[i] = rounds[i]
        /\ at' \in {"ask", "probe"} => ToSet(menu') \subseteq KnownAt(Len(calls)) \ AlreadyRun
    BY <1>2, <1>3
  <2> QED
    BY <1>1, <1>2, <2>1, EvidenceKept
<1>10. ToolsSound'
  BY <1>1, <1>2, ToolsKept
<1>11. ASSUME ~Irregular
       PROVE  Undisturbed'
  <2>1. ~llmErrors /\ setting.available /\ ~late /\ ~TokensSpent /\ stop = "model chose no probe"
    BY <1>11 DEF Irregular
  <2>2. /\ \A i \in DOMAIN calls : ~calls[i].refused
        /\ \A i \in DOMAIN rounds : ~InvalidRound(rounds[i])
    BY <1>11 DEF Irregular
  <2>3. tokens # None
    BY <1>1, <2>1 DEF ResultSound
  <2>4. tokens < setting.tokenBudget
    <3>1. tokens \in Nat /\ setting.tokenBudget \in Nat
      BY <1>1, <1>2, <2>3, SettingFields DEF InvestigatorTypes, LoopSound
    <3>2. ~(tokens >= setting.tokenBudget)
      BY <2>1, <2>3, <3>1, NoneIsNone DEF TokensSpent
    <3> QED
      BY <3>1, <3>2
  <2>5. late' = late
    BY <1>2
  <2> QED
    BY <1>3, <2>1, <2>2, <2>3, <2>4, <2>5 DEF Undisturbed, InvalidRound
<1>12. ResultSound'
  <2>1. \A cites \in claims' : cites \subseteq shown'
    BY <1>1, <1>3, <1>5 DEF ResultSound
  <2>2. outcome' # None
    BY <1>5, NoneIsNone DEF Outcome
  <2>3. outcome' = "complete" => Undisturbed'
    BY <1>5, <1>11
  <2> QED
    BY <1>1, <1>2, <1>3, <2>1, <2>2, <2>3 DEF ResultSound
<1>13. VerdictEarned'
  <2>1. \A cites \in claims' : cites \subseteq shown'
    BY <1>1, <1>3, <1>5 DEF ResultSound
  <2>2. CASE Irregular
    <3>1. outcome' = "incomplete" /\ claims' = {} /\ disposition' = "abstain"
      BY <1>5, <2>2
    <3> QED
      BY <2>1, <3>1 DEF VerdictEarned
  <2>3. CASE ~Irregular
    <3>1. /\ outcome' = "complete" /\ claims' = claims
          /\ disposition' = IF BenignGuard THEN "abstain" ELSE disposition
      BY <1>5, <2>3
    <3>2. disposition' \in {"malicious", "benign"} =>
            disposition' = disposition /\ ~BenignGuard
      BY <3>1
    <3>3. disposition \in {"malicious", "benign"} => \E cites \in claims : cites # {}
      BY <2>3 DEF Irregular
    <3>4. setting.guard /\ disposition' = "benign" =>
            \A parents \in setting.ancestry : parents \cap Retrieved # {}
      BY <3>2 DEF BenignGuard
    <3> QED
      BY <1>3, <1>4, <2>1, <3>1, <3>2, <3>3, <3>4 DEF VerdictEarned
  <2> QED
    BY <2>2, <2>3
<1> QED
  BY <1>6, <1>7, <1>8, <1>9, <1>10, <1>12, <1>13 DEF IInv

LEMMA TimePassesKeeps ==
  ASSUME IInv, TimePasses
  PROVE  IInv'
<1>1. /\ InvestigatorTypes /\ LoopSound /\ AnswersSound /\ EvidenceSound /\ ToolsSound
      /\ ResultSound /\ VerdictEarned
  BY DEF IInv
<1>2. /\ at # "done" /\ late' = TRUE
      /\ UNCHANGED <<setting, at, toolVars, menu, modelVars, stop, steps, resultVars>>
  BY DEF TimePasses
<1>3. /\ rounds' = rounds /\ tokens' = tokens /\ llmErrors' = llmErrors
      /\ calls' = calls /\ shown' = shown /\ setting' = setting /\ at' = at
  BY <1>2 DEF modelVars, toolVars
<1>4. Ran' = Ran /\ First' = First
  BY <1>3, SameCalls
<1>5. InvestigatorTypes'
  BY <1>1, <1>2 DEF InvestigatorTypes, toolVars, modelVars, resultVars
<1>6. LoopSound'
  BY <1>1, <1>2, <1>3, <1>4 DEF LoopSound, toolVars
<1>7. AnswersSound'
  BY <1>1, <1>2, <1>3, <1>4 DEF AnswersSound
<1>8. EvidenceSound'
  <2>1. /\ \A i \in 1 .. Len(rounds) : rounds'[i] = rounds[i]
        /\ at' \in {"ask", "probe"} => ToSet(menu') \subseteq KnownAt(Len(calls)) \ AlreadyRun
    BY <1>1, <1>2 DEF EvidenceSound, modelVars
  <2> QED
    BY <1>1, <1>2, <2>1, EvidenceKept
<1>9. ToolsSound'
  BY <1>1, <1>2, ToolsKept
<1>10. ResultSound' /\ VerdictEarned'
  <2>1. outcome = None /\ outcome # "complete"
    BY <1>1, <1>2, NoneIsNone DEF ResultSound, Outcome
  <2> QED
    BY <1>1, <1>2, <1>3, <2>1 DEF ResultSound, VerdictEarned, resultVars
<1> QED
  BY <1>5, <1>6, <1>7, <1>8, <1>9, <1>10 DEF IInv

-----------------------------------------------------------------------------
(* The theorems. *)

\* The invariant holds in every reachable state.
THEOREM InvestigatorInvHolds == InvestigatorSpec => []IInv
<1>1. ASSUME InvestigatorInit
      PROVE  IInv
  <2>1. /\ setting \in Settings /\ at = "seed"
        /\ calls = <<>> /\ shown = {} /\ menu = <<>> /\ children = <<>> /\ destinations = <<>>
        /\ rounds = <<>> /\ tokens = 0 /\ llmErrors = FALSE /\ late = FALSE
        /\ stop = None /\ steps = 0 /\ claims = {}
        /\ outcome = None /\ disposition = None
    BY <1>1 DEF InvestigatorInit
  <2>2. InvestigatorTypes
    <3>1. <<>> \in Seq(CallRecord) /\ <<>> \in Seq(Probes) /\ <<>> \in Seq(RoundRecord)
      OBVIOUS
    <3>2. tokens \in Nat /\ steps \in Nat /\ late \in BOOLEAN /\ llmErrors \in BOOLEAN
      BY <2>1
    <3>3. at \in {"seed", "round", "ask", "probe", "conclude", "report", "done"}
      BY <2>1
    <3> HIDE DEF CallRecord, RoundRecord
    <3> QED
      BY <2>1, <3>1, <3>2, <3>3, NoneIsNone DEF InvestigatorTypes
  <2>3. LoopSound
    BY <2>1 DEF LoopSound
  <2>4. AnswersSound
    <3>1. "model chose no probe" # None
      BY NoneIsNone DEF StopReason
    <3>2. DOMAIN rounds = {}
      BY <2>1
    <3> QED
      BY <2>1, <3>1, <3>2 DEF AnswersSound
  <2>5. EvidenceSound
    BY <2>1 DEF EvidenceSound, ToSet
  <2>6. ToolsSound
    <3>1. {i \in DOMAIN calls : ~calls[i].refused} = {}
      BY <2>1
    <3>2. Served = 0
      BY <3>1, FS_EmptySet DEF Served
    <3> QED
      BY <2>1, <2>2, <3>2, SettingFields DEF ToolsSound
  <2>7. ResultSound /\ VerdictEarned
    <3>1. 0 # None /\ outcome # "complete"
      BY <2>1, NoneIsNone DEF Outcome
    <3> QED
      BY <2>1, <3>1 DEF ResultSound, VerdictEarned
  <2> QED
    BY <2>2, <2>3, <2>4, <2>5, <2>6, <2>7 DEF IInv
<1>2. ASSUME IInv, [InvestigatorNext]_investigatorVars
      PROVE  IInv'
  <2>1. CASE Seed
    BY <1>2, <2>1, SeedKeeps
  <2>2. CASE BeginRound
    BY <1>2, <2>2, BeginRoundKeeps
  <2>3. CASE Ask
    BY <1>2, <2>3, AskKeeps
  <2>4. CASE RunProbe
    BY <1>2, <2>4, RunProbeKeeps
  <2>5. CASE Conclude
    BY <1>2, <2>5, ConcludeKeeps
  <2>6. CASE Report
    BY <1>2, <2>6, ReportKeeps
  <2>7. CASE TimePasses
    BY <1>2, <2>7, TimePassesKeeps
  <2>8. CASE UNCHANGED investigatorVars
    <3>1. /\ InvestigatorTypes /\ LoopSound /\ AnswersSound /\ EvidenceSound /\ ToolsSound
          /\ ResultSound /\ VerdictEarned
      BY <1>2 DEF IInv
    <3>2. /\ UNCHANGED <<setting, at, calls, shown, menu, children, destinations>>
          /\ UNCHANGED <<rounds, late, tokens, llmErrors, stop, steps>>
          /\ UNCHANGED <<claims, outcome, disposition>>
      BY <2>8 DEF investigatorVars
    <3>3. Ran' = Ran /\ First' = First /\ Retrieved' = Retrieved /\ Served' = Served
      BY <3>2, SameCalls
    <3>4. InvestigatorTypes'
      BY <3>1, <3>2 DEF InvestigatorTypes
    <3>5. LoopSound'
      BY <3>1, <3>2, <3>3 DEF LoopSound
    <3>6. AnswersSound'
      BY <3>1, <3>2, <3>3 DEF AnswersSound
    <3>7. EvidenceSound'
      <4>1. /\ \A i \in 1 .. Len(rounds) : rounds'[i] = rounds[i]
            /\ at' \in {"ask", "probe"} => ToSet(menu') \subseteq KnownAt(Len(calls)) \ AlreadyRun
        BY <3>1, <3>2 DEF EvidenceSound
      <4>2. UNCHANGED <<setting, toolVars>>
        BY <3>2 DEF toolVars
      <4> QED
        BY <3>1, <4>1, <4>2, EvidenceKept
    <3>8. ToolsSound'
      BY <3>1, <3>2, <3>3 DEF ToolsSound
    <3>9. ResultSound'
      BY <3>1, <3>2 DEF ResultSound, Undisturbed, InvalidRound
    <3>10. VerdictEarned'
      BY <3>1, <3>2, <3>3 DEF VerdictEarned
    <3> QED
      BY <3>4, <3>5, <3>6, <3>7, <3>8, <3>9, <3>10 DEF IInv
  <2> QED
    BY <1>2, <2>1, <2>2, <2>3, <2>4, <2>5, <2>6, <2>7, <2>8 DEF InvestigatorNext, Step
<1> QED
  BY <1>1, <1>2, PTL DEF InvestigatorSpec

\* A verdict of the policy rests on a claim the model was shown the events of and on
\* a complete run; an incomplete run publishes nothing; the guard lets nothing pass.
THEOREM VerdictsAreEarned == InvestigatorSpec => []VerdictEarned
<1>1. IInv => VerdictEarned
  BY DEF IInv
<1> QED
  BY <1>1, InvestigatorInvHolds, PTL

LEMMA Rest ==
  ASSUME NEW S, NEW s \in Seq(S), NEW base \in Nat, NEW n \in Nat, n = Len(s)
  PROVE  /\ Len(SubSeq(s, base + 1, n)) = IF base + 1 <= n THEN n - base ELSE 0
         /\ \A i \in 1 .. Len(SubSeq(s, base + 1, n)) : SubSeq(s, base + 1, n)[i] = s[base + i]
<1>1. Len(SubSeq(s, base + 1, n)) = IF base + 1 <= n THEN n - base ELSE 0
  OBVIOUS
<1>2. ASSUME NEW i \in 1 .. Len(SubSeq(s, base + 1, n))
      PROVE  SubSeq(s, base + 1, n)[i] = s[base + i]
  BY <1>1
<1> QED
  BY <1>1, <1>2

\* The probes that were run, after the seed's calls.
LEMMA ProbeCallsRan ==
  ASSUME InvestigatorTypes, LoopSound
  PROVE  /\ Len(ProbeCalls) \in Nat /\ DOMAIN ProbeCalls = 1 .. Len(ProbeCalls)
         /\ Len(ProbeCalls) <= setting.maxProbes
         /\ at # "seed" => Len(ProbeCalls) = Ran
         /\ \A n \in DOMAIN ProbeCalls :
              /\ Len(setting.seed) + n \in DOMAIN calls
              /\ Len(setting.seed) + n >= First
              /\ ProbeCalls[n] = calls[Len(setting.seed) + n]
<1>1. PICK base \in Nat : base = Len(setting.seed)
  BY SettingFields DEF InvestigatorTypes
<1>2. PICK n \in Nat : n = Len(calls)
  BY CallsTyped DEF InvestigatorTypes
<1>3. DOMAIN calls = 1 .. n /\ First = base + 1 /\ Ran = n - base /\ setting.maxProbes \in Nat
  BY <1>1, <1>2, CallsTyped, SettingFields DEF InvestigatorTypes, First, Ran
<1>4. ProbeCalls = SubSeq(calls, base + 1, n)
  BY <1>1, <1>2 DEF ProbeCalls
<1>5. calls \in Seq(CallRecord)
  BY DEF InvestigatorTypes
<1>6. at # "seed" => n - base \in 0 .. setting.maxProbes
  BY <1>3 DEF LoopSound
<1>7. at = "seed" => n = 0
  BY <1>2 DEF LoopSound
<1>8. Len(ProbeCalls) = IF base + 1 <= n THEN n - base ELSE 0
  BY <1>2, <1>4, <1>5, Rest
<1>9. \A i \in 1 .. Len(ProbeCalls) : ProbeCalls[i] = calls[base + i]
  BY <1>2, <1>4, <1>5, Rest
<1>10. DOMAIN ProbeCalls = 1 .. Len(ProbeCalls)
  BY <1>4
<1>11. Len(ProbeCalls) \in Nat /\ Len(ProbeCalls) <= setting.maxProbes
  BY <1>3, <1>6, <1>7, <1>8
<1>12. at # "seed" => Len(ProbeCalls) = Ran
  BY <1>3, <1>6, <1>8
<1>13. \A i \in DOMAIN ProbeCalls : base + i \in DOMAIN calls /\ base + i >= First
  BY <1>3, <1>8, <1>10
<1> QED
  BY <1>1, <1>9, <1>10, <1>11, <1>12, <1>13

\* The investigator keeps to its types and its bounds.
THEOREM InvestigatorKeepsBounds == InvestigatorSpec => []InvestigatorSound
<1>1. ASSUME IInv
      PROVE  InvestigatorSound
  <2>1. InvestigatorTypes /\ LoopSound /\ ToolsSound
    BY <1>1 DEF IInv
  <2>2. Len(ProbeCalls) <= setting.maxProbes
    BY <2>1, ProbeCallsRan
  <2>3. Ran \in 0 .. setting.maxProbes \/ at = "seed"
    BY <2>1 DEF LoopSound
  <2>4. Len(rounds) <= setting.maxProbes + 1 /\ steps <= setting.maxProbes + 2
    <3>1. setting.maxProbes \in Nat
      BY <2>1, SettingFields DEF InvestigatorTypes
    <3>2. CASE at = "seed"
      BY <2>1, <3>1, <3>2 DEF LoopSound
    <3>3. CASE at # "seed"
      <4>1. Len(rounds) \in {Ran, Ran + 1} /\ steps \in {Ran + 1, Ran + 2}
        BY <2>1, <3>3 DEF LoopSound, InvestigatorTypes
      <4> QED
        BY <2>3, <3>1, <3>3, <4>1
    <3> QED
      BY <3>2, <3>3
  <2>5. setting.operational => steps <= setting.maxSteps
    <3>1. /\ setting.maxProbes \in Nat /\ setting.maxSteps \in Nat /\ steps \in Nat
          /\ setting.operational => setting.maxSteps >= setting.maxProbes + 2
      BY <2>1, SettingFields DEF InvestigatorTypes
    <3> QED
      BY <2>4, <3>1
  <2>6. \A i \in DOMAIN calls : calls[i].call \in Probes \cup Calls
    BY <2>1, CallsTyped DEF InvestigatorTypes
  <2> QED
    BY <2>1, <2>2, <2>4, <2>5, <2>6 DEF InvestigatorSound, InvestigatorTypes, ToolsSound
<1> QED
  BY <1>1, InvestigatorInvHolds, PTL

\* No probe runs twice, and each was chosen from the menu of its round and comes
\* from the case or from what an earlier call returned.
THEOREM ProbesFromEvidence == InvestigatorSpec => []ProbesFollowEvidence
<1>1. ASSUME IInv
      PROVE  ProbesFollowEvidence
  <2>1. InvestigatorTypes /\ LoopSound /\ EvidenceSound
    BY <1>1 DEF IInv
  <2>2. PICK base \in Nat : base = Len(setting.seed)
    BY <2>1, SettingFields DEF InvestigatorTypes
  <2>3. /\ First = base + 1 /\ DOMAIN ProbeCalls = 1 .. Len(ProbeCalls) /\ Len(ProbeCalls) \in Nat
        /\ \A n \in DOMAIN ProbeCalls :
             base + n \in DOMAIN calls /\ base + n >= First /\ ProbeCalls[n] = calls[base + n]
    BY <2>1, <2>2, ProbeCallsRan DEF First
  <2>4. Len(calls) \in Nat /\ DOMAIN calls = 1 .. Len(calls)
    BY <2>1, CallsTyped DEF InvestigatorTypes
  <2>5. ASSUME NEW n \in DOMAIN ProbeCalls
        PROVE  /\ \A m \in DOMAIN ProbeCalls : ProbeCalls[m].call = ProbeCalls[n].call => m = n
               /\ ProbeCalls[n].call \in Probes
               /\ ProbeCalls[n].call = rounds[n].menu[rounds[n].answer.probe]
               /\ ProbeCalls[n].call \in Known(n)
    <3>1. PICK i \in DOMAIN calls : i = base + n /\ i >= First /\ ProbeCalls[n] = calls[i]
      BY <2>3
    <3>2. n \in Nat /\ n >= 1 /\ i - base = n
      BY <2>2, <2>3, <3>1
    <3>3. /\ calls[i].call \in Probes
          /\ calls[i].call = rounds[n].menu[rounds[n].answer.probe]
          /\ calls[i].call \in KnownAt(i - 1)
          /\ \A k \in DOMAIN calls : k >= First /\ calls[k].call = calls[i].call => k = i
      BY <2>1, <2>2, <3>1, <3>2 DEF EvidenceSound
    <3>4. \A m \in DOMAIN ProbeCalls : ProbeCalls[m].call = ProbeCalls[n].call => m = n
      <4> SUFFICES ASSUME NEW m \in DOMAIN ProbeCalls, ProbeCalls[m].call = ProbeCalls[n].call
                   PROVE  m = n
        OBVIOUS
      <4>1. base + m \in DOMAIN calls /\ base + m >= First /\ ProbeCalls[m] = calls[base + m]
        BY <2>3
      <4>2. base + m = i
        BY <3>1, <3>3, <4>1
      <4>3. m \in Nat
        BY <2>3
      <4> QED
        BY <3>1, <3>2, <4>2, <4>3
    <3>5. KnownAt(i - 1) \subseteq Known(n)
      <4> SUFFICES ASSUME NEW p \in KnownAt(i - 1)
                   PROVE  p \in Known(n)
        OBVIOUS
      <4>1. CASE p \in ToSet(setting.accounts) \cup ToSet(setting.hosts)
        BY <4>1 DEF Known
      <4>2. CASE p \in {q \in ToSet(setting.trees) :
                          \E k \in DOMAIN calls : calls[k] = [call |-> setting.events, refused |-> FALSE]}
        BY <4>2 DEF Known
      <4>3. CASE p \in UNION {ToSet(ResultOf[calls[k].call].children)
                                \cup ToSet(ResultOf[calls[k].call].destinations)
                                : k \in {k \in DOMAIN calls : k \in First .. i - 1 /\ ~calls[k].refused}}
        <5>1. PICK k \in DOMAIN calls :
                /\ k \in First .. i - 1 /\ ~calls[k].refused
                /\ p \in ToSet(ResultOf[calls[k].call].children)
                           \cup ToSet(ResultOf[calls[k].call].destinations)
          BY <4>3
        <5>2. PICK m \in Nat : m = k - base /\ m >= 1 /\ m < n /\ base + m = k
          <6>1. k - base \in Nat /\ k - base >= 1 /\ k - base < n /\ base + (k - base) = k
            BY <2>3, <2>4, <3>1, <3>2, <5>1
          <6> QED
            BY <6>1
        <5>3. m \in DOMAIN ProbeCalls
          BY <2>3, <3>2, <5>2
        <5>4. ProbeCalls[m] = calls[k]
          BY <2>3, <5>2, <5>3
        <5>5. m \in {j \in DOMAIN ProbeCalls : j < n /\ ~ProbeCalls[j].refused}
          BY <5>1, <5>2, <5>3, <5>4
        <5> DEFINE before == {ProbeCalls[j] : j \in {j \in DOMAIN ProbeCalls :
                                                       j < n /\ ~ProbeCalls[j].refused}}
        <5>6. calls[k] \in before
          BY <5>4, <5>5
        <5>7. UNION {ToSet(ResultOf[c.call].children) \cup ToSet(ResultOf[c.call].destinations)
                       : c \in before} \subseteq Known(n)
          BY DEF Known
        <5> HIDE DEF before
        <5> QED
          BY <5>1, <5>6, <5>7
      <4> QED
        BY <4>1, <4>2, <4>3 DEF KnownAt
    <3> QED
      BY <3>1, <3>3, <3>4, <3>5
  <2> QED
    BY <2>5 DEF ProbesFollowEvidence
<1> QED
  BY <1>1, InvestigatorInvHolds, PTL

\* Nothing went wrong in a run whose result counts as complete, and its last answer
\* asked for nothing more.
THEOREM CompleteRunsUndisturbed == InvestigatorSpec => []CompleteIsUndisturbed
<1>1. ASSUME IInv, outcome = "complete"
      PROVE  /\ setting.available
             /\ ~late
             /\ tokens # None /\ tokens < setting.tokenBudget
             /\ \A i \in DOMAIN calls : ~calls[i].refused
             /\ \A i \in DOMAIN rounds : rounds[i].answer # None /\ ~rounds[i].answer.dropped
             /\ Len(rounds) = Len(ProbeCalls) + 1
             /\ Last(rounds).answer.probe = 0
  <2>1. InvestigatorTypes /\ LoopSound /\ AnswersSound /\ ResultSound
    BY <1>1 DEF IInv
  <2>2. Undisturbed
    BY <1>1, <2>1 DEF ResultSound
  <2>3. \A i \in DOMAIN rounds : rounds[i].answer # None
    BY <2>1, <2>2 DEF AnswersSound, Undisturbed
  <2>4. \A i \in DOMAIN rounds :
          /\ ~rounds[i].answer.dropped
          /\ rounds[i].answer.probe \in {0} \cup DOMAIN rounds[i].menu
    BY <2>2, <2>3 DEF Undisturbed, InvalidRound
  <2>5. at # "seed"
    <3>1. "complete" # None
      BY NoneIsNone DEF Outcome
    <3> QED
      BY <1>1, <2>1, <3>1 DEF ResultSound
  <2>6. Len(rounds) = Ran + 1 /\ ~Named(rounds[Len(rounds)])
    BY <2>1, <2>2 DEF AnswersSound, Undisturbed
  <2>7. Len(ProbeCalls) = Ran /\ Len(ProbeCalls) \in Nat
    BY <2>1, <2>5, ProbeCallsRan
  <2>8. Len(rounds) \in DOMAIN rounds
    <3>1. DOMAIN rounds = 1 .. Len(rounds)
      BY <2>1, RoundsTyped DEF InvestigatorTypes
    <3>2. PICK n \in Nat : n = Len(ProbeCalls)
      BY <2>7
    <3>3. Len(rounds) = n + 1
      BY <2>6, <2>7, <3>2
    <3> QED
      BY <3>1, <3>3
  <2>9. Last(rounds).answer.probe = 0
    BY <2>3, <2>4, <2>6, <2>8 DEF Named, Last
  <2> QED
    BY <2>2, <2>3, <2>4, <2>6, <2>7, <2>9 DEF Undisturbed
<1>2. IInv => CompleteIsUndisturbed
  BY <1>1 DEF CompleteIsUndisturbed
<1> QED
  BY <1>2, InvestigatorInvHolds, PTL

=============================================================================
