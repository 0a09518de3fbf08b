---------------------------- MODULE FootingProofs ----------------------------
(***************************************************************************)
(* Proofs about Correlation, and about Footing, which gives it what triage *)
(* set aside.                                                              *)
(***************************************************************************)
EXTENDS Footing, FiniteSetTheorems, WellFoundedInduction, TLAPS

-----------------------------------------------------------------------------
(* The walk to a root. *)

Arrived(w) == w.parent[w.root] = w.root

Onward(w) ==
  LET up == w.parent[w.parent[w.root]]
  IN  [root |-> up, parent |-> [w.parent EXCEPT ![w.root] = up]]

\* Where walks from w end: at one place or, if they went in circles, nowhere.
Ends(w) ==
  {e \in Walks :
     /\ Arrived(e)
     /\ \E s \in [Nat -> Walks], n \in Nat :
          /\ s[0] = w /\ s[n] = e
          /\ \A i \in Nat : i < n => ~Arrived(s[i]) /\ s[i + 1] = Onward(s[i])}

LEMMA OnwardTyped == \A w \in Walks : Onward(w) \in Walks
BY DEF Walks, Onward

LEMMA EndsHere ==
  ASSUME NEW w \in Walks, Arrived(w)
  PROVE  Ends(w) = {w}
<1>1. w \in Ends(w)
  <2> DEFINE s == [i \in Nat |-> w]
  <2>1. s \in [Nat -> Walks] /\ s[0] = w
    OBVIOUS
  <2>2. \A i \in Nat : i < 0 => ~Arrived(s[i]) /\ s[i + 1] = Onward(s[i])
    OBVIOUS
  <2> HIDE DEF s
  <2> QED
    BY <2>1, <2>2 DEF Ends
<1>2. ASSUME NEW e \in Ends(w) PROVE e = w
  <2>1. PICK s \in [Nat -> Walks], n \in Nat :
          /\ s[0] = w /\ s[n] = e
          /\ \A i \in Nat : i < n => ~Arrived(s[i]) /\ s[i + 1] = Onward(s[i])
    BY DEF Ends
  <2>2. n = 0
    BY <2>1
  <2> QED
    BY <2>1, <2>2
<1> QED
  BY <1>1, <1>2

LEMMA EndsFurtherOn ==
  ASSUME NEW w \in Walks, ~Arrived(w)
  PROVE  Ends(w) = Ends(Onward(w))
<1>1. ASSUME NEW e \in Ends(w) PROVE e \in Ends(Onward(w))
  <2>1. PICK s \in [Nat -> Walks], n \in Nat :
          /\ s[0] = w /\ s[n] = e
          /\ \A i \in Nat : i < n => ~Arrived(s[i]) /\ s[i + 1] = Onward(s[i])
    BY DEF Ends
  <2>2. e \in Walks /\ Arrived(e)
    BY DEF Ends
  <2>3. n # 0 /\ n - 1 \in Nat
    BY <2>1, <2>2
  <2> DEFINE t == [i \in Nat |-> s[i + 1]]
  <2>4. t \in [Nat -> Walks]
    BY <2>1
  <2>5. t[0] = Onward(w) /\ t[n - 1] = e
    BY <2>1, <2>3
  <2>6. ASSUME NEW i \in Nat, i < n - 1 PROVE ~Arrived(t[i]) /\ t[i + 1] = Onward(t[i])
    <3>1. i + 1 \in Nat /\ i + 1 < n
      BY <2>6
    <3>2. ~Arrived(s[i + 1]) /\ s[(i + 1) + 1] = Onward(s[i + 1])
      BY <2>1, <3>1
    <3> QED
      BY <3>1, <3>2
  <2> HIDE DEF t
  <2> QED
    BY <2>2, <2>3, <2>4, <2>5, <2>6 DEF Ends
<1>2. ASSUME NEW e \in Ends(Onward(w)) PROVE e \in Ends(w)
  <2>1. PICK s \in [Nat -> Walks], n \in Nat :
          /\ s[0] = Onward(w) /\ s[n] = e
          /\ \A i \in Nat : i < n => ~Arrived(s[i]) /\ s[i + 1] = Onward(s[i])
    BY DEF Ends
  <2>2. e \in Walks /\ Arrived(e)
    BY DEF Ends
  <2> DEFINE t == [i \in Nat |-> IF i = 0 THEN w ELSE s[i - 1]]
  <2>4. t \in [Nat -> Walks]
    BY <2>1
  <2>5. t[0] = w /\ t[n + 1] = e /\ n + 1 \in Nat
    BY <2>1
  <2>6. ASSUME NEW i \in Nat, i < n + 1 PROVE ~Arrived(t[i]) /\ t[i + 1] = Onward(t[i])
    <3>1. CASE i = 0
      <4>1. t[i] = w /\ t[i + 1] = s[0]
        BY <3>1
      <4> QED
        BY <2>1, <4>1
    <3>2. CASE i # 0
      <4>1. i - 1 \in Nat /\ i - 1 < n /\ (i - 1) + 1 = i
        BY <2>6, <3>2
      <4>2. t[i] = s[i - 1] /\ t[i + 1] = s[i]
        BY <3>2
      <4> QED
        BY <2>1, <4>1, <4>2
    <3> QED
      BY <3>1, <3>2
  <2> HIDE DEF t
  <2> QED
    BY <2>2, <2>4, <2>5, <2>6 DEF Ends
<1> QED
  BY <1>1, <1>2

\* The walk is what its recursive definition says it is.
LEMMA WalkUnfolds ==
  \A w \in Walks : Walk[w] = IF Arrived(w) THEN w ELSE Walk[Onward(w)]
<1> DEFINE f == [w \in Walks |-> CHOOSE e : e \in Ends(w)]
<1> DEFINE Unfolded(g) == [w \in Walks |-> IF Arrived(w) THEN w ELSE g[Onward(w)]]
<1>1. ASSUME NEW w \in Walks PROVE f[w] = IF Arrived(w) THEN w ELSE f[Onward(w)]
  <2>1. CASE Arrived(w)
    BY <2>1, EndsHere
  <2>2. CASE ~Arrived(w)
    BY <2>2, EndsFurtherOn, OnwardTyped
  <2> QED
    BY <2>1, <2>2
<1>2. f = Unfolded(f)
  BY <1>1
<1>3. Walk = CHOOSE g : g = Unfolded(g)
  BY DEF Walk, Walks, Arrived, Onward
<1> HIDE DEF f
<1>4. Walk = Unfolded(Walk)
  <2>1. \E g : g = Unfolded(g)
    BY <1>2
  <2> HIDE DEF Unfolded
  <2> QED
    BY <1>3, <2>1
<1> QED
  BY <1>4

-----------------------------------------------------------------------------
(* The union-find. *)

Forests == [FindingIds -> FindingIds]

\* Parents are nearer to the root.
Graded(p, rank) ==
  /\ rank \in [FindingIds -> Nat]
  /\ \A x \in FindingIds : p[x] # x => rank[p[x]] < rank[x]

\* R is the root of each item in p.
RootsAre(p, R) ==
  /\ R \in Forests
  /\ \A x \in FindingIds : p[R[x]] = R[x] /\ R[p[x]] = R[x] /\ (p[x] = x => R[x] = x)

\* A forest whose roots are R.
Shape(p, R) ==
  p \in Forests /\ RootsAre(p, R) /\ \E rank \in [FindingIds -> Nat] : Graded(p, rank)

LEMMA Least ==
  ASSUME NEW S, S \subseteq Nat, S # {}
  PROVE  \E n \in S : \A m \in S : n <= m
<1> DEFINE T == {1 .. n : n \in S}
<1>1. IsWellFoundedOn(StrictSubsetOrdering(Nat), FiniteSubsetsOf(Nat))
  BY FS_StrictSubsetOrderingWellFounded
<1>2. T \subseteq FiniteSubsetsOf(Nat) /\ T # {}
  <2>1. \A n \in S : 1 .. n \subseteq Nat /\ IsFiniteSet(1 .. n)
    BY FS_Interval
  <2> QED
    BY <2>1 DEF FiniteSubsetsOf
<1>3. PICK x \in T : \A y \in T : ~ (<<y, x>> \in StrictSubsetOrdering(Nat))
  BY <1>1, <1>2, WFMin
<1>4. PICK n \in S : x = 1 .. n
  OBVIOUS
<1>5. \A m \in S : n <= m
  <2> SUFFICES ASSUME NEW m \in S, m < n
               PROVE  FALSE
    OBVIOUS
  <2>1. 1 .. m \subseteq 1 .. n /\ n \in 1 .. n /\ n \notin 1 .. m
    OBVIOUS
  <2>2. 1 .. m \in SUBSET Nat /\ 1 .. n \in SUBSET Nat
    OBVIOUS
  <2>3. <<1 .. m, 1 .. n>> \in StrictSubsetOrdering(Nat)
    BY <2>1, <2>2 DEF StrictSubsetOrdering
  <2> QED
    BY <1>3, <1>4, <2>3
<1> QED
  BY <1>5

\* A step of the walk comes nearer to the root and moves nobody to another.
LEMMA OnwardKeeps ==
  ASSUME NEW rank, NEW R, NEW w \in Walks, ~Arrived(w),
         Graded(w.parent, rank), RootsAre(w.parent, R)
  PROVE  LET v == Onward(w)
         IN  /\ v \in Walks
             /\ rank[v.root] < rank[w.root] /\ R[v.root] = R[w.root]
             /\ Graded(v.parent, rank) /\ RootsAre(v.parent, R)
<1> DEFINE p == w.parent
           x == w.root
           q == [p EXCEPT ![x] = p[p[x]]]
<1>1. p \in Forests /\ x \in FindingIds /\ p[x] \in FindingIds /\ p[p[x]] \in FindingIds
  BY DEF Walks, Forests
<1>2. Onward(w) = [root |-> p[p[x]], parent |-> q]
  <2>1. q[x] = p[p[x]]
    BY <1>1 DEF Forests
  <2> QED
    BY <2>1 DEF Onward
<1>3. p[x] # x
  BY DEF Arrived
<1>4. Graded(p, rank) /\ RootsAre(p, R)
  OBVIOUS
<1>5. q \in Forests /\ q[x] = p[p[x]] /\ \A y \in FindingIds : y # x => q[y] = p[y]
  BY <1>1 DEF Forests
<1> HIDE DEF p, x, q
<1>6. rank[p[p[x]]] < rank[x]
  <2>1. rank[p[x]] < rank[x] /\ rank[p[p[x]]] <= rank[p[x]]
    BY <1>1, <1>3, <1>4 DEF Graded
  <2>2. rank[x] \in Nat /\ rank[p[x]] \in Nat /\ rank[p[p[x]]] \in Nat
    BY <1>1, <1>4 DEF Graded
  <2> QED
    BY <2>1, <2>2
<1>7. R[p[p[x]]] = R[x]
  BY <1>1, <1>4 DEF RootsAre
<1>8. Graded(q, rank)
  BY <1>1, <1>4, <1>5, <1>6 DEF Graded
<1>9. RootsAre(q, R)
  <2> SUFFICES ASSUME NEW y \in FindingIds
               PROVE  q[R[y]] = R[y] /\ R[q[y]] = R[y] /\ (q[y] = y => R[y] = y)
    BY <1>4 DEF RootsAre
  <2>1. p[R[y]] = R[y] /\ R[y] \in FindingIds /\ R[p[y]] = R[y]
    BY <1>4 DEF RootsAre, Forests
  <2>2. R[y] # x
    BY <1>3, <2>1
  <2>3. q[R[y]] = R[y] /\ R[q[y]] = R[y]
    BY <1>5, <1>7, <2>1, <2>2
  <2>4. q[y] = y => y # x
    <3>1. rank[x] \in Nat
      BY <1>1, <1>4 DEF Graded
    <3> QED
      BY <1>5, <1>6, <3>1
  <2>5. q[y] = y => R[y] = y
    BY <1>4, <1>5, <2>4 DEF RootsAre
  <2> QED
    BY <2>3, <2>5
<1>10. Onward(w).root = p[p[x]] /\ Onward(w).parent = q
  BY <1>2
<1> QED
  BY <1>6, <1>7, <1>8, <1>9, <1>10, OnwardTyped DEF x

\* Whatever the forest, the walk ends at the root and leaves the roots as they are.
LEMMA WalkFinds ==
  ASSUME NEW rank, NEW R, NEW w \in Walks, Graded(w.parent, rank), RootsAre(w.parent, R)
  PROVE  /\ Walk[w] \in Walks
         /\ Walk[w].root = R[w.root]
         /\ Graded(Walk[w].parent, rank) /\ RootsAre(Walk[w].parent, R)
<1> DEFINE WalksRight(v) ==
             /\ Walk[v] \in Walks
             /\ Walk[v].root = R[v.root]
             /\ Graded(Walk[v].parent, rank) /\ RootsAre(Walk[v].parent, R)
           Fit(v) == v \in Walks /\ Graded(v.parent, rank) /\ RootsAre(v.parent, R)
           Wrong == {n \in Nat : \E v \in Walks : Fit(v) /\ rank[v.root] = n /\ ~WalksRight(v)}
<1>1. SUFFICES ASSUME Wrong # {}
               PROVE  FALSE
  <2>1. rank[w.root] \in Nat
    BY DEF Graded, Walks
  <2> QED
    BY <2>1
<1>2. PICK n \in Wrong : \A m \in Wrong : n <= m
  <2>1. Wrong \subseteq Nat
    OBVIOUS
  <2> HIDE DEF Wrong
  <2> QED
    BY <1>1, <2>1, Least
<1>3. PICK v \in Walks : Fit(v) /\ rank[v.root] = n /\ ~WalksRight(v)
  OBVIOUS
<1>4. CASE Arrived(v)
  <2>1. Walk[v] = v
    BY <1>4, WalkUnfolds
  <2>2. R[v.root] = v.root
    BY <1>3, <1>4 DEF RootsAre, Arrived, Walks
  <2> QED
    BY <1>3, <2>1, <2>2
<1>5. CASE ~Arrived(v)
  <2> DEFINE u == Onward(v)
  <2>1. Walk[v] = Walk[u]
    BY <1>5, WalkUnfolds
  <2>2. /\ u \in Walks /\ Fit(u)
        /\ rank[u.root] < rank[v.root] /\ R[u.root] = R[v.root]
    BY <1>3, <1>5, OnwardKeeps
  <2> HIDE DEF u
  <2>3. ~WalksRight(u)
    BY <1>3, <2>1, <2>2
  <2>4. rank[u.root] \in Nat
    BY <2>2 DEF Graded, Walks
  <2>5. rank[u.root] \in Wrong
    BY <2>2, <2>3, <2>4
  <2>6. n <= rank[u.root] /\ n \in Nat
    BY <1>2, <2>5
  <2> QED
    BY <1>3, <2>2, <2>4, <2>6
<1> QED
  BY <1>4, <1>5

LEMMA FindFinds ==
  ASSUME NEW p, NEW R, Shape(p, R), NEW x \in FindingIds
  PROVE  Find(p, x).root = R[x] /\ Shape(Find(p, x).parent, R)
<1>1. PICK rank \in [FindingIds -> Nat] : Graded(p, rank)
  BY DEF Shape
<1> DEFINE w == [root |-> x, parent |-> p]
<1>2. w \in Walks /\ w.parent = p /\ w.root = x
  BY DEF Walks, Shape, Forests
<1>3. RootsAre(p, R)
  BY DEF Shape
<1> HIDE DEF w
<1>4. /\ Walk[w] \in Walks /\ Walk[w].root = R[x]
      /\ Graded(Walk[w].parent, rank) /\ RootsAre(Walk[w].parent, R)
  BY <1>1, <1>2, <1>3, WalkFinds
<1>5. Find(p, x) = Walk[w]
  BY DEF Find, w
<1>6. Walk[w].parent \in Forests
  BY <1>4 DEF Walks, Forests
<1> QED
  BY <1>4, <1>5, <1>6 DEF Shape

\* A forest's roots are determined.
LEMMA OneShape ==
  ASSUME NEW p, NEW R, NEW Q, Shape(p, R), Shape(p, Q)
  PROVE  R = Q
<1>1. \A x \in FindingIds : R[x] = Q[x]
  BY FindFinds
<1> QED
  BY <1>1 DEF Shape, RootsAre, Forests

Joined(R, a, b) == [x \in FindingIds |-> IF R[x] = R[b] THEN R[a] ELSE R[x]]

\* A union joins the groups of its two items and no others.
LEMMA UnionJoins ==
  ASSUME NEW p, NEW R, Shape(p, R), NEW a \in FindingIds, NEW b \in FindingIds
  PROVE  Shape(Union(p, a, b), Joined(R, a, b))
<1> DEFINE left == Find(p, a)
           right == Find(left.parent, b)
           q == right.parent
           J == Joined(R, a, b)
<1>1. left.root = R[a] /\ right.root = R[b] /\ Shape(q, R)
  BY FindFinds
<1>2. Union(p, a, b) = IF R[a] # R[b] THEN [q EXCEPT ![R[b]] = R[a]] ELSE q
  BY <1>1 DEF Union
<1> HIDE DEF left, right, q
<1>3. q \in Forests /\ RootsAre(q, R) /\ R \in Forests
  BY <1>1 DEF Shape, RootsAre
<1>4. CASE R[a] = R[b]
  <2>1. J = R
    BY <1>3, <1>4 DEF Joined, Forests
  <2> QED
    BY <1>1, <1>2, <1>4, <2>1
<1>5. CASE R[a] # R[b]
  <2> DEFINE u == [q EXCEPT ![R[b]] = R[a]]
  <2>1. R[a] \in FindingIds /\ R[b] \in FindingIds
    BY <1>3 DEF Forests
  <2>2. u \in Forests /\ u[R[b]] = R[a] /\ \A x \in FindingIds : x # R[b] => u[x] = q[x]
    BY <1>3, <2>1 DEF Forests
  <2> HIDE DEF u
  <2>3. q[R[a]] = R[a] /\ q[R[b]] = R[b] /\ R[R[a]] = R[a] /\ R[R[b]] = R[b]
    BY <1>3, <2>1 DEF RootsAre
  <2>4. J \in Forests /\ \A x \in FindingIds : J[x] = IF R[x] = R[b] THEN R[a] ELSE R[x]
    BY <1>3, <2>1 DEF Joined, Forests
  <2> HIDE DEF J
  <2>5. RootsAre(u, J)
    <3> SUFFICES ASSUME NEW x \in FindingIds
                 PROVE  u[J[x]] = J[x] /\ J[u[x]] = J[x] /\ (u[x] = x => J[x] = x)
      BY <2>4 DEF RootsAre
    <3>1. q[R[x]] = R[x] /\ R[q[x]] = R[x] /\ (q[x] = x => R[x] = x)
      BY <1>3 DEF RootsAre
    <3>2. R[x] \in FindingIds /\ q[x] \in FindingIds
      BY <1>3 DEF Forests
    <3>3. u[J[x]] = J[x]
      BY <1>5, <2>1, <2>2, <2>3, <2>4, <3>1, <3>2
    <3>4. J[u[x]] = J[x]
      BY <1>5, <2>1, <2>2, <2>3, <2>4, <3>1, <3>2
    <3>5. u[x] = x => J[x] = x
      BY <1>5, <2>1, <2>2, <2>3, <2>4, <3>1, <3>2
    <3> QED
      BY <3>3, <3>4, <3>5
  <2>6. PICK rank \in [FindingIds -> Nat] : Graded(q, rank)
    BY <1>1 DEF Shape
  <2> DEFINE up == [x \in FindingIds |->
                      IF R[x] = R[b] THEN rank[x] + rank[R[a]] + 1 ELSE rank[x]]
  <2>7. up \in [FindingIds -> Nat]
    BY <2>1
  <2>8. Graded(u, up)
    <3> SUFFICES ASSUME NEW x \in FindingIds, u[x] # x
                 PROVE  up[u[x]] < up[x]
      BY <2>7 DEF Graded
    <3>1. CASE x = R[b]
      <4>1. up[x] = rank[x] + rank[R[a]] + 1 /\ up[R[a]] = rank[R[a]]
        BY <1>5, <2>1, <2>3, <3>1
      <4>2. rank[x] \in Nat /\ rank[R[a]] \in Nat
        BY <2>1
      <4> HIDE DEF up
      <4> QED
        BY <2>2, <3>1, <4>1, <4>2
    <3>2. CASE x # R[b]
      <4>1. u[x] = q[x] /\ q[x] \in FindingIds /\ R[q[x]] = R[x]
        BY <1>3, <2>2, <3>2 DEF RootsAre, Forests
      <4>2. rank[q[x]] < rank[x]
        BY <2>6, <3>2, <4>1 DEF Graded
      <4>3. rank[x] \in Nat /\ rank[q[x]] \in Nat /\ rank[R[a]] \in Nat
        BY <2>1, <4>1
      <4> QED
        BY <4>1, <4>2, <4>3
    <3> QED
      BY <3>1, <3>2
  <2> QED
    BY <1>2, <1>5, <2>2, <2>5, <2>7, <2>8 DEF Shape, u, J
<1> QED
  BY <1>4, <1>5

-----------------------------------------------------------------------------
(* Evidence relates two findings from either side. *)

LEMMA JoinsBothWays ==
  ASSUME NEW a, NEW b
  PROVE  (Joins(a, b) <=> Joins(b, a)) /\ Basis(a, b) = Basis(b, a)
BY DEF Joins, Basis, Comparable

LEMMA MatchBothWays ==
  ASSUME NEW L, NEW R
  PROVE  MatchKeys(L, R) = MatchKeys(R, L)
<1>1. ASSUME NEW S, NEW T, NEW m \in MatchKeys(S, T)
      PROVE  m \in MatchKeys(T, S)
  <2>1. PICK p \in S \X T : Joins(p[1], p[2]) /\ m = Basis(p[1], p[2])
    BY DEF MatchKeys
  <2>2. PICK a \in S, b \in T : p = <<a, b>>
    OBVIOUS
  <2>3. Joins(a, b) /\ m = Basis(a, b)
    BY <2>1, <2>2
  <2>4. Joins(b, a) /\ m = Basis(b, a)
    BY <2>3, JoinsBothWays
  <2>5. <<b, a>> \in {q \in T \X S : Joins(q[1], q[2])}
    BY <2>4
  <2>6. Basis(<<b, a>>[1], <<b, a>>[2]) \in MatchKeys(T, S)
    BY <2>5 DEF MatchKeys
  <2> QED
    BY <2>4, <2>6
<1> QED
  BY <1>1

LEMMA GapBothWays ==
  ASSUME NEW a, NEW b, {a.first, a.last, b.first, b.last} \subseteq Nat,
         a.first <= a.last, b.first <= b.last
  PROVE  Gap(a, b) = Gap(b, a)
<1> DEFINE af == a.first al == a.last bf == b.first bl == b.last
<1>1. af \in Nat /\ al \in Nat /\ bf \in Nat /\ bl \in Nat /\ af <= al /\ bf <= bl
  OBVIOUS
<1>2. Gap(a, b) = IF al >= bf /\ bl >= af THEN 0 ELSE IF bf > al THEN bf - al ELSE af - bl
  BY DEF Gap
<1>3. Gap(b, a) = IF bl >= af /\ al >= bf THEN 0 ELSE IF af > bl THEN af - bl ELSE bf - al
  BY DEF Gap
<1> HIDE DEF af, al, bf, bl
<1>4. CASE al >= bf /\ bl >= af
  BY <1>2, <1>3, <1>4
<1>5. CASE ~(al >= bf) /\ bl >= af
  <2>1. bf > al /\ ~(af > bl)
    BY <1>1, <1>5
  <2> QED
    BY <1>2, <1>3, <1>5, <2>1
<1>6. CASE ~(bl >= af)
  <2>1. ~(bf > al) /\ af > bl
    BY <1>1, <1>6
  <2> QED
    BY <1>2, <1>3, <1>6, <2>1
<1> QED
  BY <1>4, <1>5, <1>6

LEMMA WarrantedBothWays ==
  ASSUME NEW a \in Finding, NEW b \in Finding, a.first <= a.last, b.first <= b.last
  PROVE  Warranted(a, b) <=> Warranted(b, a)
<1>1. Gap(a, b) = Gap(b, a)
  BY GapBothWays DEF Finding
<1>2. SameProcess(a, b) = SameProcess(b, a) /\ Lineage(a, b) = Lineage(b, a)
  BY MatchBothWays DEF SameProcess, Lineage
<1>3. Sibling(a, b) = Sibling(b, a)
  BY <1>1, MatchBothWays DEF Sibling
<1>4. CrossChannel(a, b) = CrossChannel(b, a)
  <2>1. PrincipalsOf(a) \cap PrincipalsOf(b) = PrincipalsOf(b) \cap PrincipalsOf(a)
    OBVIOUS
  <2>2. a.families \cap b.families = b.families \cap a.families
    OBVIOUS
  <2> QED
    BY <1>1, <2>1, <2>2, Zenon DEF CrossChannel
<1>5. Structural(a, b) = Structural(b, a)
  <2>1. {"shared_evidence" : e \in a.events \cap b.events}
          = {"shared_evidence" : e \in b.events \cap a.events}
    OBVIOUS
  <2>2. {s \in {"host_movement"} :
           a.device # b.device /\ (a.device \in HostsOf(b) \/ b.device \in HostsOf(a))}
        = {s \in {"host_movement"} :
           b.device # a.device /\ (b.device \in HostsOf(a) \/ a.device \in HostsOf(b))}
    BY Zenon
  <2> QED
    BY <1>2, <1>3, <1>4, <2>1, <2>2, Zenon DEF Structural
<1>6. Circumstantial(a, b) = Circumstantial(b, a)
  <2>1. {s \in {"same_device"} : a.device = b.device} = {s \in {"same_device"} : b.device = a.device}
    BY Zenon
  <2>2. {s \in {"same_user"} : a.user = b.user} = {s \in {"same_user"} : b.user = a.user}
    BY Zenon
  <2> QED
    BY <1>1, <2>1, <2>2, Zenon DEF Circumstantial
<1> QED
  BY <1>1, <1>5, <1>6, Zenon DEF Warranted

-----------------------------------------------------------------------------
(* The n-th of some positions. *)

LEMMA UpTo ==
  ASSUME NEW n \in Nat
  PROVE  IsFiniteSet(1 .. n) /\ Cardinality(1 .. n) = n
BY FS_Interval

Below(I, i) == {k \in I : k < i}

LEMMA BelowCounted ==
  ASSUME NEW length \in Nat, NEW I, I \subseteq 1 .. length
  PROVE  /\ IsFiniteSet(I) /\ Cardinality(I) \in Nat
         /\ \A i \in I :
              /\ IsFiniteSet(Below(I, i)) /\ Cardinality(Below(I, i)) \in Nat
              /\ Cardinality(Below(I, i)) < Cardinality(I)
         /\ \A i, j \in I : i < j => Cardinality(Below(I, i)) < Cardinality(Below(I, j))
<1>0. \A i \in I : i \in Nat
  OBVIOUS
<1>1. IsFiniteSet(I) /\ Cardinality(I) \in Nat
  BY UpTo, FS_Subset, FS_CardinalityType
<1>2. ASSUME NEW T, NEW i \in I, T \subseteq I, i \in T, Below(I, i) \subseteq T
      PROVE  /\ IsFiniteSet(Below(I, i)) /\ Cardinality(Below(I, i)) \in Nat
             /\ Cardinality(Below(I, i)) < Cardinality(T)
  <2>1. IsFiniteSet(T) /\ Cardinality(T) \in Nat
    BY <1>1, <1>2, FS_Subset, FS_CardinalityType
  <2>2. i \notin Below(I, i)
    BY DEF Below
  <2>3. /\ IsFiniteSet(Below(I, i))
        /\ Cardinality(Below(I, i)) <= Cardinality(T)
        /\ Cardinality(Below(I, i)) = Cardinality(T) => Below(I, i) = T
    BY <1>2, <2>1, FS_Subset
  <2>4. Cardinality(Below(I, i)) \in Nat
    BY <2>3, FS_CardinalityType
  <2> QED
    BY <1>2, <2>1, <2>2, <2>3, <2>4
<1>3. \A i \in I : /\ IsFiniteSet(Below(I, i)) /\ Cardinality(Below(I, i)) \in Nat
                   /\ Cardinality(Below(I, i)) < Cardinality(I)
  BY <1>2 DEF Below
<1>4. ASSUME NEW i \in I, NEW j \in I, i < j
      PROVE  Cardinality(Below(I, i)) < Cardinality(Below(I, j))
  <2>1. Below(I, j) \subseteq I /\ i \in Below(I, j) /\ Below(I, i) \subseteq Below(I, j)
    <3>1. ASSUME NEW k \in I, k < i PROVE k < j
      BY <1>0, <1>4, <3>1
    <3> QED
      BY <1>4, <3>1 DEF Below
  <2>2. PICK T : T = Below(I, j)
    OBVIOUS
  <2>3. Cardinality(Below(I, i)) < Cardinality(T)
    BY <1>2, <2>1, <2>2
  <2> QED
    BY <2>2, <2>3
<1> QED
  BY <1>1, <1>3, <1>4

\* A finite set of positions has an n-th one.
LEMMA NthExists ==
  ASSUME NEW length \in Nat, NEW I, I \subseteq 1 .. length,
         NEW n \in 1 .. Cardinality(I)
  PROVE  \E i \in I : Cardinality(Below(I, i)) = n - 1
<1> DEFINE D == 1 .. Cardinality(I)
           place == [i \in I |-> Cardinality(Below(I, i)) + 1]
<1>1. /\ IsFiniteSet(I) /\ Cardinality(I) \in Nat
      /\ \A i \in I : Cardinality(Below(I, i)) \in Nat /\ Cardinality(Below(I, i)) < Cardinality(I)
      /\ \A i, j \in I : i < j => Cardinality(Below(I, i)) < Cardinality(Below(I, j))
  BY BelowCounted
<1>2. place \in [I -> D]
  <2> SUFFICES ASSUME NEW i \in I
               PROVE  Cardinality(Below(I, i)) + 1 \in D
    OBVIOUS
  <2>1. PICK c \in Nat, m \in Nat : c = Cardinality(Below(I, i)) /\ m = Cardinality(I) /\ c < m
    BY <1>1
  <2> QED
    BY <2>1
<1>3. \A i, j \in I : place[i] = place[j] => i = j
  <2> SUFFICES ASSUME NEW i \in I, NEW j \in I, i < j
               PROVE  place[i] # place[j]
    OBVIOUS
  <2>1. PICK c \in Nat, d \in Nat :
          c = Cardinality(Below(I, i)) /\ d = Cardinality(Below(I, j)) /\ c < d
    BY <1>1
  <2> QED
    BY <2>1
<1>4. IsFiniteSet(D) /\ Cardinality(D) = Cardinality(I)
  BY <1>1, UpTo
<1> HIDE DEF D
<1>5. place \in Injection(I, D)
  <2> HIDE DEF place
  <2> QED
    BY <1>2, <1>3 DEF Injection, IsInjective
<1>6. place \in Surjection(I, D)
  <2> HIDE DEF place
  <2> QED
    BY <1>4, <1>5, FS_Injection
<1>7. PICK i \in I : place[i] = n
  <2> HIDE DEF place
  <2> QED
    BY <1>6 DEF Surjection, D
<1>8. PICK c \in Nat : c = Cardinality(Below(I, i))
  BY <1>1
<1>9. c + 1 = n
  BY <1>7, <1>8
<1> QED
  BY <1>8, <1>9

\* They are counted in order, each once.
LEMMA NthCounts ==
  ASSUME NEW length \in Nat, NEW I, I \subseteq 1 .. length
  PROVE  /\ Cardinality(I) \in Nat
         /\ \A n \in 1 .. Cardinality(I) : Nth(I, n) \in I
         /\ \A i \in I : \E n \in 1 .. Cardinality(I) : Nth(I, n) = i
         /\ \A m, n \in 1 .. Cardinality(I) : m < n => Nth(I, m) < Nth(I, n)
<1>0. \A i \in I : i \in Nat
  OBVIOUS
<1>1. /\ Cardinality(I) \in Nat
      /\ \A i \in I : Cardinality(Below(I, i)) \in Nat /\ Cardinality(Below(I, i)) < Cardinality(I)
      /\ \A i, j \in I : i < j => Cardinality(Below(I, i)) < Cardinality(Below(I, j))
  BY BelowCounted
<1>2. ASSUME NEW n \in 1 .. Cardinality(I)
      PROVE  Nth(I, n) \in I /\ Cardinality(Below(I, Nth(I, n))) = n - 1
  <2>1. \E i \in I : Cardinality(Below(I, i)) = n - 1
    BY NthExists
  <2>2. Nth(I, n) = CHOOSE i \in I : Cardinality(Below(I, i)) = n - 1
    BY DEF Nth, Below
  <2> QED
    BY <2>1, <2>2
<1>3. \A i, j \in I : Cardinality(Below(I, i)) <= Cardinality(Below(I, j)) => i <= j
  <2> SUFFICES ASSUME NEW i \in I, NEW j \in I, j < i
               PROVE  ~(Cardinality(Below(I, i)) <= Cardinality(Below(I, j)))
    OBVIOUS
  <2> QED
    BY <1>1
<1>4. ASSUME NEW i \in I PROVE \E n \in 1 .. Cardinality(I) : Nth(I, n) = i
  <2>1. PICK c \in Nat : c = Cardinality(Below(I, i)) /\ c < Cardinality(I)
    BY <1>1
  <2>2. c + 1 \in 1 .. Cardinality(I)
    BY <1>1, <2>1
  <2>3. Nth(I, c + 1) \in I /\ Cardinality(Below(I, Nth(I, c + 1))) = c
    BY <1>2, <2>1, <2>2
  <2>4. PICK k \in I : k = Nth(I, c + 1)
    BY <2>3
  <2>5. Cardinality(Below(I, k)) <= c /\ c <= Cardinality(Below(I, k))
    BY <2>3, <2>4
  <2>6. i <= k /\ k <= i
    BY <1>3, <2>1, <2>5
  <2>7. i \in Nat /\ k \in Nat
    BY <1>0
  <2> QED
    BY <2>2, <2>4, <2>6, <2>7
<1>5. ASSUME NEW m \in 1 .. Cardinality(I), NEW n \in 1 .. Cardinality(I), m < n
      PROVE  Nth(I, m) < Nth(I, n)
  <2> DEFINE i == Nth(I, m)
             j == Nth(I, n)
  <2>1. i \in I /\ j \in I /\ Cardinality(Below(I, i)) = m - 1 /\ Cardinality(Below(I, j)) = n - 1
    BY <1>2
  <2> HIDE DEF i, j
  <2>2. ~(Cardinality(Below(I, j)) <= Cardinality(Below(I, i)))
    BY <1>1, <1>5, <2>1
  <2>3. i <= j /\ i # j
    <3>1. Cardinality(Below(I, i)) <= Cardinality(Below(I, j))
      BY <1>1, <1>5, <2>1
    <3> QED
      BY <1>3, <2>1, <2>2, <3>1
  <2>4. i \in Nat /\ j \in Nat
    BY <1>0, <2>1
  <2>5. i < j
    BY <2>3, <2>4
  <2> QED
    BY <2>5 DEF i, j
<1> QED
  BY <1>1, <1>2, <1>4, <1>5

-----------------------------------------------------------------------------
(* The inductive invariant. *)

Compared(i, k) == i < at[1] \/ (i = at[1] /\ k < at[2])

OrderSound ==
  /\ ordered \in Seq(Finding)
  /\ \A i, k \in DOMAIN ordered : ordered[i] = ordered[k] => i = k
  /\ \A i \in DOMAIN ordered : ordered[i].first <= ordered[i].last
  /\ Sorted(ordered)
  /\ pc \in {"compare", "done"} =>
       \A i, k \in DOMAIN ordered : ordered[i].id = ordered[k].id => i = k

PlaceSound ==
  /\ pc \in {"check", "refused", "compare", "done"}
  /\ at \in (Nat \ {0}) \X Nat /\ at[1] < at[2]
  /\ InRange => at[2] <= Len(ordered)
  /\ pc \in {"check", "refused"} =>
       at = <<1, 2>> /\ links = <<>> /\ parent = [f \in FindingIds |-> f]
  /\ pc = "done" =>
       /\ ~InRange
       /\ cases = CasesRaised

\* What has been compared is linked where the evidence warrants it, and nothing else.
LinksSound ==
  /\ links \in Seq({LinkOf(a, b) : a, b \in Finding})
  /\ \A n \in DOMAIN links : \E i, k \in DOMAIN ordered :
       /\ i < k /\ Compared(i, k) /\ Warranted(ordered[i], ordered[k])
       /\ links[n] = LinkOf(ordered[i], ordered[k])
  /\ \A i, k \in DOMAIN ordered :
       i < k /\ Compared(i, k) /\ Warranted(ordered[i], ordered[k]) =>
         \E n \in DOMAIN links : links[n] = LinkOf(ordered[i], ordered[k])

Root == [x \in FindingIds |-> Find(parent, x).root]

Together(R, x) == {f \in Findings : R[f.id] = R[x]}

\* Linked findings are in one group, and each group is held together by links.
GroupsSound ==
  /\ Shape(parent, Root)
  /\ \A n \in DOMAIN links : Root[links[n].left.id] = Root[links[n].right.id]
  /\ pc \in {"compare", "done"} =>
       \A f \in Findings : Connected(Together(Root, f.id), ToSet(links))

CorrelationInv == OrderSound /\ PlaceSound /\ LinksSound /\ GroupsSound

USE CorrelationAssumption

LEMMA FindingFields ==
  ASSUME NEW f \in Finding
  PROVE  f.id \in FindingIds /\ f.first \in Nat /\ f.last \in Nat /\ f.severity \in 0 .. 4
BY DEF Finding

LEMMA LinkFields ==
  ASSUME NEW a, NEW b
  PROVE  LinkOf(a, b).left = a /\ LinkOf(a, b).right = b
BY DEF LinkOf

LEMMA FindingsAre ==
  ASSUME OrderSound
  PROVE  /\ Findings \subseteq Finding
         /\ \A f : f \in Findings <=> \E i \in DOMAIN ordered : f = ordered[i]
         /\ \A i \in DOMAIN ordered : ordered[i] \in Findings /\ ordered[i] \in Finding
BY DEF OrderSound, Findings, ToSet

LEMMA RootOf ==
  ASSUME NEW R, Shape(parent, R)
  PROVE  R = Root
<1>1. \A x \in FindingIds : Root[x] = R[x]
  BY FindFinds DEF Root
<1> QED
  BY <1>1 DEF Root, Shape, RootsAre, Forests

LEMMA NoParents ==
  LET p == [f \in FindingIds |-> f]
  IN  Shape(p, p)
<1> DEFINE p == [f \in FindingIds |-> f]
           rank == [f \in FindingIds |-> 0]
<1>1. p \in Forests /\ RootsAre(p, p)
  BY DEF Forests, RootsAre
<1>2. rank \in [FindingIds -> Nat] /\ Graded(p, rank)
  BY DEF Graded
<1> QED
  BY <1>1, <1>2 DEF Shape

LEMMA InitInv == CorrelationInit => CorrelationInv
<1> SUFFICES ASSUME CorrelationInit
             PROVE  CorrelationInv
  OBVIOUS
<1>1. PICK hunt \in Hunts : ordered \in {s \in SetToSeqs(hunt) : Sorted(s)}
  BY DEF CorrelationInit
<1>2. IsFiniteSet(hunt) /\ \A f \in hunt : f \in Finding /\ f.first <= f.last
  OBVIOUS
<1>3. Cardinality(hunt) \in Nat
  BY <1>2, FS_CardinalityType
<1>4. /\ ordered \in [1 .. Cardinality(hunt) -> hunt]
      /\ \A i, k \in 1 .. Cardinality(hunt) : i # k => ordered[i] # ordered[k]
      /\ Sorted(ordered)
  BY <1>1 DEF SetToSeqs
<1>5. /\ pc = "check" /\ at = <<1, 2>> /\ links = <<>>
      /\ parent = [f \in FindingIds |-> f]
  BY DEF CorrelationInit
<1> HIDE DEF CorrelationInit
<1>6. OrderSound
  <2>1. ordered \in Seq(Finding) /\ DOMAIN ordered = 1 .. Cardinality(hunt)
    <3>1. ordered \in [1 .. Cardinality(hunt) -> Finding]
      BY <1>2, <1>4
    <3> QED
      BY <1>3, <3>1
  <2>2. \A i \in DOMAIN ordered : ordered[i] \in hunt
    BY <1>4
  <2>3. \A i \in DOMAIN ordered : ordered[i].first <= ordered[i].last
    BY <1>2, <2>2
  <2> QED
    BY <1>4, <1>5, <2>1, <2>3 DEF OrderSound
<1>7. PlaceSound
  <2>1. Len(ordered) \in Nat
    BY <1>6 DEF OrderSound
  <2> QED
    BY <1>5, <2>1 DEF PlaceSound, InRange
<1>8. LinksSound
  <2>1. \A i, k \in DOMAIN ordered : i < k => ~Compared(i, k)
    <3>1. DOMAIN ordered \subseteq Nat \ {0}
      BY <1>3, <1>4
    <3> QED
      BY <1>5, <3>1 DEF Compared
  <2>2. links \in Seq({LinkOf(a, b) : a, b \in Finding}) /\ DOMAIN links = {}
    BY <1>5
  <2> QED
    BY <2>1, <2>2 DEF LinksSound
<1>9. GroupsSound
  <2>1. Shape(parent, parent)
    BY <1>5, NoParents
  <2>2. Shape(parent, Root)
    BY <2>1, RootOf
  <2> QED
    BY <1>5, <2>2 DEF GroupsSound
<1> QED
  BY <1>6, <1>7, <1>8, <1>9 DEF CorrelationInv

-----------------------------------------------------------------------------
(* Each step keeps it. *)

LEMMA MoreLinks ==
  ASSUME NEW S, NEW ls, NEW more, Connected(S, ls), ls \subseteq more
  PROVE  Connected(S, more)
<1>1. Pairs(ls) \subseteq Pairs(more)
  BY DEF Pairs
<1> QED
  BY <1>1 DEF Connected

\* Two groups that a link connects are one.
LEMMA OneGroup ==
  ASSUME NEW S, NEW T, NEW ls, Connected(S, ls), Connected(T, ls),
         NEW a \in S, NEW b \in T, <<a, b>> \in Pairs(ls), <<b, a>> \in Pairs(ls)
  PROVE  Connected(S \cup T, ls)
<1> SUFFICES ASSUME NEW X \in (SUBSET (S \cup T)) \ {{}, S \cup T}
             PROVE  Pairs(ls) \cap (X \X ((S \cup T) \ X)) # {}
  BY DEF Connected
<1>1. CASE X \cap S \notin {{}, S}
  <2>1. Pairs(ls) \cap ((X \cap S) \X (S \ (X \cap S))) # {}
    BY <1>1 DEF Connected
  <2> QED
    BY <2>1
<1>2. CASE X \cap T \notin {{}, T}
  <2>1. Pairs(ls) \cap ((X \cap T) \X (T \ (X \cap T))) # {}
    BY <1>2 DEF Connected
  <2> QED
    BY <2>1
<1>3. CASE X \cap S = S /\ X \cap T = {}
  <2>1. a \in X /\ b \notin X
    BY <1>3
  <2> QED
    BY <2>1
<1>4. CASE X \cap S = {} /\ X \cap T = T
  <2>1. b \in X /\ a \notin X
    BY <1>4
  <2> QED
    BY <2>1
<1>5. ~(X \cap S = {} /\ X \cap T = {}) /\ ~(X \cap S = S /\ X \cap T = T)
  OBVIOUS
<1> QED
  BY <1>1, <1>2, <1>3, <1>4, <1>5

LEMMA CheckIdsKeeps ==
  ASSUME CorrelationInv, CheckIds
  PROVE  CorrelationInv'
<1> USE DEF CorrelationInv
<1>1. UNCHANGED <<setAside, ordered, at, parent, links, cases>> /\ pc = "check"
  BY DEF CheckIds
<1>2. pc' \in {"refused", "compare"}
  BY DEF CheckIds
<1>3. pc' = "compare" => \A i, k \in DOMAIN ordered : ordered[i].id = ordered[k].id => i = k
  <2> SUFFICES ASSUME pc' = "compare"
               PROVE  \A i, k \in DOMAIN ordered : ordered[i].id = ordered[k].id => i = k
    OBVIOUS
  <2> DEFINE D == 1 .. Len(ordered)
             name == [i \in D |-> ordered[i].id]
  <2>1. DOMAIN ordered = D /\ Len(ordered) \in Nat
    BY DEF OrderSound
  <2>2. Ids = {name[i] : i \in D}
    BY <2>1 DEF Ids
  <2>3. name \in Surjection(D, Ids)
    BY <2>2 DEF Surjection
  <2>4. IsFiniteSet(D) /\ Cardinality(D) = Len(ordered)
    BY <2>1, UpTo
  <2>5. ~(Cardinality(Ids) < Len(ordered))
    BY DEF CheckIds
  <2> HIDE DEF D, name
  <2>6. /\ IsFiniteSet(Ids) /\ Cardinality(Ids) <= Cardinality(D)
        /\ (Cardinality(Ids) = Cardinality(D) <=> name \in Injection(D, Ids))
    BY <2>3, <2>4, FS_Surjection
  <2>7. Cardinality(Ids) \in Nat
    BY <2>6, FS_CardinalityType
  <2>8. Cardinality(Ids) = Cardinality(D)
    BY <2>1, <2>4, <2>5, <2>6, <2>7
  <2>9. \A i, k \in D : name[i] = name[k] => i = k
    BY <2>6, <2>8 DEF Injection, IsInjective
  <2> QED
    BY <2>1, <2>9 DEF name
<1>4. OrderSound'
  BY <1>1, <1>2, <1>3 DEF OrderSound
<1>5. PlaceSound'
  BY <1>1, <1>2 DEF PlaceSound, InRange
<1>6. LinksSound'
  BY <1>1 DEF LinksSound, Compared
<1>7. GroupsSound'
  <2>1. Shape(parent, Root)' /\ links' = <<>>
    BY <1>1 DEF GroupsSound, Root, PlaceSound
  <2>2. \A x \in FindingIds : Root[x] = x
    <3>1. Shape(parent, parent)
      BY <1>1, NoParents DEF PlaceSound
    <3>2. Root = parent /\ parent = [f \in FindingIds |-> f]
      BY <1>1, <3>1, RootOf DEF PlaceSound
    <3> QED
      BY <3>2
  <2>3. ASSUME pc' = "compare", NEW f \in Findings
        PROVE  Connected(Together(Root, f.id), ToSet(links))
    <3>1. \A g \in Findings : g.id = f.id => g = f
      BY <1>3, <2>3, FindingsAre
    <3>2. \A g \in Findings : g.id \in FindingIds
      BY FindingsAre, FindingFields
    <3>3. Together(Root, f.id) \subseteq {f}
      BY <2>2, <3>1, <3>2 DEF Together
    <3> QED
      BY <3>3 DEF Connected
  <2>4. pc' # "done"
    BY <1>2
  <2>5. UNCHANGED <<Findings, Root, ToSet(links)>>
    BY <1>1 DEF Findings, Root
  <2> QED
    BY <1>1, <1>2, <2>1, <2>3, <2>4, <2>5 DEF GroupsSound, Together
<1> QED
  BY <1>4, <1>5, <1>6, <1>7

\* In the order of comparison, what comes next is the pair that is compared now.
LEMMA AdvanceCompares ==
  ASSUME CorrelationInv, InRange, Advance, UNCHANGED ordered
  PROVE  /\ at[1] \in DOMAIN ordered /\ at[2] \in DOMAIN ordered /\ at[1] < at[2]
         /\ at' \in (Nat \ {0}) \X Nat /\ at'[1] < at'[2]
         /\ InRange' => at'[2] <= Len(ordered)
         /\ \A i, k \in DOMAIN ordered :
              i < k => (Compared(i, k)' <=> Compared(i, k) \/ (i = at[1] /\ k = at[2]))
<1>1. PICK m \in Nat \ {0}, n \in Nat : at = <<m, n>>
  BY DEF CorrelationInv, PlaceSound
<1>2. PICK l \in Nat : l = Len(ordered)
  BY DEF CorrelationInv, OrderSound
<1>3. DOMAIN ordered = 1 .. l
  BY <1>2 DEF CorrelationInv, OrderSound
<1>4. m < n /\ m < l /\ n <= l
  BY <1>1, <1>2 DEF CorrelationInv, PlaceSound, InRange
<1>5. at' = IF n < l THEN <<m, n + 1>> ELSE <<m + 1, m + 2>>
  BY <1>1, <1>2 DEF Advance
<1>6. CASE n < l
  <2>1. at' = <<m, n + 1>>
    BY <1>5, <1>6
  <2>2. \A i, k \in DOMAIN ordered :
          i < k => (Compared(i, k)' <=> Compared(i, k) \/ (i = m /\ k = n))
    BY <1>1, <1>3, <1>4, <2>1 DEF Compared
  <2> QED
    BY <1>1, <1>2, <1>3, <1>4, <1>6, <2>1, <2>2 DEF InRange
<1>7. CASE ~(n < l)
  <2>1. at' = <<m + 1, m + 2>>
    BY <1>5, <1>7
  <2>2. \A i, k \in DOMAIN ordered :
          i < k => (Compared(i, k)' <=> Compared(i, k) \/ (i = m /\ k = n))
    BY <1>1, <1>3, <1>4, <1>7, <2>1 DEF Compared
  <2>3. InRange' => m + 2 <= l
    BY <1>2, <2>1 DEF InRange
  <2> QED
    BY <1>1, <1>2, <1>3, <1>4, <2>1, <2>2, <2>3
<1> QED
  BY <1>6, <1>7

LEMMA PassByKeeps ==
  ASSUME CorrelationInv, PassBy
  PROVE  CorrelationInv'
<1> USE DEF CorrelationInv
<1>1. UNCHANGED <<setAside, ordered, pc, parent, links, cases>> /\ pc = "compare"
  BY DEF PassBy
<1>2. InRange /\ Advance /\ ~Warranted(ordered[at[1]], ordered[at[2]])
  BY DEF PassBy, Left, Right
<1>3. /\ at' \in (Nat \ {0}) \X Nat /\ at'[1] < at'[2]
      /\ InRange' => at'[2] <= Len(ordered)
      /\ \A i, k \in DOMAIN ordered :
           i < k => (Compared(i, k)' <=> Compared(i, k) \/ (i = at[1] /\ k = at[2]))
  BY <1>1, <1>2, AdvanceCompares
<1>4. OrderSound'
  BY <1>1 DEF OrderSound
<1>5. PlaceSound'
  BY <1>1, <1>3 DEF PlaceSound
<1>6. LinksSound'
  <2>1. ASSUME NEW i \in DOMAIN ordered, NEW k \in DOMAIN ordered, i < k
        PROVE  Warranted(ordered[i], ordered[k]) => (Compared(i, k)' <=> Compared(i, k))
    BY <1>2, <1>3, <2>1
  <2>2. LinksSound
    OBVIOUS
  <2>3. \A n \in DOMAIN links : \E i, k \in DOMAIN ordered :
          /\ i < k /\ Compared(i, k)' /\ Warranted(ordered[i], ordered[k])
          /\ links[n] = LinkOf(ordered[i], ordered[k])
    BY <2>1, <2>2 DEF LinksSound
  <2>4. \A i, k \in DOMAIN ordered :
          i < k /\ Compared(i, k)' /\ Warranted(ordered[i], ordered[k]) =>
            \E n \in DOMAIN links : links[n] = LinkOf(ordered[i], ordered[k])
    BY <2>1, <2>2 DEF LinksSound
  <2> QED
    BY <1>1, <2>2, <2>3, <2>4 DEF LinksSound
<1>7. GroupsSound'
  <2>1. UNCHANGED <<Findings, Root, ToSet(links)>>
    BY <1>1 DEF Findings, Root
  <2> QED
    BY <1>1, <2>1 DEF GroupsSound, Together
<1> QED
  BY <1>4, <1>5, <1>6, <1>7

\* The links after one more.
LEMMA OneMoreLink ==
  ASSUME NEW S, NEW seq \in Seq(S), NEW l \in S
  PROVE  /\ Append(seq, l) \in Seq(S)
         /\ ToSet(Append(seq, l)) = ToSet(seq) \cup {l}
         /\ \A n \in DOMAIN seq : n \in DOMAIN Append(seq, l) /\ Append(seq, l)[n] = seq[n]
         /\ \A n \in DOMAIN Append(seq, l) : Append(seq, l)[n] = l \/ n \in DOMAIN seq
         /\ \E n \in DOMAIN Append(seq, l) : Append(seq, l)[n] = l
<1> DEFINE t == Append(seq, l)
<1>1. PICK k \in Nat : k = Len(seq) /\ DOMAIN seq = 1 .. k
  OBVIOUS
<1>2. t \in Seq(S) /\ DOMAIN t = 1 .. k + 1 /\ t[k + 1] = l /\ \A n \in 1 .. k : t[n] = seq[n]
  BY <1>1
<1> HIDE DEF t
<1>3. \A n \in 1 .. k + 1 : n \in 1 .. k \/ n = k + 1
  OBVIOUS
<1>4. k + 1 \in 1 .. k + 1 /\ \A n \in 1 .. k : n \in 1 .. k + 1
  OBVIOUS
<1>5. ToSet(t) = ToSet(seq) \cup {l}
  BY <1>1, <1>2, <1>3, <1>4 DEF ToSet
<1>6. /\ \A n \in DOMAIN seq : n \in DOMAIN t /\ t[n] = seq[n]
      /\ \A n \in DOMAIN t : t[n] = l \/ n \in DOMAIN seq
      /\ \E n \in DOMAIN t : t[n] = l
  BY <1>1, <1>2, <1>3, <1>4
<1> QED
  BY <1>2, <1>5, <1>6 DEF t

LEMMA LinkKeeps ==
  ASSUME CorrelationInv, Link
  PROVE  CorrelationInv'
<1> USE DEF CorrelationInv
<1> DEFINE a == ordered[at[1]]
           b == ordered[at[2]]
           l == LinkOf(a, b)
<1>1. UNCHANGED <<setAside, ordered, pc, cases>> /\ pc = "compare"
  BY DEF Link
<1>2. InRange /\ Advance /\ Warranted(a, b)
  BY DEF Link, Left, Right
<1>3. links' = Append(links, l) /\ parent' = Union(parent, a.id, b.id)
  BY DEF Link, Left, Right
<1>4. /\ at[1] \in DOMAIN ordered /\ at[2] \in DOMAIN ordered /\ at[1] < at[2]
      /\ at' \in (Nat \ {0}) \X Nat /\ at'[1] < at'[2]
      /\ InRange' => at'[2] <= Len(ordered)
      /\ \A i, k \in DOMAIN ordered :
           i < k => (Compared(i, k)' <=> Compared(i, k) \/ (i = at[1] /\ k = at[2]))
  BY <1>1, <1>2, AdvanceCompares
<1>5. a \in Findings /\ b \in Findings /\ a \in Finding /\ b \in Finding
  BY <1>4, FindingsAre
<1>6. l.left = a /\ l.right = b /\ l \in {LinkOf(c, d) : c, d \in Finding}
  BY <1>5, LinkFields
<1>7. /\ links' \in Seq({LinkOf(c, d) : c, d \in Finding})
      /\ ToSet(links') = ToSet(links) \cup {l}
      /\ \A n \in DOMAIN links : n \in DOMAIN links' /\ links'[n] = links[n]
      /\ \A n \in DOMAIN links' : links'[n] = l \/ n \in DOMAIN links
      /\ \E n \in DOMAIN links' : links'[n] = l
  <2> DEFINE S == {LinkOf(c, d) : c, d \in Finding}
  <2>1. links \in Seq(S) /\ l \in S
    BY <1>6 DEF LinksSound
  <2> HIDE DEF S, l
  <2>2. /\ Append(links, l) \in Seq(S)
        /\ ToSet(Append(links, l)) = ToSet(links) \cup {l}
        /\ \A n \in DOMAIN links : n \in DOMAIN Append(links, l) /\ Append(links, l)[n] = links[n]
        /\ \A n \in DOMAIN Append(links, l) : Append(links, l)[n] = l \/ n \in DOMAIN links
        /\ \E n \in DOMAIN Append(links, l) : Append(links, l)[n] = l
    BY <2>1, OneMoreLink
  <2> QED
    BY <1>3, <2>2 DEF S
<1>8. OrderSound'
  BY <1>1 DEF OrderSound
<1>9. PlaceSound'
  BY <1>1, <1>4 DEF PlaceSound
<1>10. LinksSound'
  <2>1. ASSUME NEW n \in DOMAIN links'
        PROVE  \E i, k \in DOMAIN ordered :
                 /\ i < k /\ Compared(i, k)' /\ Warranted(ordered[i], ordered[k])
                 /\ links'[n] = LinkOf(ordered[i], ordered[k])
    <3>1. CASE links'[n] = l
      BY <1>2, <1>4, <3>1
    <3>2. CASE n \in DOMAIN links
      <4>1. PICK i \in DOMAIN ordered, k \in DOMAIN ordered :
              /\ i < k /\ Compared(i, k) /\ Warranted(ordered[i], ordered[k])
              /\ links[n] = LinkOf(ordered[i], ordered[k])
        BY <3>2 DEF LinksSound
      <4>2. Compared(i, k)' /\ links'[n] = links[n]
        BY <1>4, <1>7, <3>2, <4>1
      <4> QED
        BY <4>1, <4>2
    <3> QED
      BY <1>7, <3>1, <3>2
  <2>2. ASSUME NEW i \in DOMAIN ordered, NEW k \in DOMAIN ordered,
               i < k, Compared(i, k)', Warranted(ordered[i], ordered[k])
        PROVE  \E n \in DOMAIN links' : links'[n] = LinkOf(ordered[i], ordered[k])
    <3>1. CASE i = at[1] /\ k = at[2]
      BY <1>7, <3>1
    <3>2. CASE Compared(i, k)
      <4>1. PICK n \in DOMAIN links : links[n] = LinkOf(ordered[i], ordered[k])
        BY <2>2, <3>2 DEF LinksSound
      <4> QED
        BY <1>7, <4>1
    <3> QED
      BY <1>4, <2>2, <3>1, <3>2
  <2> HIDE DEF l
  <2> QED
    BY <1>1, <1>7, <2>1, <2>2 DEF LinksSound
<1>11. GroupsSound'
  <2> DEFINE J == Joined(Root, a.id, b.id)
  <2>1. a.id \in FindingIds /\ b.id \in FindingIds
    BY <1>5, FindingFields
  <2>2. Shape(parent', J)
    BY <1>3, <2>1, UnionJoins DEF GroupsSound
  <2>3. J = Root'
    <3>1. \A x \in FindingIds : Find(parent', x).root = J[x]
      BY <2>2, FindFinds
    <3>2. J = [x \in FindingIds |-> J[x]]
      BY DEF Joined
    <3> QED
      BY <3>1, <3>2 DEF Root
  <2>4. \A x \in FindingIds :
          J[x] = IF Root[x] = Root[b.id] THEN Root[a.id] ELSE Root[x]
    BY DEF Joined
  <2>5. \A f \in Findings : f.id \in FindingIds
    BY FindingsAre, FindingFields
  <2> HIDE DEF J, a, b, l
  <2>6. \A n \in DOMAIN links' : J[links'[n].left.id] = J[links'[n].right.id]
    <3> SUFFICES ASSUME NEW n \in DOMAIN links'
                 PROVE  J[links'[n].left.id] = J[links'[n].right.id]
      OBVIOUS
    <3>1. CASE links'[n] = l
      BY <1>6, <2>1, <2>4, <3>1
    <3>2. CASE n \in DOMAIN links
      <4>1. PICK i \in DOMAIN ordered, k \in DOMAIN ordered :
              links[n] = LinkOf(ordered[i], ordered[k])
        BY <3>2 DEF LinksSound
      <4>2. links[n].left \in Findings /\ links[n].right \in Findings
        BY <4>1, LinkFields, FindingsAre
      <4>3. Root[links[n].left.id] = Root[links[n].right.id]
        BY <3>2 DEF GroupsSound
      <4> QED
        BY <1>7, <2>4, <2>5, <3>2, <4>2, <4>3
    <3> QED
      BY <1>7, <3>1, <3>2
  <2>7. ASSUME NEW f \in Findings
        PROVE  Connected(Together(J, f.id), ToSet(links'))
    <3> DEFINE A == Together(Root, a.id)
               B == Together(Root, b.id)
               F == Together(Root, f.id)
    <3>1. /\ Connected(A, ToSet(links')) /\ Connected(B, ToSet(links'))
          /\ Connected(F, ToSet(links'))
      <4>1. \A g \in Findings : Connected(Together(Root, g.id), ToSet(links))
        BY <1>1 DEF GroupsSound
      <4>2. ToSet(links) \subseteq ToSet(links')
        BY <1>7
      <4> QED
        BY <1>5, <4>1, <4>2, MoreLinks
    <3>2. a \in A /\ b \in B /\ <<a, b>> \in Pairs(ToSet(links')) /\ <<b, a>> \in Pairs(ToSet(links'))
      <4>1. l \in ToSet(links')
        BY <1>7
      <4>2. <<l.left, l.right>> \in Pairs(ToSet(links')) /\ <<l.right, l.left>> \in Pairs(ToSet(links'))
        BY <4>1 DEF Pairs
      <4> QED
        BY <1>5, <1>6, <4>2 DEF Together
    <3>3. CASE Root[f.id] \in {Root[a.id], Root[b.id]}
      <4>1. J[f.id] = Root[a.id]
        BY <2>4, <2>5, <3>3
      <4>2. \A g \in Findings : J[g.id] = Root[a.id] <=> Root[g.id] \in {Root[a.id], Root[b.id]}
        BY <2>4, <2>5
      <4>3. Together(J, f.id) = A \cup B
        BY <4>1, <4>2 DEF Together
      <4> QED
        BY <3>1, <3>2, <4>3, OneGroup
    <3>4. CASE Root[f.id] \notin {Root[a.id], Root[b.id]}
      <4>1. J[f.id] = Root[f.id]
        BY <2>4, <2>5, <3>4
      <4>2. \A g \in Findings : J[g.id] = Root[f.id] <=> Root[g.id] = Root[f.id]
        BY <2>4, <2>5, <3>4
      <4>3. Together(J, f.id) = F
        BY <4>1, <4>2 DEF Together
      <4> QED
        BY <3>1, <4>3
    <3> QED
      BY <3>3, <3>4
  <2>8. Findings' = Findings
    BY <1>1 DEF Findings
  <2>9. \A f \in Findings : Together(J, f.id) = Together(Root, f.id)'
    BY <2>3, <2>8 DEF Together
  <2> QED
    BY <2>2, <2>3, <2>6, <2>7, <2>8, <2>9 DEF GroupsSound
<1> QED
  BY <1>8, <1>9, <1>10, <1>11

LEMMA SameCases ==
  UNCHANGED <<setAside, ordered, parent, links>> => CasesRaised' = CasesRaised
BY DEF CasesRaised, CaseOf, Nth, Openings, IsRaised, GroupOf, Findings

LEMMA RaiseKeeps ==
  ASSUME CorrelationInv, Raise
  PROVE  CorrelationInv'
<1> USE DEF CorrelationInv
<1>1. UNCHANGED <<setAside, ordered, at, parent, links>> /\ pc = "compare" /\ pc' = "done"
  BY DEF Raise
<1>2. ~InRange /\ cases' = CasesRaised
  BY DEF Raise
<1>3. Findings' = Findings
  BY <1>1 DEF Findings
<1>7. OrderSound'
  BY <1>1 DEF OrderSound
<1>8. PlaceSound'
  <2>1. CasesRaised' = CasesRaised
    BY <1>1, SameCases
  <2> QED
    BY <1>1, <1>2, <2>1 DEF PlaceSound, InRange
<1>9. LinksSound'
  BY <1>1 DEF LinksSound, Compared
<1>10. GroupsSound'
  <2>1. UNCHANGED <<Root, ToSet(links)>>
    BY <1>1 DEF Root
  <2> QED
    BY <1>1, <1>3, <2>1 DEF GroupsSound, Together
<1> QED
  BY <1>7, <1>8, <1>9, <1>10

LEMMA NothingKeeps ==
  ASSUME CorrelationInv, UNCHANGED correlationVars
  PROVE  CorrelationInv'
<1> USE DEF CorrelationInv
<1>1. UNCHANGED <<setAside, ordered, pc, at, parent, links, cases>>
  BY DEF correlationVars
<1>2. OrderSound' /\ LinksSound'
  BY <1>1 DEF OrderSound, LinksSound, Compared
<1>3. PlaceSound'
  BY <1>1, SameCases DEF PlaceSound, InRange
<1>4. GroupsSound'
  BY <1>1 DEF GroupsSound, Root, Together, Findings
<1> QED
  BY <1>2, <1>3, <1>4

\* The inductive invariant of the correlator.
THEOREM CorrelationInvHolds == CorrelationSpec => []CorrelationInv
<1>1. CorrelationInv /\ [CorrelationNext]_correlationVars => CorrelationInv'
  BY CheckIdsKeeps, LinkKeeps, PassByKeeps, RaiseKeeps, NothingKeeps DEF CorrelationNext
<1> QED
  BY InitInv, <1>1, PTL DEF CorrelationSpec

-----------------------------------------------------------------------------
(* The groups, and where they begin. *)

LEMMA Groups ==
  ASSUME CorrelationInv
  PROVE  /\ \A f \in Findings :
              /\ GroupOf(f) = Together(Root, f.id)
              /\ f \in GroupOf(f) /\ GroupOf(f) \subseteq Findings
              /\ Closed(GroupOf(f))
         /\ \A f \in Findings : \A g \in GroupOf(f) : GroupOf(g) = GroupOf(f)
<1>1. \A f \in Findings : f.id \in FindingIds
  BY FindingsAre, FindingFields DEF CorrelationInv
<1>2. \A f \in Findings : GroupOf(f) = Together(Root, f.id)
  <2>1. \A f \in Findings : Root[f.id] = Find(parent, f.id).root
    BY <1>1 DEF Root
  <2> QED
    BY <2>1 DEF GroupOf, Together
<1>3. \A f \in Findings : f \in GroupOf(f) /\ GroupOf(f) \subseteq Findings
  BY DEF GroupOf
<1>4. ASSUME NEW f \in Findings, NEW g \in GroupOf(f)
      PROVE  GroupOf(g) = GroupOf(f)
  BY DEF GroupOf
<1>5. ASSUME NEW f \in Findings
      PROVE  Closed(GroupOf(f))
  <2> SUFFICES ASSUME NEW a \in GroupOf(f), NEW b \in Findings, <<a, b>> \in Pairs(ToSet(links))
               PROVE  b \in GroupOf(f)
    BY DEF Closed
  <2>1. PICK l \in ToSet(links) : (l.left = a /\ l.right = b) \/ (l.left = b /\ l.right = a)
    BY DEF Pairs
  <2>2. PICK n \in DOMAIN links : l = links[n]
    BY DEF ToSet
  <2>3. Root[l.left.id] = Root[l.right.id]
    BY <2>2 DEF CorrelationInv, GroupsSound
  <2> QED
    BY <1>2, <2>1, <2>3 DEF Together
<1> QED
  BY <1>2, <1>3, <1>4, <1>5

\* A group that is held together is so by its own links.
LEMMA OwnLinks ==
  ASSUME NEW S, NEW ls, Connected(S, ls)
  PROVE  Connected(S, {l \in ls : {l.left, l.right} \subseteq S})
<1> DEFINE own == {l \in ls : {l.left, l.right} \subseteq S}
<1> SUFFICES ASSUME NEW X \in (SUBSET S) \ {{}, S}
             PROVE  Pairs(own) \cap (X \X (S \ X)) # {}
  BY DEF Connected
<1>1. PICK a \in X, b \in S \ X : <<a, b>> \in Pairs(ls)
  <2>1. PICK p \in Pairs(ls) : p \in X \X (S \ X)
    BY DEF Connected
  <2> QED
    BY <2>1
<1>2. PICK l \in ls : (l.left = a /\ l.right = b) \/ (l.left = b /\ l.right = a)
  BY <1>1 DEF Pairs
<1>3. l \in own
  BY <1>1, <1>2
<1>4. <<a, b>> \in Pairs(own)
  <2> HIDE DEF own
  <2> QED
    BY <1>2, <1>3 DEF Pairs
<1> QED
  BY <1>1, <1>4

Openers == {i \in DOMAIN ordered : \A k \in 1 .. i - 1 : ordered[k] \notin GroupOf(ordered[i])}

\* Every group begins at one position, with what was seen first of it.
LEMMA OneOpening ==
  ASSUME CorrelationInv
  PROVE  /\ \A f \in Findings : \E i \in Openers : GroupOf(ordered[i]) = GroupOf(f)
         /\ \A i, k \in Openers : GroupOf(ordered[i]) = GroupOf(ordered[k]) => i = k
         /\ \A i \in Openers : \A g \in GroupOf(ordered[i]) : ordered[i].first <= g.first
<1> USE DEF CorrelationInv
<1>1. PICK n \in Nat : n = Len(ordered) /\ DOMAIN ordered = 1 .. n
  BY DEF OrderSound
<1>2. \A i \in DOMAIN ordered : ordered[i] \in Findings /\ i \in Nat
  BY <1>1, FindingsAre
<1>3. ASSUME NEW f \in Findings
      PROVE  \E i \in Openers : GroupOf(ordered[i]) = GroupOf(f)
  <2> DEFINE I == {i \in DOMAIN ordered : ordered[i] \in GroupOf(f)}
  <2>1. PICK k \in DOMAIN ordered : f = ordered[k]
    BY FindingsAre
  <2>2. k \in I
    BY <2>1, Groups
  <2>3. I \subseteq Nat
    BY <1>2
  <2>4. PICK i \in I : \A m \in I : i <= m
    BY <2>2, <2>3, Least
  <2>5. GroupOf(ordered[i]) = GroupOf(f)
    BY <2>4, Groups
  <2>6. \A m \in 1 .. i - 1 : m \in DOMAIN ordered /\ m < i
    BY <1>1, <2>4
  <2>7. \A m \in 1 .. i - 1 : ~(i <= m)
    BY <1>2, <2>4
  <2>8. \A m \in 1 .. i - 1 : ordered[m] \notin GroupOf(ordered[i])
    BY <2>4, <2>5, <2>6, <2>7
  <2> QED
    BY <2>4, <2>5, <2>8 DEF Openers
<1>4. ASSUME NEW i \in Openers, NEW k \in Openers, GroupOf(ordered[i]) = GroupOf(ordered[k]), i < k
      PROVE  FALSE
  <2>1. i \in DOMAIN ordered /\ k \in DOMAIN ordered
    BY DEF Openers
  <2>2. i \in 1 .. k - 1
    BY <1>1, <1>4, <2>1
  <2>3. ordered[i] \in GroupOf(ordered[k])
    BY <1>2, <1>4, <2>1, Groups
  <2> QED
    BY <2>2, <2>3 DEF Openers
<1>5. \A i, k \in Openers : GroupOf(ordered[i]) = GroupOf(ordered[k]) => i = k
  <2>1. \A i \in Openers : i \in Nat
    BY <1>2 DEF Openers
  <2>2. \A i, k \in Openers : i = k \/ i < k \/ k < i
    BY <2>1
  <2> QED
    BY <1>4, <2>2
<1>6. ASSUME NEW i \in Openers, NEW g \in GroupOf(ordered[i])
      PROVE  ordered[i].first <= g.first
  <2>1. i \in DOMAIN ordered
    BY DEF Openers
  <2>2. g \in Findings
    BY <1>2, <2>1, Groups
  <2>3. PICK k \in DOMAIN ordered : g = ordered[k]
    BY <2>2, FindingsAre
  <2>4. k \notin 1 .. i - 1
    BY <2>3 DEF Openers
  <2>5. i = k \/ i < k
    BY <1>1, <2>1, <2>3, <2>4
  <2>6. ordered[i].first \in Nat /\ ordered[k].first \in Nat
    BY <2>1, <2>3, FindingsAre, FindingFields
  <2>7. CASE i < k
    <3>1. \/ ordered[i].first < ordered[k].first
          \/ ordered[i].first = ordered[k].first
      BY <2>1, <2>3, <2>7 DEF OrderSound, Sorted
    <3> QED
      BY <2>3, <2>6, <3>1
  <2> QED
    BY <2>3, <2>5, <2>6, <2>7
<1> QED
  BY <1>3, <1>5, <1>6

-----------------------------------------------------------------------------
(* The cases. *)

Begin(n) == ordered[Nth(Openings, n)]

\* The cases are the groups raised, each once, in the order they begin.
LEMMA CasesCounted ==
  ASSUME CorrelationInv, pc = "done"
  PROVE  LET N == Cardinality(Openings)
         IN  /\ N \in Nat /\ Len(cases) = N /\ DOMAIN cases = 1 .. N
             /\ ToSet(cases) = {CaseOf(GroupOf(Begin(n))) : n \in 1 .. N}
             /\ \A n \in 1 .. N :
                  /\ cases[n] = CaseOf(GroupOf(Begin(n)))
                  /\ Nth(Openings, n) \in Openers
                  /\ Begin(n) \in Findings /\ IsRaised(GroupOf(Begin(n)))
             /\ \A i \in Openers : IsRaised(GroupOf(ordered[i])) =>
                  \E n \in 1 .. N : Nth(Openings, n) = i
             /\ \A m, n \in 1 .. N : m < n => Nth(Openings, m) < Nth(Openings, n)
<1> DEFINE N == Cardinality(Openings)
<1>1. Len(ordered) \in Nat /\ DOMAIN ordered = 1 .. Len(ordered)
  BY DEF CorrelationInv, OrderSound
<1>2. Openings = {i \in Openers : IsRaised(GroupOf(ordered[i]))}
  BY DEF Openings, Openers
<1>3. Openings \subseteq 1 .. Len(ordered)
  BY <1>1 DEF Openings
<1>4. /\ N \in Nat
      /\ \A n \in 1 .. N : Nth(Openings, n) \in Openings
      /\ \A i \in Openings : \E n \in 1 .. N : Nth(Openings, n) = i
      /\ \A m, n \in 1 .. N : m < n => Nth(Openings, m) < Nth(Openings, n)
  BY <1>1, <1>3, NthCounts
<1>5. cases = [n \in 1 .. N |-> CaseOf(GroupOf(Begin(n)))]
  BY DEF CorrelationInv, PlaceSound, CasesRaised, Begin
<1> HIDE DEF N
<1>6. DOMAIN cases = 1 .. N /\ \A n \in 1 .. N : cases[n] = CaseOf(GroupOf(Begin(n)))
  BY <1>5
<1>7. Len(cases) = N
  <2> DEFINE C == {CaseOf(GroupOf(Begin(n))) : n \in 1 .. N}
  <2>1. cases \in [1 .. N -> C]
    BY <1>5
  <2> HIDE DEF C
  <2> QED
    BY <1>4, <2>1
<1>8. ToSet(cases) = {CaseOf(GroupOf(Begin(n))) : n \in 1 .. N}
  BY <1>6 DEF ToSet
<1>9. \A n \in 1 .. N :
        /\ Nth(Openings, n) \in Openers
        /\ Begin(n) \in Findings /\ IsRaised(GroupOf(Begin(n)))
  <2> TAKE n \in 1 .. N
  <2>1. Nth(Openings, n) \in Openers /\ IsRaised(GroupOf(ordered[Nth(Openings, n)]))
    BY <1>2, <1>4
  <2>2. Nth(Openings, n) \in DOMAIN ordered
    BY <2>1 DEF Openers
  <2> QED
    BY <2>1, <2>2, FindingsAre DEF CorrelationInv, Begin
<1>10. \A i \in Openers : IsRaised(GroupOf(ordered[i])) => \E n \in 1 .. N : Nth(Openings, n) = i
  BY <1>2, <1>4
<1> QED
  BY <1>4, <1>6, <1>7, <1>8, <1>9, <1>10 DEF N

\* Once all pairs are compared, two findings are linked as the evidence warrants.
LEMMA LinkedAsWarranted ==
  ASSUME CorrelationInv, ~InRange, NEW a \in Findings, NEW b \in Findings, a # b
  PROVE  Warranted(a, b) <=> <<a, b>> \in Pairs(ToSet(links))
<1> USE DEF CorrelationInv
<1>1. PICK i \in DOMAIN ordered, k \in DOMAIN ordered : a = ordered[i] /\ b = ordered[k]
  BY FindingsAre
<1>2. a \in Finding /\ b \in Finding /\ a.first <= a.last /\ b.first <= b.last
  BY <1>1, FindingsAre DEF OrderSound
<1>3. Warranted(a, b) <=> Warranted(b, a)
  BY <1>2, WarrantedBothWays
<1>4. PICK n \in Nat : n = Len(ordered) /\ DOMAIN ordered = 1 .. n
  BY DEF OrderSound
<1>5. \A x, y \in DOMAIN ordered : x < y => Compared(x, y)
  <2>1. at[1] \in Nat /\ n <= at[1]
    BY <1>4 DEF PlaceSound, InRange
  <2> QED
    BY <1>4, <2>1 DEF Compared
<1>6. ASSUME NEW x \in DOMAIN ordered, NEW y \in DOMAIN ordered, x < y,
             Warranted(ordered[x], ordered[y])
      PROVE  /\ <<ordered[x], ordered[y]>> \in Pairs(ToSet(links))
             /\ <<ordered[y], ordered[x]>> \in Pairs(ToSet(links))
  <2>1. PICK m \in DOMAIN links : links[m] = LinkOf(ordered[x], ordered[y])
    BY <1>5, <1>6 DEF LinksSound
  <2>2. links[m] \in ToSet(links) /\ links[m].left = ordered[x] /\ links[m].right = ordered[y]
    BY <2>1, LinkFields DEF ToSet
  <2> QED
    BY <2>2 DEF Pairs
<1>7. ASSUME Warranted(a, b) PROVE <<a, b>> \in Pairs(ToSet(links))
  <2>1. i < k \/ k < i
    BY <1>1, <1>4
  <2> QED
    BY <1>1, <1>3, <1>6, <1>7, <2>1
<1>8. ASSUME <<a, b>> \in Pairs(ToSet(links)) PROVE Warranted(a, b)
  <2>1. PICK l \in ToSet(links) : (l.left = a /\ l.right = b) \/ (l.left = b /\ l.right = a)
    BY <1>8 DEF Pairs
  <2>2. PICK m \in DOMAIN links : l = links[m]
    BY DEF ToSet
  <2>3. Warranted(l.left, l.right)
    <3>1. PICK x \in DOMAIN ordered, y \in DOMAIN ordered :
            Warranted(ordered[x], ordered[y]) /\ links[m] = LinkOf(ordered[x], ordered[y])
      BY DEF LinksSound
    <3> QED
      BY <2>2, <3>1, LinkFields
  <2> QED
    BY <1>3, <2>1, <2>3
<1> QED
  BY <1>7, <1>8

LEMMA GroupCounted ==
  ASSUME CorrelationInv, NEW f \in Findings
  PROVE  /\ IsFiniteSet(GroupOf(f))
         /\ Cardinality(GroupOf(f)) \in Nat /\ Cardinality(GroupOf(f)) # 0
         /\ (\E g \in GroupOf(f) : g # f) => Cardinality(GroupOf(f)) >= 2
<1> DEFINE S == GroupOf(f)
<1>1. f \in S /\ S \subseteq Findings
  BY Groups
<1>2. IsFiniteSet(S) /\ Cardinality(S) \in Nat /\ Cardinality(S) # 0
  <2>1. PICK n \in Nat : n = Len(ordered) /\ DOMAIN ordered = 1 .. n
    BY DEF CorrelationInv, OrderSound
  <2> DEFINE D == 1 .. n
             order == [i \in D |-> ordered[i]]
  <2>2. order \in Surjection(D, Findings)
    <3>1. Findings = {ordered[i] : i \in D}
      BY <2>1 DEF Findings, ToSet
    <3> QED
      BY <3>1 DEF Surjection
  <2>3. IsFiniteSet(D)
    BY UpTo
  <2> HIDE DEF D, order
  <2>4. IsFiniteSet(Findings)
    BY <2>2, <2>3, FS_Surjection
  <2>5. IsFiniteSet(S)
    BY <1>1, <2>4, FS_Subset
  <2> QED
    BY <1>1, <2>5, FS_CardinalityType, FS_EmptySet
<1>3. ASSUME NEW g \in S, g # f
      PROVE  Cardinality(S) >= 2
  <2>1. {f} \subseteq S /\ {f} # S
    BY <1>1, <1>3
  <2> HIDE DEF S
  <2>2. Cardinality({f}) = 1
    BY FS_Singleton
  <2>3. /\ Cardinality({f}) <= Cardinality(S)
        /\ Cardinality(S) = Cardinality({f}) => S = {f}
    BY <1>2, <2>1, FS_Subset
  <2> QED
    BY <1>2, <2>1, <2>2, <2>3
<1> QED
  BY <1>2, <1>3

\* A group that is not raised was all set aside, or is a finding alone and not severe.
LEMMA NotRaised ==
  ASSUME CorrelationInv, MinCaseSize <= 2, NEW f \in Findings, ~IsRaised(GroupOf(f))
  PROVE  ~Unexplained(GroupOf(f)) \/ ~WorthACase(GroupOf(f))
<1> DEFINE S == GroupOf(f)
<1>1. f \in S /\ S \subseteq Findings
  BY Groups
<1>2. IsFiniteSet(S) /\ Cardinality(S) \in Nat /\ Cardinality(S) # 0
  BY GroupCounted
<1> SUFFICES ASSUME Unexplained(S), WorthACase(S)
             PROVE  FALSE
  OBVIOUS
<1>3. \E g \in S : g.id \notin setAside
  BY DEF Unexplained
<1>4. ~(Cardinality(S) >= MinCaseSize)
  BY <1>3 DEF IsRaised
<1>5. \E g \in S : g.severity >= SingletonMinSeverity
  BY <1>4 DEF WorthACase
<1>6. Cardinality(S) # 1
  BY <1>3, <1>5 DEF IsRaised
<1> HIDE DEF S
<1> QED
  BY <1>2, <1>4, <1>6

LEMMA CasesFromInv ==
  ASSUME CorrelationInv, MinCaseSize <= 2
  PROVE  CasesAreComponents
<1> SUFFICES ASSUME pc = "done"
             PROVE  LET raised == {c.findings : c \in ToSet(cases)}
                    IN  /\ \A a, b \in Findings : a # b =>
                             (Warranted(a, b) <=> <<a, b>> \in Pairs(ToSet(links)))
                        /\ \A c \in ToSet(cases) :
                             /\ Connected(c.findings, c.links) /\ Closed(c.findings)
                             /\ Unexplained(c.findings) /\ WorthACase(c.findings)
                        /\ Cardinality(raised) = Len(cases)
                        /\ \A S, T \in raised : S # T => S \cap T = {}
                        /\ \A f \in Findings \ UNION raised :
                             \E S \in SUBSET Findings :
                               /\ f \in S /\ Closed(S) /\ Connected(S, ToSet(links))
                               /\ ~Unexplained(S) \/ ~WorthACase(S)
                        /\ \A m, n \in DOMAIN cases : m < n =>
                             Min({f.first : f \in cases[m].findings})
                               <= Min({f.first : f \in cases[n].findings})
  BY DEF CasesAreComponents
<1> DEFINE raised == {c.findings : c \in ToSet(cases)}
           group(n) == GroupOf(Begin(n))
<1>1. PICK N \in Nat : N = Cardinality(Openings)
  BY CasesCounted
<1>2. /\ Len(cases) = N /\ DOMAIN cases = 1 .. N
      /\ ToSet(cases) = {CaseOf(group(n)) : n \in 1 .. N}
      /\ \A n \in 1 .. N :
           /\ cases[n] = CaseOf(group(n)) /\ Nth(Openings, n) \in Openers
           /\ Begin(n) \in Findings /\ IsRaised(group(n))
      /\ \A i \in Openers : IsRaised(GroupOf(ordered[i])) =>
           \E n \in 1 .. N : Nth(Openings, n) = i
      /\ \A m, n \in 1 .. N : m < n => Nth(Openings, m) < Nth(Openings, n)
  BY <1>1, CasesCounted
<1>3. \A S : /\ CaseOf(S).findings = S
             /\ CaseOf(S).links = {l \in ToSet(links) : {l.left, l.right} \subseteq S}
  BY DEF CaseOf
<1>4. raised = {group(n) : n \in 1 .. N}
  BY <1>2, <1>3
<1>5. \A f \in Findings :
        f \in GroupOf(f) /\ GroupOf(f) \subseteq Findings /\ Closed(GroupOf(f))
        /\ Connected(GroupOf(f), ToSet(links))
  <2>1. \A f \in Findings : Connected(Together(Root, f.id), ToSet(links))
    BY DEF CorrelationInv, GroupsSound
  <2> QED
    BY <2>1, Groups
<1>6. ~InRange
  BY DEF CorrelationInv, PlaceSound
<1>7. \A a, b \in Findings : a # b =>
        (Warranted(a, b) <=> <<a, b>> \in Pairs(ToSet(links)))
  BY <1>6, LinkedAsWarranted
<1>8. \A c \in ToSet(cases) :
        /\ Connected(c.findings, c.links) /\ Closed(c.findings)
        /\ Unexplained(c.findings) /\ WorthACase(c.findings)
  <2> SUFFICES ASSUME NEW n \in 1 .. N
               PROVE  LET c == CaseOf(group(n))
                      IN  /\ Connected(c.findings, c.links) /\ Closed(c.findings)
                          /\ Unexplained(c.findings) /\ WorthACase(c.findings)
    BY <1>2
  <2>1. Begin(n) \in Findings /\ IsRaised(group(n))
    BY <1>2
  <2>2. Closed(group(n)) /\ Connected(group(n), ToSet(links))
    BY <1>5, <2>1
  <2>3. Unexplained(group(n)) /\ WorthACase(group(n))
    BY <2>1 DEF IsRaised, Unexplained, WorthACase
  <2>4. Connected(group(n), {l \in ToSet(links) : {l.left, l.right} \subseteq group(n)})
    BY <2>2, OwnLinks
  <2> HIDE DEF group
  <2> QED
    BY <1>3, <2>2, <2>3, <2>4
<1>9. \A m, n \in 1 .. N : group(m) = group(n) => m = n
  <2> SUFFICES ASSUME NEW m \in 1 .. N, NEW n \in 1 .. N, group(m) = group(n)
               PROVE  m = n
    OBVIOUS
  <2>1. Nth(Openings, m) \in Openers /\ Nth(Openings, n) \in Openers
    BY <1>2
  <2>2. Nth(Openings, m) = Nth(Openings, n)
    BY <2>1, OneOpening DEF Begin
  <2>3. Nth(Openings, m) \in Nat
    BY <2>1 DEF Openers, CorrelationInv, OrderSound
  <2>4. ~(Nth(Openings, m) < Nth(Openings, n)) /\ ~(Nth(Openings, n) < Nth(Openings, m))
    BY <2>2, <2>3
  <2>5. ~(m < n) /\ ~(n < m)
    BY <1>2, <2>4
  <2> QED
    BY <2>5
<1>10. Cardinality(raised) = Len(cases)
  <2> DEFINE D == 1 .. N
             f == [n \in D |-> group(n)]
  <2>1. f \in Bijection(D, raised)
    <3>1. f \in [D -> raised]
      BY <1>4
    <3>2. \A m, n \in D : f[m] = f[n] => m = n
      BY <1>9
    <3>3. \A S \in raised : \E n \in D : f[n] = S
      BY <1>4
    <3> HIDE DEF f, D, raised
    <3> QED
      BY <3>1, <3>2, <3>3 DEF Bijection, Injection, IsInjective, Surjection
  <2>2. IsFiniteSet(D) /\ Cardinality(D) = N
    BY UpTo
  <2> HIDE DEF f, D, raised
  <2>3. ExistsBijection(D, raised)
    BY <2>1 DEF ExistsBijection
  <2> QED
    BY <1>2, <2>2, <2>3, FS_Bijection
<1>11. \A S, T \in raised : S # T => S \cap T = {}
  <2> SUFFICES ASSUME NEW m \in 1 .. N, NEW n \in 1 .. N, NEW g \in group(m) \cap group(n)
               PROVE  group(m) = group(n)
    BY <1>4
  <2>1. Begin(m) \in Findings /\ Begin(n) \in Findings
    BY <1>2
  <2> QED
    BY <2>1, Groups
<1>12. ASSUME NEW f \in Findings \ UNION raised
       PROVE  \E S \in SUBSET Findings :
                /\ f \in S /\ Closed(S) /\ Connected(S, ToSet(links))
                /\ ~Unexplained(S) \/ ~WorthACase(S)
  <2>1. ~IsRaised(GroupOf(f))
    <3> SUFFICES ASSUME IsRaised(GroupOf(f))
                 PROVE  FALSE
      OBVIOUS
    <3>1. PICK i \in Openers : GroupOf(ordered[i]) = GroupOf(f)
      BY OneOpening
    <3>2. PICK n \in 1 .. N : Nth(Openings, n) = i
      BY <1>2, <3>1
    <3>3. group(n) = GroupOf(f)
      BY <3>1, <3>2 DEF Begin
    <3>4. GroupOf(f) \in raised
      BY <1>4, <3>3
    <3> QED
      BY <1>5, <3>4
  <2>2. ~Unexplained(GroupOf(f)) \/ ~WorthACase(GroupOf(f))
    BY <2>1, NotRaised
  <2> QED
    BY <1>5, <2>2
<1>13. \A n \in 1 .. N : Min({f.first : f \in group(n)}) = Begin(n).first
  <2> TAKE n \in 1 .. N
  <2> DEFINE F == {f.first : f \in group(n)}
  <2>1. Nth(Openings, n) \in Openers /\ Begin(n) \in Findings
    BY <1>2
  <2>2. Begin(n).first \in F
    BY <1>5, <2>1
  <2>3. \A x \in F : Begin(n).first <= x
    BY <2>1, OneOpening DEF Begin
  <2>4. F \subseteq Nat
    <3>1. group(n) \subseteq Finding
      BY <1>5, <2>1, FindingsAre DEF CorrelationInv
    <3> QED
      BY <3>1, FindingFields
  <2> HIDE DEF F
  <2>5. Min(F) \in F /\ \A x \in F : Min(F) <= x
    BY <2>2, <2>3 DEF Min
  <2>6. Min(F) <= Begin(n).first /\ Begin(n).first <= Min(F) /\ Min(F) \in Nat /\ Begin(n).first \in Nat
    BY <2>2, <2>3, <2>4, <2>5
  <2> QED
    BY <2>6 DEF F
<1>14. \A m, n \in DOMAIN cases : m < n =>
         Min({f.first : f \in cases[m].findings}) <= Min({f.first : f \in cases[n].findings})
  <2> SUFFICES ASSUME NEW m \in 1 .. N, NEW n \in 1 .. N, m < n
               PROVE  Begin(m).first <= Begin(n).first
    BY <1>2, <1>3, <1>13
  <2> DEFINE i == Nth(Openings, m)
             k == Nth(Openings, n)
  <2>1. i < k /\ i \in DOMAIN ordered /\ k \in DOMAIN ordered
    BY <1>2 DEF Openers
  <2>2. \/ ordered[i].first < ordered[k].first
        \/ ordered[i].first = ordered[k].first
    BY <2>1 DEF CorrelationInv, OrderSound, Sorted
  <2>3. ordered[i].first \in Nat /\ ordered[k].first \in Nat
    BY <2>1, FindingsAre, FindingFields DEF CorrelationInv
  <2> QED
    BY <2>2, <2>3 DEF Begin
<1> QED
  BY <1>7, <1>8, <1>10, <1>11, <1>12, <1>14

\* The cases are the connected components of what evidence relates, each once, in
\* order, and nothing unexplained and worth a case is lost.  With a MinCaseSize
\* above 2 the last is false: two linked findings are too few to be a case, and
\* the rule for severe ones asks for a finding alone.
THEOREM CasesAreWholeComponents ==
  ASSUME MinCaseSize <= 2
  PROVE  CorrelationSpec => []CasesAreComponents
<1>1. CorrelationInv => CasesAreComponents
  BY CasesFromInv
<1> QED
  BY <1>1, CorrelationInvHolds, PTL

-----------------------------------------------------------------------------
(* What links say of the processes. *)

LEMMA SignalMeans ==
  ASSUME NEW a, NEW b
  PROVE  /\ "same_process" \in Structural(a, b) => SameProcess(a, b) # {}
         /\ "process_lineage" \in Structural(a, b) => Lineage(a, b) # {}
         /\ "sibling_lineage" \in Structural(a, b) => Sibling(a, b) # {}
<1>1. CrossChannel(a, b) \subseteq {"auth_then_exec", "shared_principal"}
  BY DEF CrossChannel
<1> QED
  BY <1>1 DEF Structural

LEMMA IdentityMeans ==
  ASSUME NEW L, NEW R, MatchKeys(L, R) # {}, MatchKeys(L, R) # {"slot"}
  PROVE  /\ "identity" \in MatchKeys(L, R)
         /\ \E k \in L, m \in R : Comparable(k, m) /\ k.instance = m.instance
<1>1. MatchKeys(L, R) \subseteq {"identity", "slot"}
  BY DEF MatchKeys, Basis
<1>2. "identity" \in MatchKeys(L, R)
  BY <1>1
<1>3. PICK p \in L \X R : Joins(p[1], p[2]) /\ Basis(p[1], p[2]) = "identity"
  BY <1>2 DEF MatchKeys
<1>4. Comparable(p[1], p[2]) /\ p[1].instance = p[2].instance
  BY <1>3 DEF Basis, Joins
<1>5. p[1] \in L /\ p[2] \in R
  OBVIOUS
<1> QED
  BY <1>2, <1>4, <1>5

LEMMA EventsAre ==
  ASSUME NEW f \in Finding
  PROVE  /\ \A k \in ParentKeys(f) :
              k \in Key /\ \E e \in DOMAIN Telemetry : Telemetry[e].parent = k /\ k # None
         /\ f.events \subseteq DOMAIN Telemetry
<1>1. f.events \subseteq DOMAIN Telemetry
  BY DEF Finding
<1>2. \A e \in DOMAIN Telemetry : Telemetry[e].parent \in Key \cup {None}
  BY DEF Row
<1> QED
  BY <1>1, <1>2 DEF ParentKeys

\* What rows of one authority tag as an instance's children are its children.
LEMMA BurstIsSeen ==
  ASSUME NEW k \in Key, k.scheme # None, k # None,
         \E e \in DOMAIN Telemetry : Telemetry[e].parent = k,
         FanOut[Tag(k)] <= MaxSessionFanOut, SpawnSpan[Tag(k)] <= MaxSessionSpan,
         WellObserved(k.instance)
  PROVE  IsBurst(k.instance)
<1> DEFINE i == k.instance
           tag == Tag(k)
<1>1. PICK s \in Schemes : \A e \in StartedBy(i) :
        /\ Telemetry[e].parent.scheme = s
        /\ Telemetry[e].process # None /\ Telemetry[e].process.scheme = s
  BY DEF WellObserved
<1>2. PICK first \in DOMAIN Telemetry : Telemetry[first].parent = k
  OBVIOUS
<1>3. first \in StartedBy(i) /\ k.scheme = s
  BY <1>1, <1>2 DEF StartedBy
<1>4. tag = [by |-> s, of |-> i]
  BY <1>3 DEF Tag
<1>5. tag \in DOMAIN Spawned
  BY <1>2 DEF Spawned
<1>6. \A m : Tag(m) = tag => m.scheme = s /\ m.instance = i
  <2> SUFFICES ASSUME NEW m, Tag(m) = tag
               PROVE  m.scheme = s /\ m.instance = i
    OBVIOUS
  <2>1. m.scheme = s
    BY <1>4 DEF Tag
  <2>2. Tag(m) = [by |-> s, of |-> m.instance]
    BY <1>3, <2>1 DEF Tag
  <2> QED
    BY <1>4, <2>1, <2>2
<1>7. \A m : m.scheme = s => Tag(m) = [by |-> s, of |-> m.instance]
  BY <1>3 DEF Tag
<1>8. Spawned[tag] = {e \in DOMAIN Telemetry : Telemetry[e].parent # None /\ Tag(Telemetry[e].parent) = tag}
  BY <1>5 DEF Spawned
<1> HIDE DEF tag
<1>9. Spawned[tag] = StartedBy(i)
  <2>1. \A e \in StartedBy(i) : Tag(Telemetry[e].parent) = tag
    BY <1>1, <1>4, <1>7 DEF StartedBy
  <2> QED
    BY <1>6, <1>8, <2>1 DEF StartedBy
<1> DEFINE X == {Telemetry[e].process.instance : e \in StartedBy(i)}
           T == {Tag(m) : m \in {Telemetry[e].process : e \in StartedBy(i)} \ {None}}
           f == [x \in X |-> [by |-> s, of |-> x]]
<1>10. T = {[by |-> s, of |-> x] : x \in X}
  <2>1. {Telemetry[e].process : e \in StartedBy(i)} \ {None} = {Telemetry[e].process : e \in StartedBy(i)}
    BY <1>1
  <2>2. \A e \in StartedBy(i) :
          Tag(Telemetry[e].process) = [by |-> s, of |-> Telemetry[e].process.instance]
    BY <1>1, <1>7
  <2>3. T = {Tag(Telemetry[e].process) : e \in StartedBy(i)}
    BY <2>1
  <2>4. \A t \in T : \E x \in X : t = [by |-> s, of |-> x]
    BY <2>2, <2>3
  <2>5. \A x \in X : [by |-> s, of |-> x] \in T
    BY <2>2, <2>3
  <2> HIDE DEF X, T
  <2> QED
    BY <2>4, <2>5
<1>11. IsFiniteSet(X)
  <2> DEFINE g == [e \in StartedBy(i) |-> Telemetry[e].process.instance]
  <2>1. g \in Surjection(StartedBy(i), X)
    BY DEF Surjection
  <2>2. StartedBy(i) \in SUBSET (DOMAIN Telemetry)
    BY DEF StartedBy
  <2>3. IsFiniteSet(StartedBy(i))
    BY <2>2, FS_Subset
  <2> HIDE DEF g, X
  <2> QED
    BY <2>1, <2>3, FS_Surjection
<1>12. Cardinality(X) = Cardinality(T)
  <2>1. f \in Bijection(X, T)
    <3> HIDE DEF X, T
    <3>1. f \in [X -> T]
      BY <1>10
    <3>2. \A x, y \in X : f[x] = f[y] => x = y
      OBVIOUS
    <3>3. \A t \in T : \E x \in X : f[x] = t
      BY <1>10
    <3> HIDE DEF f
    <3> QED
      BY <3>1, <3>2, <3>3 DEF Bijection, Injection, IsInjective, Surjection
  <2> HIDE DEF X, T, f
  <2>2. ExistsBijection(X, T)
    BY <2>1 DEF ExistsBijection
  <2> QED
    BY <1>11, <2>2, FS_Bijection
<1>13. FanOut[tag] = Cardinality(T) /\ SpawnSpan[tag] = Width({Telemetry[e].time : e \in StartedBy(i)})
  <2>1. FanOut[tag] = Cardinality({Tag(m) : m \in {Telemetry[e].process : e \in Spawned[tag]} \ {None}})
    BY <1>5 DEF FanOut
  <2>2. SpawnSpan[tag] = Width({Telemetry[e].time : e \in Spawned[tag]})
    BY <1>5 DEF SpawnSpan
  <2> QED
    BY <1>9, <2>1, <2>2
<1>14. Cardinality(X) <= MaxSessionFanOut
       /\ Width({Telemetry[e].time : e \in StartedBy(i)}) <= MaxSessionSpan
  BY <1>12, <1>13 DEF tag
<1> QED
  BY <1>14 DEF IsBurst

LEMMA InferredMeans ==
  ASSUME NEW a, NEW b
  PROVE  LinkOf(a, b).inferred <=> {"slot"} \in {SameProcess(a, b), Lineage(a, b), Sibling(a, b)}
BY Zenon DEF LinkOf

LEMMA TrueOfProcesses ==
  ASSUME CorrelationInv
  PROVE  LinksAreTrue
<1> SUFFICES ASSUME NEW n \in DOMAIN links, ~links[n].inferred
             PROVE  LET a == links[n].left
                        b == links[n].right
                        common == InstancesOf(ParentKeys(a)) \cap InstancesOf(ParentKeys(b))
                    IN  /\ "same_process" \in links[n].signals =>
                             InstancesOf(Keys(a)) \cap InstancesOf(Keys(b)) # {}
                        /\ "process_lineage" \in links[n].signals =>
                             \/ InstancesOf(Keys(a)) \cap InstancesOf(ParentKeys(b)) # {}
                             \/ InstancesOf(Keys(b)) \cap InstancesOf(ParentKeys(a)) # {}
                        /\ "sibling_lineage" \in links[n].signals =>
                             \E i \in common : WellObserved(i) => IsBurst(i)
  BY DEF LinksAreTrue
<1>1. PICK a \in Finding, b \in Finding : links[n] = LinkOf(a, b)
  <2>1. PICK i \in DOMAIN ordered, k \in DOMAIN ordered : links[n] = LinkOf(ordered[i], ordered[k])
    BY DEF CorrelationInv, LinksSound
  <2> QED
    BY <2>1, FindingsAre DEF CorrelationInv
<1>2. /\ links[n].left = a /\ links[n].right = b /\ links[n].signals = Structural(a, b)
      /\ SameProcess(a, b) # {"slot"} /\ Lineage(a, b) # {"slot"} /\ Sibling(a, b) # {"slot"}
  <2>1. ~LinkOf(a, b).inferred
    BY <1>1, Zenon
  <2>2. {"slot"} \notin {SameProcess(a, b), Lineage(a, b), Sibling(a, b)}
    BY <2>1, InferredMeans, Zenon
  <2>3. links[n].left = a /\ links[n].right = b /\ links[n].signals = Structural(a, b)
    BY <1>1 DEF LinkOf
  <2> QED
    BY <2>2, <2>3
<1>3. ASSUME "same_process" \in links[n].signals
      PROVE  InstancesOf(Keys(a)) \cap InstancesOf(Keys(b)) # {}
  <2>1. MatchKeys(Keys(a), Keys(b)) # {} /\ MatchKeys(Keys(a), Keys(b)) # {"slot"}
    BY <1>2, <1>3, SignalMeans DEF SameProcess
  <2>2. PICK k \in Keys(a), m \in Keys(b) : k.instance = m.instance
    BY <2>1, IdentityMeans
  <2> QED
    BY <2>2 DEF InstancesOf
<1>4. ASSUME "process_lineage" \in links[n].signals
      PROVE  \/ InstancesOf(Keys(a)) \cap InstancesOf(ParentKeys(b)) # {}
             \/ InstancesOf(Keys(b)) \cap InstancesOf(ParentKeys(a)) # {}
  <2> DEFINE M == MatchKeys(Keys(a), ParentKeys(b))
             W == MatchKeys(Keys(b), ParentKeys(a))
  <2>1. M \cup W # {} /\ M \cup W # {"slot"}
    BY <1>2, <1>4, SignalMeans DEF Lineage
  <2>2. (M # {} /\ M # {"slot"}) \/ (W # {} /\ W # {"slot"})
    BY <2>1
  <2>3. CASE M # {} /\ M # {"slot"}
    <3>1. PICK k \in Keys(a), m \in ParentKeys(b) : k.instance = m.instance
      BY <2>3, IdentityMeans
    <3> QED
      BY <3>1 DEF InstancesOf
  <2>4. CASE W # {} /\ W # {"slot"}
    <3>1. PICK k \in Keys(b), m \in ParentKeys(a) : k.instance = m.instance
      BY <2>4, IdentityMeans
    <3> QED
      BY <3>1 DEF InstancesOf
  <2> QED
    BY <2>2, <2>3, <2>4
<1>5. ASSUME "sibling_lineage" \in links[n].signals
      PROVE  \E i \in InstancesOf(ParentKeys(a)) \cap InstancesOf(ParentKeys(b)) :
               WellObserved(i) => IsBurst(i)
  <2>1. Sibling(a, b) # {} /\ Sibling(a, b) # {"slot"}
    BY <1>2, <1>5, SignalMeans
  <2>2. Sibling(a, b) = MatchKeys(SessionParents(a), SessionParents(b))
    BY <2>1 DEF Sibling
  <2>3. PICK k \in SessionParents(a), m \in SessionParents(b) :
          Comparable(k, m) /\ k.instance = m.instance
    BY <2>1, <2>2, IdentityMeans
  <2>4. /\ k \in ParentKeys(a) /\ m \in ParentKeys(b)
        /\ FanOut[Tag(k)] <= MaxSessionFanOut /\ SpawnSpan[Tag(k)] <= MaxSessionSpan
    BY DEF SessionParents
  <2>5. k \in Key /\ k # None /\ \E e \in DOMAIN Telemetry : Telemetry[e].parent = k
    BY <2>4, EventsAre
  <2>6. k.scheme # None
    BY <2>3 DEF Comparable
  <2>7. WellObserved(k.instance) => IsBurst(k.instance)
    BY <2>4, <2>5, <2>6, BurstIsSeen
  <2>8. k.instance \in InstancesOf(ParentKeys(a)) \cap InstancesOf(ParentKeys(b))
    BY <2>3, <2>4 DEF InstancesOf
  <2> QED
    BY <2>7, <2>8
<1> QED
  BY <1>2, <1>3, <1>4, <1>5

\* A link that is not labelled as inferred is true of the processes themselves,
\* however the operating system reused their ids.
THEOREM LinksHoldOfProcesses == CorrelationSpec => []LinksAreTrue
<1>1. CorrelationInv => LinksAreTrue
  BY TrueOfProcesses
<1> QED
  BY <1>1, CorrelationInvHolds, PTL

-----------------------------------------------------------------------------
(* Triage and the correlator together. *)

\* The configuration as shipped, or one that lets more through.
Attentive == MinCaseSize <= 2 /\ SingletonMinSeverity <= 3 /\ MaxSeverityForBenign <= 2

FootingInv == CorrelationInv /\ setAside = SetAsideIds(Findings)

LEMMA NoFindingsChange ==
  [CorrelationNext]_correlationVars => UNCHANGED <<setAside, Findings>>
BY DEF CorrelationNext, correlationVars, CheckIds, Link, PassBy, Raise, Findings

\* What triage gives the correlator stands to the end.
THEOREM FootingInvHolds == FootingSpec => []FootingInv
<1>1. FootingInit => FootingInv
  BY InitInv DEF FootingInit, FootingInv, Findings
<1>2. FootingInv /\ [CorrelationNext]_correlationVars => FootingInv'
  <2> SUFFICES ASSUME FootingInv, [CorrelationNext]_correlationVars
               PROVE  FootingInv'
    OBVIOUS
  <2>1. CorrelationInv'
    BY CheckIdsKeeps, LinkKeeps, PassByKeeps, RaiseKeeps, NothingKeeps
    DEF FootingInv, CorrelationNext
  <2>2. setAside' = SetAsideIds(Findings')
    BY NoFindingsChange DEF FootingInv
  <2> QED
    BY <2>1, <2>2 DEF FootingInv
<1> QED
  BY <1>1, <1>2, PTL DEF FootingSpec

\* A veto or a disqualification keeps a finding from being set aside.
LEMMA AlarmsKept ==
  ASSUME FootingInv, Attentive, pc = "done", NEW f \in Findings,
         f.severity >= 3 \/ Alarming(f)
  PROVE  f.id \notin setAside
<1>1. f.severity \in 0 .. 4
  BY FindingsAre, FindingFields DEF FootingInv, CorrelationInv
<1>2. Vetoed(f) \/ Disqualified(f)
  <2>1. CASE f.severity >= 3
    <3>1. HighSeverity(f)
      BY <1>1, <2>1, TriageAssumption DEF HighSeverity, Attentive
    <3> QED
      BY <3>1, Zenon DEF Vetoed
  <2>2. CASE Alarming(f)
    <3>1. \/ "some" \in {f.metadata.evasion, f.metadata.download}
          \/ f.metadata.cleartext \/ f.metadata.contacts >= SustainedContactThreshold
          \/ f.metadata.parent \in OfficeApplications
          \/ \E name \in {f.metadata.parent, f.metadata.process} \ {Absent} : IdentityConflict(name)
          \/ Disqualified(f)
      BY <2>2, Zenon DEF Alarming, Disqualified
    <3>2. "some" \in {f.metadata.evasion, f.metadata.download} =>
            f.metadata.evasion = "some" \/ f.metadata.download = "some"
      OBVIOUS
    <3> QED
      BY <3>1, <3>2, Zenon DEF Vetoed
  <2> QED
    BY <2>1, <2>2
<1>3. AssessFinding(f) # "likely_benign"
  <2>1. CASE Vetoed(f)
    <3>1. AssessFinding(f) = "likely_malicious"
      BY <2>1, Zenon DEF AssessFinding
    <3> QED
      BY <3>1
  <2>2. CASE ~Vetoed(f) /\ Disqualified(f)
    <3>1. AssessFinding(f) = "needs_review"
      BY <2>2, Zenon DEF AssessFinding
    <3> QED
      BY <3>1
  <2> QED
    BY <1>2, <2>1, <2>2
<1> SUFFICES ASSUME f.id \in setAside
             PROVE  FALSE
  OBVIOUS
<1>4. PICK g \in Findings : AssessFinding(g) = "likely_benign" /\ g.id = f.id
  BY DEF FootingInv, SetAsideIds
<1>5. g = f
  BY <1>4, FindingsAre DEF FootingInv, CorrelationInv, OrderSound
<1> QED
  BY <1>3, <1>4, <1>5

LEMMA LinkedHasCompany ==
  ASSUME CorrelationInv, NEW f \in Findings, Linked(f)
  PROVE  \E g \in GroupOf(f) : g # f
<1>1. PICK n \in DOMAIN links : f \in {links[n].left, links[n].right}
  BY DEF Linked
<1>2. PICK i \in DOMAIN ordered, k \in DOMAIN ordered :
        i < k /\ links[n] = LinkOf(ordered[i], ordered[k])
  BY DEF CorrelationInv, LinksSound
<1> DEFINE a == ordered[i]
           b == ordered[k]
<1>3. links[n].left = a /\ links[n].right = b /\ a \in Findings /\ b \in Findings
  BY <1>2, LinkFields, FindingsAre DEF CorrelationInv
<1>4. a # b
  <2>1. i \in Nat /\ k \in Nat
    BY DEF CorrelationInv, OrderSound
  <2> QED
    BY <1>2, <2>1 DEF CorrelationInv, OrderSound
<1>5. Root[a.id] = Root[b.id]
  BY <1>3 DEF CorrelationInv, GroupsSound
<1>6. \A g \in Findings : g \in GroupOf(f) <=> Root[g.id] = Root[f.id]
  BY Groups DEF Together
<1> QED
  BY <1>1, <1>3, <1>4, <1>5, <1>6

LEMMA AlarmsFromInv ==
  ASSUME FootingInv, Attentive
  PROVE  AlarmsAreInvestigated
<1> SUFFICES ASSUME pc = "done", NEW f \in Findings,
                    f.severity >= 3 \/ (Alarming(f) /\ Linked(f))
             PROVE  \E c \in ToSet(cases) : f \in c.findings
  BY DEF AlarmsAreInvestigated
<1>1. CorrelationInv /\ MinCaseSize <= 2
  BY DEF FootingInv, Attentive
<1> DEFINE S == GroupOf(f)
<1>2. f \in S
  BY <1>1, Groups
<1>3. Unexplained(S)
  BY <1>2, AlarmsKept DEF Unexplained
<1>4. IsRaised(S)
  <2>1. CASE f.severity >= 3
    <3>1. f.severity \in 0 .. 4
      BY <1>1, FindingsAre, FindingFields DEF CorrelationInv
    <3>2. f.severity >= SingletonMinSeverity
      BY <2>1, <3>1 DEF Attentive
    <3>3. WorthACase(S)
      BY <1>2, <3>2 DEF WorthACase
    <3> QED
      BY <1>1, <1>3, <3>3, NotRaised
  <2>2. CASE Alarming(f) /\ Linked(f)
    <3>1. PICK g \in S : g # f
      BY <1>1, <2>2, LinkedHasCompany
    <3>2. IsFiniteSet(S) /\ Cardinality(S) \in Nat /\ Cardinality(S) >= 2
      BY <1>1, <1>2, <3>1, GroupCounted
    <3>3. Cardinality(S) >= MinCaseSize
      BY <1>1, <3>2
    <3> QED
      BY <1>3, <3>3 DEF IsRaised, Unexplained
  <2> QED
    BY <2>1, <2>2
<1>5. PICK i \in Openers : GroupOf(ordered[i]) = S
  BY <1>1, OneOpening
<1>6. PICK n \in 1 .. Cardinality(Openings) : Nth(Openings, n) = i
  BY <1>1, <1>4, <1>5, CasesCounted
<1>7. CaseOf(S) \in ToSet(cases)
  BY <1>1, <1>5, <1>6, CasesCounted DEF Begin
<1>8. CaseOf(S).findings = S
  BY DEF CaseOf
<1> QED
  BY <1>2, <1>7, <1>8

\* A finding graded HIGH is investigated even alone, and one that carries an
\* incriminating or disqualifying mark as soon as anything is linked to it.
THEOREM NoAlarmIsLost ==
  ASSUME Attentive
  PROVE  FootingSpec => []AlarmsAreInvestigated
<1>1. FootingInv => AlarmsAreInvestigated
  BY AlarmsFromInv
<1> QED
  BY <1>1, FootingInvHolds, PTL

=============================================================================
