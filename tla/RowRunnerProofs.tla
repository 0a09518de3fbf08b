-------------------------- MODULE RowRunnerProofs --------------------------
(***************************************************************************)
(* Proofs about RowRunner.  A thread that counts a row has just written    *)
(* it, and nobody else is at that row.  Until a stop is announced every    *)
(* task that is done left its row behind and was counted once, so that the *)
(* count tells how many rows there are; and once the limit is reached a    *)
(* thread that has counted is spent: it starts no other case, which is     *)
(* what keeps the overshoot to the threads that had started before.        *)
(***************************************************************************)
EXTENDS RowRunner, FiniteSetTheorems, TLAPS

Starting == {"guard", "attach", "investigate", "waiting", "write"}
Working == Starting \cup {"count"}
Places == Working \cup {"idle", "begin", "reached"}
Futures == {"pending", "running", "ok", "interrupted", "refused", "error", "collected"}

RunTypes ==
  /\ row \in [Rows -> Account \cup {None}]
  /\ record \in RunRecord \cup {None}
  /\ main # "off" => record \in RunRecord
  /\ events \in 0 .. MaxEvents
  /\ main \in {"off", "bundle", "collect", "shutdown", "end"}
  /\ workers \in Nat \ {0}
  /\ stopAfter \in (Nat \ {0}) \cup {None}
  /\ bundle \in DOMAIN Bundles
  /\ raised \in Trouble \cup {None} /\ interrupted \in BOOLEAN
  /\ stop \in BOOLEAN /\ ran \in Nat /\ skipped \in Nat

PoolTypes ==
  /\ future \in [Tasks -> Futures]
  /\ place \in [Threads -> Places]
  /\ task \in [Threads -> Nat]

\* A thread at work holds a task of its own, and its row is there once written.
ThreadsSound ==
  /\ \A p \in Threads :
       /\ place[p] = "idle" => task[p] = 0
       /\ place[p] # "idle" =>
            /\ main \in {"collect", "shutdown"} /\ p <= workers
            /\ task[p] \in Tasks /\ future[task[p]] = "running"
       /\ place[p] \in Starting => row[Row(p)] = None
       /\ place[p] \in {"count", "reached"} => row[Row(p)] # None
  /\ \A p, q \in Threads : p # q /\ task[p] # 0 => task[p] # task[q]

\* Where the main thread is, and why it was stopped.
BundleSound ==
  /\ main \in {"off", "bundle"} => \A i \in Tasks : future[i] = "pending"
  /\ main = "end" => bundle = Len(Bundles) /\ \A i \in Tasks : future[i] = "collected"
  /\ main = "off" => ran = 0 /\ skipped = 0 /\ ~stop /\ bundle = 1
  /\ main \in {"off", "bundle", "end"} => raised = None /\ ~interrupted
  /\ stop => raised # None \/ interrupted \/ \E i \in Tasks : future[i] = "interrupted"
  /\ \A i \in Tasks : future[i] = "interrupted" => stop

\* The rows of this invocation that were written or skipped, and counted.
Counted ==
  {r \in Rows :
     \/ \E b \in DOMAIN Bundles : b < bundle /\ r \in ToSet(Bundles[b])
     \/ \E i \in Tasks : future[i] \in {"ok", "collected"} /\ r = Bundles[bundle][i]
     \/ \E p \in Threads : place[p] = "reached" /\ r = Row(p)}

NothingLost ==
  ~stop =>
    /\ IsFiniteSet(Counted)
    /\ ran + skipped = Cardinality(Counted)
    /\ \A r \in Counted : row[r] # None

\* The threads that will not count another row.
Spent ==
  {p \in Threads :
     p <= workers /\ (place[p] = "reached" \/ (stop /\ place[p] \notin Working))}

StoppedInTime == stopAfter # None => ran <= stopAfter - 1 + Cardinality(Spent)

RecordSound == RecordedRowsExist /\ DoneMeansAll

RowInv ==
  /\ RunTypes /\ PoolTypes /\ ThreadsSound /\ BundleSound
  /\ NothingLost /\ StoppedInTime /\ RecordSound

\* With one worker, what the client logs is the case's own.
ClientTypes ==
  /\ DOMAIN sink = Clients /\ DOMAIN tokenLog = Clients
  /\ DOMAIN measured = Rows /\ DOMAIN draft = Threads
  /\ made \in [Threads -> Nat]
  /\ \A p \in Threads : place[p] \in {"idle", "begin", "guard", "attach"} => made[p] = 0

AloneSound ==
  workers = 1 =>
    /\ place[1] \in {"investigate", "waiting"} => sink[0] = Row(1)
    /\ place[1] \in {"investigate", "waiting", "write"} => tokenLog[0] = Own(1)
    /\ place[1] = "investigate" => measured[Row(1)] = Own(1)
    /\ place[1] = "waiting" => measured[Row(1)] = Append(Own(1), Row(1))
    /\ place[1] = "write" => draft[1] = [tokens |-> Own(1), requests |-> Own(1)]

USE RunnerAssumption

-----------------------------------------------------------------------------
(* Facts about one state. *)

\* The rows asked for: each one is a task of one bundle, once.
LEMMA BundleFacts ==
  /\ Len(Bundles) \in Nat /\ Len(Bundles) > 0 /\ DOMAIN Bundles = 1 .. Len(Bundles)
  /\ \A b \in DOMAIN Bundles :
       /\ \A i \in DOMAIN Bundles[b] :
            Bundles[b][i] \in Rows /\ Bundles[b][i] \in ToSet(Bundles[b])
       /\ \A i, k \in DOMAIN Bundles[b] : Bundles[b][i] = Bundles[b][k] => i = k
       /\ DOMAIN Bundles[b] \subseteq Nat \ {0}
       /\ \A c \in DOMAIN Bundles : \A r \in ToSet(Bundles[b]) :
            r \in ToSet(Bundles[c]) => b = c
  /\ \A r \in Rows : \E b \in DOMAIN Bundles : r \in ToSet(Bundles[b])
  /\ \A b \in DOMAIN Bundles : \A r \in ToSet(Bundles[b]) :
       \E i \in DOMAIN Bundles[b] : r = Bundles[b][i]
<1>1. /\ Bundles \in Seq(Seq(Rows)) /\ Len(Bundles) > 0
      /\ \A b \in DOMAIN Bundles :
           /\ Len(Bundles[b]) > 0
           /\ \A i, k \in DOMAIN Bundles[b] : Bundles[b][i] = Bundles[b][k] => i = k
           /\ \A c \in DOMAIN Bundles :
                b # c => ToSet(Bundles[b]) \cap ToSet(Bundles[c]) = {}
  BY DEF RunnerAssumption
<1>2. Len(Bundles) \in Nat /\ DOMAIN Bundles = 1 .. Len(Bundles)
  BY <1>1
<1>3. \A b \in DOMAIN Bundles : Bundles[b] \in Seq(Rows)
  BY <1>1
<1>4. \A b \in DOMAIN Bundles : DOMAIN Bundles[b] = 1 .. Len(Bundles[b]) /\ Len(Bundles[b]) \in Nat
  BY <1>3
<1>5. \A b \in DOMAIN Bundles : \A i \in DOMAIN Bundles[b] :
        Bundles[b][i] \in Rows /\ Bundles[b][i] \in ToSet(Bundles[b])
  BY <1>3 DEF ToSet
<1>6. \A b \in DOMAIN Bundles : DOMAIN Bundles[b] \subseteq Nat \ {0}
  BY <1>4
<1>7. \A b \in DOMAIN Bundles : \A c \in DOMAIN Bundles : \A r \in ToSet(Bundles[b]) :
        r \in ToSet(Bundles[c]) => b = c
  BY <1>1
<1>8. \A r \in Rows : \E b \in DOMAIN Bundles : r \in ToSet(Bundles[b])
  BY DEF Rows
<1>9. \A b \in DOMAIN Bundles : \A r \in ToSet(Bundles[b]) :
        \E i \in DOMAIN Bundles[b] : r = Bundles[b][i]
  BY DEF ToSet
<1> QED
  BY <1>1, <1>2, <1>5, <1>6, <1>7, <1>8, <1>9

LEMMA Something ==
  /\ \A r \in Rows : r # None
  /\ "its own" # None /\ "mixed up" # None
  /\ "refused" # None /\ "error" # None /\ "interrupt" # None
  /\ \A n \in Nat : n # None
  /\ \A rec \in RunRecord : rec # None
BY DEF RunnerAssumption, Account, Trouble

LEMMA ThreadFacts ==
  /\ 1 \in Threads
  /\ \A p \in Threads : p \in Nat \ {0}
  /\ \A n \in PoolSizes : n \in Nat \ {0} /\ 1 .. n \subseteq Threads
<1>1. PoolSizes \subseteq Nat \ {0} /\ PoolSizes # {}
  BY DEF RunnerAssumption
<1>2. PICK n : n \in PoolSizes
  BY <1>1
<1>3. 1 \in 1 .. n
  BY <1>1, <1>2
<1>4. 1 \in Threads
  BY <1>2, <1>3 DEF Threads
<1>5. \A p \in Threads : p \in Nat \ {0}
  BY <1>1 DEF Threads
<1>6. \A m \in PoolSizes : m \in Nat \ {0} /\ 1 .. m \subseteq Threads
  BY <1>1 DEF Threads
<1> QED
  BY <1>4, <1>5, <1>6

\* Two threads at work are at two rows of the bundle.
LEMMA RowFacts ==
  ASSUME RunTypes, PoolTypes, ThreadsSound
  PROVE  /\ \A i \in Tasks : Bundles[bundle][i] \in Rows /\ i \in Nat \ {0}
         /\ \A i, k \in Tasks : Bundles[bundle][i] = Bundles[bundle][k] => i = k
         /\ \A p \in Threads : place[p] # "idle" =>
              task[p] \in Tasks /\ Row(p) \in Rows /\ task[p] # 0
         /\ \A p, q \in Threads :
              place[p] # "idle" /\ place[q] # "idle" /\ Row(p) = Row(q) => p = q
<1>1. bundle \in DOMAIN Bundles
  BY DEF RunTypes
<1>2. /\ \A i \in Tasks : Bundles[bundle][i] \in Rows /\ i \in Nat \ {0}
      /\ \A i, k \in Tasks : Bundles[bundle][i] = Bundles[bundle][k] => i = k
  BY <1>1, BundleFacts DEF Tasks
<1>3. \A p \in Threads : place[p] # "idle" =>
        task[p] \in Tasks /\ Row(p) \in Rows /\ task[p] # 0
  BY <1>2 DEF ThreadsSound, Row
<1>4. \A p, q \in Threads : p # q /\ task[p] # 0 => task[p] # task[q]
  BY DEF ThreadsSound
<1>5. \A p, q \in Threads :
        place[p] # "idle" /\ place[q] # "idle" /\ Row(p) = Row(q) => p = q
  BY <1>2, <1>3, <1>4 DEF Row
<1> QED
  BY <1>2, <1>3, <1>5

-----------------------------------------------------------------------------
(* Between two invocations. *)

\* Nothing of an invocation is left but what is on disk.
Rested ==
  /\ main = "off" /\ workers = 1 /\ stopAfter = None
  /\ bundle = 1 /\ raised = None /\ interrupted = FALSE
  /\ future = [i \in DOMAIN Bundles[1] |-> "pending"]
  /\ stop = FALSE /\ ran = 0 /\ skipped = 0
  /\ place = [p \in Threads |-> "idle"]
  /\ task = [p \in Threads |-> 0]

LEMMA RestedSound ==
  Rested => PoolTypes /\ ThreadsSound /\ BundleSound /\ NothingLost /\ StoppedInTime
<1> SUFFICES ASSUME Rested
             PROVE  PoolTypes /\ ThreadsSound /\ BundleSound /\ NothingLost /\ StoppedInTime
  OBVIOUS
<1>1. /\ Tasks = DOMAIN Bundles[1]
      /\ \A i \in Tasks : future[i] = "pending"
      /\ \A p \in Threads : place[p] = "idle" /\ task[p] = 0
  BY DEF Rested, Tasks
<1>2. PoolTypes
  BY <1>1 DEF Rested, PoolTypes, Futures, Places
<1>3. ThreadsSound
  BY <1>1 DEF ThreadsSound, Starting
<1>4. BundleSound
  BY <1>1 DEF Rested, BundleSound
<1>5. NothingLost
  <2>1. \A b \in DOMAIN Bundles : ~(b < bundle)
    BY BundleFacts DEF Rested
  <2>2. Counted = {}
    BY <1>1, <2>1 DEF Counted
  <2> QED
    BY <2>2, FS_EmptySet DEF Rested, NothingLost
<1>6. StoppedInTime
  BY DEF Rested, StoppedInTime
<1> QED
  BY <1>2, <1>3, <1>4, <1>5, <1>6

LEMMA ExitInv ==
  ASSUME RowInv, Exit, UNCHANGED row, events' \in 0 .. MaxEvents,
         record' \in RunRecord \cup {None}, RecordSound'
  PROVE  RowInv'
<1>1. Rested'
  BY DEF Exit, Rested
<1>2. PoolTypes' /\ ThreadsSound' /\ BundleSound' /\ NothingLost' /\ StoppedInTime'
  BY <1>1, RestedSound, PTL
<1>3. RunTypes'
  <2>1. bundle' \in DOMAIN Bundles
    BY <1>1, BundleFacts DEF Rested
  <2>2. row \in [Rows -> Account \cup {None}]
    BY DEF RowInv, RunTypes
  <2>3. stop' \in BOOLEAN /\ interrupted' \in BOOLEAN
    BY <1>1 DEF Rested
  <2>4. /\ workers' \in Nat \ {0} /\ main' = "off" /\ raised' = None /\ stopAfter' = None
        /\ ran' = 0 /\ skipped' = 0
    BY <1>1 DEF Rested
  <2> QED
    BY <2>1, <2>2, <2>3, <2>4 DEF RunTypes
<1> QED
  BY <1>2, <1>3 DEF RowInv

LEMMA InitInv ==
  ASSUME RunnerInit
  PROVE  RowInv
<1>1. Rested
  BY DEF RunnerInit, Rested
<1>2. RunTypes
  <2>1. bundle \in DOMAIN Bundles
    BY <1>1, BundleFacts DEF Rested
  <2>2. events \in 0 .. MaxEvents
    BY DEF RunnerInit, RunnerAssumption
  <2>3. row \in [Rows -> Account \cup {None}] /\ record = None
    BY DEF RunnerInit
  <2>4. stop \in BOOLEAN /\ interrupted \in BOOLEAN
    BY <1>1 DEF Rested
  <2>5. /\ workers \in Nat \ {0} /\ main = "off" /\ raised = None /\ stopAfter = None
        /\ ran = 0 /\ skipped = 0
    BY <1>1 DEF Rested
  <2> QED
    BY <2>1, <2>2, <2>3, <2>4, <2>5 DEF RunTypes
<1>3. RecordSound
  BY DEF RunnerInit, RecordSound, RecordedRowsExist, DoneMeansAll
<1> QED
  BY <1>1, <1>2, <1>3, RestedSound DEF RowInv

\* The end of an invocation says how it went; only one that is done says more.
LEMMA Finished ==
  ASSUME RowInv, main # "off", UNCHANGED row,
         NEW status \in {"refused", "interrupted"}, Finish(status, None)
  PROVE  record' \in RunRecord \cup {None} /\ RecordSound'
<1>1. record \in RunRecord /\ record' = [record EXCEPT !.status = status, !.counts = None]
  BY DEF RowInv, RunTypes, Finish
<1>2. /\ record' \in RunRecord
      /\ record'.written = record.written /\ record'.status = status
  BY <1>1 DEF RunRecord
<1>3. \A r \in record.written : row[r] # None
  BY <1>1, Something DEF RowInv, RecordSound, RecordedRowsExist
<1>4. RecordSound'
  BY <1>2, <1>3 DEF RecordSound, RecordedRowsExist, DoneMeansAll
<1> QED
  BY <1>2, <1>4

-----------------------------------------------------------------------------
(* What a step leaves alone. *)

LEMMA SpentFacts ==
  ASSUME RunTypes
  PROVE  /\ IsFiniteSet(Spent) /\ Cardinality(Spent) \in Nat
         /\ Cardinality(Spent) <= workers
<1>1. workers \in Nat \ {0}
  BY DEF RunTypes
<1>2. IsFiniteSet(1 .. workers) /\ Cardinality(1 .. workers) = workers
  <2>1. 1 \in Int /\ workers \in Int /\ ~(1 > workers) /\ workers - 1 + 1 = workers
    BY <1>1
  <2>2. /\ IsFiniteSet(1 .. workers)
        /\ Cardinality(1 .. workers) = IF 1 > workers THEN 0 ELSE workers - 1 + 1
    BY <2>1, FS_Interval
  <2> QED
    BY <2>1, <2>2
<1>3. Spent \in SUBSET (1 .. workers)
  BY <1>1, ThreadFacts DEF Spent
<1>4. IsFiniteSet(Spent) /\ Cardinality(Spent) <= Cardinality(1 .. workers)
  BY <1>2, <1>3, FS_Subset
<1>5. Cardinality(Spent) \in Nat
  BY <1>4, FS_CardinalityType
<1> QED
  BY <1>2, <1>4, <1>5

SpentCounts == IsFiniteSet(Spent) /\ Cardinality(Spent) \in Nat

LEMMA SpentTyped == RunTypes => SpentCounts
BY SpentFacts DEF SpentCounts

\* While the arguments stay, a thread that is spent stays it: there is time left.
LEMMA SpentGrows ==
  ASSUME RunTypes, RunTypes', StoppedInTime, Spent \subseteq Spent', UNCHANGED stopAfter
  PROVE  /\ Cardinality(Spent) \in Nat /\ Cardinality(Spent') \in Nat
         /\ Cardinality(Spent) <= Cardinality(Spent')
         /\ UNCHANGED ran => StoppedInTime'
<1>1. SpentCounts /\ SpentCounts'
  <2>1. SpentCounts
    BY SpentTyped
  <2>2. SpentCounts'
    BY SpentTyped, PTL
  <2> QED
    BY <2>1, <2>2
<1>2. /\ Cardinality(Spent) \in Nat /\ Cardinality(Spent') \in Nat
      /\ IsFiniteSet(Spent')
  BY <1>1 DEF SpentCounts
<1>3. Cardinality(Spent) <= Cardinality(Spent')
  <2>1. PICK S : S = Spent
    OBVIOUS
  <2>2. PICK T : T = Spent'
    OBVIOUS
  <2>3. IsFiniteSet(T) /\ S \in SUBSET T
    BY <1>2, <2>1, <2>2
  <2>4. Cardinality(S) <= Cardinality(T)
    BY <2>3, FS_Subset
  <2> QED
    BY <2>1, <2>2, <2>4
<1>4. UNCHANGED ran => StoppedInTime'
  BY <1>2, <1>3 DEF StoppedInTime, RunTypes
<1> QED
  BY <1>2, <1>3, <1>4

\* The pool as it was.
LEMMA SamePool ==
  ASSUME UNCHANGED <<row, bundle, future, place, task>>
  PROVE  /\ Tasks' = Tasks /\ Counted' = Counted
         /\ \A p : Row(p)' = Row(p)
         /\ PoolTypes => PoolTypes'
<1>1. Tasks' = Tasks /\ \A p : Row(p)' = Row(p)
  BY DEF Tasks, Row
<1>2. Counted' = Counted
  BY <1>1 DEF Counted
<1> QED
  BY <1>1, <1>2 DEF PoolTypes

LEMMA SameProgress ==
  ASSUME NothingLost, UNCHANGED <<row, bundle, future, place, task, stop, ran, skipped>>
  PROVE  NothingLost'
BY SamePool DEF NothingLost

LEMMA SameRecord ==
  ASSUME RecordSound, UNCHANGED <<row, record>>
  PROVE  RecordSound'
BY DEF RecordSound, RecordedRowsExist, DoneMeansAll

\* No thread is at work, or may be, when there is no pool.
LEMMA AllIdle ==
  ASSUME RowInv, main \notin {"collect", "shutdown"} \/ Collected
  PROVE  \A p \in Threads : place[p] = "idle" /\ task[p] = 0
<1>1. ThreadsSound
  BY DEF RowInv
<1>2. CASE main \notin {"collect", "shutdown"}
  BY <1>1, <1>2 DEF ThreadsSound
<1>3. CASE Collected
  BY <1>1, <1>3 DEF ThreadsSound, Collected
<1> QED
  BY <1>2, <1>3

LEMMA IdleSound ==
  ASSUME \A p \in Threads : place[p] = "idle" /\ task[p] = 0,
         UNCHANGED <<place, task>>
  PROVE  ThreadsSound'
BY DEF ThreadsSound, Starting

-----------------------------------------------------------------------------
(* The main thread. *)

LEMMA BeginInv ==
  ASSUME RowInv, Begin
  PROVE  RowInv'
<1>1. /\ main = "off" /\ main' = "bundle" /\ record' = Running
      /\ workers' \in PoolSizes /\ stopAfter' \in StopAfters
      /\ UNCHANGED <<row, events, bundle, raised, interrupted, future>>
      /\ UNCHANGED <<stop, ran, skipped, place, task>>
  BY DEF Begin, sharedVars, threadVars
<1>2. /\ RunTypes /\ PoolTypes /\ BundleSound /\ NothingLost
      /\ ran = 0 /\ ~stop /\ raised = None /\ ~interrupted
  BY <1>1 DEF RowInv, BundleSound
<1>3. Running \in RunRecord /\ Running.written = {} /\ Running.status = "running"
  BY DEF Running, RunRecord
<1>4. /\ workers' \in Nat \ {0} /\ stopAfter' \in (Nat \ {0}) \cup {None}
  BY <1>1, ThreadFacts DEF RunnerAssumption
<1>5. RunTypes'
  BY <1>1, <1>2, <1>3, <1>4 DEF RunTypes
<1>6. PoolTypes' /\ NothingLost' /\ Tasks' = Tasks
  BY <1>1, <1>2, SamePool, SameProgress
<1>7. ThreadsSound'
  BY <1>1, AllIdle, IdleSound
<1>8. BundleSound'
  BY <1>1, <1>2, <1>6 DEF BundleSound
<1>9. StoppedInTime'
  <2>1. SpentCounts'
    BY <1>5, SpentTyped, PTL
  <2>2. Cardinality(Spent') \in Nat
    BY <2>1 DEF SpentCounts
  <2> QED
    BY <1>1, <1>2, <1>4, <2>2 DEF StoppedInTime
<1>10. RecordSound'
  BY <1>1, <1>3 DEF RecordSound, RecordedRowsExist, DoneMeansAll
<1> QED
  BY <1>5, <1>6, <1>7, <1>8, <1>9, <1>10 DEF RowInv

\* The guard of the bundle lets the pool start.
LEMMA OpenBundleInv ==
  ASSUME RowInv, OpenBundle
  PROVE  RowInv'
<1>1. /\ main = "bundle" /\ main' = "collect"
      /\ UNCHANGED <<row, record, workers, stopAfter, bundle, raised, interrupted, future>>
      /\ UNCHANGED <<stop, ran, skipped, place, task>>
  BY DEF OpenBundle, argVars, sharedVars, threadVars
<1>2. RunTypes /\ PoolTypes /\ BundleSound /\ NothingLost /\ StoppedInTime /\ RecordSound
  BY DEF RowInv
<1>3. events' \in 0 .. MaxEvents
  <2>1. events \in 0 .. MaxEvents /\ MaxEvents \in Nat
    BY <1>2 DEF RunTypes, RunnerAssumption
  <2> QED
    BY <2>1 DEF OpenBundle, LowRam
<1>4. RunTypes'
  BY <1>1, <1>2, <1>3 DEF RunTypes
<1>5. PoolTypes' /\ NothingLost' /\ Tasks' = Tasks /\ RecordSound'
  BY <1>1, <1>2, SamePool, SameProgress, SameRecord
<1>6. ThreadsSound'
  BY <1>1, AllIdle, IdleSound
<1>7. BundleSound'
  BY <1>1, <1>2, <1>5 DEF BundleSound
<1>8. StoppedInTime'
  BY <1>1, <1>2 DEF StoppedInTime, Spent
<1> QED
  BY <1>4, <1>5, <1>6, <1>7, <1>8 DEF RowInv

\* The invocation ends, refused or interrupted.
LEMMA EndedInv ==
  ASSUME RowInv, PoolRefused \/ Raise \/ ShutDown
  PROVE  RowInv'
<1>1. RunTypes /\ RecordSound
  BY DEF RowInv
<1>2. Exit /\ UNCHANGED row /\ main # "off"
  BY DEF PoolRefused, Raise, ShutDown, Collected
<1>3. events' \in 0 .. MaxEvents
  <2>1. events \in 0 .. MaxEvents /\ MaxEvents \in Nat
    BY <1>1 DEF RunTypes, RunnerAssumption
  <2> QED
    BY <2>1 DEF PoolRefused, Raise, ShutDown, LowRam
<1>4. UNCHANGED record \/ Finish("refused", None) \/ Finish("interrupted", None)
  BY DEF PoolRefused, Raise, ShutDown
<1>5. record' \in RunRecord \cup {None} /\ RecordSound'
  <2>1. CASE UNCHANGED record
    BY <1>1, <1>2, <2>1, SameRecord DEF RunTypes
  <2>2. CASE Finish("refused", None)
    BY <1>2, <2>2, Finished
  <2>3. CASE Finish("interrupted", None)
    BY <1>2, <2>3, Finished
  <2> QED
    BY <1>4, <2>1, <2>2, <2>3
<1> QED
  BY <1>2, <1>3, <1>5, ExitInv

\* The main thread takes the result of a task; what the pool may do next.
LEMMA CollectInv ==
  ASSUME RowInv, NEW i \in Tasks, Collect(i)
  PROVE  RowInv'
<1>1. /\ main = "collect" /\ i \in Ready
      /\ future' = [future EXCEPT ![i] = "collected"]
      /\ interrupted' = (interrupted \/ future[i] = "interrupted")
      /\ IF future[i] \in {"refused", "error"}
         THEN /\ stop' = TRUE
              /\ raised' = IF raised = None THEN future[i] ELSE raised
         ELSE UNCHANGED <<stop, raised>>
      /\ UNCHANGED <<row, record, events, workers, stopAfter, main, bundle, ran, skipped>>
      /\ UNCHANGED <<place, task>>
  BY DEF Collect, diskVars, argVars, threadVars
<1>2. /\ RunTypes /\ PoolTypes /\ ThreadsSound /\ BundleSound /\ NothingLost /\ StoppedInTime
      /\ RecordSound
  BY DEF RowInv
<1>3. /\ Tasks' = Tasks /\ \A p : Row(p)' = Row(p)
      /\ future \in [Tasks -> Futures] /\ stop \in BOOLEAN /\ interrupted \in BOOLEAN
      /\ future[i] \in {"ok", "interrupted", "refused", "error"}
  BY <1>1, <1>2 DEF Tasks, Row, PoolTypes, RunTypes, Ready
<1>4. /\ future'[i] = "collected"
      /\ \A k \in Tasks : k # i => future'[k] = future[k]
      /\ future' \in [Tasks -> Futures]
  BY <1>1, <1>3 DEF Futures
<1>5. RunTypes'
  <2>1. stop' \in BOOLEAN
    BY <1>1, <1>3
  <2>2. interrupted' \in BOOLEAN
    BY <1>1
  <2>3. raised' \in Trouble \cup {None}
    BY <1>1, <1>2, <1>3 DEF RunTypes, Trouble
  <2> QED
    BY <1>1, <1>2, <2>1, <2>2, <2>3 DEF RunTypes
<1>6. PoolTypes'
  BY <1>1, <1>2, <1>3, <1>4 DEF PoolTypes
<1>7. ThreadsSound'
  <2>1. \A p \in Threads : place[p] # "idle" => task[p] # i
    BY <1>2, <1>3 DEF ThreadsSound
  <2> QED
    BY <1>1, <1>2, <1>3, <1>4, <2>1 DEF ThreadsSound
<1>8. BundleSound'
  <2>1. stop' => raised' # None \/ interrupted' \/ \E k \in Tasks : future'[k] = "interrupted"
    <3>1. SUFFICES ASSUME stop', raised' = None, ~interrupted'
                   PROVE  \E k \in Tasks : future'[k] = "interrupted"
      OBVIOUS
    <3>2. future[i] \notin {"refused", "error"}
      BY <1>1, <3>1, Something
    <3>3. stop /\ raised = None /\ ~interrupted /\ future[i] # "interrupted"
      BY <1>1, <3>1, <3>2
    <3>4. PICK k \in Tasks : future[k] = "interrupted"
      BY <1>2, <3>3 DEF BundleSound
    <3> QED
      BY <1>4, <3>3, <3>4
  <2>2. \A k \in Tasks : future'[k] = "interrupted" => stop'
    <3>1. stop => stop'
      BY <1>1
    <3> QED
      BY <1>2, <1>4, <3>1 DEF BundleSound
  <2> QED
    BY <1>1, <1>3, <2>1, <2>2 DEF BundleSound
<1>9. NothingLost'
  <2>1. ASSUME ~stop'
        PROVE  Counted' = Counted /\ ~stop
    <3>1. ~stop /\ future[i] \notin {"refused", "error"}
      BY <1>1, <2>1
    <3>2. future[i] = "ok"
      BY <1>2, <1>3, <3>1 DEF BundleSound
    <3>3. \A k \in Tasks :
            future'[k] \in {"ok", "collected"} <=> future[k] \in {"ok", "collected"}
      BY <1>4, <3>2
    <3>4. Counted' = Counted
      BY <1>1, <1>3, <3>3 DEF Counted
    <3> QED
      BY <3>1, <3>4
  <2> QED
    BY <1>1, <1>2, <2>1 DEF NothingLost
<1>10. StoppedInTime' /\ RecordSound'
  <2>1. RecordSound'
    BY <1>1, <1>2, SameRecord
  <2>2. stop => stop'
    BY <1>1
  <2>3. Spent \subseteq Spent'
    BY <1>1, <2>2 DEF Spent
  <2> QED
    BY <1>1, <1>2, <1>5, <2>1, <2>3, SpentGrows
<1> QED
  BY <1>5, <1>6, <1>7, <1>8, <1>9, <1>10 DEF RowInv

\* A bundle that was not stopped is closed with every task done.
LEMMA AllCollected ==
  ASSUME RowInv, Collected, raised = None, ~interrupted
  PROVE  ~stop /\ \A i \in Tasks : future[i] = "collected"
<1>1. \A i \in Tasks : future[i] = "collected" \/ (LoopLeft /\ future[i] = "pending")
  BY DEF Collected
<1>2. ~LoopLeft
  BY <1>1 DEF LoopLeft
<1>3. \A i \in Tasks : future[i] = "collected"
  BY <1>1, <1>2
<1>4. ~stop
  BY <1>3 DEF RowInv, BundleSound
<1> QED
  BY <1>3, <1>4

LEMMA CloseBundleInv ==
  ASSUME RowInv, CloseBundle
  PROVE  RowInv'
<1>1. /\ Collected /\ main = "collect" /\ raised = None /\ ~interrupted
      /\ \/ /\ bundle < Len(Bundles) /\ bundle' = bundle + 1 /\ main' = "bundle"
            /\ future' = [i \in DOMAIN Bundles[bundle + 1] |-> "pending"]
         \/ ~(bundle < Len(Bundles)) /\ main' = "end" /\ UNCHANGED <<bundle, future>>
      /\ UNCHANGED <<row, record, events, workers, stopAfter, raised, interrupted>>
      /\ UNCHANGED <<stop, ran, skipped, place, task>>
  BY DEF CloseBundle, Collected, diskVars, argVars, sharedVars, threadVars
<1>2. /\ RunTypes /\ PoolTypes /\ ThreadsSound /\ BundleSound /\ NothingLost /\ StoppedInTime
      /\ RecordSound
  BY DEF RowInv
<1>3. /\ ~stop /\ \A i \in Tasks : future[i] = "collected"
      /\ \A p \in Threads : place[p] = "idle" /\ task[p] = 0
  BY <1>1, AllCollected, AllIdle
<1>4. bundle \in Nat /\ bundle <= Len(Bundles) /\ Len(Bundles) \in Nat /\ bundle >= 1
  BY <1>2, BundleFacts DEF RunTypes
<1>5. RecordSound' /\ ThreadsSound'
  BY <1>1, <1>2, <1>3, SameRecord, IdleSound
<1>6. CASE bundle < Len(Bundles)
  <2>1. /\ bundle' = bundle + 1 /\ main' = "bundle"
        /\ future' = [i \in DOMAIN Bundles[bundle + 1] |-> "pending"]
        /\ bundle' \in DOMAIN Bundles
        /\ Tasks' = DOMAIN Bundles[bundle + 1]
        /\ \A i \in Tasks' : future'[i] = "pending"
    <3>1. bundle' = bundle + 1 /\ bundle + 1 \in DOMAIN Bundles
      BY <1>1, <1>4, <1>6, BundleFacts
    <3> QED
      BY <1>1, <1>6, <3>1 DEF Tasks
  <2>2. RunTypes'
    BY <1>1, <1>2, <2>1 DEF RunTypes
  <2>3. PoolTypes'
    BY <1>1, <1>2, <2>1 DEF PoolTypes, Futures
  <2>4. BundleSound'
    BY <1>1, <1>3, <2>1 DEF BundleSound
  <2>5. Counted' = Counted
    <3>1. Counted' = {r \in Rows : \E b \in DOMAIN Bundles : b < bundle + 1 /\ r \in ToSet(Bundles[b])}
      BY <1>1, <1>3, <2>1 DEF Counted
    <3>2. Counted = {r \in Rows :
                       \/ \E b \in DOMAIN Bundles : b < bundle /\ r \in ToSet(Bundles[b])
                       \/ \E i \in Tasks : r = Bundles[bundle][i]}
      BY <1>3 DEF Counted
    <3>3. \A r : (\E i \in Tasks : r = Bundles[bundle][i]) <=> r \in ToSet(Bundles[bundle])
      BY DEF Tasks, ToSet
    <3>4. \A b \in DOMAIN Bundles : b < bundle + 1 <=> (b < bundle \/ b = bundle)
      BY <1>4, BundleFacts
    <3>5. bundle \in DOMAIN Bundles
      BY <1>2 DEF RunTypes
    <3> QED
      BY <3>1, <3>2, <3>3, <3>4, <3>5
  <2>6. NothingLost'
    BY <1>1, <1>2, <2>5 DEF NothingLost
  <2>7. StoppedInTime'
    BY <1>1, <1>2 DEF StoppedInTime, Spent
  <2> QED
    BY <1>5, <2>2, <2>3, <2>4, <2>6, <2>7 DEF RowInv
<1>7. CASE ~(bundle < Len(Bundles))
  <2>1. main' = "end" /\ UNCHANGED <<bundle, future>> /\ bundle = Len(Bundles)
    BY <1>1, <1>4, <1>7
  <2>2. RunTypes'
    BY <1>1, <1>2, <2>1 DEF RunTypes
  <2>3. PoolTypes' /\ Tasks' = Tasks /\ NothingLost'
    BY <1>1, <1>2, <2>1, SamePool, SameProgress
  <2>4. BundleSound'
    BY <1>1, <1>3, <2>1, <2>3 DEF BundleSound
  <2>5. StoppedInTime'
    BY <1>1, <1>2 DEF StoppedInTime, Spent
  <2> QED
    BY <1>5, <2>2, <2>3, <2>4, <2>5 DEF RowInv
<1> QED
  BY <1>6, <1>7

\* The record of a run that is done: every row is there, and was counted once.
LEMMA DoneInv ==
  ASSUME RowInv, Done
  PROVE  RowInv'
<1>1. /\ main = "end" /\ Exit /\ UNCHANGED <<row, events>>
      /\ record' = [record EXCEPT !.status = "done", !.counts = [ran |-> ran, skipped |-> skipped]]
  BY DEF Done, Finish
<1>2. RunTypes /\ BundleSound /\ NothingLost /\ RecordSound
  BY DEF RowInv
<1>3. /\ bundle = Len(Bundles) /\ \A i \in Tasks : future[i] = "collected"
      /\ ~stop
  BY <1>1, <1>2 DEF BundleSound
<1>4. Counted = Rows
  <2>1. SUFFICES ASSUME NEW r \in Rows
                 PROVE  r \in Counted
    BY DEF Counted
  <2>2. PICK b \in DOMAIN Bundles : r \in ToSet(Bundles[b])
    BY BundleFacts
  <2>3. CASE b < bundle
    BY <2>2, <2>3 DEF Counted
  <2>4. CASE b = bundle
    <3>1. PICK i \in Tasks : r = Bundles[bundle][i]
      BY <2>2, <2>4, BundleFacts DEF Tasks
    <3> QED
      BY <1>3, <3>1 DEF Counted
  <2> QED
    BY <1>3, <2>2, <2>3, <2>4, BundleFacts
<1>5. /\ \A r \in Rows : row[r] # None
      /\ ran + skipped = Cardinality(Rows)
      /\ ran \in Nat /\ skipped \in Nat
  BY <1>2, <1>3, <1>4 DEF NothingLost, RunTypes
<1>6. record \in RunRecord /\ record # None
  BY <1>1, <1>2, Something DEF RunTypes
<1>7. /\ record' \in RunRecord
      /\ record'.written = record.written
      /\ record'.counts = [ran |-> ran, skipped |-> skipped]
  <2>1. [ran |-> ran, skipped |-> skipped] \in [ran : Nat, skipped : Nat]
    BY <1>5
  <2> QED
    BY <1>1, <1>6, <2>1 DEF RunRecord
<1>8. record'.counts.ran + record'.counts.skipped = Cardinality(Rows)
  BY <1>5, <1>7
<1>9. RecordSound'
  BY <1>1, <1>2, <1>5, <1>6, <1>7, <1>8 DEF RecordSound, RecordedRowsExist, DoneMeansAll
<1> QED
  BY <1>1, <1>2, <1>7, <1>9, ExitInv DEF RunTypes

\* Killed, with the run record perhaps half written.
LEMMA KillInv ==
  ASSUME RowInv, Kill
  PROVE  RowInv'
<1>1. Exit /\ UNCHANGED <<row, events>> /\ (UNCHANGED record \/ record' = None)
  BY DEF Kill
<1>2. RunTypes /\ RecordSound
  BY DEF RowInv
<1>3. record' \in RunRecord \cup {None} /\ RecordSound'
  BY <1>1, <1>2, SameRecord DEF RunTypes, RecordSound, RecordedRowsExist, DoneMeansAll
<1> QED
  BY <1>1, <1>2, <1>3, ExitInv DEF RunTypes

LEMMA CtrlCInv ==
  ASSUME RowInv, CtrlC
  PROVE  RowInv'
<1>1. /\ main \in {"bundle", "collect"} /\ UNCHANGED <<row, events>>
      /\ RunTypes /\ PoolTypes /\ ThreadsSound /\ BundleSound /\ NothingLost /\ StoppedInTime
      /\ RecordSound
  BY DEF CtrlC, RowInv
<1>2. CASE Finish("interrupted", None) /\ Exit
  <2>1. record' \in RunRecord \cup {None} /\ RecordSound'
    BY <1>1, <1>2, Finished
  <2> QED
    BY <1>1, <1>2, <2>1, ExitInv DEF RunTypes
<1>3. CASE /\ main = "collect" /\ main' = "shutdown"
           /\ UNCHANGED <<record, workers, stopAfter, bundle, raised, interrupted, future>>
           /\ UNCHANGED <<stop, ran, skipped, place, task>>
  <2>1. RunTypes'
    BY <1>1, <1>3 DEF RunTypes
  <2>2. /\ PoolTypes' /\ Tasks' = Tasks /\ NothingLost' /\ RecordSound'
        /\ \A p : Row(p)' = Row(p)
    BY <1>1, <1>3, SamePool, SameProgress, SameRecord
  <2>3. ThreadsSound'
    BY <1>1, <1>3, <2>2 DEF ThreadsSound
  <2>4. BundleSound'
    BY <1>1, <1>3, <2>2 DEF BundleSound
  <2>5. StoppedInTime'
    BY <1>1, <1>3 DEF StoppedInTime, Spent
  <2> QED
    BY <2>1, <2>2, <2>3, <2>4, <2>5 DEF RowInv
<1>4. CASE /\ main = "collect" /\ UNCHANGED main
           /\ \E i \in Ready : future' = [future EXCEPT ![i] = "collected"]
           /\ stop' = TRUE
           /\ raised' = IF raised = None THEN "interrupt" ELSE raised
           /\ UNCHANGED <<record, workers, stopAfter, bundle, interrupted, ran, skipped>>
           /\ UNCHANGED <<place, task>>
  <2>1. PICK i \in Ready : future' = [future EXCEPT ![i] = "collected"]
    BY <1>4
  <2>2. /\ i \in Tasks /\ future[i] # "running"
        /\ future \in [Tasks -> Futures]
        /\ Tasks' = Tasks /\ \A p : Row(p)' = Row(p)
    BY <1>1, <1>4 DEF Ready, PoolTypes, Tasks, Row
  <2>3. /\ future' \in [Tasks -> Futures]
        /\ \A k \in Tasks : k # i => future'[k] = future[k]
    BY <2>1, <2>2 DEF Futures
  <2>4. raised' \in Trouble /\ raised' # None
    BY <1>1, <1>4, Something DEF RunTypes, Trouble
  <2>5. RunTypes'
    <3>1. stop' \in BOOLEAN
      BY <1>4
    <3> QED
      BY <1>1, <1>4, <2>4, <3>1 DEF RunTypes
  <2>6. PoolTypes'
    BY <1>1, <1>4, <2>2, <2>3 DEF PoolTypes
  <2>7. ThreadsSound'
    <3>1. \A p \in Threads : place[p] # "idle" => task[p] # i
      BY <1>1, <2>2 DEF ThreadsSound
    <3> QED
      BY <1>1, <1>4, <2>2, <2>3, <3>1 DEF ThreadsSound
  <2>8. BundleSound'
    BY <1>1, <1>4, <2>4 DEF BundleSound
  <2>9. NothingLost' /\ RecordSound'
    BY <1>1, <1>4, SameRecord DEF NothingLost
  <2>10. StoppedInTime'
    <3>1. Spent \subseteq Spent'
      BY <1>4 DEF Spent
    <3> QED
      BY <1>1, <1>4, <2>5, <3>1, SpentGrows
  <2> QED
    BY <2>5, <2>6, <2>7, <2>8, <2>9, <2>10 DEF RowInv
<1> QED
  BY <1>2, <1>3, <1>4 DEF CtrlC, argVars, sharedVars, threadVars

-----------------------------------------------------------------------------
(* One step of a thread: it goes on with its task, or is done with it. *)

LEMMA WentOn ==
  ASSUME RowInv, NEW p \in Threads, place[p] # "idle", NEW there \in Places \ {"idle"},
         GoTo(p, there), UNCHANGED <<row, main, bundle, workers, task, future>>,
         there \in Starting => row[Row(p)] = None,
         there \in {"count", "reached"} => row[Row(p)] # None
  PROVE  /\ PoolTypes' /\ ThreadsSound'
         /\ Tasks' = Tasks /\ \A q \in Threads : Row(q)' = Row(q)
         /\ place'[p] = there /\ \A q \in Threads : q # p => place'[q] = place[q]
<1>1. PoolTypes /\ ThreadsSound
  BY DEF RowInv
<1>2. /\ place' \in [Threads -> Places]
      /\ place'[p] = there /\ \A q \in Threads : q # p => place'[q] = place[q]
  BY <1>1 DEF GoTo, PoolTypes
<1>3. Tasks' = Tasks /\ \A q \in Threads : Row(q)' = Row(q)
  BY DEF Tasks, Row
<1>4. PoolTypes'
  BY <1>1, <1>2, <1>3 DEF PoolTypes
<1>5. ThreadsSound'
  BY <1>1, <1>2, <1>3 DEF ThreadsSound
<1> QED
  BY <1>2, <1>3, <1>4, <1>5

LEMMA Yielded ==
  ASSUME RowInv, NEW p \in Threads, place[p] # "idle",
         NEW result \in {"ok", "interrupted", "refused", "error"}, Yield(p, result),
         UNCHANGED <<row, main, bundle, workers>>
  PROVE  /\ PoolTypes' /\ ThreadsSound'
         /\ Tasks' = Tasks /\ \A q \in Threads : q # p => Row(q)' = Row(q)
         /\ place'[p] = "idle" /\ \A q \in Threads : q # p => place'[q] = place[q]
         /\ task[p] \in Tasks /\ future'[task[p]] = result
         /\ \A i \in Tasks : i # task[p] => future'[i] = future[i]
<1>1. PoolTypes /\ ThreadsSound /\ RunTypes
  BY DEF RowInv
<1>2. /\ place' = [place EXCEPT ![p] = "idle"] /\ task' = [task EXCEPT ![p] = 0]
      /\ future' = [future EXCEPT ![task[p]] = result]
  BY DEF Yield, GoTo
<1>3. /\ place' \in [Threads -> Places] /\ task' \in [Threads -> Nat]
      /\ place'[p] = "idle" /\ task'[p] = 0
      /\ \A q \in Threads : q # p => place'[q] = place[q] /\ task'[q] = task[q]
  BY <1>1, <1>2 DEF PoolTypes, Places
<1>4. task[p] \in Tasks /\ task[p] # 0
  BY <1>1, RowFacts
<1>5. /\ future' \in [Tasks -> Futures] /\ future'[task[p]] = result
      /\ \A i \in Tasks : i # task[p] => future'[i] = future[i]
  BY <1>1, <1>2, <1>4 DEF PoolTypes, Futures
<1>6. Tasks' = Tasks /\ \A q \in Threads : q # p => Row(q)' = Row(q)
  BY <1>3 DEF Tasks, Row
<1>7. PoolTypes'
  BY <1>3, <1>5, <1>6 DEF PoolTypes
<1>8. ThreadsSound'
  <2>1. ASSUME NEW q \in Threads
        PROVE  /\ place'[q] = "idle" => task'[q] = 0
               /\ place'[q] # "idle" =>
                    /\ main' \in {"collect", "shutdown"} /\ q <= workers'
                    /\ task'[q] \in Tasks' /\ future'[task'[q]] = "running"
               /\ place'[q] \in Starting => row'[Row(q)'] = None
               /\ place'[q] \in {"count", "reached"} => row'[Row(q)'] # None
    <3>1. CASE q = p
      BY <1>3, <3>1 DEF Starting
    <3>2. CASE q # p
      <4>1. /\ place[q] = "idle" => task[q] = 0
            /\ place[q] # "idle" =>
                 /\ main \in {"collect", "shutdown"} /\ q <= workers
                 /\ task[q] \in Tasks /\ future[task[q]] = "running"
            /\ place[q] \in Starting => row[Row(q)] = None
            /\ place[q] \in {"count", "reached"} => row[Row(q)] # None
        BY <1>1 DEF ThreadsSound
      <4>2. place[q] # "idle" => task[q] # task[p]
        <5>1. task[p] # 0 => task[p] # task[q]
          BY <1>1, <3>2 DEF ThreadsSound
        <5> QED
          BY <1>4, <5>1
      <4>3. /\ place'[q] = place[q] /\ task'[q] = task[q] /\ Row(q)' = Row(q)
        BY <1>3, <1>6, <3>2
      <4>4. place[q] # "idle" => future'[task[q]] = "running"
        BY <1>5, <4>1, <4>2
      <4>5. UNCHANGED <<main, workers, row>> /\ Tasks' = Tasks
        BY <1>6
      <4> QED
        BY <4>1, <4>3, <4>4, <4>5
    <3> QED
      BY <3>1, <3>2
  <2>2. \A q, s \in Threads : q # s /\ task'[q] # 0 => task'[q] # task'[s]
    <3>1. \A q, s \in Threads : q # s /\ task[q] # 0 => task[q] # task[s]
      BY <1>1 DEF ThreadsSound
    <3>2. \A q \in Threads : task'[q] = IF q = p THEN 0 ELSE task[q]
      BY <1>3
    <3> QED
      BY <3>1, <3>2
  <2> QED
    BY <2>1, <2>2 DEF ThreadsSound
<1> QED
  BY <1>3, <1>4, <1>5, <1>6, <1>7, <1>8

\* A task that is under way has not been counted.
LEMMA NotCounted ==
  ASSUME RowInv, NEW p \in Threads, place[p] \notin {"idle", "reached"}
  PROVE  Row(p) \in Rows /\ Row(p) \notin Counted
<1>1. /\ RunTypes /\ PoolTypes /\ ThreadsSound /\ bundle \in DOMAIN Bundles
  BY DEF RowInv, RunTypes
<1>2. /\ task[p] \in Tasks /\ Row(p) \in Rows /\ Row(p) = Bundles[bundle][task[p]]
      /\ future[task[p]] = "running"
  BY <1>1, RowFacts DEF ThreadsSound, Row
<1>3. Row(p) \in ToSet(Bundles[bundle])
  BY <1>1, <1>2, BundleFacts DEF Tasks
<1>4. ~\E b \in DOMAIN Bundles : b < bundle /\ Row(p) \in ToSet(Bundles[b])
  <2>1. \A b \in DOMAIN Bundles : b < bundle => b # bundle
    BY <1>1, BundleFacts
  <2> QED
    BY <1>1, <1>3, <2>1, BundleFacts
<1>5. ~\E i \in Tasks : future[i] \in {"ok", "collected"} /\ Row(p) = Bundles[bundle][i]
  BY <1>1, <1>2, RowFacts
<1>6. ~\E q \in Threads : place[q] = "reached" /\ Row(p) = Row(q)
  BY <1>1, RowFacts
<1> QED
  BY <1>2, <1>4, <1>5, <1>6 DEF Counted

\* What is counted stays as it is, or has one row more.
LEMMA CountedOnce ==
  ASSUME NothingLost, NEW r \in Rows, r \notin Counted,
         ~stop => Counted' = Counted \cup {r}, stop => stop',
         ran \in Nat, skipped \in Nat, ran' + skipped' = ran + skipped + 1,
         row'[r] # None, \A s \in Rows : row[s] # None => row'[s] # None
  PROVE  NothingLost'
<1> SUFFICES ASSUME ~stop'
             PROVE  /\ IsFiniteSet(Counted')
                    /\ ran' + skipped' = Cardinality(Counted')
                    /\ \A s \in Counted' : row'[s] # None
  BY DEF NothingLost
<1>1. /\ ~stop /\ IsFiniteSet(Counted) /\ ran + skipped = Cardinality(Counted)
      /\ \A s \in Counted : row[s] # None
      /\ Counted' = Counted \cup {r}
  BY DEF NothingLost
<1>2. PICK S : S = Counted
  OBVIOUS
<1>3. IsFiniteSet(S \cup {r}) /\ Cardinality(S \cup {r}) = Cardinality(S) + 1
  BY <1>1, <1>2, FS_AddElement
<1>4. \A s \in Counted : s \in Rows
  BY DEF Counted
<1> QED
  BY <1>1, <1>2, <1>3, <1>4

LEMMA CountedSame ==
  ASSUME NothingLost, ~stop => Counted' = Counted, stop => stop',
         UNCHANGED <<ran, skipped>>, \A s \in Rows : row[s] # None => row'[s] # None
  PROVE  NothingLost'
<1>1. \A s \in Counted : s \in Rows
  BY DEF Counted
<1> QED
  BY <1>1 DEF NothingLost

\* The main thread is where it was, and nobody was interrupted.
LEMMA SameBundle ==
  ASSUME RowInv, main \in {"collect", "shutdown"},
         UNCHANGED <<main, raised, interrupted, stop>>, Tasks' = Tasks,
         \A i \in Tasks : future'[i] = "interrupted" <=> future[i] = "interrupted"
  PROVE  BundleSound'
BY DEF RowInv, BundleSound

\* A thread goes on with its case.
LEMMA OnwardInv ==
  ASSUME RowInv, NEW p \in Threads, place[p] \in {"begin"} \cup Starting,
         NEW there \in Starting, GoTo(p, there), row[Row(p)] = None,
         place[p] = "begin" => ~stop,
         UNCHANGED <<row, record, main, bundle, workers, stopAfter, raised, interrupted>>,
         UNCHANGED <<task, future, stop, ran, skipped>>, events' \in 0 .. MaxEvents
  PROVE  RowInv'
<1>1. /\ RunTypes /\ PoolTypes /\ ThreadsSound /\ NothingLost /\ StoppedInTime /\ RecordSound
      /\ main \in {"collect", "shutdown"}
  BY DEF RowInv, ThreadsSound, Starting
<1>2. place[p] \notin {"idle", "reached", "count"} /\ there \notin {"idle", "reached", "count"}
      /\ there \in Places
  BY DEF Starting, Places, Working
<1>3. /\ PoolTypes' /\ ThreadsSound'
      /\ Tasks' = Tasks /\ \A q \in Threads : Row(q)' = Row(q)
      /\ place'[p] = there /\ \A q \in Threads : q # p => place'[q] = place[q]
  BY <1>2, WentOn
<1>4. RunTypes'
  BY <1>1 DEF RunTypes
<1>5. BundleSound'
  BY <1>1, <1>3, SameBundle
<1>6. Counted' = Counted
  <2>1. \A q \in Threads : place'[q] = "reached" <=> place[q] = "reached"
    BY <1>2, <1>3
  <2> QED
    BY <1>3, <2>1 DEF Counted
<1>7. Spent \subseteq Spent'
  <2>1. p \notin Spent
    BY <1>2 DEF Spent, Working, Starting
  <2> QED
    BY <1>3, <2>1 DEF Spent
<1>8. NothingLost' /\ StoppedInTime' /\ RecordSound'
  BY <1>1, <1>4, <1>6, <1>7, CountedSame, SpentGrows, SameRecord
<1> QED
  BY <1>3, <1>4, <1>5, <1>8 DEF RowInv

\* A task ends without a row of its own.
LEMMA GaveUpInv ==
  ASSUME RowInv, NEW p \in Threads, place[p] \notin {"idle", "reached"},
         NEW result \in {"ok", "refused", "error"}, Yield(p, result),
         result = "ok" => stop,
         UNCHANGED <<row, record, main, bundle, workers, stopAfter, raised, interrupted>>,
         UNCHANGED <<stop, ran, skipped>>, events' \in 0 .. MaxEvents
  PROVE  RowInv'
<1>1. /\ RunTypes /\ PoolTypes /\ ThreadsSound /\ NothingLost /\ StoppedInTime /\ RecordSound
      /\ main \in {"collect", "shutdown"} /\ future[task[p]] = "running"
  BY DEF RowInv, ThreadsSound
<1>2. /\ PoolTypes' /\ ThreadsSound'
      /\ Tasks' = Tasks /\ \A q \in Threads : q # p => Row(q)' = Row(q)
      /\ place'[p] = "idle" /\ \A q \in Threads : q # p => place'[q] = place[q]
      /\ task[p] \in Tasks /\ future'[task[p]] = result
      /\ \A i \in Tasks : i # task[p] => future'[i] = future[i]
  BY Yielded
<1>3. RunTypes'
  BY <1>1 DEF RunTypes
<1>4. BundleSound'
  <2>1. \A i \in Tasks : future'[i] = "interrupted" <=> future[i] = "interrupted"
    BY <1>1, <1>2
  <2> QED
    BY <1>1, <1>2, <2>1, SameBundle
<1>5. ~stop => Counted' = Counted
  <2> SUFFICES ASSUME ~stop
               PROVE  Counted' = Counted
    OBVIOUS
  <2>1. \A i \in Tasks : future'[i] \in {"ok", "collected"} <=> future[i] \in {"ok", "collected"}
    BY <1>1, <1>2
  <2>2. \A q \in Threads :
          /\ place'[q] = "reached" <=> place[q] = "reached"
          /\ place[q] = "reached" => Row(q)' = Row(q)
    BY <1>2
  <2> QED
    BY <1>2, <2>1, <2>2 DEF Counted
<1>6. Spent \subseteq Spent'
  BY <1>2 DEF Spent, Working, Starting
<1>7. NothingLost' /\ StoppedInTime' /\ RecordSound'
  BY <1>1, <1>3, <1>5, <1>6, CountedSame, SpentGrows, SameRecord
<1> QED
  BY <1>2, <1>3, <1>4, <1>7 DEF RowInv

\* A free thread takes a task.
LEMMA TakeInv ==
  ASSUME RowInv, NEW p \in Threads, Take(p)
  PROVE  RowInv'
<1>1. /\ main \in {"collect", "shutdown"} /\ p <= workers /\ place[p] = "idle"
      /\ place' = [place EXCEPT ![p] = "begin"]
      /\ UNCHANGED <<row, record, events, main, bundle, workers, stopAfter>>
      /\ UNCHANGED <<raised, interrupted, stop, ran, skipped>>
  BY DEF Take, At, GoTo, diskVars, mainVars, argVars, sharedVars
<1>2. PICK i \in Tasks : /\ future[i] = "pending"
                         /\ task' = [task EXCEPT ![p] = i]
                         /\ future' = [future EXCEPT ![i] = "running"]
  BY DEF Take
<1>3. RunTypes /\ PoolTypes /\ ThreadsSound /\ NothingLost /\ StoppedInTime /\ RecordSound
  BY DEF RowInv
<1>4. /\ i \in Nat \ {0} /\ task[p] = 0
  BY <1>1, <1>3, RowFacts DEF ThreadsSound
<1>5. /\ place' \in [Threads -> Places] /\ task' \in [Threads -> Nat]
      /\ future' \in [Tasks -> Futures]
      /\ place'[p] = "begin" /\ task'[p] = i /\ future'[i] = "running"
      /\ \A q \in Threads : q # p => place'[q] = place[q] /\ task'[q] = task[q]
      /\ \A k \in Tasks : k # i => future'[k] = future[k]
  BY <1>1, <1>2, <1>3, <1>4 DEF PoolTypes, Places, Futures
<1>6. Tasks' = Tasks /\ \A q \in Threads : q # p => Row(q)' = Row(q)
  BY <1>1, <1>5 DEF Tasks, Row
<1>7. RunTypes' /\ PoolTypes'
  BY <1>1, <1>3, <1>5, <1>6 DEF RunTypes, PoolTypes
<1>8. \A q \in Threads : q # p => task[q] # i
  <2>1. \A q \in Threads : place[q] # "idle" => task[q] # i
    BY <1>2, <1>3 DEF ThreadsSound
  <2> QED
    BY <1>3, <1>4, <2>1 DEF ThreadsSound
<1>9. ThreadsSound'
  <2>1. ASSUME NEW q \in Threads
        PROVE  /\ place'[q] = "idle" => task'[q] = 0
               /\ place'[q] # "idle" =>
                    /\ main' \in {"collect", "shutdown"} /\ q <= workers'
                    /\ task'[q] \in Tasks' /\ future'[task'[q]] = "running"
               /\ place'[q] \in Starting => row'[Row(q)'] = None
               /\ place'[q] \in {"count", "reached"} => row'[Row(q)'] # None
    <3>1. CASE q = p
      BY <1>1, <1>5, <1>6, <3>1 DEF Starting
    <3>2. CASE q # p
      <4>1. /\ place[q] = "idle" => task[q] = 0
            /\ place[q] # "idle" =>
                 /\ main \in {"collect", "shutdown"} /\ q <= workers
                 /\ task[q] \in Tasks /\ future[task[q]] = "running"
            /\ place[q] \in Starting => row[Row(q)] = None
            /\ place[q] \in {"count", "reached"} => row[Row(q)] # None
        BY <1>3 DEF ThreadsSound
      <4>2. place'[q] = place[q] /\ task'[q] = task[q] /\ Row(q)' = Row(q)
        BY <1>5, <1>6, <3>2
      <4>3. place[q] # "idle" => future'[task[q]] = "running"
        BY <1>5, <1>8, <3>2, <4>1
      <4> QED
        BY <1>1, <1>6, <4>1, <4>2, <4>3
    <3> QED
      BY <3>1, <3>2
  <2>2. \A q, s \in Threads : q # s /\ task'[q] # 0 => task'[q] # task'[s]
    <3>1. \A q, s \in Threads : q # s /\ task[q] # 0 => task[q] # task[s]
      BY <1>3 DEF ThreadsSound
    <3>2. \A q \in Threads : task'[q] = IF q = p THEN i ELSE task[q]
      BY <1>5
    <3> QED
      BY <1>8, <3>1, <3>2
  <2> QED
    BY <2>1, <2>2 DEF ThreadsSound
<1>10. BundleSound'
  <2>1. \A k \in Tasks : future'[k] = "interrupted" <=> future[k] = "interrupted"
    BY <1>2, <1>5
  <2> QED
    BY <1>1, <1>6, <2>1, SameBundle
<1>11. Counted' = Counted
  <2>1. \A k \in Tasks : future'[k] \in {"ok", "collected"} <=> future[k] \in {"ok", "collected"}
    BY <1>2, <1>5
  <2>2. \A q \in Threads :
          /\ place'[q] = "reached" <=> place[q] = "reached"
          /\ place[q] = "reached" => Row(q)' = Row(q)
    BY <1>1, <1>5, <1>6
  <2> QED
    BY <1>1, <1>6, <2>1, <2>2 DEF Counted
<1>12. Spent \subseteq Spent'
  BY <1>1, <1>5 DEF Spent, Working, Starting
<1>13. NothingLost' /\ StoppedInTime' /\ RecordSound'
  BY <1>1, <1>3, <1>7, <1>11, <1>12, CountedSame, SpentGrows, SameRecord
<1> QED
  BY <1>7, <1>9, <1>10, <1>13 DEF RowInv

LEMMA CaseInv ==
  ASSUME RowInv, NEW p \in Threads,
         Start(p) \/ Guard(p) \/ Attach(p) \/ Send(p) \/ Answer(p) \/ EndCase(p)
  PROVE  RowInv'
<1>1. RunTypes /\ ThreadsSound
  BY DEF RowInv
<1>2. events \in 0 .. MaxEvents /\ MaxEvents \in Nat
  BY <1>1 DEF RunTypes, RunnerAssumption
<1>3. events' \in 0 .. MaxEvents
  BY <1>2 DEF Start, Guard, Attach, Send, Answer, EndCase, LowRam, diskVars
<1>4. /\ UNCHANGED <<row, record, main, bundle, workers, stopAfter, raised, interrupted>>
      /\ UNCHANGED <<task, future, stop, ran, skipped>>
  BY DEF Start, Guard, Attach, Send, Answer, EndCase, diskVars, mainVars, argVars, sharedVars
<1>5. /\ place[p] \in {"begin"} \cup Starting
      /\ place[p] = "begin" => ~stop /\ row[Row(p)] = None
      /\ \E there \in Starting : GoTo(p, there)
  BY DEF Start, Guard, Attach, Send, Answer, EndCase, At, Starting
<1>6. row[Row(p)] = None
  BY <1>1, <1>5 DEF ThreadsSound
<1>7. PICK there \in Starting : GoTo(p, there)
  BY <1>5
<1> QED
  BY <1>3, <1>4, <1>5, <1>6, <1>7, OnwardInv

LEMMA GaveUp ==
  ASSUME RowInv, NEW p \in Threads, PassBy(p) \/ GuardRefuses(p) \/ Fail(p)
  PROVE  RowInv'
<1>1. RunTypes
  BY DEF RowInv
<1>2. events \in 0 .. MaxEvents /\ MaxEvents \in Nat
  BY <1>1 DEF RunTypes, RunnerAssumption
<1>3. events' \in 0 .. MaxEvents
  BY <1>2 DEF PassBy, GuardRefuses, Fail, LowRam, diskVars
<1>4. /\ UNCHANGED <<row, record, main, bundle, workers, stopAfter, raised, interrupted>>
      /\ UNCHANGED <<stop, ran, skipped>>
  BY DEF PassBy, GuardRefuses, Fail, diskVars, mainVars, argVars, sharedVars
<1>5. /\ place[p] \notin {"idle", "reached"}
      /\ \/ stop /\ Yield(p, "ok")
         \/ Yield(p, "refused") \/ Yield(p, "error")
  BY DEF PassBy, GuardRefuses, Fail, At
<1>6. PICK result \in {"ok", "refused", "error"} : Yield(p, result) /\ (result = "ok" => stop)
  <2>1. CASE stop /\ Yield(p, "ok")
    BY <2>1
  <2>2. CASE Yield(p, "refused")
    BY <2>2
  <2>3. CASE Yield(p, "error")
    BY <2>3
  <2> QED
    BY <1>5, <2>1, <2>2, <2>3
<1> QED
  BY <1>3, <1>4, <1>5, <1>6, GaveUpInv

\* A task that ends well has its row counted.
LEMMA OneMore ==
  ASSUME RowInv, NEW p \in Threads, place[p] \notin {"idle", "reached"}, Yield(p, "ok"),
         UNCHANGED <<row, main, bundle, workers>>
  PROVE  Counted' = Counted \cup {Row(p)}
<1>1. /\ RunTypes /\ PoolTypes /\ ThreadsSound /\ future[task[p]] = "running"
  BY DEF RowInv, ThreadsSound
<1>2. /\ Tasks' = Tasks /\ \A q \in Threads : q # p => Row(q)' = Row(q)
      /\ place'[p] = "idle" /\ \A q \in Threads : q # p => place'[q] = place[q]
      /\ task[p] \in Tasks /\ future'[task[p]] = "ok"
      /\ \A i \in Tasks : i # task[p] => future'[i] = future[i]
  BY Yielded
<1>3. \A i \in Tasks : future'[i] \in {"ok", "collected"}
                         <=> i = task[p] \/ future[i] \in {"ok", "collected"}
  BY <1>1, <1>2
<1>4. \A q \in Threads :
        /\ place'[q] = "reached" <=> place[q] = "reached"
        /\ place[q] = "reached" => Row(q)' = Row(q)
  BY <1>2
<1>5. Row(p) = Bundles[bundle][task[p]] /\ Row(p) \in Rows
  BY <1>1, RowFacts DEF Row
<1>6. Counted' = {r \in Rows :
         \/ \E b \in DOMAIN Bundles : b < bundle /\ r \in ToSet(Bundles[b])
         \/ \E i \in Tasks : (i = task[p] \/ future[i] \in {"ok", "collected"}) /\ r = Bundles[bundle][i]
         \/ \E q \in Threads : place[q] = "reached" /\ r = Row(q)}
  BY <1>2, <1>3, <1>4 DEF Counted
<1> QED
  BY <1>2, <1>5, <1>6 DEF Counted

LEMMA SkipInv ==
  ASSUME RowInv, NEW p \in Threads, Skip(p)
  PROVE  RowInv'
<1>1. /\ place[p] = "begin" /\ ~stop /\ row[Row(p)] # None
      /\ skipped' = skipped + 1 /\ Yield(p, "ok")
      /\ UNCHANGED <<row, record, events, main, bundle, workers, stopAfter>>
      /\ UNCHANGED <<raised, interrupted, stop, ran>>
  BY DEF Skip, At, diskVars, mainVars, argVars
<1>2. /\ RunTypes /\ PoolTypes /\ ThreadsSound /\ NothingLost /\ StoppedInTime /\ RecordSound
      /\ main \in {"collect", "shutdown"} /\ future[task[p]] = "running"
  BY <1>1 DEF RowInv, ThreadsSound
<1>3. /\ PoolTypes' /\ ThreadsSound' /\ Tasks' = Tasks
      /\ place'[p] = "idle" /\ \A q \in Threads : q # p => place'[q] = place[q]
      /\ task[p] \in Tasks /\ future'[task[p]] = "ok"
      /\ \A i \in Tasks : i # task[p] => future'[i] = future[i]
  BY <1>1, Yielded
<1>4. RunTypes'
  BY <1>1, <1>2 DEF RunTypes
<1>5. BundleSound'
  <2>1. \A i \in Tasks : future'[i] = "interrupted" <=> future[i] = "interrupted"
    BY <1>2, <1>3
  <2> QED
    BY <1>1, <1>2, <1>3, <2>1, SameBundle
<1>6. NothingLost'
  <2>1. Counted' = Counted \cup {Row(p)} /\ Row(p) \in Rows /\ Row(p) \notin Counted
    BY <1>1, OneMore, NotCounted
  <2>2. ran \in Nat /\ skipped \in Nat /\ ran' + skipped' = ran + skipped + 1
    BY <1>1, <1>2 DEF RunTypes
  <2> QED
    BY <1>1, <1>2, <2>1, <2>2, CountedOnce
<1>7. Spent \subseteq Spent'
  BY <1>1, <1>3 DEF Spent
<1>8. StoppedInTime' /\ RecordSound'
  BY <1>1, <1>2, <1>4, <1>7, SpentGrows, SameRecord
<1> QED
  BY <1>3, <1>4, <1>5, <1>6, <1>8 DEF RowInv

\* The row appears.
LEMMA Written ==
  ASSUME RowInv, NEW p \in Threads, WriteRow(p)
  PROVE  /\ place[p] = "write" /\ row[Row(p)] = None /\ Row(p) \in Rows
         /\ row' \in [Rows -> Account \cup {None}] /\ row'[Row(p)] # None
         /\ \A r \in Rows : r # Row(p) => row'[r] = row[r]
<1>1. RunTypes /\ PoolTypes /\ ThreadsSound /\ place[p] = "write"
  BY DEF RowInv, WriteRow, At
<1>2. row[Row(p)] = None /\ Row(p) \in Rows
  BY <1>1, RowFacts DEF ThreadsSound, Starting
<1>3. PICK account \in Account : row' = [row EXCEPT ![Row(p)] = account]
  <2> DEFINE itsown == /\ draft[p] = [tokens |-> Own(p), requests |-> Own(p)]
                       /\ tokenLog[Client(p)] = Own(p)
  <2>1. row' = [row EXCEPT ![Row(p)] = IF itsown THEN "its own" ELSE "mixed up"]
    BY DEF WriteRow
  <2>2. CASE itsown
    BY <2>1, <2>2 DEF Account
  <2>3. CASE ~itsown
    BY <2>1, <2>3 DEF Account
  <2> QED
    BY <2>2, <2>3
<1>4. row \in [Rows -> Account \cup {None}]
  BY <1>1 DEF RunTypes
<1>5. account # None
  BY Something DEF Account
<1> QED
  BY <1>1, <1>2, <1>3, <1>4, <1>5

LEMMA WriteRowInv ==
  ASSUME RowInv, NEW p \in Threads, WriteRow(p)
  PROVE  RowInv'
<1>1. /\ place[p] = "write" /\ place' = [place EXCEPT ![p] = "count"]
      /\ UNCHANGED <<record, events, main, bundle, workers, stopAfter, raised, interrupted>>
      /\ UNCHANGED <<task, future, stop, ran, skipped>>
  BY DEF WriteRow, At, GoTo, mainVars, argVars, sharedVars
<1>2. /\ row[Row(p)] = None /\ Row(p) \in Rows
      /\ row' \in [Rows -> Account \cup {None}] /\ row'[Row(p)] # None
      /\ \A r \in Rows : r # Row(p) => row'[r] = row[r]
  BY Written
<1>3. /\ RunTypes /\ PoolTypes /\ ThreadsSound /\ BundleSound /\ NothingLost /\ StoppedInTime
      /\ RecordSound /\ main \in {"collect", "shutdown"}
  BY <1>1 DEF RowInv, ThreadsSound
<1>4. Tasks' = Tasks /\ \A q \in Threads : Row(q)' = Row(q)
  BY <1>1 DEF Tasks, Row
<1>5. /\ place' \in [Threads -> Places]
      /\ place'[p] = "count" /\ \A q \in Threads : q # p => place'[q] = place[q]
  BY <1>1, <1>3 DEF PoolTypes, Places, Working
<1>6. RunTypes' /\ PoolTypes'
  BY <1>1, <1>2, <1>3, <1>4, <1>5 DEF RunTypes, PoolTypes
<1>7. \A r \in Rows : row[r] # None => row'[r] # None
  BY <1>2
<1>8. ThreadsSound'
  <2>1. ASSUME NEW q \in Threads
        PROVE  /\ place'[q] = "idle" => task'[q] = 0
               /\ place'[q] # "idle" =>
                    /\ main' \in {"collect", "shutdown"} /\ q <= workers'
                    /\ task'[q] \in Tasks' /\ future'[task'[q]] = "running"
               /\ place'[q] \in Starting => row'[Row(q)'] = None
               /\ place'[q] \in {"count", "reached"} => row'[Row(q)'] # None
    <3>1. /\ place[q] = "idle" => task[q] = 0
          /\ place[q] # "idle" =>
               /\ main \in {"collect", "shutdown"} /\ q <= workers
               /\ task[q] \in Tasks /\ future[task[q]] = "running"
          /\ place[q] \in Starting => row[Row(q)] = None
          /\ place[q] \in {"count", "reached"} => row[Row(q)] # None
      BY <1>3 DEF ThreadsSound
    <3>2. CASE q = p
      BY <1>1, <1>2, <1>4, <1>5, <3>1, <3>2 DEF Starting
    <3>3. CASE q # p
      <4>1. place'[q] = place[q] /\ task'[q] = task[q] /\ Row(q)' = Row(q)
        BY <1>1, <1>4, <1>5, <3>3
      <4>2. place[q] # "idle" => Row(q) \in Rows /\ Row(q) # Row(p)
        BY <1>1, <1>3, <3>3, RowFacts
      <4>3. place[q] # "idle" => row'[Row(q)] = row[Row(q)]
        BY <1>2, <4>2
      <4> QED
        BY <1>1, <1>4, <3>1, <4>1, <4>3 DEF Starting
    <3> QED
      BY <3>2, <3>3
  <2>2. \A q, s \in Threads : q # s /\ task'[q] # 0 => task'[q] # task'[s]
    BY <1>1, <1>3 DEF ThreadsSound
  <2> QED
    BY <2>1, <2>2 DEF ThreadsSound
<1>9. BundleSound'
  BY <1>1, <1>3, <1>4, SameBundle
<1>10. Counted' = Counted
  <2>1. \A q \in Threads : place'[q] = "reached" <=> place[q] = "reached"
    BY <1>1, <1>5
  <2> QED
    BY <1>1, <1>4, <2>1 DEF Counted
<1>11. Spent \subseteq Spent'
  <2>1. p \notin Spent
    BY <1>1 DEF Spent, Working, Starting
  <2> QED
    BY <1>1, <1>5, <2>1 DEF Spent
<1>12. NothingLost' /\ StoppedInTime'
  BY <1>1, <1>3, <1>6, <1>7, <1>10, <1>11, CountedSame, SpentGrows
<1>13. RecordSound'
  <2>1. record # None => \A r \in record.written : r \in Rows
    BY <1>3 DEF RunTypes, RunRecord
  <2> QED
    BY <1>1, <1>3, <1>7, <2>1 DEF RecordSound, RecordedRowsExist, DoneMeansAll
<1> QED
  BY <1>6, <1>8, <1>9, <1>12, <1>13 DEF RowInv

\* A row that was just written is counted and recorded: if that was the last
\* one wanted, the thread is spent from now on.
LEMMA CountInv ==
  ASSUME RowInv, NEW p \in Threads, Count(p)
  PROVE  RowInv'
<1>1. /\ place[p] = "count" /\ ran' = ran + 1
      /\ record' = [record EXCEPT !.written = @ \cup {Row(p)}]
      /\ \/ Reached(ran + 1) /\ GoTo(p, "reached") /\ UNCHANGED <<future, task>>
         \/ ~Reached(ran + 1) /\ Yield(p, "ok")
      /\ UNCHANGED <<row, events, main, bundle, workers, stopAfter>>
      /\ UNCHANGED <<raised, interrupted, stop, skipped>>
  BY DEF Count, At, mainVars, argVars
<1>2. /\ RunTypes /\ PoolTypes /\ ThreadsSound /\ BundleSound /\ NothingLost /\ StoppedInTime
      /\ RecordSound
      /\ main \in {"collect", "shutdown"} /\ future[task[p]] = "running" /\ p <= workers
      /\ row[Row(p)] # None
  BY <1>1 DEF RowInv, ThreadsSound
<1>3. Row(p) \in Rows /\ Row(p) \notin Counted
  BY <1>1, NotCounted
<1>4. ran \in Nat /\ skipped \in Nat /\ ran' \in Nat /\ ran' + skipped' = ran + skipped + 1
  <2>1. ran \in Nat /\ skipped \in Nat
    BY <1>2 DEF RunTypes
  <2>2. ran' = ran + 1 /\ skipped' = skipped
    BY <1>1
  <2> QED
    BY <2>1, <2>2
<1>5. /\ record \in RunRecord /\ record # None /\ record' \in RunRecord
      /\ record'.written = record.written \cup {Row(p)}
      /\ record'.status = record.status /\ record'.counts = record.counts
  <2>1. record \in RunRecord /\ record # None
    BY <1>2, Something DEF RunTypes
  <2> QED
    BY <1>1, <1>3, <2>1 DEF RunRecord
<1>6. RunTypes'
  BY <1>1, <1>2, <1>4, <1>5 DEF RunTypes
<1>7. RecordSound'
  BY <1>1, <1>2, <1>5 DEF RecordSound, RecordedRowsExist, DoneMeansAll
<1>8. /\ PoolTypes' /\ ThreadsSound' /\ Tasks' = Tasks
      /\ \A q \in Threads : q # p => place'[q] = place[q]
      /\ \A i \in Tasks : future'[i] = "interrupted" <=> future[i] = "interrupted"
      /\ Counted' = Counted \cup {Row(p)}
      /\ Reached(ran + 1) => place'[p] = "reached"
  <2>1. CASE Reached(ran + 1) /\ GoTo(p, "reached") /\ UNCHANGED <<future, task>>
    <3>1. /\ PoolTypes' /\ ThreadsSound'
          /\ Tasks' = Tasks /\ \A q \in Threads : Row(q)' = Row(q)
          /\ place'[p] = "reached" /\ \A q \in Threads : q # p => place'[q] = place[q]
      <4>1. "reached" \in Places \ {"idle"}
        BY DEF Places
      <4> QED
        BY <1>1, <1>2, <2>1, <4>1, WentOn DEF Starting
    <3>2. Counted' = {r \in Rows :
             \/ \E b \in DOMAIN Bundles : b < bundle /\ r \in ToSet(Bundles[b])
             \/ \E i \in Tasks : future[i] \in {"ok", "collected"} /\ r = Bundles[bundle][i]
             \/ \E q \in Threads : (q = p \/ place[q] = "reached") /\ r = Row(q)}
      <4>1. \A q \in Threads : place'[q] = "reached" <=> (q = p \/ place[q] = "reached")
        BY <3>1
      <4> QED
        BY <1>1, <2>1, <3>1, <4>1 DEF Counted
    <3>3. Counted' = Counted \cup {Row(p)}
      BY <1>3, <3>2 DEF Counted
    <3> QED
      BY <2>1, <3>1, <3>3
  <2>2. CASE ~Reached(ran + 1) /\ Yield(p, "ok")
    <3>1. /\ PoolTypes' /\ ThreadsSound' /\ Tasks' = Tasks
          /\ \A q \in Threads : q # p => place'[q] = place[q]
          /\ task[p] \in Tasks /\ future'[task[p]] = "ok"
          /\ \A i \in Tasks : i # task[p] => future'[i] = future[i]
      BY <1>1, <2>2, Yielded
    <3>2. Counted' = Counted \cup {Row(p)}
      BY <1>1, <2>2, OneMore
    <3> QED
      BY <1>2, <2>2, <3>1, <3>2
  <2> QED
    BY <1>1, <2>1, <2>2
<1>9. BundleSound'
  BY <1>1, <1>2, <1>8, SameBundle
<1>10. NothingLost'
  BY <1>1, <1>2, <1>3, <1>4, <1>8, CountedOnce
<1>11. p \notin Spent /\ Spent \subseteq Spent'
  <2>1. p \notin Spent
    BY <1>1 DEF Spent, Working
  <2> QED
    BY <1>1, <1>8, <2>1 DEF Spent
<1>12. StoppedInTime'
  <2> SUFFICES ASSUME stopAfter # None
               PROVE  ran + 1 <= stopAfter - 1 + Cardinality(Spent')
    BY <1>1 DEF StoppedInTime
  <2>1. stopAfter \in Nat \ {0} /\ ran <= stopAfter - 1 + Cardinality(Spent)
    BY <1>2 DEF RunTypes, StoppedInTime
  <2>2. SpentCounts /\ SpentCounts'
    BY <1>2, <1>6, SpentTyped, PTL
  <2>3. /\ IsFiniteSet(Spent) /\ Cardinality(Spent) \in Nat
        /\ IsFiniteSet(Spent') /\ Cardinality(Spent') \in Nat
    BY <2>2 DEF SpentCounts
  <2>4. CASE Reached(ran + 1)
    <3>1. p \in Spent'
      BY <1>1, <1>2, <1>8, <2>4 DEF Spent
    <3>2. PICK S : S = Spent
      OBVIOUS
    <3>3. PICK T : T = Spent'
      OBVIOUS
    <3>4. Cardinality(S \cup {p}) = Cardinality(S) + 1
      BY <1>11, <2>3, <3>2, FS_AddElement
    <3>5. Cardinality(S \cup {p}) <= Cardinality(T)
      <4>1. IsFiniteSet(T) /\ S \cup {p} \in SUBSET T
        BY <1>11, <2>3, <3>1, <3>2, <3>3
      <4> QED
        BY <4>1, FS_Subset
    <3>6. Cardinality(Spent) + 1 <= Cardinality(Spent')
      BY <3>2, <3>3, <3>4, <3>5
    <3> QED
      BY <1>4, <2>1, <2>3, <3>6
  <2>5. CASE ~Reached(ran + 1)
    <3>1. ran + 1 < stopAfter
      BY <1>4, <2>1, <2>5 DEF Reached
    <3> QED
      BY <1>4, <2>1, <2>3, <3>1
  <2> QED
    BY <2>4, <2>5
<1> QED
  BY <1>6, <1>7, <1>8, <1>9, <1>10, <1>12 DEF RowInv

\* The thread that counted the last row wanted tells the others.
LEMMA StopAllInv ==
  ASSUME RowInv, NEW p \in Threads, StopAll(p)
  PROVE  RowInv'
<1>1. /\ place[p] = "reached" /\ stop' = TRUE /\ Yield(p, "interrupted")
      /\ UNCHANGED <<row, record, events, main, bundle, workers, stopAfter>>
      /\ UNCHANGED <<raised, interrupted, ran, skipped>>
  BY DEF StopAll, At, diskVars, mainVars, argVars
<1>2. /\ RunTypes /\ PoolTypes /\ ThreadsSound /\ BundleSound /\ StoppedInTime /\ RecordSound
      /\ main \in {"collect", "shutdown"}
  BY <1>1 DEF RowInv, ThreadsSound
<1>3. /\ PoolTypes' /\ ThreadsSound' /\ Tasks' = Tasks
      /\ place'[p] = "idle" /\ \A q \in Threads : q # p => place'[q] = place[q]
      /\ task[p] \in Tasks /\ future'[task[p]] = "interrupted"
  BY <1>1, Yielded
<1>4. RunTypes'
  <2>1. stop' \in BOOLEAN
    BY <1>1
  <2> QED
    BY <1>1, <1>2, <2>1 DEF RunTypes
<1>5. BundleSound'
  BY <1>1, <1>2, <1>3 DEF BundleSound
<1>6. NothingLost'
  BY <1>1 DEF NothingLost
<1>7. Spent \subseteq Spent'
  BY <1>1, <1>3 DEF Spent, Working, Starting
<1>8. StoppedInTime' /\ RecordSound'
  BY <1>1, <1>2, <1>4, <1>7, SpentGrows, SameRecord
<1> QED
  BY <1>3, <1>4, <1>5, <1>6, <1>8 DEF RowInv

-----------------------------------------------------------------------------
(* The specification. *)

LEMMA StepInv ==
  ASSUME RowInv, [RunnerNext]_runnerVars
  PROVE  RowInv'
<1>1. CASE Begin
  BY <1>1, BeginInv
<1>2. CASE MainStep
  <2>1. CASE OpenBundle
    BY <2>1, OpenBundleInv
  <2>2. CASE PoolRefused \/ Raise \/ ShutDown
    BY <2>2, EndedInv
  <2>3. CASE \E i \in Tasks : Collect(i)
    BY <2>3, CollectInv
  <2>4. CASE CloseBundle
    BY <2>4, CloseBundleInv
  <2>5. CASE Done
    BY <2>5, DoneInv
  <2> QED
    BY <1>2, <2>1, <2>2, <2>3, <2>4, <2>5 DEF MainStep
<1>3. CASE \E p \in Threads : ThreadStep(p)
  <2>1. PICK p \in Threads : ThreadStep(p)
    BY <1>3
  <2>2. CASE Take(p)
    BY <2>2, TakeInv
  <2>3. CASE Start(p) \/ Guard(p) \/ Attach(p) \/ Send(p) \/ Answer(p) \/ EndCase(p)
    BY <2>3, CaseInv
  <2>4. CASE PassBy(p) \/ GuardRefuses(p) \/ Fail(p)
    BY <2>4, GaveUp
  <2>5. CASE Skip(p)
    BY <2>5, SkipInv
  <2>6. CASE WriteRow(p)
    BY <2>6, WriteRowInv
  <2>7. CASE Count(p)
    BY <2>7, CountInv
  <2>8. CASE StopAll(p)
    BY <2>8, StopAllInv
  <2> QED
    BY <2>1, <2>2, <2>3, <2>4, <2>5, <2>6, <2>7, <2>8 DEF ThreadStep
<1>4. CASE CtrlC
  BY <1>4, CtrlCInv
<1>5. CASE Kill
  BY <1>5, KillInv
<1>6. CASE UNCHANGED runnerVars
  <2>1. /\ UNCHANGED <<row, record, events, main, bundle, workers, stopAfter>>
        /\ UNCHANGED <<raised, interrupted, stop, ran, skipped, future, place, task>>
    BY <1>6 DEF runnerVars, diskVars, mainVars, argVars, sharedVars, threadVars
  <2>2. /\ RunTypes /\ PoolTypes /\ ThreadsSound /\ BundleSound /\ NothingLost /\ StoppedInTime
        /\ RecordSound
    BY DEF RowInv
  <2>3. RunTypes'
    BY <2>1, <2>2 DEF RunTypes
  <2>4. /\ Tasks' = Tasks /\ \A p : Row(p)' = Row(p)
        /\ PoolTypes' /\ NothingLost' /\ RecordSound'
    BY <2>1, <2>2, SamePool, SameProgress, SameRecord
  <2>5. ThreadsSound' /\ BundleSound'
    BY <2>1, <2>2, <2>4 DEF ThreadsSound, BundleSound
  <2>6. StoppedInTime'
    BY <2>1, <2>2 DEF StoppedInTime, Spent
  <2> QED
    BY <2>3, <2>4, <2>5, <2>6 DEF RowInv
<1> QED
  BY <1>1, <1>2, <1>3, <1>4, <1>5, <1>6 DEF RunnerNext

\* Whatever the threads, the refusals and the interruptions do, a thread that
\* counts a row has just written it, and until the stop is announced every
\* task that is done is counted once.
THEOREM RowInvHolds == RunnerSpec => []RowInv
<1>1. RunnerInit => RowInv
  BY InitInv
<1>2. RowInv /\ [RunnerNext]_runnerVars => RowInv'
  BY StepInv
<1> QED
  BY <1>1, <1>2, PTL DEF RunnerSpec

\* The run record tells the truth at whatever point a run ends: it names only
\* rows that are on disk, it says `done' only of a run that wrote or skipped
\* every row it was asked for, each once; and a run asked to stop after n rows
\* (run_rows(stop_after=...)) writes at most one more for every other worker.
THEOREM RunRecordHolds == RunnerSpec => []RunRecordTrue
<1>1. RowInv => RunRecordTrue
  <2> SUFFICES ASSUME RowInv
               PROVE  RunRecordTrue
    OBVIOUS
  <2>1. RunTypes /\ PoolTypes /\ ThreadsSound /\ StoppedInTime /\ RecordSound
    BY DEF RowInv
  <2>2. RunnerTypeOK
    BY <2>1 DEF RunTypes, PoolTypes, ThreadsSound, Futures, RunnerTypeOK
  <2>3. OvershootBounded
    <3>1. /\ Cardinality(Spent) \in Nat /\ Cardinality(Spent) <= workers
          /\ workers \in Nat /\ ran \in Nat /\ stopAfter \in Nat \cup {None}
      BY <2>1, SpentFacts DEF RunTypes
    <3> QED
      BY <2>1, <3>1 DEF StoppedInTime, OvershootBounded
  <2> QED
    BY <2>1, <2>2, <2>3 DEF RunRecordTrue, RecordSound
<1> QED
  BY <1>1, RowInvHolds, PTL

\* Nothing but write_row touches the row files.
LEMMA OnlyWriteRow ==
  ASSUME RunnerNext
  PROVE  UNCHANGED row \/ \E p \in Threads : WriteRow(p)
<1>1. Begin \/ MainStep \/ CtrlC \/ Kill => UNCHANGED row
  BY DEF Begin, MainStep, OpenBundle, PoolRefused, Collect, CloseBundle, Done, Raise,
         ShutDown, CtrlC, Kill, diskVars
<1>2. ASSUME NEW p \in Threads, ThreadStep(p)
      PROVE  UNCHANGED row \/ WriteRow(p)
  BY <1>2 DEF ThreadStep, Take, PassBy, Start, Skip, Guard, GuardRefuses, Attach, Send,
              Answer, EndCase, Count, StopAll, Fail, diskVars
<1> QED
  BY <1>1, <1>2 DEF RunnerNext

\* A row that is on disk is never run again nor rewritten, by a thread of the
\* same invocation or of a later one.
THEOREM RowsStay == RunnerSpec => RowsAreFinal
<1>1. RowInv /\ [RunnerNext]_runnerVars =>
        [\A r \in Rows : row[r] # None => row'[r] = row[r]]_runnerVars
  <2> SUFFICES ASSUME RowInv, RunnerNext
               PROVE  \A r \in Rows : row[r] # None => row'[r] = row[r]
    OBVIOUS
  <2>1. CASE UNCHANGED row
    BY <2>1
  <2>2. CASE \E p \in Threads : WriteRow(p)
    BY <2>2, Written
  <2> QED
    BY <2>1, <2>2, OnlyWriteRow
<1> QED
  BY <1>1, RowInvHolds, PTL DEF RunnerSpec, RowsAreFinal

-----------------------------------------------------------------------------
(* One worker: the client serves one case after the other. *)

AloneInv == ClientTypes /\ AloneSound

LEMMA OneClient ==
  ASSUME RowInv, workers = 1, NEW p \in Threads, place[p] # "idle"
  PROVE  p = 1 /\ Client(p) = 0 /\ 0 \in Clients /\ Row(p) \in Rows
<1>1. RunTypes /\ PoolTypes /\ ThreadsSound
  BY DEF RowInv
<1>2. p <= workers
  BY <1>1 DEF ThreadsSound
<1>3. p = 1
  BY <1>2, ThreadFacts
<1>4. task[p] \in Nat \ {0} /\ Row(p) \in Rows
  BY <1>1, RowFacts DEF PoolTypes
<1>5. Client(p) = 0
  BY <1>4 DEF Client
<1>6. 0 \in Clients
  BY ThreadFacts DEF Clients
<1> QED
  BY <1>3, <1>4, <1>5, <1>6

LEMMA OneMoreCall ==
  ASSUME NEW n \in Nat, NEW r
  PROVE  Append([i \in 1 .. n |-> r], r) = [i \in 1 .. n + 1 |-> r]
<1> DEFINE s == [i \in 1 .. n |-> r]
<1>1. s \in Seq({r}) /\ Len(s) = n
  OBVIOUS
<1>2. /\ Append(s, r) \in Seq({r}) /\ Len(Append(s, r)) = n + 1
      /\ \A i \in 1 .. n + 1 : Append(s, r)[i] = r
  BY <1>1
<1>3. DOMAIN Append(s, r) = 1 .. n + 1
  BY <1>2
<1> QED
  BY <1>2, <1>3

\* The threads and their clients are left alone, or none is at work.
LEMMA LeftAlone ==
  ASSUME AloneInv, UNCHANGED <<place, task, made, draft, sink, tokenLog, measured>>,
         UNCHANGED <<bundle, workers>> \/ \A p \in Threads : place[p] = "idle"
  PROVE  AloneInv'
<1>1. ClientTypes'
  BY DEF AloneInv, ClientTypes
<1>2. CASE UNCHANGED <<bundle, workers>>
  <2>1. Row(1)' = Row(1) /\ Own(1)' = Own(1)
    BY <1>2 DEF Row, Own
  <2>2. AloneSound'
    BY <1>2, <2>1 DEF AloneInv, AloneSound
  <2> QED
    BY <1>1, <2>2 DEF AloneInv
<1>3. CASE \A p \in Threads : place[p] = "idle"
  <2>1. place'[1] = "idle"
    BY <1>3, ThreadFacts
  <2>2. AloneSound'
    BY <2>1 DEF AloneSound
  <2> QED
    BY <1>1, <2>2 DEF AloneInv
<1> QED
  BY <1>2, <1>3

LEMMA GoneAlone ==
  ASSUME Exit
  PROVE  AloneInv'
<1>1. /\ place' = [p \in Threads |-> "idle"] /\ made' = [p \in Threads |-> 0]
      /\ draft' = [p \in Threads |-> None]
      /\ sink' = [c \in Clients |-> None] /\ tokenLog' = [c \in Clients |-> <<>>]
      /\ measured' = [r \in Rows |-> <<>>]
  BY DEF Exit
<1>2. place'[1] = "idle"
  BY <1>1, ThreadFacts
<1> QED
  BY <1>1, <1>2 DEF AloneInv, ClientTypes, AloneSound

\* A thread whose task is over, or has yet to begin, owes its client nothing.
LEMMA BesideTheCase ==
  ASSUME RowInv, AloneInv, NEW p \in Threads, UNCHANGED workers,
         DOMAIN sink' = Clients, UNCHANGED tokenLog, DOMAIN measured' = Rows,
         DOMAIN draft' = Threads,
         place[p] # "idle" \/ p <= workers,
         NEW there \in {"idle", "begin", "guard", "attach", "count", "reached"},
         GoTo(p, there), NEW n \in Nat, made' = [made EXCEPT ![p] = n],
         there \in {"count", "reached"} \/ n = 0
  PROVE  AloneInv'
<1>1. RunTypes /\ PoolTypes /\ ThreadsSound
  BY DEF RowInv
<1>2. /\ place' = [place EXCEPT ![p] = there]
      /\ place'[p] = there /\ made'[p] = n
      /\ \A q \in Threads : q # p => place'[q] = place[q] /\ made'[q] = made[q]
      /\ made' \in [Threads -> Nat]
  BY <1>1 DEF GoTo, PoolTypes, AloneInv, ClientTypes
<1>3. ClientTypes'
  BY <1>2 DEF AloneInv, ClientTypes
<1>4. AloneSound'
  <2> SUFFICES ASSUME workers = 1
               PROVE  place'[1] = there
    BY DEF AloneSound
  <2>1. p = 1
    <3>1. p <= workers
      BY <1>1 DEF ThreadsSound
    <3> QED
      BY <3>1, ThreadFacts
  <2> QED
    BY <1>2, <2>1
<1> QED
  BY <1>3, <1>4 DEF AloneInv

\* A thread in the middle of its case.
LEMMA InTheCase ==
  ASSUME RowInv, AloneInv, NEW p \in Threads,
         Attach(p) \/ Send(p) \/ Answer(p) \/ EndCase(p)
  PROVE  AloneInv'
<1>1. RunTypes /\ PoolTypes /\ ThreadsSound /\ ClientTypes /\ AloneSound
  BY DEF RowInv, AloneInv
<1>2. /\ place[p] \in {"attach", "investigate", "waiting"}
      /\ \E there \in {"investigate", "waiting", "write"} : GoTo(p, there)
      /\ UNCHANGED <<bundle, workers, task>>
      /\ UNCHANGED made \/ made' = [made EXCEPT ![p] = @ + 1]
  BY DEF Attach, Send, Answer, EndCase, At, mainVars, argVars
<1>3. /\ place' \in [Threads -> Places] /\ made' \in [Threads -> Nat]
      /\ place'[p] \in {"investigate", "waiting", "write"}
      /\ \A q \in Threads : q # p => place'[q] = place[q] /\ made'[q] = made[q]
      /\ \A q : Row(q)' = Row(q)
  <2>1. PICK there \in {"investigate", "waiting", "write"} :
          place' = [place EXCEPT ![p] = there]
    BY <1>2 DEF GoTo
  <2>2. there \in Places
    BY DEF Places, Working, Starting
  <2>3. /\ place' \in [Threads -> Places] /\ place'[p] = there
        /\ \A q \in Threads : q # p => place'[q] = place[q]
    BY <1>1, <2>1, <2>2 DEF PoolTypes
  <2>4. made \in [Threads -> Nat] /\ made[p] \in Nat /\ made[p] + 1 \in Nat
    BY <1>1 DEF ClientTypes
  <2>5. made' \in [Threads -> Nat] /\ \A q \in Threads : q # p => made'[q] = made[q]
    BY <1>2, <2>4
  <2>6. \A q : Row(q)' = Row(q)
    BY <1>2 DEF Row
  <2> QED
    BY <2>3, <2>5, <2>6
<1>4. /\ DOMAIN sink' = Clients /\ DOMAIN tokenLog' = Clients
      /\ DOMAIN measured' = Rows /\ DOMAIN draft' = Threads
  BY <1>1 DEF Attach, Send, Answer, EndCase, ClientTypes
<1>5. ClientTypes'
  BY <1>1, <1>3, <1>4 DEF ClientTypes
<1>6. AloneSound'
  <2> SUFFICES ASSUME workers = 1
               PROVE  AloneSound'
    BY <1>2 DEF AloneSound
  <2>1. p = 1 /\ Client(1) = 0 /\ 0 \in Clients /\ Row(1) \in Rows /\ 1 \in Threads
    BY <1>2, OneClient, ThreadFacts
  <2>2. Row(1)' = Row(1)
    BY <1>3
  <2>3. CASE Attach(1)
    <3>1. /\ place'[1] = "investigate" /\ made'[1] = 0
          /\ sink'[0] = Row(1) /\ tokenLog'[0] = <<>> /\ measured'[Row(1)] = <<>>
      BY <1>1, <2>1, <2>3 DEF Attach, At, GoTo, PoolTypes, ClientTypes
    <3>2. Own(1)' = <<>>
      BY <3>1 DEF Own
    <3> QED
      BY <2>2, <3>1, <3>2 DEF AloneSound
  <2>4. CASE Send(1)
    <3>1. /\ sink[0] = Row(1) /\ Row(1) # None
          /\ tokenLog[0] = Own(1) /\ measured[Row(1)] = Own(1)
      BY <1>1, <2>1, <2>4, Something DEF AloneSound, Send, At
    <3>2. /\ place'[1] = "waiting" /\ UNCHANGED <<made, sink, tokenLog>>
          /\ measured' = [measured EXCEPT ![Row(1)] = Append(@, Row(1))]
      BY <1>1, <2>1, <2>4, <3>1 DEF Send, GoTo, PoolTypes
    <3>3. measured'[Row(1)] = Append(Own(1), Row(1))
      BY <1>1, <2>1, <3>1, <3>2 DEF ClientTypes
    <3>4. Own(1)' = Own(1)
      BY <2>2, <3>2 DEF Own
    <3> QED
      BY <2>2, <3>1, <3>2, <3>3, <3>4 DEF AloneSound
  <2>5. CASE Answer(1)
    <3>1. /\ sink[0] = Row(1) /\ tokenLog[0] = Own(1)
          /\ measured[Row(1)] = Append(Own(1), Row(1)) /\ made[1] \in Nat
      BY <1>1, <2>1, <2>5 DEF AloneSound, Answer, At, ClientTypes
    <3>2. /\ place'[1] = "investigate" /\ made'[1] = made[1] + 1
          /\ UNCHANGED <<sink, measured>>
          /\ tokenLog'[0] = Append(Own(1), Row(1))
      BY <1>1, <2>1, <2>5, <3>1 DEF Answer, GoTo, PoolTypes, ClientTypes
    <3>3. Own(1)' = Append(Own(1), Row(1))
      <4>1. Own(1)' = [i \in 1 .. made[1] + 1 |-> Row(1)]
        BY <2>2, <3>2 DEF Own
      <4>2. PICK n \in Nat : n = made[1]
        BY <3>1
      <4>3. PICK r : r = Row(1)
        OBVIOUS
      <4>4. Append([i \in 1 .. n |-> r], r) = [i \in 1 .. n + 1 |-> r]
        BY OneMoreCall
      <4> QED
        BY <4>1, <4>2, <4>3, <4>4 DEF Own
    <3> QED
      BY <2>2, <3>1, <3>2, <3>3 DEF AloneSound
  <2>6. CASE EndCase(1)
    <3>1. tokenLog[0] = Own(1) /\ measured[Row(1)] = Own(1)
      BY <1>1, <2>1, <2>6 DEF AloneSound, EndCase, At
    <3>2. /\ place'[1] = "write" /\ UNCHANGED <<made, tokenLog>>
          /\ draft'[1] = [tokens |-> Own(1), requests |-> Own(1)]
      BY <1>1, <2>1, <2>6, <3>1 DEF EndCase, GoTo, PoolTypes, ClientTypes
    <3>3. Own(1)' = Own(1)
      BY <2>2, <3>2 DEF Own
    <3> QED
      BY <2>2, <3>1, <3>2, <3>3 DEF AloneSound
  <2> QED
    BY <2>1, <2>3, <2>4, <2>5, <2>6
<1> QED
  BY <1>5, <1>6 DEF AloneInv

LEMMA ThreadAlone ==
  ASSUME RowInv, AloneInv, NEW p \in Threads, ThreadStep(p)
  PROVE  AloneInv'
<1>1. /\ ClientTypes /\ RunTypes /\ PoolTypes /\ ThreadsSound
      /\ UNCHANGED <<bundle, workers>>
      /\ made[p] \in Nat /\ made = [made EXCEPT ![p] = made[p]]
  <2>1. ClientTypes /\ RunTypes /\ PoolTypes /\ ThreadsSound
    BY DEF AloneInv, RowInv
  <2>2. UNCHANGED <<bundle, workers>>
    BY DEF ThreadStep, Take, PassBy, Start, Skip, Guard, GuardRefuses, Attach, Send, Answer,
           EndCase, WriteRow, Count, StopAll, Fail, mainVars, argVars
  <2>3. made[p] \in Nat /\ made = [made EXCEPT ![p] = made[p]]
    BY <2>1 DEF ClientTypes
  <2> QED
    BY <2>1, <2>2, <2>3
<1>2. CASE Take(p) \/ Start(p) \/ Guard(p)
  <2>1. /\ place[p] \in {"idle", "begin", "guard"} /\ p <= workers
        /\ \E there \in {"begin", "guard", "attach"} : GoTo(p, there)
        /\ UNCHANGED <<made, draft, sink, tokenLog, measured>>
    BY <1>1, <1>2 DEF Take, Start, Guard, At, clientVars, ThreadsSound
  <2>2. made[p] = 0
    BY <1>1, <2>1 DEF ClientTypes
  <2>3. /\ DOMAIN sink' = Clients /\ DOMAIN measured' = Rows /\ DOMAIN draft' = Threads
        /\ made' = [made EXCEPT ![p] = 0]
    BY <1>1, <2>1, <2>2 DEF ClientTypes
  <2>4. PICK there \in {"begin", "guard", "attach"} : GoTo(p, there)
    BY <2>1
  <2>5. PICK n \in Nat : n = 0
    OBVIOUS
  <2>6. made' = [made EXCEPT ![p] = n]
    BY <2>3, <2>5
  <2>7. /\ UNCHANGED workers /\ UNCHANGED tokenLog
        /\ there \in {"idle", "begin", "guard", "attach", "count", "reached"}
        /\ place[p] # "idle" \/ p <= workers
    BY <1>1, <2>1
  <2>8. DOMAIN sink' = Clients /\ DOMAIN measured' = Rows /\ DOMAIN draft' = Threads
    BY <2>3
  <2> QED
    BY <2>4, <2>5, <2>6, <2>7, <2>8, BesideTheCase
<1>3. CASE Attach(p) \/ Send(p) \/ Answer(p) \/ EndCase(p)
  BY <1>3, InTheCase
<1>4. CASE WriteRow(p) \/ (Count(p) /\ Reached(ran + 1))
  <2>1. /\ place[p] # "idle"
        /\ \E there \in {"count", "reached"} : GoTo(p, there)
        /\ UNCHANGED <<made, draft, sink, tokenLog, measured>>
    BY <1>4 DEF WriteRow, Count, At, clientVars
  <2>2. /\ DOMAIN sink' = Clients /\ DOMAIN measured' = Rows /\ DOMAIN draft' = Threads
        /\ made' = [made EXCEPT ![p] = made[p]]
    BY <1>1, <2>1 DEF ClientTypes
  <2>3. PICK there \in {"count", "reached"} : GoTo(p, there)
    BY <2>1
  <2>4. PICK n \in Nat : n = made[p]
    BY <1>1
  <2>5. made' = [made EXCEPT ![p] = n]
    BY <2>2, <2>4
  <2>6. /\ UNCHANGED workers /\ UNCHANGED tokenLog /\ place[p] # "idle"
        /\ there \in {"idle", "begin", "guard", "attach", "count", "reached"}
    BY <1>1, <2>1
  <2>7. DOMAIN sink' = Clients /\ DOMAIN measured' = Rows /\ DOMAIN draft' = Threads
    BY <2>2
  <2> QED
    BY <2>3, <2>4, <2>5, <2>6, <2>7, BesideTheCase
<1>5. CASE \/ PassBy(p) \/ Skip(p) \/ GuardRefuses(p) \/ StopAll(p) \/ Fail(p)
           \/ (Count(p) /\ ~Reached(ran + 1))
  <2>1. /\ place[p] # "idle" /\ GoTo(p, "idle")
        /\ made' = [made EXCEPT ![p] = 0] /\ draft' = [draft EXCEPT ![p] = None]
        /\ UNCHANGED tokenLog
    BY <1>5 DEF PassBy, Skip, GuardRefuses, StopAll, Fail, Count, At, Yield, clientVars
  <2>2. DOMAIN sink' = Clients /\ DOMAIN measured' = Rows
    BY <1>1, <1>5 DEF PassBy, Skip, GuardRefuses, StopAll, Fail, Count, clientVars, ClientTypes
  <2>3. DOMAIN draft' = Threads
    BY <1>1, <2>1 DEF ClientTypes
  <2>4. PICK n \in Nat : n = 0
    OBVIOUS
  <2>5. made' = [made EXCEPT ![p] = n]
    BY <2>1, <2>4
  <2> QED
    BY <1>1, <2>1, <2>2, <2>3, <2>4, <2>5, BesideTheCase
<1> QED
  BY <1>2, <1>3, <1>4, <1>5 DEF ThreadStep

LEMMA StepAlone ==
  ASSUME RowInv, AloneInv, [RunnerNext]_runnerVars
  PROVE  AloneInv'
<1>1. CASE \E p \in Threads : ThreadStep(p)
  BY <1>1, ThreadAlone
<1>2. CASE Exit
  BY <1>2, GoneAlone
<1>3. CASE Begin \/ CloseBundle
  <2>1. \A p \in Threads : place[p] = "idle"
    BY <1>3, AllIdle DEF Begin, CloseBundle
  <2>2. UNCHANGED <<place, task, made, draft, sink, tokenLog, measured>>
    BY <1>3 DEF Begin, CloseBundle, threadVars, clientVars
  <2> QED
    BY <2>1, <2>2, LeftAlone
<1>4. CASE UNCHANGED <<bundle, workers, place, task, made, draft, sink, tokenLog, measured>>
  BY <1>4, LeftAlone
<1>5. OpenBundle \/ (\E i \in Tasks : Collect(i)) \/ UNCHANGED runnerVars =>
        UNCHANGED <<bundle, workers, place, task, made, draft, sink, tokenLog, measured>>
  BY DEF OpenBundle, Collect, runnerVars, mainVars, argVars, threadVars, clientVars
<1>6. PoolRefused \/ Done \/ Raise \/ ShutDown \/ Kill => Exit
  BY DEF PoolRefused, Done, Raise, ShutDown, Kill
<1>7. CtrlC =>
        Exit \/ UNCHANGED <<bundle, workers, place, task, made, draft, sink, tokenLog, measured>>
  BY DEF CtrlC, argVars, threadVars, clientVars
<1> QED
  BY <1>1, <1>2, <1>3, <1>4, <1>5, <1>6, <1>7 DEF RunnerNext, MainStep

\* A run with one worker, which is how the program runs unless it is told
\* otherwise, accounts for each row with the calls of that row's own case:
\* attach starts the client's token log anew and points its observer at the
\* case's own list, and both hold its calls and no others until the row is
\* written.
THEOREM AloneAccounts == RunnerSpec => AloneAccountsRight
<1>1. RunnerInit => AloneInv
  <2> SUFFICES ASSUME RunnerInit
               PROVE  AloneInv
    OBVIOUS
  <2>1. place[1] = "idle"
    BY ThreadFacts DEF RunnerInit
  <2> QED
    BY <2>1 DEF RunnerInit, AloneInv, ClientTypes, AloneSound
<1>2. RowInv /\ AloneInv /\ [RunnerNext]_runnerVars => AloneInv'
  BY StepAlone
<1>3. RowInv /\ AloneInv /\ [RunnerNext]_runnerVars =>
        [workers = 1 =>
           \A r \in Rows : row'[r] = "mixed up" => row[r] = "mixed up"]_runnerVars
  <2> SUFFICES ASSUME RowInv, AloneInv, RunnerNext, workers = 1
               PROVE  \A r \in Rows : row'[r] = "mixed up" => row[r] = "mixed up"
    OBVIOUS
  <2>1. CASE UNCHANGED row
    BY <2>1
  <2>2. ASSUME NEW p \in Threads, WriteRow(p)
        PROVE  \A r \in Rows : row'[r] = "mixed up" => row[r] = "mixed up"
    <3>1. p = 1 /\ Client(1) = 0
      BY <2>2, OneClient, Written
    <3>2. place[1] = "write"
      BY <2>2, <3>1, Written
    <3>3. draft[1] = [tokens |-> Own(1), requests |-> Own(1)] /\ tokenLog[Client(1)] = Own(1)
      BY <3>1, <3>2 DEF AloneInv, AloneSound
    <3>4. row' = [row EXCEPT ![Row(1)] = "its own"]
      BY <2>2, <3>1, <3>3 DEF WriteRow
    <3> QED
      BY <3>4 DEF RowInv, RunTypes
  <2> QED
    BY <2>1, <2>2, OnlyWriteRow
<1> QED
  BY <1>1, <1>2, <1>3, RowInvHolds, PTL DEF RunnerSpec, AloneAccountsRight

=============================================================================
