SPECIFICATION PgSpec
CONSTANTS
  j1 = j1
  j2 = j2
  w1 = w1
  w2 = w2
  s1 = s1
  s2 = s2
  None = None
  Jobs <- TwoJobs
  Workers <- TwoWorkers
  Sessions <- TwoSessions
  WorkerOf <- OneEach
  Instants <- NowOrLater
  Leases <- OneInstant
  MaxAttempts <- TwoTries
  MaxRevisions = 1
  Results <- OnlyIncomplete
  OptIns <- OptedIn
  MaxStarted = 2
SYMMETRY Swaps
INVARIANTS
  CommittedTablesSound
  ClaimTakesOldestOpen
  NobodyWaitsInCircle
PROPERTIES
  CommitsAreStoreCalls
