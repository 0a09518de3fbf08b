SPECIFICATION WorkersSpec
CONSTANTS
  j1 = j1
  j2 = j2
  w1 = w1
  w2 = w2
  None = None
  Jobs <- TwoJobs
  Workers <- OneWorker
  Instants <- OneBack
  Leases <- TwoOrThree
  MaxAttempts <- TwoTries
  MaxRevisions = 0
  HeartbeatEvery = 1
  Settings <- OnlyDraining
  MaxJobs = 2
  MaxMissed = 0
  MaxAge = 1
INVARIANTS
  NoRetryLeftBehind
