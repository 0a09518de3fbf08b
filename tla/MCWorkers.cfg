SPECIFICATION FairWorkersSpec
CONSTANTS
  j1 = j1
  j2 = j2
  w1 = w1
  w2 = w2
  None = None
  Jobs <- OneJob
  Workers <- TwoWorkers
  Instants <- TwoBack
  Leases <- TwoOrThree
  MaxAttempts <- TwoTries
  MaxRevisions = 0
  HeartbeatEvery = 1
  Settings <- AllThree
  MaxJobs = None
  MaxMissed = 1
  MaxAge = 2
INVARIANTS
  WorkersSound
  TimelyKeepsLease
  DrainedMeansFinished
PROPERTIES
  NoLateResult
  EveryJobEnds
