SPECIFICATION FairRunnerSpec
CONSTANTS
  r1 = r1
  r2 = r2
  r3 = r3
  r4 = r4
  None = None
  Bundles <- TwoCorpora
  PoolSizes <- OneOrTwo
  StopAfters <- StopOrNot
  Overrides <- MayOverride
  MaxCalls = 1
  MaxEvents = 1
  MaxMishaps = 1
INVARIANTS
  RunRecordTrue
PROPERTIES
  RowsAreFinal
  AloneAccountsRight
  ResumedRunsComplete
