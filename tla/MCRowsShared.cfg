SPECIFICATION RunnerSpec
CONSTANTS
  r1 = r1
  r2 = r2
  r3 = r3
  r4 = r4
  None = None
  Bundles <- OneCorpus
  PoolSizes <- Two
  StopAfters <- NeverStop
  Overrides <- Never
  MaxCalls = 1
  MaxEvents = 0
  MaxMishaps = 0
INVARIANTS
  CallsAreTheCases
