SPECIFICATION FairInvestigatorSpec
CONSTANTS
  process = process
  parent = parent
  child = child
  elsewhere = elsewhere
  fabricated = fabricated
  finding = finding
  rows = rows
  tree = tree
  grandtree = grandtree
  logons = logons
  beacon = beacon
  None = None
  KnownIds <- FourKnown
  EventIds <- FiveIds
  Probes <- FourProbes
  Calls <- TwoCalls
  ResultOf <- Telemetry
  Settings <- SevenSettings
  Answers <- SomeAnswers
  Costs <- OneToken
  MaxMenu = 3
  MaxTrees = 2
  MaxDestinations = 1
INVARIANTS
  InvestigatorSound
  ProbesFollowEvidence
  CompleteIsUndisturbed
  VerdictEarned
PROPERTIES
  InvestigatorEnds
CHECK_DEADLOCK FALSE
