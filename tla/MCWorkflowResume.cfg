SPECIFICATION FairWorkflowSpec
CONSTANTS
  a = a
  b = b
  r1 = r1
  r2 = r2
  None = None
  Cases <- TwoCases
  Settings <- TroubledOrKilled
  Replies <- TwoReplies
  MaxBlocks = 1
INVARIANTS
  ReportTellsInvestigation
  DirectoriesSound
PROPERTIES
  SealedIsFinal
  CompleteIsEarned
  RefusedOnlyWhenChanged
  CrashedRunsComplete
