SPECIFICATION WorkflowSpec
CONSTANTS
  a = a
  b = b
  r1 = r1
  r2 = r2
  None = None
  Cases <- TwoCases
  Settings <- OnlyDrifting
  Replies <- TwoReplies
  MaxBlocks = 0
PROPERTIES
  ChangedSourceRefused
