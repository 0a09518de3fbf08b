SPECIFICATION Spec
CONSTANTS
  j1 = j1
  j2 = j2
  w1 = w1
  w2 = w2
  None = None
  Jobs <- MCJobs
  Workers <- MCWorkers
  Instants <- MCInstants
  Leases <- MCLeases
  MaxAttempts <- MCMaxAttempts
  MaxRevisions = 1
SYMMETRY MCSymmetry
INVARIANTS
  TypeOK
  AttemptsNumbered
  StatusEarned
  AllowanceRespected
  ReportsMatchAttempts
PROPERTIES
  HistoryIsFinal
  TakeoverOnlyAfterLapse
  ImplementsLifecycle
