SPECIFICATION MCSpec
CONSTANTS
  w1 = w1
  w2 = w2
  d1 = d1
  d2 = d2
  j1 = j1
  k1 = k1
  None = None
  Intake = intake
  Job = {j1}
  Key = {k1}
  Owner = {w1, w2}
  Worker = {w1, w2}
  Drain = {d1, d2}
  Layouts <- MCBoth
  Client <- MCClient
  Budgets = {2}
  Lease = 1
  MaxTime = 2
  MaxAttempts = 2
  Limit = 2
  MaxWrites = 3
  MaxStretch = 2
  MaxClaims = 3
  PromptReread = TRUE
VIEW MCView
SYMMETRY MCSymmetry
INVARIANTS DrainTypeOK OneWorkerPerLease OneLateStretch
PROPERTIES ReportsComeFromHolder
CHECK_DEADLOCK FALSE
