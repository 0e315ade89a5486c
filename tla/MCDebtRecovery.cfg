SPECIFICATION Spec
CONSTANTS
  j1 = j1
  j2 = j2
  w1 = w1
  w2 = w2
  NoJob = NoJob
  Jobs <- TwoJobs
  Debts <- TwoDebts
  Gateways = {}
  Workers <- TwoWorkers
  NRepayments = 1
  MaxRefs = 0
  MaxExtras = 1
SYMMETRY Overlap
INVARIANTS
  TypeOK
  WrittenOffWasTaken
  RecoveredWasTaken
CHECK_DEADLOCK FALSE
