SPECIFICATION Spec
CONSTANTS
  w1 = w1
  w2 = w2
  NIntents = 2
  Ceiling <- OneEach
  Decisions <- HalfDebt
  Repayments <- Ones
  MaxRepaid = 1
  Workers <- TwoWorkers
  MaxRefunds = 2
  MaxFaults = 0
INVARIANTS
  TypeOK
  RefundedWithinCeiling
  FinalizedWasProcessed
  
SYMMETRY Overlap
CHECK_DEADLOCK FALSE
