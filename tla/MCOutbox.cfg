SPECIFICATION FairSpec
CONSTANTS
  p1 = p1
  p2 = p2
  r1 = r1
  r2 = r2
  Processes <- TwoProcesses
  Rows <- TwoRows
  MaxAttempts = 2
  MaxCrashes = 1
  LeaseOutlasts = TRUE
INVARIANTS
  TypeOK
  NoOverlappingDelivery
  RetriesAreBounded
PROPERTIES
  RowOnlyAdvances
  DeliverySpec
  EveryRowConcluded
CHECK_DEADLOCK FALSE
