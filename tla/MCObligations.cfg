SPECIFICATION FairSpec
CONSTANTS
  windowed = windowed
  legacy = legacy
  w1 = w1
  w2 = w2
  Jobs <- Two
  Windowed <- None
  NoJob = NoJob
  Workers = {w1}
  Watched <- None
  BatchSize = 1
  MaxBatches = 1
  MaxRows = 2
  MaxCases = 1
  MaxFaults = 1

PROPERTIES OwedStaysRestricted ClearCustomerIsAllowed
