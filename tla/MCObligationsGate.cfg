SPECIFICATION Spec
CONSTANTS
  windowed = windowed
  legacy = legacy
  w1 = w1
  w2 = w2
  Jobs <- TheWindowed
  Windowed <- TheWindowed
  NoJob = NoJob
  Workers <- Requests
  Watched <- Requests
  BatchSize = 1
  MaxBatches = 1
  MaxRows = 1
  MaxCases = 2
  MaxFaults = 1
SYMMETRY RequestsAlike
INVARIANTS TypeOK AllowedOwedNothing
PROPERTY ClosedStaysClosed
