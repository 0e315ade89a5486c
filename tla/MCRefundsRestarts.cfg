SPECIFICATION FairSpec
CONSTANTS
  w1 = w1
  w2 = w2
  NIntents = 2
  Ceiling <- OneTwo
  Decisions <- AllDebt
  Repayments <- OneOrTwo
  MaxRepaid = 1
  Workers <- OneWorker
  MaxRefunds = 2
  MaxFaults = 1
INVARIANTS
  BooksMatchGateway
PROPERTIES
  ProcessedIsBooked
CHECK_DEADLOCK FALSE
