SPECIFICATION FairSpec
CONSTANTS
  j1 = j1
  j2 = j2
  w1 = w1
  w2 = w2
  NoJob = NoJob
  Jobs <- OneJob
  Debts <- OneDebt
  Gateways = {"PAYFAST", "PAYSTACK"}
  Workers <- OneWorker
  NRepayments = 1
  MaxRefs = 2
  MaxExtras = 1
INVARIANTS
  RecoveredWasCharged
  AbandonedIsNotPaid
PROPERTIES
  OverdueIsBlocked
CHECK_DEADLOCK FALSE
