SPECIFICATION Spec
CONSTANTS
  Mode = "TWO_PAYMENT_50_50"
  Gateways <- Paystack
  Outcomes <- PaidOrFailed
  MaxQuote = 1
  MaxIntents = 2
  MaxRefs = 2
  MaxCases = 1
  MaxInFlight = 1
INVARIANTS
  TypeOK
  TotalsMatchProgress
  BookedWasCaptured
PROPERTIES
  ScheduleSpec
CHECK_DEADLOCK FALSE
