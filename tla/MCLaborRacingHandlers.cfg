SPECIFICATION Spec
CONSTANTS
  Mode = "SINGLE_PAYMENT_ON_COMPLETION"
  Gateways <- Payfast
  Outcomes <- PaidOrFailed
  MaxQuote = 2
  MaxIntents = 1
  MaxRefs = 1
  MaxCases = 2
  MaxInFlight = 2
INVARIANTS
  CompletedIsFullyPaid
  OpenCaseFreezesJob
PROPERTIES
  NoCompletionBookedUnderReview
CHECK_DEADLOCK FALSE
