SPECIFICATION FairSpec
CONSTANTS
  timer = timer
  request = request
  NoSettlement = NoSettlement
  Payments <- TwoPayments
  Settlements <- TwoSettlements
  Net <- EqualNets
  Passes <- TwoPasses
  Timer = timer
  DayOf <- TwoDays
  Reported <- Succeeds
  MaxFaults = 1
INVARIANTS TypeOK ShownWasSaid FallbackIsUnambiguous
PROPERTY PayoutsConverge
CHECK_DEADLOCK FALSE
