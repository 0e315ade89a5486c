\* Two requests that overlap, the materials and the delivery fee paid once.
CONSTANTS
  w1 = w1
  w2 = w2
  Workers = {w1, w2}
  Total = 10
  Commission = 1
  Fee = 2
  MaxFees = 1
  MaxLost = 1
  MayRefuse = TRUE
SPECIFICATION Spec
SYMMETRY Symmetry
INVARIANTS TypeOK RefundInvoicedOnce GivenBackOncePerLoss
PROPERTIES TerminalStays LeavesMarkedPaid
