\* One cancellation by the store, of an order whose materials are paid.
CONSTANTS
  w1 = w1
  Workers = {w1}
  Total = 10
  Commission = 1
  Fee = 2
  MaxFees = 1
  MaxLost = 1
  MayRefuse = FALSE
SPECIFICATION Spec
INVARIANTS SupplierCancelGivesBack
