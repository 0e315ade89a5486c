--------------------------- MODULE MCLaborPayments ---------------------------
(* LaborPayments on small instances; the bounds are in the .cfg files.       *)
EXTENDS LaborPayments

Payfast == {"PAYFAST"}
Paystack == {"PAYSTACK"}
PaidOrFailed == {"PAID", "FAILED"}
==============================================================================
