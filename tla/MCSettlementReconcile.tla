------------------------- MODULE MCSettlementReconcile -------------------------
(* SettlementReconcile with the payments of its run. *)
EXTENDS SettlementReconcile

CONSTANTS timer, request

TwoPayments == 1..2
TwoSettlements == 1..2
EqualNets == <<1, 1>>
Succeeds == {"pending", "success"}
TwoPasses == {timer, request}
TwoDays == <<1, 2>>
==============================================================================
