----------------------------- MODULE MCRefundDebt -----------------------------
(* RefundDebt with the debts of its runs. *)
EXTENDS RefundDebt, TLC

CONSTANTS j1, j2, w1, w2

OneJob == {j1}
TwoJobs == {j1, j2}
OneWorker == {w1}
TwoWorkers == {w1, w2}
Overlap == Permutations(TwoWorkers)

TwoDebts == << [job |-> j1, amount |-> 2], [job |-> j2, amount |-> 1] >>
OneDebt == << [job |-> j1, amount |-> 2] >>
==============================================================================
