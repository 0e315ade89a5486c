--------------------------- MODULE MCGatewayRefunds ---------------------------
(* GatewayRefunds with the ceilings and decisions of its runs. *)
EXTENDS GatewayRefunds, TLC

CONSTANTS w1, w2

OneWorker == {w1}
TwoWorkers == {w1, w2}
Overlap == Permutations(TwoWorkers)

OneEach == <<1, 1>>
OneTwo == <<1, 2>>

Ones == {1}
OneOrTwo == {1, 2}

HalfDebt == << [immediate |-> 1, debt |-> 1] >>
AllDebt == << [immediate |-> 0, debt |-> 2] >>
==============================================================================
