------------------------- MODULE MCCustomerObligations -------------------------
(* Instances of CustomerObligations small enough for TLC. *)
EXTENDS CustomerObligations, TLC

CONSTANTS
  windowed, legacy,   \* a 50/50 job, and one paid on completion
  w1, w2              \* requests

Two == {windowed, legacy}
TheWindowed == {windowed}
None == {}
Requests == {w1, w2}
RequestsAlike == Permutations(Requests)
================================================================================
