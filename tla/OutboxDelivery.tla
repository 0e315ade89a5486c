---------------------------- MODULE OutboxDelivery ----------------------------
(***************************************************************************)
(* What the notification outbox promises, without processes, claims and    *)
(* leases: a queued notification may be handed to its channel several      *)
(* times, is concluded once, SENT only if it was handed over, and is not   *)
(* handed over again afterwards.                                           *)
(***************************************************************************)
EXTENDS Naturals

CONSTANT Rows
VARIABLES outcome, handed

vars == <<outcome, handed>>

Init == outcome = [r \in Rows |-> "ABSENT"] /\ handed = [r \in Rows |-> 0]

Queue(r) ==
  /\ outcome[r] = "ABSENT"
  /\ outcome' = [outcome EXCEPT ![r] = "PENDING"]
  /\ UNCHANGED handed

HandOver(r) ==
  /\ outcome[r] = "PENDING"
  /\ handed' = [handed EXCEPT ![r] = @ + 1]
  /\ UNCHANGED outcome

Conclude(r, verdict) ==
  /\ outcome[r] = "PENDING"
  /\ verdict = "SENT" => handed[r] > 0
  /\ outcome' = [outcome EXCEPT ![r] = verdict]
  /\ UNCHANGED handed

Next ==
  \E r \in Rows :
    \/ Queue(r)
    \/ HandOver(r)
    \/ \E verdict \in {"SENT", "DEAD"} : Conclude(r, verdict)

Spec == Init /\ [][Next]_vars
==============================================================================
