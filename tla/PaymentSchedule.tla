--------------------------- MODULE PaymentSchedule ---------------------------
(***************************************************************************)
(* What the payment machinery promises about one job, whatever webhooks,   *)
(* retries, disputes and crashes do: the stages of the job's payment mode  *)
(* are booked in their order, each at most once.                           *)
(***************************************************************************)
EXTENDS PaymentMode

CONSTANT Mode
VARIABLE booked     \* the stages booked so far

Init == booked = {}

\* Only the next stage of the mode can be booked.
Book ==
  \E now, next \in PaymentProgress :
    /\ now # next
    /\ booked = SettledStages(Mode, now)
    /\ booked' = SettledStages(Mode, next)
    /\ \E type \in PaymentTypes \ booked : booked' = booked \cup {type}

Spec == Init /\ [][Book]_booked
==============================================================================
