------------------------- MODULE MCNotificationOutbox -------------------------
(* NotificationOutbox with two processes and two rows; the other bounds are   *)
(* in the .cfg file.  No symmetry: the run checks liveness too.               *)
EXTENDS NotificationOutbox

CONSTANTS p1, p2, r1, r2

TwoProcesses == {p1, p2}
TwoRows == {r1, r2}
==============================================================================
