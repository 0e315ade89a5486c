-------------------------- MODULE NotificationOutbox --------------------------
(***************************************************************************)
(* The delivery outbox of notifications: rows queued by requests, and one  *)
(* delivery loop in every server process.  A loop reads the rows that are  *)
(* due, then takes them one by one: it claims the row by compare-and-swap  *)
(* on its attempts, which also takes a lease, hands it to the channel, and *)
(* writes what became of it.                                               *)
(*                                                                         *)
(* notificationDeliveryOutbox.service.js, jobs/notificationOutbox.job.js.  *)
(***************************************************************************)
EXTENDS Integers

CONSTANTS
  Processes,     \* server processes, each running the delivery loop
  Rows,          \* outbox rows
  MaxAttempts,   \* row.maxAttempts
  MaxCrashes,    \* bound: processes that stop in the middle of a batch
  LeaseOutlasts  \* TRUE: no loop stays with a row longer than CLAIM_LEASE_MS

ASSUME MaxAttemptsAssumption == MaxAttempts \in Nat \ {0}
ASSUME MaxCrashesAssumption == MaxCrashes \in Nat
ASSUME LeaseAssumption == LeaseOutlasts \in BOOLEAN

VARIABLES
  row,       \* row[r]: status, attempts, and whether nextAttemptAt has come
  batch,     \* batch[p][r]: the attempts p read for r, NotRead if r is not in its batch
  phase,     \* phase[p][r]: what p is doing with r
  handed,    \* handed[r]: times r was handed to its channel
  crashes

vars == <<row, batch, phase, handed, crashes>>

NotRead == -1
Phases == {"waiting", "claimed", "accepted", "rejected"}

Init ==
  /\ row = [r \in Rows |-> [status |-> "ABSENT", attempts |-> 0, due |-> FALSE]]
  /\ batch = [p \in Processes |-> [r \in Rows |-> NotRead]]
  /\ phase = [p \in Processes |-> [r \in Rows |-> "waiting"]]
  /\ handed = [r \in Rows |-> 0]
  /\ crashes = 0

\* p has claimed r and not yet written what became of it.
Holds(p, r) == phase[p][r] # "waiting"
Busy(p) == \E r \in Rows : Holds(p, r)

----------------------------------------------------------------------------
\* enqueueSocketDelivery, enqueueEmailDelivery
Enqueue(r) ==
  /\ row[r].status = "ABSENT"
  /\ row' = [row EXCEPT ![r] = [status |-> "PENDING", attempts |-> 0, due |-> TRUE]]
  /\ UNCHANGED <<batch, phase, handed, crashes>>

DueRows == {r \in Rows : row[r].status = "PENDING" /\ row[r].due}

\* The next tick of p's loop: it starts only when the last batch is done.
ReadBatch(p) ==
  /\ \A r \in Rows : batch[p][r] = NotRead
  /\ DueRows # {}
  /\ batch' = [batch EXCEPT ![p] =
                 [r \in Rows |-> IF r \in DueRows THEN row[r].attempts ELSE NotRead]]
  /\ UNCHANGED <<row, phase, handed, crashes>>

\* (mutant: the claim does not compare attempts)
ClaimableByStatus(p, r) == row[r].status = "PENDING"

\* The row is as p read it: still pending, and nobody has claimed it since.
Claimable(p, r) == row[r].status = "PENDING" /\ row[r].attempts = batch[p][r]

ClaimOutboxRow(p, r) ==
  /\ ~Busy(p)
  /\ batch[p][r] # NotRead
  /\ Claimable(p, r)
  /\ row' = [row EXCEPT ![r].attempts = batch[p][r] + 1, ![r].due = FALSE]
  /\ phase' = [phase EXCEPT ![p][r] = "claimed"]
  /\ UNCHANGED <<batch, handed, crashes>>

\* Another process has claimed it: skipped.
SkipRow(p, r) ==
  /\ ~Busy(p)
  /\ batch[p][r] # NotRead
  /\ ~Claimable(p, r)
  /\ batch' = [batch EXCEPT ![p][r] = NotRead]
  /\ UNCHANGED <<row, phase, handed, crashes>>

\* deliverOutboxRow: the channel takes the message, or the delivery fails.
DeliverOutboxRow(p, r) ==
  /\ phase[p][r] = "claimed"
  /\ \/ /\ phase' = [phase EXCEPT ![p][r] = "accepted"]
        /\ handed' = [handed EXCEPT ![r] = @ + 1]
     \/ /\ phase' = [phase EXCEPT ![p][r] = "rejected"]
        /\ UNCHANGED handed
  /\ UNCHANGED <<row, batch, crashes>>

Done(p, r) ==
  /\ phase' = [phase EXCEPT ![p][r] = "waiting"]
  /\ batch' = [batch EXCEPT ![p][r] = NotRead]

\* The write is not conditional on anything the row holds by now.
MarkOutboxSent(p, r) ==
  /\ phase[p][r] = "accepted"
  /\ row' = [row EXCEPT ![r].status = "SENT", ![r].attempts = batch[p][r] + 1]
  /\ Done(p, r)
  /\ UNCHANGED <<handed, crashes>>

\* The update to SENT fails: the exception is handled as a failed delivery.
MarkSentFails(p, r) ==
  /\ phase[p][r] = "accepted"
  /\ phase' = [phase EXCEPT ![p][r] = "rejected"]
  /\ UNCHANGED <<row, batch, handed, crashes>>

\* (mutant: a row is given up only after one attempt too many)
MarkOutboxFailureOneMore(p, r) ==
  LET attempts == batch[p][r] + 1
  IN  /\ phase[p][r] = "rejected"
      /\ row' = [row EXCEPT
                   ![r] = [status |-> IF attempts > MaxAttempts THEN "DEAD" ELSE "PENDING",
                           attempts |-> attempts,
                           due |-> FALSE]]
      /\ Done(p, r)
      /\ UNCHANGED <<handed, crashes>>

\* (mutant: a failed row is put aside as FAILED, which no loop reads)
MarkOutboxFailureAsFailed(p, r) ==
  LET attempts == batch[p][r] + 1
  IN  /\ phase[p][r] = "rejected"
      /\ row' = [row EXCEPT
                   ![r] = [status |-> IF attempts >= MaxAttempts THEN "DEAD" ELSE "FAILED",
                           attempts |-> attempts,
                           due |-> FALSE]]
      /\ Done(p, r)
      /\ UNCHANGED <<handed, crashes>>

\* Given up after MaxAttempts, retried after a backoff before that; again
\* unconditional, and counted from the attempts p once read.
MarkOutboxFailure(p, r) ==
  LET attempts == batch[p][r] + 1
  IN  /\ phase[p][r] = "rejected"
      /\ row' = [row EXCEPT
                   ![r] = [status |-> IF attempts >= MaxAttempts THEN "DEAD" ELSE "PENDING",
                           attempts |-> attempts,
                           due |-> FALSE]]
      /\ Done(p, r)
      /\ UNCHANGED <<handed, crashes>>

----------------------------------------------------------------------------
\* (mutant: a row that has used up its attempts is not read again)
NextAttemptComesUntilMax(r) ==
  /\ row[r].status = "PENDING"
  /\ ~row[r].due
  /\ row[r].attempts < MaxAttempts
  /\ LeaseOutlasts => \A p \in Processes : ~Holds(p, r)
  /\ row' = [row EXCEPT ![r].due = TRUE]
  /\ UNCHANGED <<batch, phase, handed, crashes>>

\* nextAttemptAt comes: a backoff is over, or the lease of a claim.
NextAttemptComes(r) ==
  /\ row[r].status = "PENDING"
  /\ ~row[r].due
  /\ LeaseOutlasts => \A p \in Processes : ~Holds(p, r)
  /\ row' = [row EXCEPT ![r].due = TRUE]
  /\ UNCHANGED <<batch, phase, handed, crashes>>

\* A process stops, or its batch is aborted by an exception, with rows still
\* claimed or unclaimed in it.
Crash(p) ==
  /\ crashes < MaxCrashes
  /\ \E r \in Rows : batch[p][r] # NotRead
  /\ batch' = [batch EXCEPT ![p] = [r \in Rows |-> NotRead]]
  /\ phase' = [phase EXCEPT ![p] = [r \in Rows |-> "waiting"]]
  /\ crashes' = crashes + 1
  /\ UNCHANGED <<row, handed>>

RowStep(p, r) ==
  \/ ClaimOutboxRow(p, r)
  \/ SkipRow(p, r)
  \/ DeliverOutboxRow(p, r)
  \/ MarkOutboxSent(p, r)
  \/ MarkSentFails(p, r)
  \/ MarkOutboxFailure(p, r)

ProcessStep(p) == ReadBatch(p) \/ \E r \in Rows : RowStep(p, r)

Next ==
  \/ \E r \in Rows : Enqueue(r) \/ NextAttemptComes(r)
  \/ \E p \in Processes : ProcessStep(p) \/ Crash(p)

Spec == Init /\ [][Next]_vars

\* setInterval keeps ticking in every process, a batch once begun is worked
\* off, and time passes; nothing obliges a process to crash.
Fairness ==
  /\ \A p \in Processes : WF_vars(ProcessStep(p))
  /\ \A r \in Rows : WF_vars(NextAttemptComes(r))

FairSpec == Spec /\ Fairness

----------------------------------------------------------------------------
\* The rows the code writes: the enum's FAILED is in none of them.
OutboxRows ==
  [status : {"ABSENT", "PENDING", "SENT", "DEAD"}, attempts : Nat, due : BOOLEAN]

\* Every row and every loop is in a state the code can write.
TypeOK ==
  /\ row \in [Rows -> OutboxRows]
  /\ batch \in [Processes -> [Rows -> Nat \cup {NotRead}]]
  /\ phase \in [Processes -> [Rows -> Phases]]
  /\ handed \in [Rows -> Nat]
  /\ crashes \in Nat

\* Ticks of different processes overlap, and still a row is in the hands of at
\* most one of them: the promise of the compare-and-swap claim.
NoOverlappingDelivery ==
  \A r \in Rows : \A p, q \in Processes : Holds(p, r) /\ Holds(q, r) => p = q

\* A row is not tried for ever: an attempt beyond MaxAttempts is always owed to
\* a process that stopped between the claim and the write that counts it.
RetriesAreBounded == \A r \in Rows : row[r].attempts <= MaxAttempts + crashes

\* Nothing a process read long ago undoes what another has concluded or counted:
\* SENT and DEAD are final, and attempts never go down.
RowOnlyAdvances ==
  [][\A r \in Rows :
       /\ row[r].status \in {"SENT", "DEAD"} => row'[r].status = row[r].status
       /\ row'[r].attempts >= row[r].attempts]_vars

\* The loops implement the promise of OutboxDelivery.
Delivery == INSTANCE OutboxDelivery WITH outcome <- [r \in Rows |-> row[r].status]
DeliverySpec == Delivery!Spec

\* Every queued notification is eventually sent or given up, although processes
\* may stop while they hold it, even at its last attempt.
EveryRowConcluded ==
  \A r \in Rows : row[r].status = "PENDING" ~> row[r].status \in {"SENT", "DEAD"}
==============================================================================
