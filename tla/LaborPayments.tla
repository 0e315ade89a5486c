---------------------------- MODULE LaborPayments ----------------------------
(***************************************************************************)
(* A labor job with its payments, its disputes and its obligation, all     *)
(* handlers running concurrently against the same database.                *)
(***************************************************************************)
EXTENDS LaborCheckout, JobDispute

\* A request handler throws, or the process running it stops, before its write.
HandlerDies ==
  /\ \E h \in inFlight : inFlight' = inFlight \ {h}
  /\ UNCHANGED <<job, dispute, obligation, intents, minted, checkouts, events, ledger,
                 sweep>>

\* The same while the side effects of a dispute are under way.
SweepDies ==
  /\ sweep # NoSweep
  /\ sweep' = NoSweep
  /\ UNCHANGED <<job, dispute, obligation, intents, minted, checkouts, events, ledger,
                 inFlight>>

CheckoutNext ==
  \/ \E g \in Gateways : CreatePaymentIntent(g)
  \/ \E r \in Refs :
       \/ \E s \in NotificationStates : GatewayDecides(r, s) \/ WebhookIntentNotFound(r, s)
       \/ WebhookPaid(r)
       \/ \E s \in {"FAILED", "CANCELLED"} : PayfastNotPaid(r, s)
       \/ PaystackChargeFailed(r)
       \/ ApplyChargeFailed(r)
  \/ \E i \in Intents : PaymentReturn(i) \/ MarkProcessing(i)

LifecycleNext ==
  \/ AcceptProposedPrice
  \/ SnapshotPaymentMode
  \/ RequestMarkComplete
  \/ MarkComplete
  \/ OpenObligation
  \/ RequestConfirmation
  \/ ConfirmJobCompletion
  \/ DeadlinePasses
  \/ SystemCompleteJobAfterDeadline
  \/ RequestCancellation
  \/ CancelJob
  \/ MarkLaborIntentRefunded

DisputeNext ==
  \/ RequestDispute
  \/ \E op \in {"openDispute", "reopenDispute"} : OpenDispute(op)
  \/ SweepSnapshot
  \/ \E i \in Intents : MarkIntentDisputed(i) \/ VoidCompletionIntent(i)
  \/ ReleaseFunds
  \/ OpenAdminObligation
  \/ GatewayRefundFirst
  \/ ResolveWithRefund
  \/ ReturnProvider
  \/ CloseCase

Next == CheckoutNext \/ LifecycleNext \/ DisputeNext \/ HandlerDies \/ SweepDies

Spec == Init /\ [][Next]_vars

----------------------------------------------------------------------------
(* Types *)

JobRows ==
  [status : JobStatuses, override : StatusOverrides, progress : PaymentProgress,
   price : Quotes, quote : Quotes, credited : [PaymentTypes -> Nat],
   frozen : BOOLEAN, confirmed : BOOLEAN, deadline : {"NONE", "RUNNING", "REACHED"},
   adminDue : BOOLEAN]

IntentRows ==
  [state : IntentStates, type : PaymentTypes, ref : {0} \cup Refs, quote : Quotes]

Checkouts ==
  [gateway : Gateways \cup {"NONE"}, type : PaymentTypes, quote : Quotes,
   told : SUBSET NotificationStates]

LedgerRows == [intent : Intents, type : PaymentTypes, ref : {0} \cup Refs, quote : Quotes]

\* Every row holds what its columns allow.
TypeOK ==
  /\ job \in JobRows
  /\ dispute \in [status : {"NONE", "OPEN", "RESOLVED"}, cases : Nat]
  /\ obligation \in [state : ObligationStates, source : Sources]
  /\ intents \in [Intents -> IntentRows]
  /\ minted \in {0} \cup Refs
  /\ checkouts \in [Refs -> Checkouts]
  /\ events \in [Refs -> [NotificationStates -> {"NONE", "INTENT_NOT_FOUND", "PROCESSED"}]]
  /\ ledger \subseteq LedgerRows
  /\ sweep \in [snapshot : BOOLEAN, mark : SUBSET Intents, void : SUBSET Intents]
  /\ inFlight \subseteq Handlers

----------------------------------------------------------------------------
(* What must hold *)

\* However often webhooks are repeated, intents reused and payments made twice,
\* the job's totals count exactly the stages its paymentProgress says are paid,
\* once each, and the ledger has one row for each of them
\* (settleLaborFromIntent / settleLaborTransactionInTx).
TotalsMatchProgress ==
  LET stages == SettledStages(Mode, job.progress)
  IN  /\ \A t \in PaymentTypes : job.credited[t] = IF t \in stages THEN 1 ELSE 0
      /\ {entry.type : entry \in ledger} = stages
      /\ \A e, f \in ledger : e.type = f.type => e = f

\* Nothing is booked that the gateway did not take: a ledger row stands for a
\* checkout the gateway reported as paid, of the same stage and the same price,
\* and an intent is PAID or REFUNDED only if its present checkout was paid, not
\* an earlier one under a merchant reference it no longer has.
BookedWasCaptured ==
  /\ \A entry \in ledger :
       /\ entry.ref \in Refs
       /\ "PAID" \in checkouts[entry.ref].told
       /\ checkouts[entry.ref].type = entry.type
       /\ checkouts[entry.ref].quote = entry.quote
  /\ \A i \in Intents : intents[i].state \in {"PAID", "REFUNDED", "PARTIALLY_REFUNDED"} =>
       "PAID" \in checkouts[intents[i].ref].told

\* While the dispute row is open the job is frozen and no admin-released
\* balance stands, whichever handlers were under way when it was opened.
OpenCaseFreezesJob == dispute.status = "OPEN" => job.frozen /\ ~job.adminDue

\* A completion payment is never booked while a case is open, even if the
\* customer paid before it was opened and the webhook comes after.
NoCompletionBookedUnderReview ==
  [][\A entry \in ledger' \ ledger :
       entry.type \in CompletionTypes => dispute.status # "OPEN"]_vars

\* No path to COMPLETED (payment, confirmation, deadline) leaves money owed.
CompletedIsFullyPaid == job.status = "COMPLETED" => job.progress = "FULLY_PAID"

\* The detailed system implements the payment schedule: see PaymentSchedule.
Schedule == INSTANCE PaymentSchedule WITH booked <- {entry.type : entry \in ledger}
ScheduleSpec == Schedule!Spec
==============================================================================
