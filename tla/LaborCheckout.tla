---------------------------- MODULE LaborCheckout ----------------------------
(***************************************************************************)
(* Paying for labor: payment intents and their checkouts, the gateway, the *)
(* webhooks that report what became of a checkout, and the settlement that *)
(* books a payment on the job.                                             *)
(*                                                                         *)
(* payments/paymentIntent.service.js, payments/webhook.service.js,         *)
(* payments/settlement.service.js.                                         *)
(***************************************************************************)
EXTENDS LaborJob

----------------------------------------------------------------------------
(* createPaymentIntent *)

IntentsOfType(type, states) ==
  {i \in Intents : intents[i].type = type /\ intents[i].state \in states}

\* The duplicate check looks at ONE of the rows of this type that are paid or
\* in progress, whichever the database returns, and objects if it is PAID.
NoDuplicatePaidIntent(type) ==
  /\ job.progress # "FULLY_PAID"
  /\ \/ IntentsOfType(type, {"PAID"}) = {}
     \/ IntentsOfType(type, {"PENDING", "PROCESSING"}) # {}

\* (mutant: any unpaid labor row is used again, whatever its stage)
ReusableIntentsOfAnyStage(type) ==
  {i \in Intents :
     intents[i].state \in {"PENDING", "PROCESSING", "FAILED", "CANCELLED"}}

\* The latest unpaid row of the same stage is used again; otherwise a new row.
ReusableIntents(type) ==
  IntentsOfType(type, {"PENDING", "PROCESSING", "FAILED", "CANCELLED"})

IntentToUse(type) ==
  LET reusable == ReusableIntents(type)
      absent == {i \in Intents : intents[i].state = "ABSENT"}
  IN  IF reusable # {}
      THEN {i \in reusable : \A j \in reusable : j <= i}
      ELSE {i \in absent : \A j \in absent : i <= j}

\* The customer asks to pay what is due.  A reused row gets a new merchant
\* reference, so what its old checkout still reports will match no intent.
CreatePaymentIntent(gateway) ==
  LET type == NextLaborPayment
      ref == minted + 1
  IN  /\ job.status # "CANCELLED"
      /\ ~UnderReview
      /\ type # NoPayment
      /\ NoDuplicatePaidIntent(type)
      /\ minted < MaxRefs
      /\ minted' = ref
      /\ checkouts' = [checkouts EXCEPT ![ref] =
                         [gateway |-> gateway, type |-> type, quote |-> job.quote,
                          told |-> {}]]
      /\ \E i \in IntentToUse(type) :
           intents' = [intents EXCEPT ![i] =
                         [state |-> "PENDING", type |-> type, ref |-> ref,
                          quote |-> job.quote]]
      /\ UNCHANGED <<job, dispute, obligation, events, ledger, sweep, inFlight>>

----------------------------------------------------------------------------
(* The gateway.  A checkout may be declined or abandoned and still be paid *)
(* afterwards; once paid it stays paid.  Whatever it has decided it may    *)
(* report at any later time, in any order, more than once or not at all.   *)

GatewayDecides(r, s) ==
  /\ r <= minted
  /\ s \in Outcomes
  /\ "PAID" \notin checkouts[r].told
  /\ s \notin checkouts[r].told
  /\ checkouts' = [checkouts EXCEPT ![r].told = @ \cup {s}]
  /\ UNCHANGED <<job, dispute, obligation, intents, minted, events, ledger, sweep,
                 inFlight>>

\* GET /transaction/verify at Paystack: the last word on a reference.
VerifiedAs(r, s) ==
  /\ s \in checkouts[r].told
  /\ s = "PAID" \/ "PAID" \notin checkouts[r].told

----------------------------------------------------------------------------
(* Settlement *)

\* (mutant: the review of the job is not looked at)
MaySettleDuringReview(type) == TRUE

\* settleLaborFromIntent refuses a completion payment while a case is open.
MaySettle(type) == ~(UnderReview /\ type \in CompletionTypes)

AlreadySettled(type) ==
  IF type \in CompletionTypes
  THEN job.progress = "FULLY_PAID"
  ELSE LaborPaid

\* The job row after the payment: settleLaborTransactionInTx.
JobAfterPayment(type) ==
  LET completes == type \in CompletionTypes
  IN  [job EXCEPT
         !.progress = ProgressAfter(type),
         !.credited = [job.credited EXCEPT ![type] = @ + 1],
         !.status = CASE completes -> "COMPLETED"
                      [] ~completes /\ job.status = "ACCEPTED" -> "IN_PROGRESS"
                      [] OTHER -> job.status,
         !.override = IF completes THEN "COMPLETED" ELSE "SERVICE_PAID",
         !.adminDue = ~completes /\ job.adminDue]

\* One ledger row per intent, and it is never written a second time.
LedgerAfterPayment(i) ==
  IF \E entry \in ledger : entry.intent = i
  THEN ledger
  ELSE ledger \cup {[intent |-> i, type |-> intents[i].type, ref |-> intents[i].ref,
                     quote |-> intents[i].quote]}

\* The amount must be what the job's schedule asks for now, or nothing is booked
\* and the whole webhook transaction is rolled back.
Settle(i) ==
  LET type == intents[i].type
  IN  /\ MaySettle(type)
      /\ \/ /\ AlreadySettled(type)
            /\ UNCHANGED <<job, obligation, ledger>>
         \/ /\ ~AlreadySettled(type)
            /\ intents[i].quote = job.quote
            /\ job' = JobAfterPayment(type)
            /\ ledger' = LedgerAfterPayment(i)
            /\ obligation' = IF type \in CompletionTypes
                             THEN ObligationAfterCase("PAID") ELSE obligation

----------------------------------------------------------------------------
(* Webhooks: processWebhookResult.  A notification whose event is already  *)
(* processed changes nothing and is not a step here.                       *)

EventRecorded(r, s, status) == events' = [events EXCEPT ![r][s] = status]

\* The reference belongs to no intent any more: the event is kept, the answer
\* is 200, and no payment is booked.
WebhookIntentNotFound(r, s) ==
  /\ s \in checkouts[r].told
  /\ events[r][s] = "NONE"
  /\ IntentByReference(r) = {}
  /\ EventRecorded(r, s, "INTENT_NOT_FOUND")
  /\ UNCHANGED <<job, dispute, obligation, intents, minted, checkouts, ledger, sweep,
                 inFlight>>

WebhookPaid(r) ==
  /\ "PAID" \in checkouts[r].told
  /\ events[r]["PAID"] # "PROCESSED"
  /\ \E i \in IntentByReference(r) :
       \/ /\ intents[i].state = "PAID"
          /\ UNCHANGED <<job, obligation, intents, ledger>>
       \/ /\ intents[i].state # "PAID"
          /\ SetIntentState({i}, "PAID")
          /\ Settle(i)
  /\ EventRecorded(r, "PAID", "PROCESSED")
  /\ UNCHANGED <<dispute, minted, checkouts, sweep, inFlight>>

\* The transaction of a notification of failure or cancellation: it sets the
\* state whatever the intent's state is.
UnpaidNotification(r, s) ==
  /\ events[r][s] # "PROCESSED"
  /\ SetIntentState(IntentByReference(r), s)
  /\ EventRecorded(r, s, "PROCESSED")
  /\ UNCHANGED <<job, dispute, obligation, minted, checkouts, ledger, sweep>>

\* PayFast reports FAILED and CANCELLED and the report is applied as it comes.
PayfastNotPaid(r, s) ==
  /\ checkouts[r].gateway = "PAYFAST"
  /\ s \in checkouts[r].told
  /\ IntentByReference(r) # {}
  /\ UnpaidNotification(r, s)
  /\ UNCHANGED inFlight

\* Paystack: charge.failed is checked against the gateway and the intent first,
\* outside the transaction that will apply it.
PaystackChargeFailed(r) ==
  /\ checkouts[r].gateway = "PAYSTACK"
  /\ VerifiedAs(r, "FAILED")
  /\ IntentByReference(r) # {}
  /\ \A i \in IntentByReference(r) : intents[i].state # "PAID"
  /\ events[r]["FAILED"] # "PROCESSED"
  /\ Begin(Handler("chargeFailed", r))
  /\ UNCHANGED <<job, dispute, obligation, intents, minted, checkouts, events, ledger,
                 sweep>>

ApplyChargeFailed(r) ==
  /\ End(Handler("chargeFailed", r))
  /\ IntentByReference(r) # {}
  /\ UnpaidNotification(r, "FAILED")

----------------------------------------------------------------------------
(* confirmPaymentReturn: the customer comes back from a Paystack checkout. *)

PaymentReturn(i) ==
  /\ intents[i].state \in {"PENDING", "PROCESSING"}
  /\ checkouts[intents[i].ref].gateway = "PAYSTACK"
  /\ Begin(Handler("confirmReturn", i))
  /\ UNCHANGED <<job, dispute, obligation, intents, minted, checkouts, events, ledger,
                 sweep>>

MarkProcessing(i) ==
  /\ End(Handler("confirmReturn", i))
  /\ SetIntentState({i}, "PROCESSING")
  /\ UNCHANGED <<job, dispute, obligation, minted, checkouts, events, ledger, sweep>>
==============================================================================
