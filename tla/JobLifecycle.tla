----------------------------- MODULE JobLifecycle -----------------------------
(***************************************************************************)
(* The life of a priced job apart from its payments and disputes: a new    *)
(* price, the provider's "mark complete" and the obligation it opens, the  *)
(* customer's confirmation, the confirmation deadline and cancellation.    *)
(*                                                                         *)
(* job.service.js, customerPaymentObligation.service.js,                   *)
(* jobs/completionDeadline.job.js, utils/jobCancellationPolicy.util.js.    *)
(***************************************************************************)
EXTENDS LaborJob

----------------------------------------------------------------------------
(* acceptProposedPrice: the customer accepts a price the provider proposed. *)
(* Whether the schedule is computed again was decided on the job row read   *)
(* first; the schedule itself is written by a later transaction.            *)

AcceptProposedPrice ==
  /\ job.price < MaxQuote
  /\ job' = [job EXCEPT !.price = @ + 1, !.override = "SERVICE_PRICE_SUBMITTED"]
  /\ IF job.progress = "NONE"
     THEN Begin(Handler("forceSnapshot", 0))
     ELSE UNCHANGED inFlight
  /\ UNCHANGED <<dispute, obligation, intents, minted, checkouts, events, ledger, sweep>>

SnapshotPaymentMode ==
  /\ End(Handler("forceSnapshot", 0))
  /\ job' = [job EXCEPT !.quote = job.price]
  /\ UNCHANGED <<dispute, obligation, intents, minted, checkouts, events, ledger, sweep>>

----------------------------------------------------------------------------
(* updateJobStatus(AWAITING_CONFIRMATION): the provider marks the job done. *)

RequestMarkComplete ==
  /\ FrontendStatus # "AWAITING_CONFIRMATION"
  /\ ~AdminPaymentOutstanding
  /\ LaborPaid \/ Mode = "SINGLE_PAYMENT_ON_COMPLETION"
  /\ Begin(Handler("markComplete", 0))
  /\ UNCHANGED <<job, dispute, obligation, intents, minted, checkouts, events, ledger,
                 sweep>>

\* A 30-day obligation is wanted when a completion payment is due; the row is
\* written by another transaction, which does not look at the job again.
MarkComplete ==
  LET marked == [job EXCEPT
                   !.override = IF IsTerminalJobState THEN @ ELSE "AWAITING_CONFIRMATION",
                   !.deadline = IF @ = "NONE" THEN "RUNNING" ELSE @]
      due == ResolveNextLaborPaymentType(Mode, marked.progress, marked.override)
      rest == inFlight \ {Handler("markComplete", 0)}
  IN  /\ Handler("markComplete", 0) \in inFlight
      /\ job' = marked
      /\ inFlight' = IF due \in CompletionTypes
                     THEN rest \cup {Handler("oblige", 0)} ELSE rest
      /\ UNCHANGED <<dispute, obligation, intents, minted, checkouts, events, ledger,
                     sweep>>

\* upsertOpenObligation: a paused obligation is left alone, an open one only
\* takes the new source, and otherwise a new row is opened.
UpsertOpenObligation(source) ==
  obligation' = IF obligation.state = "PAUSED"
                THEN obligation
                ELSE [state |-> "OPEN", source |-> source]

OpenObligation ==
  /\ End(Handler("oblige", 0))
  /\ UpsertOpenObligation("COMPLETION_WORKFLOW")
  /\ UNCHANGED <<job, dispute, intents, minted, checkouts, events, ledger, sweep>>

----------------------------------------------------------------------------
(* confirmJobCompletion: the checks, then the transaction. *)

\* (mutant: the customer may confirm with a completion payment still due)
RequestConfirmationUnpaid ==
  /\ FrontendStatus \in {"AWAITING_CONFIRMATION", "COMPLETED"}
  /\ Begin(Handler("confirm", 0))
  /\ UNCHANGED <<job, dispute, obligation, intents, minted, checkouts, events, ledger,
                 sweep>>

RequestConfirmation ==
  /\ FrontendStatus \in {"AWAITING_CONFIRMATION", "COMPLETED"}
  /\ NextLaborPayment \notin CompletionTypes
  /\ Begin(Handler("confirm", 0))
  /\ UNCHANGED <<job, dispute, obligation, intents, minted, checkouts, events, ledger,
                 sweep>>

\* The transaction tries the (legacy) second release unless everything is paid,
\* and that is where a frozen job makes it fail.
ConfirmJobCompletion ==
  /\ End(Handler("confirm", 0))
  /\ job.progress = "FULLY_PAID" \/ ~UnderReview
  /\ job' = [job EXCEPT !.status = "COMPLETED", !.confirmed = TRUE, !.deadline = "NONE"]
  /\ UNCHANGED <<dispute, obligation, intents, minted, checkouts, events, ledger, sweep>>

----------------------------------------------------------------------------
(* The confirmation deadline *)

DeadlinePasses ==
  /\ job.deadline = "RUNNING"
  /\ job' = [job EXCEPT !.deadline = "REACHED"]
  /\ UNCHANGED <<dispute, obligation, intents, minted, checkouts, events, ledger, sweep,
                 inFlight>>

\* The cron's transaction checks everything again before it writes.
SystemCompleteJobAfterDeadline ==
  /\ job.status \in {"IN_PROGRESS", "ACCEPTED"}
  /\ FrontendStatus = "AWAITING_CONFIRMATION"
  /\ job.deadline = "REACHED"
  /\ dispute.status # "OPEN"
  /\ job.progress = "FULLY_PAID"
  /\ job' = [job EXCEPT !.status = "COMPLETED", !.override = "COMPLETED"]
  /\ UNCHANGED <<dispute, obligation, intents, minted, checkouts, events, ledger, sweep,
                 inFlight>>

----------------------------------------------------------------------------
(* cancelJob of an unpaid job.  The policy is decided on what was read; the *)
(* transaction that cancels does not ask again, and the intents are marked  *)
(* refunded after it.  (The cancellation of a paid job opens a dispute: see *)
(* JobDispute.)                                                             *)

Cancellable ==
  /\ job.override \notin {"CANCELLED", "COMPLETED"}
  /\ ~AdminPaymentOutstanding

RequestCancellation ==
  /\ Cancellable
  /\ ~LaborPaid
  /\ Begin(Handler("cancel", 0))
  /\ UNCHANGED <<job, dispute, obligation, intents, minted, checkouts, events, ledger,
                 sweep>>

\* (mutant: the cancellation deletes the commission rows, as for an escrow job)
CancelJobDroppingLedger ==
  /\ Handler("cancel", 0) \in inFlight
  /\ inFlight' = (inFlight \ {Handler("cancel", 0)}) \cup {Handler("markRefunded", 0)}
  /\ job' = [job EXCEPT !.status = "CANCELLED", !.override = "CANCELLED"]
  /\ ledger' = {}
  /\ UNCHANGED <<dispute, obligation, intents, minted, checkouts, events, sweep>>

CancelJob ==
  /\ Handler("cancel", 0) \in inFlight
  /\ inFlight' = (inFlight \ {Handler("cancel", 0)}) \cup {Handler("markRefunded", 0)}
  /\ job' = [job EXCEPT !.status = "CANCELLED", !.override = "CANCELLED"]
  /\ UNCHANGED <<dispute, obligation, intents, minted, checkouts, events, ledger, sweep>>

MarkLaborIntentRefunded ==
  /\ End(Handler("markRefunded", 0))
  /\ SetIntentState({i \in Intents : intents[i].state = "PAID"}, "REFUNDED")
  /\ UNCHANGED <<job, dispute, obligation, minted, checkouts, events, ledger, sweep>>
==============================================================================
