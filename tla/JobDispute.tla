------------------------------ MODULE JobDispute ------------------------------
(***************************************************************************)
(* Disputes: opened by the customer who rejects the completion request, or *)
(* by the cancellation of a paid job; what opening one does to the payment *)
(* intents; and the admin's resolution.                                    *)
(*                                                                         *)
(* jobDispute.service.js, disputeAdmin.service.js.                         *)
(***************************************************************************)
EXTENDS JobLifecycle

----------------------------------------------------------------------------
(* Opening a case.  The handler checks, then commits without checking      *)
(* again: a second dispute row is refused by the database (jobId is        *)
(* unique), a resolved one is simply opened again.                         *)

NoActiveDispute == dispute.status # "OPEN"

\* The customer rejects the completion request.
MayReject == FrontendStatus = "AWAITING_CONFIRMATION"

\* Either party cancels a job whose labor is paid.
MayCancelIntoReview ==
  /\ Cancellable
  /\ LaborPaid
  /\ FrontendStatus \notin {"COMPLETED", "CANCELLED", "DISPUTED"}

RequestDispute ==
  /\ MayReject \/ MayCancelIntoReview
  /\ NoActiveDispute
  /\ Begin(Handler(IF dispute.status = "RESOLVED" THEN "reopenDispute" ELSE "openDispute", 0))
  /\ UNCHANGED <<job, dispute, obligation, intents, minted, checkouts, events, ledger,
                 sweep>>

\* (mutant: opening a case leaves the balance an admin released earlier standing)
OpenDisputeKeepingBalance(op) ==
  /\ End(Handler(op, 0))
  /\ op = "openDispute" => dispute.status = "NONE"
  /\ dispute.cases < MaxCases
  /\ sweep = NoSweep
  /\ dispute' = [status |-> "OPEN", cases |-> dispute.cases + 1]
  /\ job' = [job EXCEPT !.override = "DISPUTED", !.frozen = TRUE]
  /\ obligation' = IF obligation.state = "OPEN"
                   THEN [obligation EXCEPT !.state = "PAUSED"] ELSE obligation
  /\ sweep' = [NoSweep EXCEPT !.snapshot = TRUE]
  /\ UNCHANGED <<intents, minted, checkouts, events, ledger>>

OpenDispute(op) ==
  /\ End(Handler(op, 0))
  /\ op = "openDispute" => dispute.status = "NONE"
  /\ dispute.cases < MaxCases
  /\ sweep = NoSweep
  /\ dispute' = [status |-> "OPEN", cases |-> dispute.cases + 1]
  /\ job' = [job EXCEPT !.override = "DISPUTED", !.frozen = TRUE, !.adminDue = FALSE]
  /\ obligation' = IF obligation.state = "OPEN"
                   THEN [obligation EXCEPT !.state = "PAUSED"] ELSE obligation
  /\ sweep' = [NoSweep EXCEPT !.snapshot = TRUE]
  /\ UNCHANGED <<intents, minted, checkouts, events, ledger>>

----------------------------------------------------------------------------
(* postCreateDisputeSideEffects, after the commit: read the labor intents, *)
(* mark every one of them DISPUTED, then cancel those of the completion    *)
(* stage that were unpaid WHEN READ.  A crash drops what is left.          *)

SweepSnapshot ==
  LET present == {i \in Intents : intents[i].state # "ABSENT"}
  IN  /\ sweep.snapshot
      /\ sweep' =
           [snapshot |-> FALSE,
            mark |-> present,
            void |-> {i \in present :
                        /\ intents[i].type \in CompletionTypes
                        /\ intents[i].state \in {"PENDING", "PROCESSING", "FAILED",
                                                 "CANCELLED", "DISPUTED"}}]
      /\ UNCHANGED <<job, dispute, obligation, intents, minted, checkouts, events,
                     ledger, inFlight>>

MarkIntentDisputed(i) ==
  /\ i \in sweep.mark
  /\ SetIntentState({i}, "DISPUTED")
  /\ sweep' = [sweep EXCEPT !.mark = @ \ {i}]
  /\ UNCHANGED <<job, dispute, obligation, minted, checkouts, events, ledger, inFlight>>

VoidCompletionIntent(i) ==
  /\ sweep.mark = {}
  /\ i \in sweep.void
  /\ SetIntentState({i}, "CANCELLED")
  /\ sweep' = [sweep EXCEPT !.void = @ \ {i}]
  /\ UNCHANGED <<job, dispute, obligation, minted, checkouts, events, ledger, inFlight>>

----------------------------------------------------------------------------
(* resolveDispute: the transaction finds the dispute open, or does nothing. *)

Resolved == [dispute EXCEPT !.status = "RESOLVED"]

\* The remaining balance becomes payable and a paused obligation resumes.  If
\* there is none to resume, one is opened after the commit when money is due.
ReleaseFunds ==
  LET released == [job EXCEPT !.status = "IN_PROGRESS",
                              !.override = "AWAITING_CONFIRMATION",
                              !.frozen = FALSE, !.adminDue = TRUE]
      due == ResolveNextLaborPaymentType(Mode, released.progress, released.override)
  IN  /\ dispute.status = "OPEN"
      /\ dispute' = Resolved
      /\ job' = released
      /\ IF obligation.state = "PAUSED"
         THEN /\ obligation' = [obligation EXCEPT !.state = "OPEN"]
              /\ UNCHANGED inFlight
         ELSE /\ UNCHANGED obligation
              /\ IF due \in CompletionTypes
                 THEN Begin(Handler("obligeAdmin", 0)) ELSE UNCHANGED inFlight
      /\ UNCHANGED <<intents, minted, checkouts, events, ledger, sweep>>

OpenAdminObligation ==
  /\ End(Handler("obligeAdmin", 0))
  /\ UpsertOpenObligation("ADMIN_RELEASE")
  /\ UNCHANGED <<job, dispute, intents, minted, checkouts, events, ledger, sweep>>

\* PARTIAL_REFUND and FULL_REFUND: money first.  Before the transaction that
\* cancels the job the gateway refunds the paid intents one after the other:
\* some in full and at most one in part, or none when it must be done by hand.
RefundableIntents ==
  {i \in Intents : /\ LaborPaid
                   /\ intents[i].state \in {"PAID", "PARTIALLY_REFUNDED", "DISPUTED"}
                   /\ "PAID" \in checkouts[intents[i].ref].told}

GatewayRefundFirst ==
  /\ dispute.status = "OPEN"
  /\ Begin(Handler("refund", 0))
  /\ \E full \in SUBSET RefundableIntents :
       \E partial \in SUBSET (RefundableIntents \ full) :
         /\ Cardinality(partial) <= 1
         /\ intents' = [i \in Intents |->
                          CASE i \in full -> [intents[i] EXCEPT !.state = "REFUNDED"]
                            [] i \in partial ->
                                 [intents[i] EXCEPT !.state = "PARTIALLY_REFUNDED"]
                            [] OTHER -> intents[i]]
  /\ UNCHANGED <<job, dispute, obligation, minted, checkouts, events, ledger, sweep>>

ResolveWithRefund ==
  /\ End(Handler("refund", 0))
  /\ dispute.status = "OPEN"
  /\ dispute' = Resolved
  /\ job' = [job EXCEPT !.status = "CANCELLED", !.override = "CANCELLED",
                        !.frozen = FALSE, !.adminDue = FALSE]
  /\ obligation' = ObligationAfterCase("CANCELLED")
  /\ UNCHANGED <<intents, minted, checkouts, events, ledger, sweep>>

ReturnProvider ==
  /\ dispute.status = "OPEN"
  /\ dispute' = Resolved
  /\ job' = [job EXCEPT !.status = "IN_PROGRESS", !.override = "IN_PROGRESS",
                        !.frozen = FALSE, !.adminDue = FALSE, !.deadline = "NONE"]
  /\ obligation' = ObligationAfterCase("CANCELLED")
  /\ UNCHANGED <<intents, minted, checkouts, events, ledger, sweep, inFlight>>

\* The freeze is lifted and a paused obligation resumes; statusOverride is not
\* touched.
CloseCase ==
  /\ dispute.status = "OPEN"
  /\ dispute' = Resolved
  /\ job' = [job EXCEPT !.frozen = FALSE]
  /\ obligation' = IF obligation.state = "PAUSED"
                   THEN [obligation EXCEPT !.state = "OPEN"] ELSE obligation
  /\ UNCHANGED <<intents, minted, checkouts, events, ledger, sweep, inFlight>>
==============================================================================
