------------------------------ MODULE LaborJob ------------------------------
(***************************************************************************)
(* The rows a labor payment touches: one job (its row and its meta JSON),  *)
(* its dispute, its customer payment obligation, its payment intents, the  *)
(* webhook events and the commission ledger; the checkouts as the payment  *)
(* gateway knows them; and the request handlers that have read some of     *)
(* this and not yet written.                                               *)
(*                                                                         *)
(* A database transaction of the code is one step of the model: those that *)
(* matter run SERIALIZABLE, and every one of them writes the job row.  A   *)
(* handler that reads, awaits and then writes is two steps, and what it    *)
(* remembers in between is a member of inFlight.                           *)
(***************************************************************************)
EXTENDS PaymentMode, Integers, FiniteSets

CONSTANTS
  Mode,         \* job.paymentModeSnapshot, frozen when the price is submitted
  Gateways,     \* the payment providers a checkout may use
  Outcomes,     \* what a gateway may report of a checkout
  MaxQuote,     \* bound: prices agreed for the job
  MaxIntents,   \* bound: PaymentIntent rows
  MaxRefs,      \* bound: merchant references minted
  MaxCases,     \* bound: disputes opened on the job
  MaxInFlight   \* bound: handlers between their read and their write

ASSUME ModeAssumption == Mode \in PaymentModes
ASSUME GatewaysAssumption == Gateways \subseteq {"PAYFAST", "PAYSTACK"}
ASSUME OutcomesAssumption == Outcomes \subseteq {"PAID", "FAILED", "CANCELLED"}
ASSUME BoundsAssumption ==
  /\ MaxQuote \in Nat \ {0}
  /\ MaxIntents \in Nat
  /\ MaxRefs \in Nat
  /\ MaxCases \in Nat
  /\ MaxInFlight \in Nat

VARIABLES
  job,         \* the Job row and the fields of its meta the handlers test
  dispute,     \* [status, cases]: the JobDispute row
  obligation,  \* the CustomerPaymentObligation row of the job
  intents,     \* intents[i]: the i-th LABOR PaymentIntent row created
  minted,      \* merchant references minted so far
  checkouts,   \* checkouts[r]: what the gateway knows of reference r
  events,      \* events[r][s]: the PaymentWebhookEvent of r with state s
  ledger,      \* CommissionLedger rows
  sweep,       \* the side effects an opened dispute still has to run
  inFlight     \* handlers that have read and not yet written

vars == <<job, dispute, obligation, intents, minted, checkouts, events, ledger,
          sweep, inFlight>>

Intents == 1..MaxIntents
Refs == 1..MaxRefs
Quotes == 1..MaxQuote

JobStatuses == {"ACCEPTED", "IN_PROGRESS", "COMPLETED", "CANCELLED"}
StatusOverrides ==
  {"SERVICE_PRICE_SUBMITTED", "SERVICE_PAID", "IN_PROGRESS", "AWAITING_CONFIRMATION",
   "DISPUTED", "COMPLETED", "CANCELLED"}
IntentStates ==
  {"ABSENT", "PENDING", "PROCESSING", "PAID", "FAILED", "CANCELLED", "DISPUTED",
   "REFUNDED", "PARTIALLY_REFUNDED"}
NotificationStates == {"PAID", "FAILED", "CANCELLED"}
ObligationStates == {"NONE", "OPEN", "PAUSED", "PAID", "CANCELLED"}
Sources == {"COMPLETION_WORKFLOW", "ADMIN_RELEASE"}

\* What a handler remembers across an await: its name, and the reference or
\* intent it is about (0 when it is about the job itself).
Handlers ==
  [op : {"chargeFailed"}, arg : Refs]
    \cup [op : {"confirmReturn"}, arg : Intents]
    \cup [op : {"markComplete", "oblige", "obligeAdmin", "confirm", "cancel", "markRefunded",
                "forceSnapshot", "openDispute", "reopenDispute", "refund"},
          arg : {0}]
Handler(op, arg) == [op |-> op, arg |-> arg]

NoSweep == [snapshot |-> FALSE, mark |-> {}, void |-> {}]

----------------------------------------------------------------------------
(* Reading the rows *)

\* What the customer and the provider see of the job (jobStatus.util.js).
FrontendStatus ==
  IF job.status = "COMPLETED" \/ job.confirmed THEN "COMPLETED" ELSE job.override

NextLaborPayment == ResolveNextLaborPaymentType(Mode, job.progress, job.override)

\* job.laborPaid is set by the settlement of the first payment and never reset.
LaborPaid == job.progress # "NONE"

UnderReview == job.override = "DISPUTED" \/ job.frozen

\* statusOverride is not changed any more once the job is finished.
IsTerminalJobState ==
  job.status = "COMPLETED" \/ job.confirmed \/ job.override = "COMPLETED"

\* An admin has released the remaining balance and it is not paid yet.
AdminPaymentOutstanding ==
  \/ obligation.state = "OPEN" /\ obligation.source = "ADMIN_RELEASE"
  \/ job.adminDue

\* (mutant: a webhook finds its intent by the stage paid for, not the reference)
IntentByStage(r) ==
  {i \in Intents : intents[i].state # "ABSENT" /\ intents[i].type = checkouts[r].type}

IntentByReference(r) ==
  {i \in Intents : intents[i].state # "ABSENT" /\ intents[i].ref = r}

----------------------------------------------------------------------------
(* Writing them *)

ObligationAfterCase(state) ==
  IF obligation.state \in {"OPEN", "PAUSED"}
  THEN [obligation EXCEPT !.state = state]
  ELSE obligation

\* Start a handler that will write later, or finish one.
Begin(h) ==
  /\ Cardinality(inFlight) < MaxInFlight
  /\ inFlight' = inFlight \cup {h}

End(h) ==
  /\ h \in inFlight
  /\ inFlight' = inFlight \ {h}

SetIntentState(S, state) ==
  intents' = [i \in Intents |->
                IF i \in S THEN [intents[i] EXCEPT !.state = state] ELSE intents[i]]

----------------------------------------------------------------------------
(* Where the model starts: the provider has submitted a service price and  *)
(* the payment schedule is snapshotted.  A job whose category is paid on   *)
(* completion is started at once.                                          *)
Init ==
  /\ job = [status   |-> IF Mode = "SINGLE_PAYMENT_ON_COMPLETION"
                         THEN "IN_PROGRESS" ELSE "ACCEPTED",
            override |-> IF Mode = "SINGLE_PAYMENT_ON_COMPLETION"
                         THEN "IN_PROGRESS" ELSE "SERVICE_PRICE_SUBMITTED",
            progress |-> "NONE", price |-> 1, quote |-> 1,
            credited |-> [t \in PaymentTypes |-> 0],
            frozen |-> FALSE, confirmed |-> FALSE, deadline |-> "NONE",
            adminDue |-> FALSE]
  /\ dispute = [status |-> "NONE", cases |-> 0]
  /\ obligation = [state |-> "NONE", source |-> "COMPLETION_WORKFLOW"]
  /\ intents = [i \in Intents |->
                  [state |-> "ABSENT", type |-> "DEPOSIT", ref |-> 0, quote |-> 1]]
  /\ minted = 0
  /\ checkouts = [r \in Refs |->
                    [gateway |-> "NONE", type |-> "DEPOSIT", quote |-> 1,
                     told |-> {}]]
  /\ events = [r \in Refs |-> [s \in NotificationStates |-> "NONE"]]
  /\ ledger = {}
  /\ sweep = NoSweep
  /\ inFlight = {}
==============================================================================
