# A verification project for EloFix

EloFix is a marketplace for home services. A customer asks for a job, a provider
prices and does it, the customer pays through a payment gateway in one or two
payments, buys the materials from a store, and either side may call in an admin
when something goes wrong. The server (`src/elofix-backend`) is a Node/Express
program on PostgreSQL; the web client (`src/frontend`) only talks to its API.
Every request handler, webhook and cron tick reads rows, awaits, and writes rows,
and the only thing that orders them is the database. What is hard here is what
happens *between* a read and the write it leads to, and what a gateway reports
late, twice, in another order or never.

The modules model the money of the system: the payments of a labor job with its
disputes and its cancellation, the refunds that go back to the customer, the debt
this leaves with the provider, what customers owe and how they are refused for it,
the orders of materials, and the payouts the gateway makes. Besides, they model the
notification outbox. TLC checks them on small instances; TLAPS proves their main
invariants for every value of the constants.

## 1. The parts of the system

Paths are below `src/elofix-backend/src` unless they start with `src/`.

| Part | State it keeps | Operations | What is hard | What makes it correct | Here |
|---|---|---|---|---|---|
| Payment schedule (`services/payments/paymentMode.service.js`) | `Job.paymentModeSnapshot`, `quotedAmount`, `paymentProgress` | snapshot the mode, next stage due | snapshot taken again by a stale decision | stages booked in order, each once | `PaymentMode`, `PaymentSchedule` |
| Payment intents (`payments/paymentIntent.service.js`) | `PaymentIntent` rows | create, reuse an unpaid row, customer's return | the old checkout of a reused row may still be paid | what is booked was captured, and under which reference | `LaborCheckout` |
| Webhooks (`payments/webhook.service.js`, gateways) | `PaymentWebhookEvent` rows | paid, failed, cancelled; Paystack's verify; refunds | repeated, reordered, late, judged on stale rows | each stage credited once, each refund booked once | `LaborCheckout`, `GatewayRefunds`, `RefundDebt` |
| Settlement (`payments/settlement.service.js`, `payments/escrowSettlement.service.js`) | `CommissionLedger`, job totals | book a payment, refuse one during review | the same stage paid twice; payment during a case | totals, ledger and progress agree | `LaborCheckout`, `MaterialOrder` |
| Job lifecycle (`services/job.service.js`, `jobs/completionDeadline.job.js`, `utils/`) | `Job.status`, `meta` JSON | accept price, mark complete, confirm, deadline, cancel | checks outside the transaction that writes | completed means paid | `JobLifecycle` |
| Disputes (`services/jobDispute.service.js`, `services/disputeAdmin.service.js`) | `JobDispute`, `meta.escrowFrozen`, `meta.completionPaymentDue` | open from a rejection or a cancellation, five resolutions | side effects after commit; gateway refund before commit | freeze and released balance follow the case | `JobDispute` |
| Gateway refunds (`payments/refund.service.js`) | `refundedAmount` and `gatewayPayload` of intents, `meta.refund` | request a slice, take the answer, finalize, continue with the next intent | concurrent requests, payloads written back as read, events that repeat | within what was paid; nothing the gateway paid is forgotten | `GatewayRefunds` |
| Refund recovery (`services/refundRecovery.service.js`, `services/providerRefundClawback.service.js`, `services/earning.service.js`, `jobs/refundDebtEnforcement.job.js`) | `RefundRecovery`, ledger, `ProviderRefundRepayment`, the provider's block | debt, repayment by gateway and transfer, review, abandonment, enforcement | debt kept twice and written over at READ COMMITTED, stale batches, late payments | recovered was charged and taken; debt leaves the ledger only when it was taken; overdue leads to the block | `RefundDebt` |
| Obligations (`services/customerPaymentObligation.service.js`, `jobs/customerPaymentObligation.job.js`) | `CustomerPaymentObligation`, `User.marketplaceRestricted` | ensure, pause, resume, pay, cancel; the hourly sweep; the gate | sweep and gate work on rows read earlier | who owes is refused, who does not is let through | `CustomerObligations`; opened and closed with the job in `JobLifecycle`, `JobDispute` |
| Material orders (`services/materialOrder.service.js`) | `MaterialOrder` columns and payload | fulfil, quote and pay the delivery, cancel and refund | the gateway is called inside the transaction; the payload is written whole | one refund invoiced; the money given back once, and again only after a lost transaction; terminal states | `MaterialOrder` |
| Payouts (`payments/paystack.settlementReconcile.service.js`, `paystack.settlementAmountMatch.js`) | payout fields of intents, `GatewayPayoutSettlement` | list, match, link, copy the status | overlapping passes over old lists; equal amounts | a shown status was given; links settle down | `SettlementReconcile` |
| Notification outbox (`services/notificationDeliveryOutbox.service.js`, `jobs/notificationOutbox.job.js`) | `NotificationDeliveryOutbox` | enqueue, claim, deliver, mark | overlapping ticks, crashes, leases | one holder, bounded retries, every row concluded | `NotificationOutbox`, `OutboxDelivery` |
| Withdrawals (`services/withdrawalAdmin.service.js`, `jobs/stuckWithdrawalRecovery.js`) | `WithdrawalRequest` | approve, fail when stale | - | - | not modelled: `requestWithdrawal` answers 410 (`providerAccount.service.js:784`), no row is ever created |
| Courier deliveries (`services/deliveryRequest.service.js`) | delivery requests | quote, accept, pay, fulfil | every write is made on a stale read | - | not modelled (section 5) |
| Idempotency keys (`utils/idempotencyTransaction.js`) | `IdempotencyRecord` | claim and fill inside the request's transaction | - | one effect per key, by a unique column | not modelled apart from the transactions |
| Money (`payments/money.util.js`) | none | cents, commission, 50/50 | - | parts add up by subtraction | not modelled |
| Supplier and branch settlement, legacy escrow | reports; escrow fields of old jobs | - | - | - | not modelled |
| Adapters, message texts, sockets, accounts, files, analytics, frontend | - | I/O and CRUD | - | - | not modelled |

How they meet: the customer's `createPaymentIntent` passes the gate of
`CustomerObligations`, reads the job and its dispute and creates an intent and a
gateway checkout; the gateway answers by a webhook, whose transaction updates the
intent, calls settlement, which writes the ledger, the job and its meta and closes
the obligation. `updateJobStatus` commits first and then opens the obligation;
opening a dispute commits first and then walks over the intents. Resolving it with a
refund calls the gateway first and records the decision afterwards: what the
gateway accepted comes back as refund events (`GatewayRefunds`), what exceeds the
provider's balance becomes debt (`RefundDebt`). What the provider repays of it, in full
or in part, or a release takes from later earnings, is sent to the customer
(`ConfirmRepayment`, `PayoutAgain` and `ReleaseRecovers` of `GatewayRefunds`). An order of materials uses the same intents and webhooks with
kinds of its own. What the gateway pays out is recognised by `SettlementReconcile`
from the intents that are paid. Everything tells users through the outbox.

The modules of different components are not composed into one specification, except
for the labor job: the product of their states is out of TLC's reach. What one
module needs of another is an action of its own (the obligation of a labor job, a
decision of an admin, a paid intent), and this table says which.

| Needed by | Stands for |
|---|---|
| `LaborPayments`, `GatewayRefundFirst` | all that `GatewayRefunds` may have done to the intents by the time the decision commits |
| `GatewayRefunds`, `Decisions` | the splits `JobDispute` and the provider's balance lead to |
| `GatewayRefunds`, `owed` | the ledger and recovery rows of the job in `RefundDebt`, as one number |
| `GatewayRefunds`, `ConfirmRepayment` | `ConfirmDebts` to `ConfirmCommit` of `RefundDebt`, and the payout that follows |
| `GatewayRefunds`, `ReleaseRecovers` | `Release` of `RefundDebt`, and the payout that may follow |
| `RefundDebt`, `Debts` | `RecordDecision` of `GatewayRefunds` |
| `CustomerObligations`, `jobs` | mark complete, payment, case and cancellation of `LaborPayments`, at any time |
| `SettlementReconcile`, `RecordPayment` | the paid notification of `LaborCheckout` |

## 2. Modules

    PaymentMode        modes, stages, next stage due (no state)
      LaborJob         the rows, and the handlers between read and write
        LaborCheckout  intents, gateway, webhooks, settlement
        JobLifecycle   price, mark complete, obligation, confirm, deadline, cancel
          JobDispute   opening a case, its side effects, the resolutions
      LaborPayments    composes the three, states the properties
        MCLaborPayments, LaborPayments_proofs
      PaymentSchedule  abstract: stages booked in order, each once
    GatewayRefunds       refunds of a labor job
      MCGatewayRefunds, GatewayRefunds_proofs
    RefundDebt           the provider's debt and its repayment
      MCRefundDebt, RefundDebt_proofs
    CustomerObligations  what a customer owes, the sweep, the gate
      MCCustomerObligations, CustomerObligations_proofs
    MaterialOrder        one order of materials
      MCMaterialOrder, MaterialOrder_proofs
    SettlementReconcile  payouts of the gateway
      MCSettlementReconcile, SettlementReconcile_proofs
    OutboxDelivery       abstract: what the outbox promises
    NotificationOutbox   the loops
      MCNotificationOutbox, NotificationOutbox_proofs
    SumLemmas            lemmas about sums, for the proofs (no state)

The `MC` modules name the values of constants for TLC, the `_proofs` modules hold
the theorems.

All modules use one idea of a step. What a handler does between two awaits on the
database or the gateway is one action, and what it has read stays in its record
(`inFlight`, `worker`, `actor`, `pass`). A `Serializable` transaction is one action
that succeeds or leaves no trace. A transaction at READ COMMITTED whose reads and writes
others may come between is one action for each read it decides on, with the rows it has
written held until its commit. A handler may stop between any two of its steps.

### The labor job

| Variable | Code |
|---|---|
| `job.status`, `progress`, `price`, `quote` | `Job.status`, `paymentProgress`, `meta.servicePrice`, and the schedule columns `quotedAmount`/`firstPaymentAmount`/`secondPaymentAmount` |
| `job.credited[t]` | how often a payment of stage `t` was added to `commissionAmount`/`providerAmount` |
| `job.override`, `frozen`, `confirmed`, `deadline`, `adminDue` | `meta.statusOverride`, `escrowFrozen`, `completionConfirmedByUser`, `confirmationDeadlineAt` (none, in the future, passed), `completionPaymentDue.resolutionLogId` |
| `dispute` | `JobDispute.status` (OPEN and UNDER_INVESTIGATION are one: every test of the code asks for both) |
| `obligation` | `CustomerPaymentObligation` (DUE and OVERDUE are `OPEN`) |
| `intents[i]` | `PaymentIntent` rows of kind LABOR, in order of creation |
| `checkouts[r]`, `minted` | what the gateway knows of merchant reference `r`; external |
| `events[r][s]` | `PaymentWebhookEvent` of `r` with state `s` |
| `ledger` | `CommissionLedger` |
| `sweep` | what is left of `postCreateDisputeSideEffects` |
| `inFlight` | handlers that have read and decided, and not yet written |

A handler that decides on rows read outside its transaction is two steps: the first
evaluates its guards and puts it into `inFlight`, the second writes, with the guards
the code asks again and no others. `HandlerDies` drops a handler in between.

* Amounts are the version of the quote they were computed from. A webhook whose
  amount is not what the schedule asks for is rolled back and so is no step.
* The job is one with a provider, a submitted price and a snapshotted mode, which is
  where `Init` starts (`submitServicePrice`). `legacyEscrowV2` and courier jobs take
  other branches and are left out; so is the resubmission of a price.
* `updateJobStatus` is modelled for `AWAITING_CONFIRMATION`. Its other values are
  progress labels that no payment code tests.
* A gateway may decline or lose a checkout and take the money later, and report any
  of what it has decided any number of times, in any order, or not. PayFast reports
  cancellations and failures, Paystack failures, after a verify call.
* `GatewayRefundFirst` picks which of the refundable intents end REFUNDED and at most
  one PARTIALLY_REFUNDED, or none: more combinations than the FIFO can produce.
* The obligation is opened, paused and closed where a transaction of the job does so.
  Pauses and reconciliations outside transactions are in `CustomerObligations`.
* Idempotency keys replay the answer of an earlier request and are left out, as are
  texts, audit logs and pushed events.
* One dispute's side effects at a time (`sweep`).

### Gateway refunds

| Variable | Code |
|---|---|
| `intents[i].refunded`, `pending`, `finalized`, `last`, `attempt` | `refundedAmount`, and in `gatewayPayload`: `pendingRefund`, `finalizedRefundIds`, `lastRefund`, the external id of the last attempt |
| `gateway` | the refunds Paystack has, with state and amount; external |
| `refund` | `Job.meta.refund`: status, the immediate part, the part that waits, what is ready, the ids finalized |
| `decided`, `owed`, `repaid` | decisions recorded; what the provider still owes of them; the repayments verified, of any amount |
| `handled` | `PaymentWebhookEvent.processed` |
| `worker[w]` | a request or webhook handler: its task, the row it read, its plan over the intents |

A worker resolves a case (`ResolveBegin` to `RecordDecision`), confirms a repayment,
full or partial (`acknowledgePartial`), and pays out (`ConfirmRepayment` or `PayoutAgain`
to `PayoutAnswered`), completes a job whose release pays debt (`ReleaseRecovers` to
`StagedAnswered`) or takes an event (`HookBegin` to `HookMark`),
and in each asks the gateway intent by intent (`ReadIntent`, `AskGateway` or
`AskRefused`, `SaveAnswer`). `gatewayPayload` is always written whole, as it was read.
`Crash` stops a worker anywhere. The amounts a provider repays are the constant
`Repayments`. `StagedAnswered` picks what the code writes when nothing was left to ask.
A repayment is of this job's debt; one without a job is paid out by the same steps.
Left out: the status `NEEDS_ATTENTION` and
`requiresManualAction`, which wait for a person; refunds whose currency or amount the
event contradicts.

### Refund debt

| Variable | Code |
|---|---|
| `recoveries` | `RefundRecovery`: amount, remaining, status, in the order of creation |
| `ledger`, `debits` | `refund_debt` rows of the earnings ledger with what clawback rows took of each (`clawed`); clawback rows under a repayment's idempotency key |
| `repayments[r]`, `intents[r]` | `ProviderRefundRepayment` and its `PaymentIntent` (kind PROVIDER_REFUND_REPAYMENT) |
| `checkouts`, `minted`, `handled` | the gateway's checkouts, references given out, events processed |
| `provider` | `ProviderProfile`: restricted for debt, blocked by an admin |
| `sweep` | the batch `refundDebtEnforcement` read |
| `worker[w]` | a request of the provider or an admin |

The confirmation of a repayment (`refundRecovery.service.js:2200`) has no isolation level
and so runs at READ COMMITTED. It is four steps: `ConfirmDebts` reads the ledger,
`ConfirmTake` writes its rows and reads the recoveries, `ConfirmCommit` writes these and
commits, or `ConfirmStops`. What it writes are amounts worked out from what it read, over
whatever was committed meanwhile; rows it has written are held until it ends, a row deleted
meanwhile rolls it back, and so does the unique key of a clawback row.

A release is one step. All its callers run it in a `Serializable` transaction
(`job.service.js:2449`, `:2763`, `:2922`, `:3844`; `payment.service.js:864`, `:1063`;
`disputeAdmin.service.js:547`; `deliveryRequest.service.js`): it waits for rows a
confirmation holds, and PostgreSQL fails its update of a row that another transaction
changed since its snapshot. So a release that commits wrote over what it read; a
confirmation need not have. The webhook and the other transactions are one step. Left out:
`repairOverstatedProviderRefundRecoveries` (a repair of rows written by an older
version), reminders and notice stamps, batches larger than the table.

### Customer obligations

| Variable | Code |
|---|---|
| `jobs` | what `isCompletionPaymentDue`, settlement, cancellation and the case say of a job |
| `rows` | `CustomerPaymentObligation`: status, whether it has a restriction window, where the clock stands in it (`phase`), order of creation (`born`) |
| `restricted` | `User.marketplaceRestricted` with the reason of this component |
| `actor[a]` | where a request or the sweep is, the row and job it holds, what it still goes through |
| `pass`, `cursor` | the sweep's batch and transaction; `cursorId`, kept between passes |
| `clearSince` | history, for the property: jobs that owed nothing at some moment of a gate |

The gate (`StartGate` to its answer) reconciles what is owed, asks for the case of each
row with a query of its own, restricts or clears. The sweep takes batches in the order
of random ids, so new rows come before and behind its cursor. Left out: reminders and
notice stamps, the list shown to admins. A serialization failure may hit any of the
transactions (`MaxFaults`), also where PostgreSQL would not raise it; the job's
advisory lock makes it one sweep. A pass compares all its
rows with one `now`; the model asks the clock at each row, so that a deadline that
passes during a pass counts at once. One customer: rows of different customers meet
in nothing but the batch.

### Material orders

| Variable | Code |
|---|---|
| `order` | `fulfilmentStatus`, `paymentStatus`, `refundStatus`, `refundAmount` |
| `payload` | `payload.delivery`: the type, the status, the fee, paid, confirmed, an issue |
| `holder` | the cancellation that has updated the row and waits for the gateway |
| `intents[k]`, `taken[k]`, `given[k]` | the intents of the materials and of the fee, the customer's money at the gateway |
| `unsettled` | the fee is paid and its settlement has not written the order |
| `invoices` | refund invoices |
| `lost` | cancellations whose transaction timed out or stopped |
| `worker[w]` | a request: the operation, the payload it will write, the intent it read |

`Decides` is a transaction that has read, `Commit` writes if the row was not written since,
`Overwrite` is what the writers outside a transaction do: the payload as they read it. A
cancellation reads (`CancelRead`), updates and holds the row (`CancelUpdate`), marks the
intents (`CancelMark`) and asks for the refund through another connection, which is three
awaits: `RefundRead`, `RefundAsk`, `RefundBook` with `RefundNote`. Then it commits
(`CancelCommit`). Its transaction may time out anywhere (`CancelTimesOut`; 20 s, while the
gateway call has no limit, `paystack.client.js:54`): the row is free, and the handler goes
on with what it does outside of the transaction until it comes back to it. `lost` counts
such transactions. `PayAtOnce` is `POST /material-orders/:id/delivery/pay`
(`payMaterialOrderDelivery`), which marks the fee paid and looks at no payment; the fee it
writes is the request's in the code, and here the one that stores ask. PENDING stands for
PENDING, ACCEPTED and PREPARING, which no rule tells apart. Left out: delivery by courier,
refunds that stay pending at the gateway, notes, invoices as documents, and statuses of
`updateMaterialOrderDelivery` that nothing tests.

### Settlement reconciliation

| Variable | Code |
|---|---|
| `settlement` | the gateway's settlements: its word, the payments covered, the day; external |
| `intent` | `PaymentIntent`: `paidAt`, `payoutStatus`, the linked settlement, whether the fee is known |
| `local` | `GatewayPayoutSettlement.status` |
| `pass` | a reconcile pass: the rows left, and what the amounts said of the first of them |
| `clock` | the server's clock; a settlement of a day covers payments of that day and earlier |

One recipient's account. `finalizeLinkedPaystackSettlement` runs in one transaction
and is one step, with a unique key that makes the second of two equal inserts a
skipped row. Left out: notices and events, the mirror in material orders, the
14 days the list looks back and the page limit, the throttle of the refresh,
`repairFalseChargeTimeProcessing`, words of the gateway the code does not know (the row
is skipped).

### The outbox

Each process has one loop (`tickInFlight`). `ReadBatch` is the `findMany`, and
keeps for each row the attempts it read; `ClaimOutboxRow` is the compare-and-swap
on them; `DeliverOutboxRow` the channel; `MarkOutboxSent` and `MarkOutboxFailure`
write unconditionally with the attempts as read. `Crash` ends a process, or aborts
its batch by an exception from `markOutboxFailure`. A claim that fails with a
database error leaves the row as it is and is not modelled apart from that. The
rows of a batch are taken in any order. `NextAttemptComes` is the clock reaching
`nextAttemptAt`. The constant `LeaseOutlasts` says whether a loop may stay with a
row beyond its lease of ten minutes: TRUE is what the code relies on; nothing
enforces it (section 5).

## 3. Runs

The bounds are in the `.cfg` files and named in the modules. Deadlock is not checked
in the runs that say so: when the bounds are used up, or everything is paid, cancelled
or sent, nothing happens any more.

| Run | Instance | Shows |
|---|---|---|
| `labor_two_payments` | 50/50 through Paystack, two intents, two references, failures, one case, one handler in flight | `TypeOK`, `TotalsMatchProgress`, `BookedWasCaptured`, `ScheduleSpec`: each stage is counted once, in order, and only what was captured |
| `labor_racing_handlers` | one payment on completion through PayFast, failures, two prices, two cases, two handlers in flight | `CompletedIsFullyPaid`, `OpenCaseFreezesJob`, `NoCompletionBookedUnderReview` |
| `refunds_racing` | two intents of 1, a decision paid half at once, a repayment, releases, two workers, two refunds at the gateway | `TypeOK`, `RefundedWithinCeiling`, `FinalizedWasProcessed`, `PendingNotCounted`, whichever two steps overlap |
| `refunds_restarts` | intents of 1 and 2, one decision whose 2 are all debt, repaid with 1 or 2 or by releases, one worker that may stop or lose an answer once, two refunds | `BooksMatchGateway`, `ProcessedIsBooked` |
| `debt_recovery` | two debts of two jobs, two requests, one transfer of whatever is due, one release or block | `TypeOK`, `WrittenOffWasTaken`, `RecoveredWasTaken`, with the release anywhere between the reads and writes of the confirmation |
| `debt_repaid` | one debt of 2, both gateways, two references, one request | `RecoveredWasCharged`, `AbandonedIsNotPaid`, `OverdueIsBlocked` |
| `obligations_gate` | one 50/50 job, two requests, both watched, two cases, a fault | `TypeOK`, `AllowedOwedNothing`, `ClosedStaysClosed` |
| `obligations_sweep` | two jobs, batches of one row, one batch per pass, one request, a case, a fault | `OwedStaysRestricted`, `ClearCustomerIsAllowed` |
| `material_orders` | two requests, both payments, a gateway that may refuse, a transaction lost | `TypeOK`, `RefundInvoicedOnce`, `GivenBackOncePerLoss`, `TerminalStays`, `LeavesMarkedPaid` |
| `settlements_reconciled` | two equal payments, two settlements on two days, the timer's pass and a request's, a fault | `TypeOK`, `ShownWasSaid`, `FallbackIsUnambiguous`, `PayoutsConverge` |
| `outbox` | 2 processes, 2 rows, 2 attempts, a crash at any point | `TypeOK`, `NoOverlappingDelivery`, `RetriesAreBounded`, `RowOnlyAdvances`, `DeliverySpec`, `EveryRowConcluded` |
| `material_supplier_refund` | the store cancels a paid order, nothing else happening | `SupplierCancelGivesBack` is violated (below) |

Why these bounds. Two of everything that can be confused with another (intents,
references, debts, rows, settlements) and two actors wherever a race is meant. In
`obligations_gate` and `labor_racing_handlers` a second case shows what the first leaves
behind: a balance released by the first must be taken back when the second opens. A fault may hit any one
step; the theorems, which hold for any number of faults, cover the safety properties
beyond that. The one 50/50 job of `obligations_gate` passes through all three phases
of its window; the second kind of job has fewer. Batches of one row make the sweep's
cursor meet its end, rows in front of it and rows behind it. Two payments with equal
amounts are what the amount fallback must not mistake; `Reported` leaves the words
`processing`, `failed` and `reversed` to the proof of `ShownWasSaid`. `UPFRONT`
payment has no run of its own: it is a schedule with one stage less, and the
theorems hold for every mode.

What a run's bounds leave out. In `labor_two_payments` one stage has no two paid intents,
and no charge comes under two event ids, at the same time as everything else;
`LaborTotalsMatchProgress` and `LaborImplementsSchedule` hold for all bounds.
`refunds_racing` has no faults, since two workers and a fault are too many states: the
theorems about its properties have any number of them, of repayments and of refunds.
`BooksMatchGateway` is checked of one worker, and false of two (section 5). The
`refunds` runs have one repayment, full or partial; `RecoveredWasTaken` is checked of one
repayment, with two confirmations of it, and one release. `MaxLost` is 1 in
`material_orders`: one lost cancellation is enough for a second one to ask again while the
first is in flight, and `GivenBack` is for any number.

Symmetry is used for requests that are alike, and only in runs without liveness
properties.

Each property has a mutant: a change to one definition, of a kind a slip in the
code would make, with which TLC finds the property violated under the same cfg.
The mutated forms stand before the definitions they replace.

### Fairness

* Outbox: a process whose loop can take a step takes one in the end (`setInterval`
  keeps ticking, a batch is worked off), and the clock reaches `nextAttemptAt`.
* Refunds: a request or handler that has begun goes on (`WF` of `Continue(w)`; a stop
  is an action of its own, and bounded), and a processed refund is reported until it is
  taken: Paystack repeats an event until it is answered with 200 (`SF` of
  `HookTakes`, strong because a pending refund of another id turns it away meanwhile).
* Debt: the hourly enforcement job keeps running (`WF` of `Enforcement`). Nothing is
  assumed of providers, admins or gateways.
* Obligations: the hourly sweep keeps running, requests that have begun go on, and a
  customer who is refused asks again (`SF` of `StartGate`). Nobody has to pay, and time
  does not have to pass.
* Payouts: the timer's pass keeps running (`WF` of its steps, every 15 minutes). The
  gateway need not settle, and the other passes need not finish.

### Where the code and its documents differ

`material_supplier_refund` is expected to end in a counterexample.
`docs/order-finance-contracts.md:38` promises a "full refund to customer" when a
supplier cancels. `cancelMaterialOrderInTransaction` (`materialOrder.service.js:2370`)
first marks the intents of the order REFUNDED, through another connection. The
transaction then looks for one that is PAID: its snapshot still shows the intent so. But
`requestGatewayRefund` reads it again, finds REFUNDED and refuses
(`refund.service.js:758`); the answer is not looked at, and the order is closed as refunded
with no money returned.

## 4. Proofs

The `_proofs` modules prove the following for all values of the constants allowed by
the `ASSUME`s of the modules. The bounds are guards, so a theorem for all bounds is a
theorem for executions of any length.

**Labor job.** Four groups, each with the strengthening it needs.

* `LaborTypeOK`: one step per action. A handler's argument is a reference or an
  intent (`HandlerTypes`).
* `LaborOpenCaseFreezesJob` is inductive by itself: the freeze is set with the dispute
  row and lifted only by the step that resolves it, so that a handler in flight cannot
  separate them. `LaborNoCompletionBookedUnderReview` follows from it and from
  settlement's test of the freeze.
* `BooksInv` adds to `TotalsMatchProgress` that an intent holds the stage it was
  created for and that no stage is asked for before its predecessor is booked
  (`HeldIntentsExist`, `StagesInOrder`): with them a settlement is always of the next
  stage or of one already settled, whichever intent it comes from. The refinement
  `LaborImplementsSchedule` is read off from the same lemma.
* `CompletionInv` proves `LaborCompletedIsFullyPaid`: a confirmation in flight was
  asked for after the last payment, and payment progress never goes back.
* `CaptureInv` proves `LaborBookedWasCaptured`: an intent and the checkout under its
  present reference agree in stage and price, and a capture is never taken back.

**Outbox.** `IInv` strengthens `NoOverlappingDelivery` by what a claim means: a row
held by a process is PENDING with exactly the attempts it wrote and is not due; what
the others have read of it is older; a row accepted by the channel was handed over;
attempts are bounded by `MaxAttempts` plus the crashes, with the slot of a holder
counted. All its theorems but the type invariant assume `LeaseOutlasts`; without it
`NoOverlappingDelivery` is false.

**Gateway refunds.** `RefundedWithinCeiling` and `FinalizedWasProcessed` speak of rows;
`IInv` says the same of every copy of a row that a worker still holds, and that the
copy is not ahead of the row (`Grows`): a payload written back as it was read may
forget, but not invent. The money added is always cut to what the copy leaves of the
ceiling, and the copy's amount is at most the row's.

`PendingNotCounted` is one more conjunct of the same invariant: it is said of the rows
and of the copies, and since a new reference is one the gateway has just made, no row or
copy counts it yet (`NotPendingAndCounted`). The pending slice and the finalized ids are
always written together, from one copy, which is why a stale copy cannot mix them.

**Refund debt.** `IInv` says that a reference belongs to the repayment it was minted for,
also in the copies of requests, that a PAID intent was charged in the amount of its
repayment under one of its references, and that a confirmation in flight is of such a
repayment or of a transfer. `RecoveredIsCharged` and `AbandonedNeverPaid` follow.
`Types` has arithmetic in it: the oldest rows give what a repayment takes, none more
than it has, and together no more than the repayment.

`NothingWrittenOff` proves `WrittenOffWasTaken` in spite of lost updates. `OwedInv` adds to
it what a confirmation under way has read (`Covers`): of a ledger row it read, what was
created is at most what it read as owed and what has been clawed by now. Clawback rows only
grow, so a release in between keeps it; and at the commit the row owes what was read less
what is taken, while the clawed amount grows by what is taken. What the lost update does is
the other direction: the sum may be more than the row was created with (section 5).

**Material orders.** `FreshStands`: a request whose read is still current has decided
on the row as it is. `HolderCancels`: whoever holds the row is past its update, and only
the holder comes to the commit; a handler whose transaction is lost may be anywhere before
that. `IntentsRight`: an intent that may be refunded stands for money taken, also in the
copy a handler asks with. `GivenCounted` counts: each request that asked the gateway, and
each lost one that still may (`Pending`), is one of the lost transactions or the one that
is not lost, and each asks once and for no more than the price. With them: one invoice,
what is given back exceeds what was taken by a price per lost transaction at most, closed
orders stay closed, and goods leave only with their fee marked paid.

**Obligations.** Closed rows stay closed because every write of a row but the opening of
a new one starts from an open or paused row, or tests it again (`Keeps`). `GateInv`
follows one request through the gate: while a watched job has owed all along, the job
is in the set of rows the gate still has to ask about, or the answer is refused.

**Payouts.** `RowsWereSaid`: the list a pass works on holds old statuses of a settlement,
never one it has not been in. With it `ShownWasSaid` is inductive, whatever passes
overlap. `FallbackFailsClosed` follows from the types alone: in the order the payments
were made (by time, then id) the running sum grows strictly, every net being positive, so
it meets a settlement's amount at one payment at most (`OneCut`); a prefix that respects
ties is the payments up to its last one, and a cut with a tie behind it is refused. The
payments are assumed to be finitely many.

**Sums.** Induction over data is out of reach of the prover in the form of the library's
induction rules. `SumLemmas` does it in a first-order form: among the subsets of a finite
set for which a claim about sums fails there is a smallest one
(`FS_StrictSubsetOrderingWellFounded`, `WFMin`), and taking one element away gives a
smaller one. It proves what the others need of sums: any element may be added or taken
out first (`SumAdd`, `SumRemove`), more elements make no
less (`SumGrows`), and a sum is at most another into which its elements map one to one,
each to one no smaller (`SumInto`).

Only model-checked: the liveness properties (`EveryRowConcluded`, `ProcessedIsBooked`,
`OverdueIsBlocked`, `OwedStaysRestricted`, `ClearCustomerIsAllowed`, `PayoutsConverge`),
since TLAPS does not do liveness under fairness here; `BooksMatchGateway`, which holds only
of handlers one at a time; and `RecoveredWasTaken`, a sum over two tables that are written
from reads of different moments. Every other invariant, action property and refinement of
the passing runs is a theorem, under the hypotheses told above.

## 5. Differences met, and what is left out

### Things the code does not prevent

These were met while modelling. The modules contain the behaviour, so that every
property above holds in spite of it. They have no run; the counterexample is told here.

Labor jobs
* A FAILED or CANCELLED notification judged on an intent read before the transaction
  (`webhook.service.js:328`, `:961`) overwrites PAID if the payment is booked in between;
  `tests/paystack.webhook.http.test.js:676` says a PAID intent ignores a stale
  `charge.failed`.
* An intent cancelled or disputed meanwhile is settled when reported paid: the webhook
  has just set it to PAID, so the test at `settlement.service.js:232` never holds.
* The schedule is recomputed by a decision taken before the first payment was booked
  (`job.service.js:2245`), against the "frozen for this job" of `:1570`.
* A paid job is cancelled without a review, if it was paid between the decision and the
  transaction of `cancelJob` (`job.service.js:2382`, against `:2284`); a checkout opened
  before may be booked on a cancelled job and set it COMPLETED (`settlement.service.js:205`,
  against `paymentIntent.service.js:441`).
* An obligation is opened for a job already paid, or under a case
  (`customerPaymentObligation.service.js:196`, against the "currently requires" of `:159`).
* A completion intent voided by a case is offered again once the case is resolved
  (`jobDispute.service.js:391`); a confirmation checked before a case is opened commits
  while it is open (`job.service.js:2574`).

Outbox
* A delivery longer than the lease is delivered by a second process too
  (`notificationDeliveryOutbox.service.js:9`, `:87`). `LeaseOutlasts` excludes it.

Refunds and debt
* Two requests may both find no pending refund and ask the gateway for the same slice
  twice (`refund.service.js:756`). The intent is credited within its ceiling all the same;
  `PHASE_D1_PAYSTACK_ARCHITECTURE_AUDIT.md:490` relies on `refundedAmount`.
* A `refund.processing` event that read the payload before the same refund was booked
  writes it back as it was (`webhook.service.js:882`): the slice is pending again and its id
  no longer finalized, so that the next notice of it is booked a second time, within
  the ceiling.
* Two requests that both had a slice of one intent processed at once write `refundedAmount`
  from the row each had read: one of the two is not counted (`refund.service.js:403`).
* A refund is reported as completed while debt, or money of the customer, is left. After a
  partial repayment `executeCustomerRefundPayouts` writes REFUND_COMPLETED whatever is
  pending (`refundRecovery.service.js:1719`), and `processStagedCustomerPayouts` does after
  any release (`:535`). The slice of the part paid at once may still be pending when the
  decision is recorded; its event then takes it off `pendingRefund`, the part that waits for
  the provider (`refund.service.js:583`). A second decision overwrites `immediateRefund` and
  `pendingRefund` of the first (`providerRefundClawback.service.js:165`). One handler at a
  time is enough for each. So there is no property that COMPLETED means paid; what is
  checked is what the intents count.
* After a partial repayment whose slice is paid by webhook, `continueFifoRefundIfNeeded` asks
  the gateway for the rest of `pendingRefund`, although the provider has not repaid it
  (`refund.service.js:496`).
* A payout answered at once replaces the job's `finalizedGatewayRefundRefs` by its own
  (`refundRecovery.service.js:1728`): after several partial repayments a late event of an
  earlier slice is booked on the job twice. The intents are not affected.
* A repayment confirmed when its debt is already recovered still pays out: what is pending,
  or else its own amount, within what is left of the intents (`refundRecovery.service.js:1546`).
* A repayment confirmed while a release is under way loses one of the two
  (`refundRecovery.service.js:2200` has no isolation level, `earning.service.js:97`). The
  repayment reads a ledger row of 2; the release takes 1 from ledger and recovery and
  commits; a repayment of 1 writes the ledger back to 1, and takes the recovery from 1 to 0.
  The ledger says 1 is owed and no recovery claims it. Or both take the whole debt: what was
  clawed is then more than the debt was. So ledger and recoveries do not agree in general,
  and it is not a property here; that nothing is written off untaken, and nothing recovered
  untaken, is (`WrittenOffWasTaken`, `RecoveredWasTaken`).
* Two confirmations of one repayment that both read SUBMITTED (`refundRecovery.service.js:2172`)
  are not one: the second is rolled back only where it would write a clawback row under
  the key of the first, and takes debt off again where it meets another ledger row;
  `tests/refundRepayment.gateway.test.js:684` expects it to be idempotent, and asks in turn.
* A repayment is rejected or abandoned by a decision read before it was confirmed or
  paid (`refundRecovery.service.js:2308`, `:2382`).
* The enforcement job writes OVERDUE on a recovery paid after its batch was read
  (`refundDebtEnforcement.job.js:80`). `OverdueIsBlocked` is about debt that stays.
* The check that lifts the restriction reads before it writes: it may lift a block an
  admin has set since, and a release that pays the last debt lifts nothing
  (`refundRecovery.service.js:2588`).

Material orders
* A customer is given back more than was paid: the transaction of a cancellation times out
  while the gateway is asked for a refund of 9 out of 10; the row is free, a second
  cancellation finds nothing refunded and nothing pending, and asks again
  (`materialOrder.service.js:2376`, `refund.service.js:757`). `GivenBackOncePerLoss` says how
  much at most.
* `POST /material-orders/:id/delivery/pay` (`materialOrder.routes.js:37`,
  `materialOrder.service.js:2193`) marks the delivery fee paid, of any amount, without a
  payment. Goods may leave with the fee not taken; what `LeavesMarkedPaid` says is that the
  mark is on the row that leaves, not only on one read before.
* The settlement of the materials writes the delivery part of the payload as it was
  created: a fee already paid may be asked for again (`escrowSettlement.service.js:57`).
* A refusal by the gateway during a cancellation is logged and the order closed as
  refunded (`materialOrder.service.js:2380`); the search for the paid intent does not ask
  for its kind and may find the delivery fee's (`:2373`).
* DELAYED leads nowhere, and OUT_FOR_DELIVERY may be set to CANCELLED without a refund
  (`:2235`). A checkout opened before is settled on a cancelled order
  (`escrowSettlement.service.js:38`).

Obligations
* Two requests create two open obligations of one job, against the "Idempotent per job
  while open" of `customerPaymentObligation.service.js:83`.
* A row paused for a case resolved since it was looked up stays paused
  (`customerPaymentObligation.service.js:283`, `jobs/customerPaymentObligation.job.js:289`).

Payouts
* A payment may be linked to a settlement that did not cover it, when an older
  settlement was skipped or a fee is not known yet, and a wrong link is never taken
  away; so a settlement may show more payments than its amount.
* Equal amounts without references stay PENDING for ever.
* `PHASE_D3_PAYOUT_TRANSPARENCY_REPORT.md:37` has the charge set PROCESSING and an hourly
  job; the code sets PENDING and runs every 15 minutes.

Courier deliveries (read, not modelled)
* A quote, acceptance or rejection is written on a request read before it was paid
  (`deliveryRequest.service.js:384`, `:459`), the checkout of an earlier courier pays the
  request of a new one (`:546`), and fulfilment goes on after a cancellation (`:955`). Every
  property worth stating of this component fails in two steps; a model would only list
  these.

### Not modelled

* Withdrawals: `requestWithdrawal` answers 410, so no row is ever in a state the job or an
  admin could act on. Legacy escrow: no new job takes that path.
* Idempotency keys: a unique column written in the transaction they protect. Money: four
  functions whose parts add up by subtraction.
* Supplier and branch settlement: reports and single-row records.
* Accounts, matching of providers, quotations, chat, stores, admin pages, analytics,
  files: one row per request and no rule between rows. Adapters and message texts: input
  and output. The frontend has most of the lines and no rule of its own: this is also why
  the modules stand for a small share of all lines, though for much of the services that
  move money.
* What each modelled component leaves out is told in section 2.

## 6. Where it could grow

A composition of `GatewayRefunds` and `RefundDebt` over one decision; the amounts of
refunds with two workers, where what is lost is bounded by what they forget; a model of
courier deliveries once their writes are guarded.
