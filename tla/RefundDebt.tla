------------------------------ MODULE RefundDebt ------------------------------
(***************************************************************************)
(* The provider's side of a refund.  What a refund takes back beyond the    *)
(* provider's balance becomes debt, kept twice: rows of the earnings ledger *)
(* and RefundRecovery rows with a due date.  The provider repays through a  *)
(* gateway or by bank transfer, an admin reviews the repayment, releases of *)
(* escrow pay debt off too, and an hourly sweep marks what is overdue and   *)
(* restricts the provider.  One provider.                                   *)
(*                                                                          *)
(* A worker is one request of the provider or of an admin; it acts on what  *)
(* it read before its last await.  The webhook and the releases of escrow   *)
(* run in Serializable transactions and are one step each.  The             *)
(* confirmation of a repayment runs at READ COMMITTED: it reads rows, then  *)
(* writes amounts worked out from what it read, over what others committed  *)
(* meanwhile.  Its own writes are seen when it commits; until then it holds *)
(* the rows it wrote.                                                       *)
(*                                                                          *)
(* refundRecovery.service.js, earning.service.js,                           *)
(* refundDebtEnforcement.job.js, payments/webhook.service.js (repayments).  *)
(***************************************************************************)
EXTENDS Integers, Sequences, FiniteSetsExt

CONSTANTS
  Jobs,        \* jobs whose refunds put the provider in debt
  NoJob,       \* the jobId of a repayment of the whole debt
  Debts,       \* the debts refunds create, in order: [job, amount]
  Gateways,    \* payment gateways enabled for repayments
  Workers,     \* requests that may overlap
  NRepayments, \* bound: repayment rows
  MaxRefs,     \* bound: merchant references minted
  MaxExtras    \* bound: escrow releases, admin blocks and unblocks

ASSUME JobsAssumption == NoJob \notin Jobs
ASSUME DebtsAssumption == Debts \in Seq([job: Jobs, amount: Nat \ {0}])
ASSUME GatewaysAssumption == Gateways \subseteq {"PAYFAST", "PAYSTACK"}
ASSUME BoundsAssumption == NRepayments \in Nat /\ MaxRefs \in Nat /\ MaxExtras \in Nat

Repayments == 1..NRepayments
Refs == 1..MaxRefs

VARIABLES
  recoveries,  \* RefundRecovery rows, oldest first
  ledger,      \* refund_debt rows of the earnings ledger, oldest first
  debits,      \* clawback rows written under a repayment's idempotency key
  repayments,  \* repayments[r]: ProviderRefundRepayment
  intents,     \* intents[r]: the PaymentIntent of a gateway repayment
  checkouts,   \* checkouts[ref]: what the gateway shows and has decided
  minted,      \* merchant references given out
  handled,     \* webhook events marked fully processed
  provider,    \* the restriction on the provider
  sweep,       \* the enforcement job: the batch it read
  worker,      \* worker[w]: where request w is and what it has read
  extras

vars == <<recoveries, ledger, debits, repayments, intents, checkouts, minted, handled,
          provider, sweep, worker, extras>>
debt == <<recoveries, ledger, debits>>
payments == <<repayments, intents, checkouts, minted, handled>>

None == 0
NoRepayment == [status |-> "ABSENT", method |-> "NONE", job |-> NoJob, amount |-> 0]
NoIntent == [state |-> "ABSENT", ref |-> None, amount |-> 0, gateway |-> "NONE",
             abandoned |-> FALSE, late |-> "none"]
NoCheckout == [of |-> None, asked |-> {}, told |-> {}, charged |-> 0]
Request(pc, r, job, amount, intent, rows) ==
  [pc |-> pc, r |-> r, job |-> job, amount |-> amount, intent |-> intent, rows |-> rows,
   debts |-> << >>, claims |-> << >>]
Idle == Request("idle", None, NoJob, 0, NoIntent, {})

Min2(a, b) == IF a <= b THEN a ELSE b

Init ==
  /\ recoveries = << >>
  /\ ledger = << >>
  /\ debits = {}
  /\ repayments = [r \in Repayments |-> NoRepayment]
  /\ intents = [r \in Repayments |-> NoIntent]
  /\ checkouts = [ref \in Refs |-> NoCheckout]
  /\ minted = 0
  /\ handled = {}
  /\ provider = [blocked |-> FALSE, reason |-> "none", debtBlock |-> FALSE]
  /\ sweep = [rows |-> {}, blocked |-> FALSE]
  /\ worker = [w \in Workers |-> Idle]
  /\ extras = 0

----------------------------------------------------------------------------
(* Debt and its recovery *)

Balance(k) == recoveries[k].total - recoveries[k].recovered
Active(k) == recoveries[k].status # "RECOVERED"
Overdue(k) == recoveries[k].status = "OVERDUE"
InScope(job, scope) == scope = NoJob \/ job = scope

\* What RefundRecovery says is due on a job, or in all.
Due(scope) ==
  SumFunctionOnSet([k \in DOMAIN recoveries |-> Balance(k)],
                   {k \in DOMAIN recoveries : Active(k) /\ InScope(recoveries[k].job, scope)})

\* Mutant: the last row gives what is left of the amount, however little it has.
FifoTakeUncapped(due, amount) ==
  [k \in DOMAIN due |->
     LET before == SumFunctionOnSet(due, 1..(k - 1))
     IN  IF amount <= before THEN 0 ELSE amount - before]

\* Oldest rows first: what each row gives towards an amount.
FifoTake(due, amount) ==
  [k \in DOMAIN due |->
     LET before == SumFunctionOnSet(due, 1..(k - 1))
     IN  IF amount <= before THEN 0 ELSE Min2(due[k], amount - before)]

\* What a transaction reads of the ledger, and of the RefundRecovery rows.
OwedIn(scope) ==
  [k \in DOMAIN ledger |-> IF InScope(ledger[k].job, scope) THEN ledger[k].owed ELSE 0]
BalanceIn(scope) ==
  [k \in DOMAIN recoveries |->
     IF Active(k) /\ InScope(recoveries[k].job, scope) THEN Balance(k) ELSE 0]

\* Mutant: a ledger row is deleted whether it is paid in full or in part.
LedgerAfterDeleted(k, owed, take) == [ledger[k] EXCEPT !.owed = 0, !.clawed = @ + take]

\* A ledger row read as owing something: what is left is written, or the row is
\* deleted when nothing is, with a clawback row for what was taken.
LedgerAfter(k, owed, take) == [ledger[k] EXCEPT !.owed = owed - take, !.clawed = @ + take]

\* Mutant: a row that is paid in part counts as recovered.
RowAfterInFull(k, balance, take) ==
  [recoveries[k] EXCEPT !.recovered = recoveries[k].total, !.status = "RECOVERED"]

\* A RefundRecovery row read with a balance.
RowAfter(k, balance, take) ==
  [recoveries[k] EXCEPT
     !.recovered = recoveries[k].total - (balance - take),
     !.status = IF take = balance THEN "RECOVERED" ELSE "PARTIALLY_RECOVERED"]

Gives(taken, k) == k \in DOMAIN taken /\ taken[k] > 0

\* recoverRefundDebtByAmount and recoverRefundDebtFromRelease, from what was read:
\* the ledger first, then the RefundRecovery rows by as much as the ledger gave.
Recover(debts, claims, amount) ==
  LET taken == FifoTake(debts, amount)
      mirrored == FifoTake(claims, SumFunction(taken))
  IN  /\ ledger' = [k \in DOMAIN ledger |->
                      IF Gives(taken, k) THEN LedgerAfter(k, debts[k], taken[k]) ELSE ledger[k]]
      /\ recoveries' = [k \in DOMAIN recoveries |->
                          IF Gives(mirrored, k) THEN RowAfter(k, claims[k], mirrored[k])
                          ELSE recoveries[k]]

\* What the confirmation of a repayment takes from the ledger rows it read, and
\* the rows that its open transaction has written.
Taken(w) == FifoTake(worker[w].debts, repayments[worker[w].r].amount)
Held == {k \in DOMAIN ledger : \E w \in Workers : worker[w].pc = "mirror" /\ Gives(Taken(w), k)}
Free(taken) == \A k \in Held : ~Gives(taken, k)

\* The clawback rows a repayment writes: one per ledger row, under a unique key.
NewDebits(r, taken) ==
  {[by |-> r, row |-> k, amount |-> taken[k]] : k \in {l \in DOMAIN taken : taken[l] > 0}}

KeyTaken(rows) == \E old \in debits, new \in rows : old.by = new.by /\ old.row = new.row

\* A refund decision leaves debt: createRefundDebt and createRefundRecovery.
Incur ==
  LET n == Len(ledger) + 1
  IN  /\ n <= Len(Debts)
      /\ ledger' = Append(ledger, [job |-> Debts[n].job, owed |-> Debts[n].amount, clawed |-> 0])
      /\ recoveries' = Append(recoveries, [job |-> Debts[n].job, total |-> Debts[n].amount,
                                           recovered |-> 0, status |-> "PENDING", due |-> FALSE])
      /\ UNCHANGED <<debits, payments, provider, sweep, worker, extras>>

\* The due date of a recovery passes.
DueDatePasses(k) ==
  /\ ~recoveries[k].due
  /\ recoveries' = [recoveries EXCEPT ![k].due = TRUE]
  /\ UNCHANGED <<ledger, debits, payments, provider, sweep, worker, extras>>

\* Escrow of a job is released: it pays debt, of any job, before the provider.  It
\* waits for the ledger rows that a confirmation holds, and fails on changed ones.
Release(amount) ==
  /\ extras < MaxExtras
  /\ extras' = extras + 1
  /\ Free(FifoTake(OwedIn(NoJob), amount))
  /\ Recover(OwedIn(NoJob), BalanceIn(NoJob), amount)
  /\ UNCHANGED <<debits, payments, provider, sweep, worker>>

----------------------------------------------------------------------------
(* The enforcement job.  It has no running flag, but an hour between ticks. *)

\* Mutant: a row that is OVERDUE already is not looked at again.
SweptNotOverdue == {k \in DOMAIN recoveries : Active(k) /\ ~Overdue(k) /\ recoveries[k].due /\ Balance(k) > 0}

Swept == {k \in DOMAIN recoveries : Active(k) /\ recoveries[k].due /\ Balance(k) > 0}

SweepRead ==
  /\ sweep.rows = {}
  /\ Swept # {}
  /\ sweep' = [rows |-> Swept, blocked |-> provider.blocked /\ provider.debtBlock]
  /\ UNCHANGED <<debt, payments, provider, worker, extras>>

\* The row is written as it was read, and the provider too.
SweepRow ==
  /\ sweep.rows # {}
  /\ LET k == Min(sweep.rows)
     IN  /\ recoveries' = [recoveries EXCEPT ![k].status = "OVERDUE"]
         /\ sweep' = [sweep EXCEPT !.rows = @ \ {k}]
  /\ provider' = IF sweep.blocked THEN provider
                 ELSE [blocked |-> TRUE, reason |-> "debt", debtBlock |-> TRUE]
  /\ UNCHANGED <<ledger, debits, payments, worker, extras>>

AdminBlock ==
  /\ extras < MaxExtras
  /\ extras' = extras + 1
  /\ provider' = [provider EXCEPT !.blocked = TRUE, !.reason = "admin"]
  /\ UNCHANGED <<debt, payments, sweep, worker>>

AdminUnblock ==
  /\ provider.blocked
  /\ extras < MaxExtras
  /\ extras' = extras + 1
  /\ provider' = [blocked |-> FALSE, reason |-> "none", debtBlock |-> FALSE]
  /\ UNCHANGED <<debt, payments, sweep, worker>>

----------------------------------------------------------------------------
(* The provider looks at what is owed: the recoveries that legacy ledger    *)
(* rows lack are created, one per look.  Three reads, no transaction.       *)

At(w, pc) == worker[w].pc = pc
Become(w, rec) == worker' = [worker EXCEPT ![w] = rec]
Goto(w, pc) == Become(w, [worker[w] EXCEPT !.pc = pc])
Leave(w) == Become(w, Idle)

OwedRows == {k \in DOMAIN ledger : ledger[k].owed > 0}

EnsureRead(w) ==
  /\ At(w, "idle")
  /\ OwedRows # {}
  /\ Become(w, Request("ensure", None, NoJob, 0, NoIntent,
                       {[row |-> k, owed |-> ledger[k].owed] : k \in OwedRows}))
  /\ UNCHANGED <<debt, payments, provider, sweep, extras>>

SeenOwed(w) == SumFunction([d \in worker[w].rows |-> d.owed])

EnsureSum(w) ==
  /\ At(w, "ensure")
  /\ IF SeenOwed(w) > Due(NoJob)
     THEN Goto(w, "backfill")
     ELSE Leave(w)
  /\ UNCHANGED <<debt, payments, provider, sweep, extras>>

\* The oldest of the rows whose job has no active recovery.
Unclaimed(w) ==
  {d \in worker[w].rows : \A k \in DOMAIN recoveries : Active(k) => recoveries[k].job # ledger[d.row].job}

EnsureCreate(w) ==
  /\ At(w, "backfill")
  /\ IF Unclaimed(w) = {} THEN UNCHANGED recoveries
     ELSE LET d == CHOOSE d \in Unclaimed(w) : \A e \in Unclaimed(w) : d.row <= e.row
          IN  recoveries' = Append(recoveries, [job |-> ledger[d.row].job, total |-> d.owed,
                                                recovered |-> 0, status |-> "PENDING", due |-> FALSE])
  /\ Leave(w)
  /\ UNCHANGED <<ledger, debits, payments, provider, sweep, extras>>

----------------------------------------------------------------------------
(* Paying through a gateway *)

SubmittedFor(j) == {r \in Repayments : repayments[r].status = "SUBMITTED" /\ repayments[r].job = j}
Absent == {r \in Repayments : repayments[r].status = "ABSENT"}

\* A payment that came in after its attempt was given up, and not yet resolved.
LateFor(j) == {r \in Repayments : repayments[r].job = j /\ intents[r].late = "required"}

NewRef == minted + 1
NewIntent(ref, amount, gateway) ==
  [state |-> "PENDING", ref |-> ref, amount |-> amount, gateway |-> gateway, abandoned |-> FALSE,
   late |-> "none"]
NewCheckout(r, amount) == [of |-> r, asked |-> {amount}, told |-> {}, charged |-> 0]

\* createProviderRefundRepaymentCheckout up to its transaction.
CheckoutRead(w, j) ==
  LET amount == Due(j)
      existing == SubmittedFor(j)
  IN  /\ At(w, "idle")
      /\ amount > 0
      /\ Gateways # {}
      /\ \/ /\ existing = {} /\ LateFor(j) = {}
            /\ Become(w, Request("create", None, j, amount, NoIntent, {}))
         \/ \E r \in existing :
              /\ repayments[r].method = "GATEWAY"
              /\ intents[r].state # "PAID"
              /\ LateFor(j) = {}
              /\ Become(w, Request("continue", r, j, amount, intents[r], {}))
      /\ UNCHANGED <<debt, payments, provider, sweep, extras>>

\* The transaction that makes the repayment and its intent, once more checked.
CheckoutCreate(w, gateway) ==
  LET j == worker[w].job
      amount == worker[w].amount
  IN  /\ At(w, "create")
      /\ IF SubmittedFor(j) = {} /\ LateFor(j) = {}
         THEN \E r \in Absent :
              /\ minted < MaxRefs
              /\ minted' = NewRef
              /\ repayments' = [repayments EXCEPT ![r] =
                   [status |-> "SUBMITTED", method |-> "GATEWAY", job |-> j, amount |-> amount]]
              /\ intents' = [intents EXCEPT ![r] = NewIntent(NewRef, amount, gateway)]
              /\ checkouts' = [checkouts EXCEPT ![NewRef] = NewCheckout(r, amount)]
         ELSE UNCHANGED <<repayments, intents, checkouts, minted>>
      /\ Leave(w)
      /\ UNCHANGED <<debt, handled, provider, sweep, extras>>

\* The same reference is shown again, for what is due now.
ShowAgain(w) ==
  checkouts' = [checkouts EXCEPT ![worker[w].intent.ref].asked = @ \union {worker[w].amount}]

\* resetRepaymentIntentForRetry: the row starts over under a new reference.
ResetForRetry(w, gateway) ==
  LET r == worker[w].r
  IN  /\ minted < MaxRefs
      /\ minted' = NewRef
      /\ intents' = [intents EXCEPT ![r] = [@ EXCEPT !.state = "PENDING", !.ref = NewRef,
                                                     !.amount = worker[w].amount, !.gateway = gateway]]
      /\ checkouts' = [checkouts EXCEPT ![NewRef] = NewCheckout(r, worker[w].amount)]

\* What the gateway's verify call answers.
VerifiedAs(ref, s) ==
  LET told == checkouts[ref].told
  IN  CASE s = "PAID" -> "PAID" \in told
        [] s = "FAILED" -> told = {"FAILED"}
        [] s = "PENDING" -> told = {}

\* The intent that has a reference now, if any has.
Reports(ref) == {r \in Repayments : intents[r].ref = ref /\ ref # None}

\* Mutant: a report for an attempt that was given up is written like any other.
IntentAfterUnshielded(i, ref, s) ==
  CASE s = "PAID" /\ checkouts[ref].charged # i.amount -> i
    [] OTHER -> [i EXCEPT !.state = s]

\* What processWebhookResult makes of the intent.
IntentAfter(i, ref, s) ==
  CASE s = "PAID" /\ checkouts[ref].charged # i.amount -> i
    [] s = "PAID" /\ checkouts[ref].charged = i.amount /\ i.abandoned -> [i EXCEPT !.late = "required"]
    [] s # "PAID" /\ i.abandoned -> [i EXCEPT !.state = "CANCELLED"]
    [] OTHER -> [i EXCEPT !.state = s]

Report(ref, s) ==
  intents' = [r \in Repayments |-> IF r \in Reports(ref) THEN IntentAfter(intents[r], ref, s) ELSE intents[r]]

\* An amount that does not match rolls the event back; one without intent is not processed.
Processed(ref, s) ==
  \E r \in Reports(ref) : s # "PAID" \/ checkouts[ref].charged = intents[r].amount

\* An attempt at a gateway can fail and be paid after all; paid is final.
GatewayDecides(ref, s, amount) ==
  /\ ref <= minted
  /\ "PAID" \notin checkouts[ref].told
  /\ s \notin checkouts[ref].told
  /\ amount \in checkouts[ref].asked
  /\ checkouts' = [checkouts EXCEPT ![ref].told = @ \union {s},
                                    ![ref].charged = IF s = "PAID" THEN amount ELSE @]
  /\ UNCHANGED <<debt, repayments, intents, minted, handled, provider, sweep, worker, extras>>

\* The gateway reports what it decided, at any time and any number of times.
Webhook(ref, s) ==
  /\ s \in checkouts[ref].told
  /\ <<ref, s>> \notin handled
  /\ Processed(ref, s)
  /\ Report(ref, s)
  /\ handled' = handled \union {<<ref, s>>}
  /\ UNCHANGED <<debt, repayments, checkouts, minted, provider, sweep, worker, extras>>

\* continueExistingProviderRefundRepaymentCheckout, PayFast: the intent as it was read.
ContinuePayfast(w, gateway) ==
  LET intent == worker[w].intent
  IN  /\ At(w, "continue")
      /\ intent.gateway = "PAYFAST"
      /\ IF intent.state = "PENDING"
         THEN /\ ShowAgain(w)
              /\ UNCHANGED <<intents, minted>>
         ELSE ResetForRetry(w, gateway)
      /\ Leave(w)
      /\ UNCHANGED <<debt, repayments, handled, provider, sweep, extras>>

\* The same for Paystack, which is asked first.
ContinuePaystack(w, gateway, s) ==
  LET intent == worker[w].intent
  IN  /\ At(w, "continue")
      /\ intent.gateway = "PAYSTACK"
      /\ VerifiedAs(intent.ref, s)
      /\ CASE s = "PAID" ->
                Report(intent.ref, "PAID") /\ UNCHANGED <<checkouts, minted>>
           [] s = "PENDING" ->
                ShowAgain(w) /\ UNCHANGED <<intents, minted>>
           [] s = "FAILED" ->
                IF intents[worker[w].r].state = "PAID"
                THEN UNCHANGED <<intents, checkouts, minted>>
                ELSE ResetForRetry(w, gateway)
      /\ Leave(w)
      /\ UNCHANGED <<debt, repayments, handled, provider, sweep, extras>>

\* submitProviderRepayment: a bank transfer, for a job or for the whole debt.
TransferRead(w, scope) ==
  /\ At(w, "idle")
  /\ Due(scope) > 0
  /\ scope # NoJob => LateFor(scope) = {}
  /\ Become(w, Request("transfer", None, scope, Due(scope), NoIntent, {}))
  /\ UNCHANGED <<debt, payments, provider, sweep, extras>>

TransferCreate(w) ==
  LET scope == worker[w].job
      pending == {r \in Repayments : repayments[r].status = "SUBMITTED" /\ InScope(repayments[r].job, scope)}
  IN  /\ At(w, "transfer")
      /\ IF pending = {}
         THEN \E r \in Absent :
                repayments' = [repayments EXCEPT ![r] =
                  [status |-> "SUBMITTED", method |-> "BANK_TRANSFER", job |-> scope,
                   amount |-> worker[w].amount]]
         ELSE UNCHANGED repayments
      /\ Leave(w)
      /\ UNCHANGED <<debt, intents, checkouts, minted, handled, provider, sweep, extras>>

----------------------------------------------------------------------------
(* Review by an admin *)

\* Mutant: the repayment's intent is not looked at.
PayableUnchecked(r) == TRUE

\* assertGatewayRepaymentIntentPayable
Payable(r) ==
  repayments[r].method = "GATEWAY" =>
    /\ intents[r].state = "PAID"
    /\ intents[r].amount = repayments[r].amount

\* confirmAdminRefundRepayment up to its transaction; a partial amount is acknowledged.
ConfirmRead(w, r) ==
  /\ At(w, "idle")
  /\ repayments[r].status = "SUBMITTED"
  /\ Payable(r)
  /\ Become(w, Request("confirm", r, NoJob, 0, NoIntent, {}))
  /\ UNCHANGED <<debt, payments, provider, sweep, extras>>

\* The debt a repayment may take off: its job's, or all.
ConfirmScope(r) == repayments[r].job

\* Its transaction reads the ledger ...
ConfirmDebts(w) ==
  /\ At(w, "confirm")
  /\ Become(w, [worker[w] EXCEPT !.pc = "take", !.debts = OwedIn(ConfirmScope(worker[w].r))])
  /\ UNCHANGED <<debt, payments, provider, sweep, extras>>

\* ... writes the rows it takes from, once no other confirmation holds them, and
\* reads the RefundRecovery rows.  A row that is gone rolls it back, and so does a
\* clawback row that this repayment has written before.
ConfirmTake(w) ==
  LET r == worker[w].r
      taken == Taken(w)
  IN  /\ At(w, "take")
      /\ Free(taken)
      /\ IF \/ \E k \in DOMAIN ledger : Gives(taken, k) /\ ledger[k].owed = 0
            \/ KeyTaken(NewDebits(r, taken))
         THEN Leave(w)
         ELSE Become(w, [worker[w] EXCEPT !.pc = "mirror", !.claims = BalanceIn(ConfirmScope(r))])
      /\ UNCHANGED <<debt, payments, provider, sweep, extras>>

\* ... and writes those and the repayment, and commits.
ConfirmCommit(w) ==
  LET r == worker[w].r
  IN  /\ At(w, "mirror")
      /\ Recover(worker[w].debts, worker[w].claims, repayments[r].amount)
      /\ debits' = debits \union NewDebits(r, Taken(w))
      /\ repayments' = [repayments EXCEPT ![r].status = "CONFIRMED"]
      /\ Become(w, Request("clear", r, NoJob, 0, NoIntent, {}))
      /\ UNCHANGED <<intents, checkouts, minted, handled, provider, sweep, extras>>

\* The transaction is out of time, or the process stops: it is rolled back.
ConfirmStops(w) ==
  /\ At(w, "mirror")
  /\ Leave(w)
  /\ UNCHANGED <<debt, payments, provider, sweep, extras>>

\* clearProviderRefundDebtRestrictionIfClear, after the commit.
ClearRead(w) ==
  /\ At(w, "clear")
  /\ IF \E k \in DOMAIN recoveries : Overdue(k) THEN Leave(w) ELSE Goto(w, "lift")
  /\ UNCHANGED <<debt, payments, provider, sweep, extras>>

Lift(w) ==
  /\ At(w, "lift")
  /\ provider' = IF provider.debtBlock
                 THEN [blocked |-> FALSE, reason |-> "none", debtBlock |-> FALSE]
                 ELSE provider
  /\ Leave(w)
  /\ UNCHANGED <<debt, payments, sweep, extras>>

\* canAbandonUnpaidPayfastAttempt
CanAbandon(r) ==
  /\ repayments[r].status = "SUBMITTED"
  /\ repayments[r].method = "GATEWAY"
  /\ intents[r].gateway = "PAYFAST"
  /\ intents[r].state = "PENDING"

RejectRead(w, r) ==
  /\ At(w, "idle")
  /\ repayments[r].status = "SUBMITTED"
  /\ ~CanAbandon(r)
  /\ Become(w, Request("reject", r, NoJob, 0, NoIntent, {}))
  /\ UNCHANGED <<debt, payments, provider, sweep, extras>>

RejectWrite(w) ==
  /\ At(w, "reject")
  /\ repayments' = [repayments EXCEPT ![worker[w].r].status = "REJECTED"]
  /\ Leave(w)
  /\ UNCHANGED <<debt, intents, checkouts, minted, handled, provider, sweep, extras>>

AbandonRead(w, r) ==
  /\ At(w, "idle")
  /\ CanAbandon(r)
  /\ Become(w, Request("abandon", r, NoJob, 0, intents[r], {}))
  /\ UNCHANGED <<debt, payments, provider, sweep, extras>>

\* The reference and the payload go back to what they were when it was read.
AbandonWrite(w) ==
  LET r == worker[w].r
      read == worker[w].intent
  IN  /\ At(w, "abandon")
      /\ repayments' = [repayments EXCEPT ![r].status = "REJECTED"]
      /\ intents' = [intents EXCEPT ![r] = [@ EXCEPT !.state = "CANCELLED", !.ref = read.ref,
                                                     !.abandoned = TRUE, !.late = read.late]]
      /\ Leave(w)
      /\ UNCHANGED <<debt, checkouts, minted, handled, provider, sweep, extras>>

\* resolveLateAbandonedPayfastReconciliation: refunded by hand at the gateway.
Resolve(r) ==
  /\ intents[r].late = "required"
  /\ intents' = [intents EXCEPT ![r].late = "resolved"]
  /\ UNCHANGED <<debt, repayments, checkouts, minted, handled, provider, sweep, worker, extras>>

----------------------------------------------------------------------------

Refunds == Incur \/ \E k \in DOMAIN recoveries : DueDatePasses(k)
Releases == \E amount \in 1..2 : Release(amount)
Admin == AdminBlock \/ AdminUnblock
Enforcement == SweepRead \/ SweepRow
Looks(w) == EnsureRead(w) \/ EnsureSum(w) \/ EnsureCreate(w)
Pays(w) ==
  \/ \E j \in Jobs : CheckoutRead(w, j)
  \/ \E gateway \in Gateways :
       \/ CheckoutCreate(w, gateway)
       \/ ContinuePayfast(w, gateway)
       \/ \E s \in {"PAID", "PENDING", "FAILED"} : ContinuePaystack(w, gateway, s)
  \/ \E scope \in Jobs \union {NoJob} : TransferRead(w, scope)
  \/ TransferCreate(w)
Reviews(w) ==
  \/ \E r \in Repayments : ConfirmRead(w, r) \/ RejectRead(w, r) \/ AbandonRead(w, r)
  \/ ConfirmDebts(w) \/ ConfirmTake(w) \/ ConfirmCommit(w) \/ ConfirmStops(w)
  \/ ClearRead(w) \/ Lift(w) \/ RejectWrite(w) \/ AbandonWrite(w)
AtGateway ==
  \E ref \in Refs, s \in {"PAID", "FAILED"} :
     \/ Webhook(ref, s)
     \/ \E amount \in checkouts[ref].asked : GatewayDecides(ref, s, amount)

Next ==
  \/ Refunds \/ Releases \/ Admin \/ Enforcement \/ AtGateway
  \/ \E w \in Workers : Looks(w) \/ Pays(w) \/ Reviews(w)
  \/ \E r \in Repayments : Resolve(r)

Spec == Init /\ [][Next]_vars

\* The sweep is on a timer.
FairSpec == Spec /\ WF_vars(Enforcement)

----------------------------------------------------------------------------
(* Properties *)

Statuses == {"PENDING", "PARTIALLY_RECOVERED", "RECOVERED", "OVERDUE"}
Recoveries == [job: Jobs, total: Nat, recovered: Nat, status: Statuses, due: BOOLEAN]
LedgerRows == [job: Jobs, owed: Nat, clawed: Nat]
Intent == [state: {"ABSENT", "PENDING", "PAID", "FAILED", "CANCELLED"}, ref: 0..MaxRefs, amount: Nat,
           gateway: Gateways \union {"NONE"}, abandoned: BOOLEAN, late: {"none", "required", "resolved"}]
Checkout == [of: 0..NRepayments, asked: SUBSET Nat, told: SUBSET {"PAID", "FAILED"}, charged: Nat]
AllRequests ==
  [pc: {"idle", "ensure", "backfill", "create", "continue", "transfer", "confirm", "take", "mirror",
        "clear", "lift", "reject", "abandon"},
   r: 0..NRepayments, job: Jobs \union {NoJob}, amount: Nat, intent: Intent,
   rows: SUBSET [row: Nat \ {0}, owed: Nat \ {0}], debts: Seq(Nat), claims: Seq(Nat)]

DebtTypes ==
  /\ recoveries \in Seq(Recoveries)
  /\ \A k \in DOMAIN recoveries : recoveries[k].recovered <= recoveries[k].total
  /\ ledger \in Seq(LedgerRows)
  /\ debits \subseteq [by: Repayments, row: DOMAIN ledger, amount: Nat \ {0}]
  /\ provider \in [blocked: BOOLEAN, reason: {"none", "admin", "debt"}, debtBlock: BOOLEAN]
  /\ sweep \in [rows: SUBSET (DOMAIN recoveries), blocked: BOOLEAN]
  /\ extras \in 0..MaxExtras

PaymentTypes ==
  /\ repayments \in [Repayments -> [status: {"ABSENT", "SUBMITTED", "CONFIRMED", "REJECTED"},
                                    method: {"NONE", "GATEWAY", "BANK_TRANSFER"},
                                    job: Jobs \union {NoJob}, amount: Nat]]
  /\ intents \in [Repayments -> Intent]
  /\ checkouts \in [Refs -> Checkout]
  /\ minted \in 0..MaxRefs
  /\ handled \subseteq Refs \X {"PAID", "FAILED"}

RequestTypes ==
  /\ worker \in [Workers -> AllRequests]
  /\ \A w \in Workers :
       /\ \A d \in worker[w].rows : d.row \in DOMAIN ledger
       /\ Len(worker[w].debts) <= Len(ledger)
       /\ Len(worker[w].claims) <= Len(recoveries)
       /\ \A k \in DOMAIN worker[w].claims : worker[w].claims[k] <= recoveries[k].total

\* Every row has its fields, no debt is recovered beyond what it was, and what
\* points at a row points at one that is there.
TypeOK == DebtTypes /\ PaymentTypes /\ RequestTypes

\* Debt leaves the ledger only against clawback rows: what a ledger row was
\* created with is still owed or was taken from the provider, whichever of a
\* release and the confirmations writes over the other or is rolled back.
WrittenOffWasTaken ==
  \A k \in DOMAIN ledger : Debts[k].amount <= ledger[k].owed + ledger[k].clawed

\* What the RefundRecovery rows count as recovered, and the customer is paid by, was
\* taken from the provider.
RecoveredWasTaken ==
  SumFunction([k \in DOMAIN recoveries |-> recoveries[k].recovered])
    <= SumFunction([k \in DOMAIN ledger |-> ledger[k].clawed])

\* A repayment through a gateway takes debt off only if the gateway charged the
\* provider for that repayment, and by no less than what it takes off.
RecoveredWasCharged ==
  \A d \in debits :
    repayments[d.by].method = "GATEWAY" =>
      \E ref \in Refs : /\ checkouts[ref].of = d.by
                        /\ "PAID" \in checkouts[ref].told
                        /\ checkouts[ref].charged = repayments[d.by].amount

\* Debt that is due and still owed leads to the provider being restricted, or it
\* is paid, whatever was cleared, unblocked or partly repaid in between.
OwesOverdue == \E k \in DOMAIN recoveries : recoveries[k].due /\ Active(k) /\ Balance(k) > 0
OverdueIsBlocked == OwesOverdue ~> (provider.blocked \/ ~OwesOverdue)

\* An attempt that was given up never counts as paid, whichever of its reports
\* comes first: a payment after all is kept as evidence for an admin.
AbandonedIsNotPaid == \A r \in Repayments : intents[r].abandoned => intents[r].state # "PAID"
==============================================================================
