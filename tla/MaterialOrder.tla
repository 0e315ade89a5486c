----------------------------- MODULE MaterialOrder -----------------------------
(***************************************************************************)
(* One order of materials from a store: its fulfilment, its collection or   *)
(* delivery by the store, the two payments it can have (the materials, the  *)
(* delivery fee) and its cancellation by the store or by the customer.      *)
(*                                                                          *)
(* The row has columns and one JSON payload, always written whole.  Most    *)
(* writers run in a Serializable transaction: they read, decide what to     *)
(* write, and fail if the row was written since.  Some do not, and put back *)
(* the payload that they read.  A cancellation holds the row while it calls *)
(* the gateway, through another connection; when its transaction times out  *)
(* meanwhile, the row is free and the call goes on.                         *)
(*                                                                          *)
(* materialOrder.service.js, payments/escrowSettlement.service.js,          *)
(* payments/refund.service.js, payments/paymentIntent.service.js,           *)
(* payments/webhook.service.js (materials and delivery fees).               *)
(***************************************************************************)
EXTENDS Integers, Sequences

CONSTANTS
  Workers,    \* requests that may overlap
  Total,      \* price of the materials
  Commission, \* the platform's part of it
  Fee,        \* what the store asks for a delivery
  MaxFees,    \* bound: delivery fees paid
  MaxLost,    \* bound: cancellations whose transaction is lost
  MayRefuse   \* TRUE: the gateway may refuse a refund

ASSUME PriceAssumption == Total \in Nat /\ Commission \in 0..Total /\ Fee \in Nat \ {0}
ASSUME BoundsAssumption == MaxFees \in Nat /\ MaxLost \in Nat
ASSUME RefuseAssumption == MayRefuse \in BOOLEAN

None == 0
ASSUME WorkersAssumption == None \notin Workers

Kinds == {"MATERIAL_ORDER", "DELIVERY_FEE"}

VARIABLES
  order,     \* the columns of the MaterialOrder row
  payload,   \* its payload
  holder,    \* the cancellation that has updated the row and not committed
  intents,   \* intents[kind]: the PaymentIntent of the materials, of the delivery
  taken,     \* taken[kind]: what the gateway took from the customer
  unsettled, \* the fee is paid and not in the order yet
  given,     \* given[kind]: what the gateway gave back
  invoices,  \* refund invoices
  lost,      \* cancellations whose transaction timed out or stopped
  worker     \* worker[w]: where request w is, what it has read and will do

vars == <<order, payload, holder, intents, taken, unsettled, given, invoices, lost, worker>>
money == <<intents, taken, unsettled, given, invoices>>

NoIntent == [state |-> "ABSENT", amount |-> 0, refunded |-> 0]

Row(fulfil, payment, refund, amount) ==
  [fulfil |-> fulfil, payment |-> payment, refund |-> refund, amount |-> amount]
Payload(type, status) ==
  [type |-> type, status |-> status, fee |-> 0, paid |-> FALSE, confirmed |-> FALSE, issue |-> FALSE]
Request(pc, op, p, amount, paid) ==
  [pc |-> pc, op |-> op, payload |-> p, amount |-> amount, paid |-> paid, stale |-> FALSE,
   kind |-> "MATERIAL_ORDER", row |-> NoIntent]

NoPayload == Payload("SELF", "SelfCollect")
Idle == Request("idle", "none", NoPayload, 0, {})

\* createMaterialOrder
Init ==
  /\ order = Row("PENDING", "unpaid", "none", 0)
  /\ payload \in {Payload("SELF", "SelfCollect"), Payload("STORE", "PendingApproval")}
  /\ holder = None
  /\ intents = [k \in Kinds |-> NoIntent]
  /\ taken = [k \in Kinds |-> 0]
  /\ unsettled = FALSE
  /\ given = [k \in Kinds |-> 0]
  /\ invoices = << >>
  /\ lost = 0
  /\ worker = [w \in Workers |-> Idle]

----------------------------------------------------------------------------
(* Reading and writing the row *)

At(w, pc) == worker[w].pc = pc

\* A transaction has read the row and decided to do this.
Decides(w, op) ==
  /\ At(w, "idle")
  /\ worker' = [worker EXCEPT ![w] = Request("commit", op, NoPayload, 0, {})]
  /\ UNCHANGED <<order, payload, holder, money, lost>>

\* A request without a transaction has read the row and will write this payload.
Prepares(w, p) ==
  /\ At(w, "idle")
  /\ worker' = [worker EXCEPT ![w] = Request("overwrite", "none", p, 0, {})]
  /\ UNCHANGED <<order, payload, holder, money, lost>>

\* Mutant: the transactions run at the default isolation level.
NeverOutdated(r) == r

\* Mutant: only cancellations notice that the row was written.
OutdatedCancels(r) == IF r.pc = "cancel" THEN [Idle EXCEPT !.pc = r.pc, !.stale = TRUE] ELSE r

\* What a transaction has read is out of date once another request wrote the row:
\* it will fail, whatever it was going to write.
Outdated(r) ==
  IF r.pc \in {"commit", "cancel"} THEN [Idle EXCEPT !.pc = r.pc, !.stale = TRUE] ELSE r

Ends(w, wrote) ==
  worker' = [v \in Workers |->
    IF v = w THEN Idle ELSE IF wrote THEN Outdated(worker[v]) ELSE worker[v]]

\* A Serializable transaction commits if nobody wrote the row it read.
Commits(w) == ~worker[w].stale

\* Writers without a transaction: the payload as they read it, changed.
Overwrite(w) ==
  /\ At(w, "overwrite")
  /\ holder = None
  /\ payload' = worker[w].payload
  /\ Ends(w, TRUE)
  /\ UNCHANGED <<order, holder, money, lost>>

----------------------------------------------------------------------------
(* Fulfilment *)

\* PENDING stands for PENDING, ACCEPTED and PREPARING: nothing else tells them apart.
Linear == <<"PENDING", "READY", "OUT_FOR_DELIVERY", "COMPLETED">>
Statuses == {Linear[i] : i \in 1..4} \union {"CANCELLED", "FAILED", "DELAYED"}
Terminal == {"CANCELLED", "COMPLETED", "FAILED"}

\* canFulfillmentTransition
CanMove(from, to) ==
  \/ from = to
  \/ \E i \in 1..3 : from = Linear[i] /\ to = Linear[i + 1]
  \/ from = "OUT_FOR_DELIVERY" /\ to \in {"FAILED", "DELAYED", "CANCELLED"}

\* patchPayloadForFulfillmentDelivery
Patched(p, next) ==
  CASE next \in {"OUT_FOR_DELIVERY", "DELAYED"} -> [p EXCEPT !.status = "InProgress"]
    [] next = "COMPLETED" -> [p EXCEPT !.status = "Delivered", !.confirmed = FALSE]
    [] next = "FAILED" -> [p EXCEPT !.status = "Rejected"]
    [] next = "CANCELLED" -> [p EXCEPT !.status = "Cancelled"]
    [] OTHER -> p

\* assertStoreDeliveryPaidBeforeDispatch
Dispatchable(p) == p.type = "STORE" /\ p.fee > 0 => p.paid

Fulfil(w, next) ==
  /\ CanMove(order.fulfil, next)
  /\ next \in {"OUT_FOR_DELIVERY", "COMPLETED"} => Dispatchable(payload)
  /\ Decides(w, next)

\* confirmDeliveryReceipt: acknowledges a delivery, or completes a collection.
Acknowledge(w) ==
  /\ ~payload.issue
  /\ order.fulfil = "COMPLETED"
  /\ Decides(w, "acknowledge")

Collect(w) ==
  /\ ~payload.issue
  /\ order.fulfil = "READY"
  /\ payload.type = "SELF"
  /\ Decides(w, "collect")

ReportIssue(w) ==
  /\ order.fulfil = "COMPLETED"
  /\ ~payload.confirmed
  /\ ~payload.issue
  /\ Prepares(w, [payload EXCEPT !.issue = TRUE])

\* maybeAutoConfirmStaleDelivery: a day after the delivery, for a batch of orders.
AutoConfirm(w) ==
  /\ order.fulfil = "COMPLETED"
  /\ ~payload.confirmed
  /\ Prepares(w, [payload EXCEPT !.confirmed = TRUE])

----------------------------------------------------------------------------
(* How it gets to the customer *)

\* assertDeliveryChangeAllowed
MayChange ==
  /\ order.fulfil \in {"OUT_FOR_DELIVERY", "COMPLETED", "CANCELLED"} => payload.status = "Cancelled"
  /\ payload.status \notin {"InProgress", "Delivered"}
  /\ ~payload.paid

\* updateMaterialOrderDelivery with another type of delivery.
ChangeDelivery(w, type) ==
  /\ MayChange
  /\ type # payload.type
  /\ Decides(w, type)

\* updateMaterialOrderDelivery with status Cancelled, which is never refused.
GiveUpDelivery(w) ==
  /\ payload.status # "Cancelled"
  /\ Decides(w, "giveup")

\* storeDeliveryAwaitingBranchQuote
AwaitsQuote ==
  /\ payload.type = "STORE"
  /\ ~payload.paid
  /\ payload.status \notin {"Rejected", "Approved"}
  /\ payload.fee = 0

ApproveDelivery(w) ==
  /\ AwaitsQuote
  /\ Prepares(w, [payload EXCEPT !.fee = Fee, !.status = "Approved"])

RejectDelivery(w) ==
  /\ payload.type = "STORE"
  /\ AwaitsQuote \/ payload.status = "PendingApproval"
  /\ Prepares(w, [payload EXCEPT !.fee = 0, !.status = "Rejected"])

----------------------------------------------------------------------------
(* Payments *)

\* createPaymentIntent for the materials: one intent, which no retry reuses.
PayMaterials ==
  /\ order.payment # "paid"
  /\ intents["MATERIAL_ORDER"].state = "ABSENT"
  /\ intents' = [intents EXCEPT !["MATERIAL_ORDER"] = [state |-> "PENDING", amount |-> Total, refunded |-> 0]]
  /\ UNCHANGED <<order, payload, holder, taken, unsettled, given, invoices, lost, worker>>

\* createPaymentIntent for the delivery fee: the row is used again, a payment that
\* the order does not know of included (cancelStalePaidDeliveryFeeIntent).
PayDelivery ==
  /\ taken["DELIVERY_FEE"] < MaxFees * Fee
  /\ ~payload.paid
  /\ payload.fee > 0
  /\ intents' = [intents EXCEPT !["DELIVERY_FEE"] =
        [state |-> "PENDING", amount |-> payload.fee, refunded |-> intents["DELIVERY_FEE"].refunded]]
  /\ UNCHANGED <<order, payload, holder, taken, unsettled, given, invoices, lost, worker>>

\* The customer pays at the gateway and the event is taken (processWebhookResult).
Paid(kind) ==
  /\ intents[kind].state = "PENDING"
  /\ taken' = [taken EXCEPT ![kind] = @ + intents[kind].amount]
  /\ intents' = [intents EXCEPT ![kind].state = "PAID"]

\* settleMaterialOrderFromIntent: the payment's part of the payload starts over.
MaterialsPaid ==
  /\ Paid("MATERIAL_ORDER")
  /\ holder = None
  /\ IF order.payment = "paid"
     THEN UNCHANGED <<order, payload, worker>>
     ELSE /\ order' = [order EXCEPT !.payment = "paid"]
          /\ payload' = [payload EXCEPT !.paid = FALSE]
          /\ worker' = [w \in Workers |-> Outdated(worker[w])]
  /\ UNCHANGED <<holder, unsettled, given, invoices, lost>>

\* The fee's intent is paid, the order follows.
DeliveryPaid ==
  /\ Paid("DELIVERY_FEE")
  /\ unsettled' = TRUE
  /\ UNCHANGED <<order, payload, holder, given, invoices, lost, worker>>

\* markMaterialOrderDeliveryPaid, again at each repetition of the event until it
\* found the fee in the order; a completed order refuses it.
Settle(w) ==
  /\ unsettled
  /\ intents["DELIVERY_FEE"].state = "PAID"
  /\ ~payload.paid
  /\ order.fulfil # "COMPLETED"
  /\ Decides(w, "settle")

\* payMaterialOrderDelivery: the customer says that the fee is paid, and no payment is
\* looked at.  The fee is the request's; here it is the one that stores ask.
PayAtOnce(w) ==
  /\ ~payload.paid
  /\ order.fulfil # "COMPLETED"
  /\ Decides(w, "settle")

\* The event is processed when the fee is in the order.
Settled ==
  /\ unsettled
  /\ payload.paid
  /\ unsettled' = FALSE
  /\ UNCHANGED <<order, payload, holder, intents, taken, given, invoices, lost, worker>>

----------------------------------------------------------------------------
(* The writes of the transactions *)

Ops == Statuses \union {"acknowledge", "collect", "SELF", "STORE", "giveup", "settle"}

OrderAfter(op) ==
  IF op = "collect" THEN [order EXCEPT !.fulfil = "COMPLETED"]
  ELSE IF op \in Statuses THEN [order EXCEPT !.fulfil = op] ELSE order

PayloadAfter(op) ==
  CASE op \in Statuses -> Patched(payload, op)
    [] op = "acknowledge" -> [payload EXCEPT !.confirmed = TRUE]
    [] op = "collect" -> [payload EXCEPT !.status = "Delivered", !.confirmed = TRUE]
    [] op = "SELF" -> [payload EXCEPT !.type = op, !.fee = 0, !.status = "SelfCollect"]
    [] op = "STORE" -> [payload EXCEPT !.type = op, !.fee = 0, !.status = "PendingApproval"]
    [] op = "giveup" -> [payload EXCEPT !.status = "Cancelled"]
    [] op = "settle" -> [payload EXCEPT !.fee = Fee, !.paid = TRUE, !.status = "Processing"]

\* The row of a fresh transaction is the one it read.
Commit(w) ==
  /\ At(w, "commit")
  /\ holder = None
  /\ IF Commits(w)
     THEN order' = OrderAfter(worker[w].op) /\ payload' = PayloadAfter(worker[w].op)
     ELSE UNCHANGED <<order, payload>>
  /\ Ends(w, Commits(w))
  /\ UNCHANGED <<holder, money, lost>>

----------------------------------------------------------------------------
(* Cancellation *)

\* assertCanCancel
MayCancel(actor) ==
  /\ order.fulfil \notin Terminal
  /\ actor = "customer" => order.fulfil \in {"PENDING", "READY"}

\* buildCancelOutcome
RefundAmount(actor) == IF actor = "supplier" THEN Total ELSE Total - Commission

\* cancelMaterialOrderInTransaction: the row and the snapshot of the intents.
CancelRead(w, actor) ==
  /\ At(w, "idle")
  /\ MayCancel(actor)
  /\ order.refund # "processed"
  /\ worker' = [worker EXCEPT ![w] =
       Request("cancel", "none", NoPayload, RefundAmount(actor), {k \in Kinds : intents[k].state = "PAID"})]
  /\ UNCHANGED <<order, payload, holder, money, lost>>

\* The update of the row, not committed: others wait for it.
CancelUpdate(w) ==
  /\ At(w, "cancel")
  /\ holder = None
  /\ IF Commits(w)
     THEN /\ holder' = w
          /\ worker' = [worker EXCEPT ![w].pc = "mark"]
     ELSE /\ Ends(w, FALSE)
          /\ UNCHANGED holder
  /\ UNCHANGED <<order, payload, money, lost>>

\* The handler comes back to its transaction, which fails if it is lost.
Returns(w) ==
  worker' = [worker EXCEPT ![w] =
    IF holder = w THEN Request("invoice", "none", NoPayload, @.amount, {}) ELSE Idle]

\* markMaterialIntentRefunded, outside of the transaction.
MarkedRefunded(is, partial) ==
  [k \in Kinds |-> IF is[k].state = "PAID"
                   THEN [is[k] EXCEPT !.state = IF partial THEN "PARTIALLY_REFUNDED" ELSE "REFUNDED"]
                   ELSE is[k]]

\* The query for the paid intent comes next: it fails if the transaction is lost.
CancelMark(w) ==
  /\ At(w, "mark")
  /\ intents' = MarkedRefunded(intents, worker[w].amount < Total)
  /\ worker' = [worker EXCEPT ![w] = IF holder = w THEN [@ EXCEPT !.pc = "read"] ELSE Idle]
  /\ UNCHANGED <<order, payload, holder, taken, unsettled, given, invoices, lost>>

Least(a, b) == IF a <= b THEN a ELSE b

\* Mutant: what was given back before is not subtracted.
RemainingGross(row) == row.amount

\* remainingRefundableOnIntent
Remaining(row) == row.amount - row.refunded

Refundable(row) == row.state \in {"PAID", "PARTIALLY_REFUNDED"} /\ Remaining(row) > 0

\* requestGatewayRefund reads one of the intents that were paid in the snapshot; its
\* state may allow no refund any more.
RefundRead(w) ==
  /\ At(w, "read")
  /\ \/ \E k \in worker[w].paid :
          /\ worker[w].amount > 0
          /\ Refundable(intents[k])
          /\ worker' = [worker EXCEPT ![w].pc = "ask", ![w].paid = {}, ![w].kind = k, ![w].row = intents[k]]
     \/ /\ \/ worker[w].paid = {} \/ worker[w].amount = 0
           \/ \E k \in worker[w].paid : ~Refundable(intents[k])
        /\ Returns(w)
  /\ UNCHANGED <<order, payload, holder, money, lost>>

Asked(w) == Least(worker[w].amount, Remaining(worker[w].row))

\* The gateway refunds, or not; its answer may be lost, and no answer is looked at.
RefundAsk(w) ==
  /\ At(w, "ask")
  /\ \/ /\ given' = [given EXCEPT ![worker[w].kind] = @ + Asked(w)]
        /\ Returns(w) \/ worker' = [worker EXCEPT ![w].pc = "book"]
     \/ /\ MayRefuse
        /\ Returns(w)
        /\ UNCHANGED given
  /\ UNCHANGED <<order, payload, holder, intents, taken, unsettled, invoices, lost>>

\* applyIntentRefundMoney adds to what it read before the gateway was asked ...
RefundBook(w) ==
  LET refunded == worker[w].row.refunded + Asked(w)
      state == IF refunded >= worker[w].row.amount THEN "REFUNDED" ELSE "PARTIALLY_REFUNDED"
  IN  /\ At(w, "book")
      /\ intents' = [intents EXCEPT ![worker[w].kind].refunded = refunded, ![worker[w].kind].state = state]
      /\ worker' = [worker EXCEPT ![w] = Request("note", "none", NoPayload, @.amount, {})]
      /\ UNCHANGED <<order, payload, holder, taken, unsettled, given, invoices, lost>>

\* ... and then marks the intents of the order once more.
RefundNote(w) ==
  /\ At(w, "note")
  /\ intents' = MarkedRefunded(intents, TRUE)
  /\ Returns(w)
  /\ UNCHANGED <<order, payload, holder, taken, unsettled, given, invoices, lost>>

\* createRefundInvoiceInTransaction, and the commit.
CancelCommit(w) ==
  /\ At(w, "invoice")
  /\ order' = Row("CANCELLED", IF worker[w].amount > 0 THEN "refunded" ELSE order.payment,
                  "processed", worker[w].amount)
  /\ payload' = Patched(payload, "CANCELLED")
  /\ invoices' = IF worker[w].amount > 0 THEN Append(invoices, worker[w].amount) ELSE invoices
  /\ holder' = None
  /\ Ends(w, TRUE)
  /\ UNCHANGED <<intents, taken, unsettled, given, lost>>

\* The transaction times out (20 s): the row is free again, and the handler goes on with
\* what it does outside of the transaction.
CancelTimesOut(w) ==
  /\ holder = w
  /\ lost < MaxLost
  /\ lost' = lost + 1
  /\ holder' = None
  /\ IF At(w, "invoice") THEN Ends(w, FALSE) ELSE UNCHANGED worker
  /\ UNCHANGED <<order, payload, money>>

\* The process stops, and the transaction that is open with it.
CancelStops(w) ==
  /\ worker[w].pc \in {"mark", "read", "ask", "book", "note", "invoice"}
  /\ IF holder = w
     THEN lost < MaxLost /\ lost' = lost + 1 /\ holder' = None
     ELSE UNCHANGED <<lost, holder>>
  /\ Ends(w, FALSE)
  /\ UNCHANGED <<order, payload, money>>

----------------------------------------------------------------------------

Store(w) ==
  \/ \E next \in Statuses : Fulfil(w, next)
  \/ ApproveDelivery(w) \/ RejectDelivery(w)
Customer(w) ==
  \/ Acknowledge(w) \/ Collect(w) \/ ReportIssue(w) \/ GiveUpDelivery(w)
  \/ \E type \in {"SELF", "STORE"} : ChangeDelivery(w, type)
  \/ PayAtOnce(w)
Cancels(w) ==
  \/ \E actor \in {"supplier", "customer"} : CancelRead(w, actor)
  \/ CancelUpdate(w) \/ CancelMark(w) \/ CancelCommit(w)
  \/ CancelTimesOut(w) \/ CancelStops(w)
Refunds(w) == RefundRead(w) \/ RefundAsk(w) \/ RefundBook(w) \/ RefundNote(w)
Payment == PayMaterials \/ PayDelivery \/ MaterialsPaid \/ DeliveryPaid \/ Settled

Next ==
  \/ Payment
  \/ \E w \in Workers : \/ Store(w) \/ Customer(w) \/ Cancels(w) \/ Refunds(w)
                        \/ AutoConfirm(w) \/ Settle(w) \/ Commit(w) \/ Overwrite(w)

Spec == Init /\ [][Next]_vars

----------------------------------------------------------------------------
(* Properties *)

OrderType == [fulfil : Statuses, payment : {"unpaid", "paid", "refunded"},
              refund : {"none", "processed"}, amount : 0..Total]
DeliveryStatuses == {"SelfCollect", "PendingApproval", "Approved", "Rejected", "Processing", "InProgress",
                     "Delivered", "Cancelled"}
PayloadType == [type : {"SELF", "STORE"}, status : DeliveryStatuses, fee : {0, Fee},
                paid : BOOLEAN, confirmed : BOOLEAN, issue : BOOLEAN]
Price(k) == IF k = "MATERIAL_ORDER" THEN Total ELSE Fee
States == {"ABSENT", "PENDING", "PAID", "PARTIALLY_REFUNDED", "REFUNDED"}
IntentType == [state : States, amount : {0, Total, Fee}, refunded : Nat]
RequestType == [pc : {"idle", "commit", "overwrite", "cancel", "mark", "read", "ask", "book", "note",
                      "invoice"},
                op : Ops \union {"none"}, payload : PayloadType, amount : 0..Total,
                paid : SUBSET Kinds, stale : BOOLEAN, kind : Kinds, row : IntentType]
Sound(k, row) == row.amount \in {0, Price(k)} /\ row.refunded <= row.amount

\* Every variable stays in its set; of an intent, no more than its amount is booked as
\* refunded (remainingRefundableOnIntent), also when two cancellations ask for it and one
\* books over the other.
TypeOK ==
  /\ order \in OrderType
  /\ payload \in PayloadType
  /\ holder \in Workers \union {None}
  /\ intents \in [Kinds -> IntentType]
  /\ \A k \in Kinds : Sound(k, intents[k])
  /\ taken \in [Kinds -> Nat]
  /\ unsettled \in BOOLEAN
  /\ given \in [Kinds -> Nat]
  /\ invoices \in Seq(1..Total)
  /\ lost \in 0..MaxLost
  /\ worker \in [Workers -> RequestType]

\* An order that was cancelled, was completed or failed stays so (CANCEL_TERMINAL,
\* canFulfillmentTransition), whatever the requests that read it before write later.
TerminalStays == [][order.fulfil \in Terminal => order'.fulfil = order.fulfil]_order

\* A cancelled order has one refund invoice, of the amount in its row, and an order that
\* is not cancelled has none: cancellations overlap, are repeated and roll back
\* (cancelMaterialOrderInTransaction).
RefundInvoicedOnce ==
  IF order.refund = "processed"
  THEN /\ order.fulfil = "CANCELLED"
       /\ invoices = IF order.amount > 0 THEN <<order.amount>> ELSE << >>
  ELSE invoices = << >>

\* The gateway gives back what the customer paid, for the materials and for the delivery,
\* once; once more only for each cancellation whose transaction was lost after it had the
\* row (requestGatewayRefund goes on when the transaction has timed out, and the next
\* cancellation may ask before the first has booked).
GivenBackOncePerLoss ==
  \A k \in Kinds : given[k] <= taken[k] + lost * Price(k)

\* However the requests on the delivery overlap, the store's delivery leaves only while the
\* order that leaves has its fee marked paid (assertStoreDeliveryPaidBeforeDispatch in a
\* Serializable transaction), not one that was read before the fee was asked.
LeavesMarkedPaid ==
  [][order.fulfil # "OUT_FOR_DELIVERY" /\ order'.fulfil = "OUT_FOR_DELIVERY"
       /\ payload.type = "STORE" /\ payload.fee > 0
     => payload.paid]_order

\* Not so: after a store's cancellation of an order that was paid, the whole price was
\* given back (markMaterialIntentRefunded, requestGatewayRefund): the intent is REFUNDED
\* before the gateway is to be asked, which is then refused.
SupplierCancelGivesBack ==
  /\ order.refund = "processed"
  /\ order.amount = Total
  /\ intents["MATERIAL_ORDER"].state = "REFUNDED"
  => given["MATERIAL_ORDER"] = Total
==============================================================================
