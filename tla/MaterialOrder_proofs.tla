-------------------------- MODULE MaterialOrder_proofs --------------------------
(* Proofs about MaterialOrder: what a fresh transaction decided is still right
   when it commits, a cancellation that commits kept the row to itself, and
   each one that asked the gateway has the row, committed or was lost. *)
EXTENDS MaterialOrder, FiniteSets, FiniteSetTheorems, TLAPS

\* The decision of a transaction, on the row as it is.
Stands(op) ==
  /\ op \in Ops
  /\ order.fulfil \in Terminal => OrderAfter(op).fulfil = order.fulfil
  /\ op = "OUT_FOR_DELIVERY" => Dispatchable(payload)

FreshRequest(r) ==
  ~r.stale => /\ r.pc = "commit" => Stands(r.op)
              /\ r.pc = "cancel" => order.fulfil \notin Terminal

\* A transaction that would commit decided on the row as it is now.
FreshStands == \A w \in Workers : FreshRequest(worker[w])

Cancelling == {"mark", "read", "ask", "book", "note", "invoice"}

\* The row is held by a cancellation past its update, of an order that goes on, and
\* only the one that holds it comes to the commit.
HolderCancels ==
  /\ \A w \in Workers : holder = w => worker[w].pc \in Cancelling
  /\ \A w \in Workers : worker[w].pc = "invoice" => holder = w
  /\ holder # None => order.fulfil \notin Terminal

\* An intent is of its price, and when it is paid the gateway took that.
IntentRight(k, i, t) ==
  /\ i.state # "ABSENT" => i.amount = Price(k)
  /\ i.state \in {"PAID", "PARTIALLY_REFUNDED", "REFUNDED"} => Price(k) <= t[k]

\* The copy with which the gateway is asked was one that may be refunded.
CopyRight(r, is, t) ==
  r.pc \in {"ask", "book"} =>
    /\ r.row.amount = Price(r.kind)
    /\ r.row.refunded < r.row.amount
    /\ is[r.kind].state # "ABSENT"
    /\ Price(r.kind) <= t[r.kind]

IntentsRight ==
  /\ \A k \in Kinds : IntentRight(k, intents[k], taken)
  /\ \A w \in Workers : CopyRight(worker[w], intents, taken)

\* Lost cancellations that may still ask the gateway.
Pending == {w \in Workers : worker[w].pc \in {"read", "ask"} /\ holder # w}

\* A cancellation that is not lost has asked the gateway.
HasAsked ==
  \/ order.refund = "processed"
  \/ \E w \in Workers : holder = w /\ worker[w].pc \in {"book", "note", "invoice"}

Held == IF HasAsked THEN 1 ELSE 0

\* The gateway gave back no more than the price for each cancellation that asked it,
\* and each of those, or that may still ask, is lost or is the one that is not.
GivenCounted ==
  /\ IsFiniteSet(Pending)
  /\ \A k \in Kinds : given[k] > 0 => Price(k) <= taken[k]
  /\ \E n \in Nat : /\ n + Cardinality(Pending) <= lost + Held
                    /\ \A k \in Kinds : given[k] <= n * Price(k)

IInv == TypeOK /\ RefundInvoicedOnce /\ FreshStands /\ HolderCancels /\ IntentsRight /\ GivenCounted

----------------------------------------------------------------------------
(* Helpers *)

\* createMaterialOrder's row and payload, and the requests, are of their types.
LEMMA PayloadsTyped ==
  /\ Payload("SELF", "SelfCollect") \in PayloadType
  /\ Payload("STORE", "PendingApproval") \in PayloadType
BY PriceAssumption DEF Payload, PayloadType, DeliveryStatuses

LEMMA NoIntentTyped == NoIntent \in IntentType
BY DEF NoIntent, IntentType, States

LEMMA IdleTyped ==
  Idle \in RequestType /\ Idle.pc = "idle" /\ Idle.stale = FALSE
BY NoIntentTyped, PriceAssumption, PayloadsTyped DEF Idle, NoPayload, Request, RequestType, Kinds

\* An outdated request is where it was; the others are left as they are.
LEMMA OutdatedTyped ==
  ASSUME NEW r \in RequestType
  PROVE  /\ Outdated(r) \in RequestType
         /\ Outdated(r).pc = r.pc
         /\ r.pc \notin {"commit", "cancel"} => Outdated(r) = r
         /\ r.pc \in {"commit", "cancel"} => Outdated(r).stale
BY IdleTyped DEF Outdated, RequestType

\* patchPayloadForFulfillmentDelivery keeps the type of the payload.
LEMMA PatchedTyped ==
  ASSUME NEW p \in PayloadType, NEW next \in Statuses
  PROVE  Patched(p, next) \in PayloadType /\ Patched(p, next).paid = p.paid
BY DEF Patched, PayloadType, DeliveryStatuses

\* So does every write of a transaction.
LEMMA PayloadAfterTyped ==
  ASSUME payload \in PayloadType, NEW op \in Ops
  PROVE  PayloadAfter(op) \in PayloadType
<1>1. CASE op \in Statuses
  <2>1. PayloadAfter(op) = Patched(payload, op)
    BY <1>1 DEF PayloadAfter, Statuses, Linear
  <2> QED BY <2>1, <1>1, PatchedTyped DEF Statuses, Linear
<1>2. CASE op = "acknowledge"
  <2>1. PayloadAfter(op) = [payload EXCEPT !.confirmed = TRUE]
    BY <1>2 DEF PayloadAfter, Statuses, Linear
  <2> QED BY <2>1, <1>2, PriceAssumption DEF PayloadType, DeliveryStatuses
<1>3. CASE op = "collect"
  <2>1. PayloadAfter(op) = [payload EXCEPT !.status = "Delivered", !.confirmed = TRUE]
    BY <1>3 DEF PayloadAfter, Statuses, Linear
  <2> QED BY <2>1, <1>3, PriceAssumption DEF PayloadType, DeliveryStatuses
<1>4. CASE op = "SELF"
  <2>1. PayloadAfter(op) = [payload EXCEPT !.type = "SELF", !.fee = 0, !.status = "SelfCollect"]
    BY <1>4 DEF PayloadAfter, Statuses, Linear
  <2> QED BY <2>1, <1>4, PriceAssumption DEF PayloadType, DeliveryStatuses
<1>5. CASE op = "STORE"
  <2>1. PayloadAfter(op) = [payload EXCEPT !.type = "STORE", !.fee = 0, !.status = "PendingApproval"]
    BY <1>5 DEF PayloadAfter, Statuses, Linear
  <2> QED BY <2>1, <1>5, PriceAssumption DEF PayloadType, DeliveryStatuses
<1>6. CASE op = "giveup"
  <2>1. PayloadAfter(op) = [payload EXCEPT !.status = "Cancelled"]
    BY <1>6 DEF PayloadAfter, Statuses, Linear
  <2> QED BY <2>1, <1>6, PriceAssumption DEF PayloadType, DeliveryStatuses
<1>7. CASE op = "settle"
  <2>1. PayloadAfter(op) = [payload EXCEPT !.fee = Fee, !.paid = TRUE, !.status = "Processing"]
    BY <1>7 DEF PayloadAfter, Statuses, Linear
  <2> QED BY <2>1, <1>7, PriceAssumption DEF PayloadType, DeliveryStatuses
<1> QED BY <1>1, <1>2, <1>3, <1>4, <1>5, <1>6, <1>7 DEF Ops

LEMMA OrderAfterTyped ==
  ASSUME order \in OrderType, NEW op \in Ops
  PROVE  /\ OrderAfter(op) \in OrderType
         /\ OrderAfter(op).refund = order.refund
         /\ OrderAfter(op).amount = order.amount
         /\ OrderAfter(op).fulfil = "OUT_FOR_DELIVERY" =>
              order.fulfil = "OUT_FOR_DELIVERY" \/ op = "OUT_FOR_DELIVERY"
BY DEF OrderAfter, OrderType, Ops, Statuses, Linear

\* canFulfillmentTransition lets no order out of a terminal status.
LEMMA TerminalDoesNotMove ==
  ASSUME NEW from \in Terminal, NEW to, CanMove(from, to)
  PROVE  to = from
BY DEF CanMove, Terminal, Linear

\* The price of one intent.
LEMMA PriceTyped == \A k \in Kinds : Price(k) \in Nat
BY PriceAssumption DEF Price

----------------------------------------------------------------------------
(* The count of what was given back *)

\* Facts of arithmetic.
LEMMA WithinTaken ==
  ASSUME NEW g \in Nat, NEW t \in Nat, NEW p \in Nat, NEW m \in Nat, NEW q \in Nat,
         g <= m, m <= q + p, g > 0 => p <= t
  PROVE  g <= t + q
OBVIOUS

LEMMA TimesMonotone ==
  ASSUME NEW a \in Nat, NEW b \in Nat, NEW p \in Nat, a <= b
  PROVE  a * p <= b * p
<1>1. PICK d \in Nat : b = a + d
  <2>1. b - a \in Nat /\ b = a + (b - a)
    OBVIOUS
  <2> QED BY <2>1
<1>2. (a + d) * p = a * p + d * p /\ d * p \in Nat /\ a * p \in Nat
  OBVIOUS
<1> QED BY <1>1, <1>2

LEMMA SumsKept ==
  ASSUME NEW n \in Nat, NEW c \in Nat, NEW d \in Nat, NEW l \in Nat, NEW m \in Nat, NEW h \in Nat, NEW i \in Nat,
         n + c <= l + h, d <= c, l + h <= m + i
  PROVE  n + d <= m + i
OBVIOUS

\* Cancellations that have asked the gateway are counted still.
LEMMA HeldKept ==
  ASSUME TypeOK, lost' = lost, HasAsked => HasAsked'
  PROVE  lost + Held <= lost' + Held'
<1>1. lost \in Nat
  BY BoundsAssumption DEF TypeOK
<1> QED BY <1>1 DEF Held

\* Nothing is given back: cancellations that may ask the gateway drop out, and those
\* that have asked remain, or one of them that asked is lost.
LEMMA CountKept ==
  ASSUME TypeOK, GivenCounted, given' = given, taken' \in [Kinds -> Nat], lost' \in Nat,
         \A k \in Kinds : taken[k] <= taken'[k],
         Pending' \subseteq Pending,
         lost + Held <= lost' + Held'
  PROVE  GivenCounted'
<1>1. IsFiniteSet(Pending) /\ Cardinality(Pending) \in Nat
  BY FS_CardinalityType DEF GivenCounted
<1>2. /\ IsFiniteSet(Pending') /\ Cardinality(Pending') <= Cardinality(Pending)
      /\ Cardinality(Pending') \in Nat
  BY <1>1, FS_Subset, FS_CardinalityType
<1>3. ASSUME NEW k \in Kinds, given'[k] > 0 PROVE Price(k) <= taken'[k]
  BY <1>3, PriceTyped DEF TypeOK, GivenCounted
<1>4. PICK n \in Nat : /\ n + Cardinality(Pending) <= lost + Held
                       /\ \A k \in Kinds : given[k] <= n * Price(k)
  BY DEF GivenCounted
<1>5. lost \in Nat /\ Held \in Nat /\ Held' \in Nat
  BY BoundsAssumption DEF TypeOK, Held
<1>6. n + Cardinality(Pending') <= lost' + Held'
  <2>1. n \in Nat /\ lost' \in Nat
    OBVIOUS
  <2> QED BY <2>1, <1>1, <1>2, <1>4, <1>5, SumsKept, Zenon
<1>7. \A k \in Kinds : given'[k] <= n * Price(k)
  BY <1>4
<1> QED BY <1>2, <1>3, <1>6, <1>7 DEF GivenCounted, Price

\* A cancellation that may still ask the gateway is lost.
LEMMA CountLost ==
  ASSUME TypeOK, GivenCounted, NEW w \in Workers, given' = given, taken' = taken, lost' = lost + 1,
         Pending' \subseteq Pending \union {w}, HasAsked => HasAsked'
  PROVE  GivenCounted'
<1>1. IsFiniteSet(Pending) /\ Cardinality(Pending) \in Nat
  BY FS_CardinalityType DEF GivenCounted
<1>2. /\ IsFiniteSet(Pending \union {w})
      /\ Cardinality(Pending \union {w}) <= Cardinality(Pending) + 1
  BY <1>1, FS_AddElement
<1>3. /\ IsFiniteSet(Pending') /\ Cardinality(Pending') <= Cardinality(Pending \union {w})
      /\ Cardinality(Pending') \in Nat /\ Cardinality(Pending \union {w}) \in Nat
  BY <1>2, FS_Subset, FS_CardinalityType
<1>4. PICK n \in Nat : /\ n + Cardinality(Pending) <= lost + Held
                       /\ \A k \in Kinds : given[k] <= n * Price(k)
  BY DEF GivenCounted
<1>5. lost \in Nat /\ Held \in Nat /\ Held' \in Nat /\ Held <= Held'
  BY BoundsAssumption DEF TypeOK, Held
<1>6. n + Cardinality(Pending)' <= lost' + Held'
  BY <1>1, <1>2, <1>3, <1>4, <1>5
<1>7. \A k \in Kinds : given'[k] <= n * Price(k)
  BY <1>4
<1>8. \A k \in Kinds : given'[k] > 0 => Price(k) <= taken'[k]
  BY DEF GivenCounted
<1> QED BY <1>3, <1>6, <1>7, <1>8 DEF GivenCounted, Price

\* The gateway gives back up to the price: the cancellation that asked it was lost and
\* might still ask, or is the first that is not lost.
LEMMA CountGiven ==
  ASSUME TypeOK, GivenCounted, NEW w \in Workers, NEW j \in Kinds, NEW a \in Nat,
         a <= Price(j), Price(j) <= taken[j],
         given' = [given EXCEPT ![j] = @ + a], taken' = taken, lost' = lost,
         HasAsked => HasAsked',
         \/ w \in Pending /\ Pending' \subseteq Pending \ {w}
         \/ Pending' \subseteq Pending /\ ~HasAsked /\ HasAsked'
  PROVE  GivenCounted'
<1>1. IsFiniteSet(Pending) /\ Cardinality(Pending) \in Nat
  BY FS_CardinalityType DEF GivenCounted
<1>2. /\ IsFiniteSet(Pending \ {w})
      /\ Cardinality(Pending \ {w}) = IF w \in Pending THEN Cardinality(Pending) - 1 ELSE Cardinality(Pending)
  BY <1>1, FS_RemoveElement
<1>3. IsFiniteSet(Pending') /\ Cardinality(Pending') \in Nat
  BY <1>1, <1>2, FS_Subset, FS_CardinalityType
<1>4. Cardinality(Pending') + Held + 1 <= Cardinality(Pending) + Held'
  <2>1. Held \in Nat /\ Held' \in Nat /\ Held <= Held'
    BY DEF Held
  <2>2. CASE w \in Pending /\ Pending' \subseteq Pending \ {w}
    <3>1. Cardinality(Pending') <= Cardinality(Pending \ {w})
      BY <2>2, <1>2, FS_Subset
    <3>2. Cardinality(Pending \ {w}) = Cardinality(Pending) - 1
      BY <2>2, <1>2
    <3> QED BY <3>1, <3>2, <2>1, <1>1, <1>3
  <2>3. CASE Pending' \subseteq Pending /\ ~HasAsked /\ HasAsked'
    <3>1. Cardinality(Pending') <= Cardinality(Pending)
      BY <2>3, <1>1, FS_Subset
    <3>2. Held = 0 /\ Held' = 1
      BY <2>3 DEF Held
    <3> QED BY <3>1, <3>2, <1>1, <1>3
  <2> QED BY <2>2, <2>3
<1>5. PICK n \in Nat : /\ n + Cardinality(Pending) <= lost + Held
                       /\ \A k \in Kinds : given[k] <= n * Price(k)
  BY DEF GivenCounted
<1>6. lost \in Nat /\ Held \in Nat /\ Held' \in Nat
  BY BoundsAssumption DEF TypeOK, Held
<1>7. n + 1 + Cardinality(Pending') <= lost' + Held'
  BY <1>1, <1>3, <1>4, <1>5, <1>6
<1>8. ASSUME NEW k \in Kinds PROVE given'[k] <= (n + 1) * Price(k)
  <2> DEFINE p == Price(k)
  <2>1. p \in Nat /\ given[k] \in Nat /\ given[k] <= n * p
    BY <1>5, PriceTyped DEF TypeOK
  <2>2. given'[k] <= given[k] + p
    <3>1. CASE k = j
      <4>1. given'[k] = given[k] + a
        BY <3>1 DEF TypeOK
      <4> QED BY <4>1, <3>1, <2>1
    <3>2. CASE k # j
      <4>1. given'[k] = given[k]
        BY <3>2 DEF TypeOK
      <4> QED BY <4>1, <2>1
    <3> QED BY <3>1, <3>2
  <2>3. given'[k] \in Nat
    BY DEF TypeOK
  <2> HIDE DEF p
  <2>4. (n + 1) * p = n * p + p /\ n * p \in Nat
    BY <2>1
  <2>5. given'[k] <= (n + 1) * p
    BY <2>1, <2>2, <2>3, <2>4
  <2> QED BY <2>5 DEF p
<1>9. ASSUME NEW k \in Kinds, given'[k] > 0 PROVE Price(k) <= taken'[k]
  <2>1. CASE k = j
    BY <2>1
  <2>2. CASE k # j
    BY <2>2, <1>9 DEF TypeOK, GivenCounted
  <2> QED BY <2>1, <2>2
<1> QED BY <1>3, <1>7, <1>8, <1>9 DEF GivenCounted, Price

----------------------------------------------------------------------------
(* Requests take steps *)

\* A request goes on, and the row stays as it is: what it must satisfy itself.
LEMMA MovesInv ==
  ASSUME IInv, NEW w \in Workers, NEW r \in RequestType, worker' = [worker EXCEPT ![w] = r],
         FreshRequest(r),
         holder' \in Workers \union {None},
         holder' = w => r.pc \in Cancelling /\ order.fulfil \notin Terminal,
         r.pc = "invoice" => holder' = w,
         \A v \in Workers \ {w} : holder' = v <=> holder = v,
         intents' \in [Kinds -> IntentType], \A k \in Kinds : Sound(k, intents'[k]),
         given' \in [Kinds -> Nat], lost' \in 0..MaxLost,
         IntentsRight', GivenCounted',
         UNCHANGED <<order, payload, taken, unsettled, invoices>>
  PROVE  IInv'
<1>1. worker \in [Workers -> RequestType] /\ TypeOK /\ HolderCancels
  BY DEF IInv, TypeOK
<1>2. /\ worker' \in [Workers -> RequestType]
      /\ worker'[w] = r
      /\ \A v \in Workers \ {w} : worker'[v] = worker[v]
  BY <1>1
<1>3. TypeOK'
  BY <1>1, <1>2 DEF TypeOK
<1>4. RefundInvoicedOnce'
  BY DEF IInv, RefundInvoicedOnce
<1>5. FreshStands'
  <2> SUFFICES ASSUME NEW v \in Workers PROVE FreshRequest(worker[v])'
    BY DEF FreshStands
  <2>1. CASE v = w
    BY <2>1, <1>2 DEF FreshRequest, Stands, OrderAfter
  <2>2. CASE v # w
    BY <2>2, <1>2 DEF IInv, FreshStands, FreshRequest, Stands, OrderAfter
  <2> QED BY <2>1, <2>2
<1>6. HolderCancels'
  <2>1. \A v \in Workers : holder' = v => worker'[v].pc \in Cancelling
    BY <1>1, <1>2 DEF HolderCancels
  <2>2. \A v \in Workers : worker'[v].pc = "invoice" => holder' = v
    BY <1>1, <1>2 DEF HolderCancels
  <2>3. holder' # None => order.fulfil \notin Terminal
    BY <1>1, WorkersAssumption DEF HolderCancels
  <2> QED BY <2>1, <2>2, <2>3 DEF HolderCancels
<1> QED BY <1>3, <1>4, <1>5, <1>6 DEF IInv

\* The copies of the other requests stay right, and a request that does not ask the
\* gateway has none.
LEMMA CopiesKept ==
  ASSUME IInv, NEW w \in Workers, NEW r \in RequestType, worker' = [worker EXCEPT ![w] = r],
         CopyRight(r, intents, taken), UNCHANGED <<intents, taken>>
  PROVE  IntentsRight'
<1>1. worker \in [Workers -> RequestType]
  BY DEF IInv, TypeOK
<1>2. \A v \in Workers : worker'[v] = IF v = w THEN r ELSE worker[v]
  BY <1>1
<1> QED BY <1>2 DEF IInv, IntentsRight, CopyRight, IntentRight

\* A request that holds nothing and asks nothing goes on, or ends.
LEMMA QuietInv ==
  ASSUME IInv, NEW w \in Workers, NEW r \in RequestType, worker' = [worker EXCEPT ![w] = r],
         FreshRequest(r), r.pc \in {"idle", "commit", "overwrite", "cancel"}, holder # w,
         UNCHANGED <<order, payload, holder, intents, taken, unsettled, given, invoices, lost>>
  PROVE  IInv'
<1>1. worker \in [Workers -> RequestType] /\ TypeOK /\ GivenCounted
  BY DEF IInv, TypeOK
<1>2. \A v \in Workers : worker'[v] = IF v = w THEN r ELSE worker[v]
  BY <1>1
<1>3. IntentsRight'
  BY CopiesKept DEF CopyRight
<1>4. Pending' \subseteq Pending
  BY <1>2 DEF Pending
<1>5. HasAsked => HasAsked'
  BY <1>2 DEF HasAsked
<1>6. GivenCounted'
  <2>1. taken' \in [Kinds -> Nat] /\ lost' \in Nat /\ \A k \in Kinds : taken[k] <= taken'[k]
    BY <1>1, BoundsAssumption DEF TypeOK
  <2>2. lost + Held <= lost' + Held'
    BY <1>1, <1>5, HeldKept
  <2> QED BY <2>1, <2>2, <1>1, <1>4, CountKept
<1> QED BY <1>1, <1>3, <1>6, MovesInv DEF TypeOK

\* A request that decides, on the row as it is, keeps the invariant.
LEMMA DecidesInv ==
  ASSUME IInv, NEW w \in Workers, NEW op \in Ops, Stands(op), Decides(w, op)
  PROVE  IInv'
<1> DEFINE r == Request("commit", op, NoPayload, 0, {})
<1>1. r \in RequestType /\ r.pc = "commit" /\ r.op = op /\ r.stale = FALSE
  <2>1. NoPayload \in PayloadType /\ 0 \in 0..Total /\ {} \in SUBSET Kinds /\ op \in Ops \union {"none"}
    BY PayloadsTyped, PriceAssumption DEF NoPayload
  <2> QED BY <2>1, NoIntentTyped DEF Request, RequestType, Kinds
<1> HIDE DEF r
<1>2. /\ worker[w].pc = "idle"
      /\ worker' = [worker EXCEPT ![w] = r]
      /\ UNCHANGED <<order, payload, holder, intents, taken, unsettled, given, invoices, lost>>
  BY DEF Decides, At, money, r
<1>3. holder # w
  BY <1>2 DEF IInv, HolderCancels, Cancelling
<1>4. FreshRequest(r)
  BY <1>1 DEF FreshRequest
<1> QED BY <1>1, <1>2, <1>3, <1>4, QuietInv

\* So does one that will write a payload.
LEMMA PreparesInv ==
  ASSUME IInv, NEW w \in Workers, NEW p \in PayloadType, Prepares(w, p)
  PROVE  IInv'
<1> DEFINE r == Request("overwrite", "none", p, 0, {})
<1>1. r \in RequestType /\ r.pc = "overwrite"
  <2>1. 0 \in 0..Total /\ {} \in SUBSET Kinds /\ "none" \in Ops \union {"none"}
    BY PriceAssumption
  <2> QED BY <2>1, NoIntentTyped DEF Request, RequestType, Kinds
<1> HIDE DEF r
<1>2. /\ worker[w].pc = "idle"
      /\ worker' = [worker EXCEPT ![w] = r]
      /\ UNCHANGED <<order, payload, holder, intents, taken, unsettled, given, invoices, lost>>
  BY DEF Prepares, At, money, r
<1>3. holder # w
  BY <1>2 DEF IInv, HolderCancels, Cancelling
<1>4. FreshRequest(r)
  BY <1>1 DEF FreshRequest
<1> QED BY <1>1, <1>2, <1>3, <1>4, QuietInv

\* Reading the order, in a status that a cancellation may end.
LEMMA CancelReadInv ==
  ASSUME IInv, NEW w \in Workers, NEW actor \in {"supplier", "customer"}, CancelRead(w, actor)
  PROVE  IInv'
<1> DEFINE r == Request("cancel", "none", NoPayload, RefundAmount(actor), {k \in Kinds : intents[k].state = "PAID"})
<1>1. r \in RequestType /\ r.pc = "cancel"
  <2>1. NoPayload \in PayloadType /\ RefundAmount(actor) \in 0..Total /\ "none" \in Ops \union {"none"}
    BY PayloadsTyped, PriceAssumption DEF NoPayload, RefundAmount
  <2>2. {k \in Kinds : intents[k].state = "PAID"} \in SUBSET Kinds
    OBVIOUS
  <2> QED BY <2>1, <2>2, NoIntentTyped DEF Request, RequestType, Kinds
<1>2. /\ worker[w].pc = "idle"
      /\ worker' = [worker EXCEPT ![w] = r]
      /\ UNCHANGED <<order, payload, holder, intents, taken, unsettled, given, invoices, lost>>
      /\ order.fulfil \notin Terminal
  BY DEF CancelRead, MayCancel, At, money
<1> HIDE DEF r
<1>3. holder # w
  BY <1>2 DEF IInv, HolderCancels, Cancelling
<1>4. FreshRequest(r)
  BY <1>1, <1>2 DEF FreshRequest
<1> QED BY <1>1, <1>2, <1>3, <1>4, QuietInv

\* A request that held nothing ends without writing.
LEMMA EndsInv ==
  ASSUME IInv, NEW w \in Workers, worker' = [worker EXCEPT ![w] = Idle], holder # w,
         UNCHANGED <<order, payload, holder, intents, taken, unsettled, given, invoices, lost>>
  PROVE  IInv'
<1>1. FreshRequest(Idle)
  BY IdleTyped DEF FreshRequest
<1> QED BY <1>1, IdleTyped, QuietInv

\* The decisions of the store, the customer and the payment's event.
LEMMA RequestsInv ==
  ASSUME IInv, NEW w \in Workers,
         \/ \E next \in Statuses : Fulfil(w, next)
         \/ Acknowledge(w) \/ Collect(w) \/ GiveUpDelivery(w) \/ Settle(w) \/ PayAtOnce(w)
         \/ \E type \in {"SELF", "STORE"} : ChangeDelivery(w, type)
         \/ ApproveDelivery(w) \/ RejectDelivery(w) \/ ReportIssue(w) \/ AutoConfirm(w)
  PROVE  IInv'
<1>0. payload \in PayloadType /\ order \in OrderType
  BY DEF IInv, TypeOK
<1>1. ASSUME NEW next \in Statuses, Fulfil(w, next) PROVE IInv'
  <2>1. Stands(next)
    BY <1>1, TerminalDoesNotMove DEF Fulfil, Stands, OrderAfter, Ops, Statuses, Linear
  <2> QED BY <2>1, <1>1, DecidesInv DEF Fulfil, Ops
<1>2. CASE Acknowledge(w)
  <2>1. Stands("acknowledge")
    BY DEF Stands, OrderAfter, Ops, Statuses, Linear
  <2> QED BY <2>1, <1>2, DecidesInv DEF Acknowledge, Ops
<1>3. CASE Collect(w)
  <2>1. Stands("collect")
    BY <1>3 DEF Collect, Stands, OrderAfter, Ops, Terminal
  <2> QED BY <2>1, <1>3, DecidesInv DEF Collect, Ops
<1>4. CASE GiveUpDelivery(w)
  <2>1. Stands("giveup")
    BY DEF Stands, OrderAfter, Ops, Statuses, Linear
  <2> QED BY <2>1, <1>4, DecidesInv DEF GiveUpDelivery, Ops
<1>5. CASE Settle(w) \/ PayAtOnce(w)
  <2>1. Stands("settle")
    BY DEF Stands, OrderAfter, Ops, Statuses, Linear
  <2> QED BY <2>1, <1>5, DecidesInv DEF Settle, PayAtOnce, Ops
<1>6. ASSUME NEW type \in {"SELF", "STORE"}, ChangeDelivery(w, type) PROVE IInv'
  <2>1. Stands(type)
    BY DEF Stands, OrderAfter, Ops, Statuses, Linear
  <2> QED BY <2>1, <1>6, DecidesInv DEF ChangeDelivery, Ops
<1>7. CASE ApproveDelivery(w)
  <2> DEFINE p == [payload EXCEPT !.fee = Fee, !.status = "Approved"]
  <2>1. p \in PayloadType
    BY <1>0, PriceAssumption DEF PayloadType, DeliveryStatuses
  <2>2. Prepares(w, p)
    BY <1>7 DEF ApproveDelivery
  <2> HIDE DEF p
  <2> QED BY <2>1, <2>2, PreparesInv
<1>8. CASE RejectDelivery(w)
  <2> DEFINE p == [payload EXCEPT !.fee = 0, !.status = "Rejected"]
  <2>1. p \in PayloadType
    BY <1>0 DEF PayloadType, DeliveryStatuses
  <2>2. Prepares(w, p)
    BY <1>8 DEF RejectDelivery
  <2> HIDE DEF p
  <2> QED BY <2>1, <2>2, PreparesInv
<1>9. CASE ReportIssue(w)
  <2> DEFINE p == [payload EXCEPT !.issue = TRUE]
  <2>1. p \in PayloadType
    BY <1>0 DEF PayloadType
  <2>2. Prepares(w, p)
    BY <1>9 DEF ReportIssue
  <2> HIDE DEF p
  <2> QED BY <2>1, <2>2, PreparesInv
<1>10. CASE AutoConfirm(w)
  <2> DEFINE p == [payload EXCEPT !.confirmed = TRUE]
  <2>1. p \in PayloadType
    BY <1>0 DEF PayloadType
  <2>2. Prepares(w, p)
    BY <1>10 DEF AutoConfirm
  <2> HIDE DEF p
  <2> QED BY <2>1, <2>2, PreparesInv
<1> QED BY <1>1, <1>2, <1>3, <1>4, <1>5, <1>6, <1>7, <1>8, <1>9, <1>10

----------------------------------------------------------------------------
(* Requests write *)

\* A request ends: the others stay where they are, and what their transactions have
\* read is out of date if it wrote.
LEMMA EndsTyped ==
  ASSUME worker \in [Workers -> RequestType], NEW w \in Workers, NEW wrote \in BOOLEAN, Ends(w, wrote)
  PROVE  /\ worker' \in [Workers -> RequestType]
         /\ worker'[w].pc = "idle"
         /\ \A v \in Workers \ {w} :
              /\ worker'[v].pc = worker[v].pc
              /\ worker[v].pc \notin {"commit", "cancel"} => worker'[v] = worker[v]
              /\ wrote /\ worker[v].pc \in {"commit", "cancel"} => worker'[v].stale
              /\ ~wrote => worker'[v] = worker[v]
<1>1. \A v \in Workers :
        worker'[v] = IF v = w THEN Idle ELSE IF wrote THEN Outdated(worker[v]) ELSE worker[v]
  BY DEF Ends
<1>2. \A v \in Workers : Outdated(worker[v]) \in RequestType
  BY OutdatedTyped
<1>3. worker' \in [Workers -> RequestType]
  <2>1. \A v \in Workers : worker'[v] \in RequestType
    BY <1>1, <1>2, IdleTyped
  <2> QED BY <2>1 DEF Ends
<1>4. ASSUME NEW v \in Workers \ {w}
      PROVE  /\ worker'[v].pc = worker[v].pc
             /\ worker[v].pc \notin {"commit", "cancel"} => worker'[v] = worker[v]
             /\ wrote /\ worker[v].pc \in {"commit", "cancel"} => worker'[v].stale
             /\ ~wrote => worker'[v] = worker[v]
  <2>1. worker[v] \in RequestType
    OBVIOUS
  <2> QED BY <1>1, <2>1, OutdatedTyped
<1> QED BY <1>1, <1>3, <1>4, IdleTyped

\* A request that writes the row while no cancellation holds it: its workers and intents.
LEMMA WritesInv ==
  ASSUME IInv, NEW w \in Workers, holder = None, Ends(w, TRUE), worker[w].pc \in {"commit", "overwrite"},
         order' \in OrderType, payload' \in PayloadType,
         order'.refund = order.refund, order'.amount = order.amount,
         order.fulfil \in Terminal => order'.fulfil = order.fulfil,
         UNCHANGED <<holder, intents, taken, unsettled, given, invoices, lost>>
  PROVE  IInv'
<1>1. worker \in [Workers -> RequestType] /\ TypeOK /\ HolderCancels
  BY DEF IInv, TypeOK
<1>2. /\ worker' \in [Workers -> RequestType]
      /\ worker'[w].pc = "idle"
      /\ \A v \in Workers \ {w} :
              /\ worker'[v].pc = worker[v].pc
              /\ worker[v].pc \notin {"commit", "cancel"} => worker'[v] = worker[v]
              /\ worker[v].pc \in {"commit", "cancel"} => worker'[v].stale
  BY <1>1, EndsTyped
<1>3. TypeOK'
  BY <1>1, <1>2 DEF TypeOK
<1>4. RefundInvoicedOnce'
  BY DEF IInv, RefundInvoicedOnce, Terminal
<1>5. FreshStands'
  <2>1. \A v \in Workers : ~worker'[v].stale => worker'[v].pc \notin {"commit", "cancel"}
    BY <1>2
  <2> QED BY <2>1 DEF FreshStands, FreshRequest
<1>6. HolderCancels'
  BY <1>1, <1>2, WorkersAssumption DEF HolderCancels
<1>7. IntentsRight'
  BY <1>2 DEF IInv, IntentsRight, CopyRight, IntentRight
<1>8. GivenCounted'
  <2>1. Pending' \subseteq Pending
    BY <1>2 DEF Pending
  <2>2. HasAsked => HasAsked'
    BY WorkersAssumption DEF HasAsked
  <2>3. taken' \in [Kinds -> Nat] /\ lost' \in Nat /\ \A k \in Kinds : taken[k] <= taken'[k]
    BY <1>1, BoundsAssumption DEF TypeOK
  <2>4. lost + Held <= lost' + Held'
    BY <1>1, <2>2, HeldKept
  <2> QED BY <2>1, <2>3, <2>4, <1>1, CountKept DEF IInv
<1> QED BY <1>3, <1>4, <1>5, <1>6, <1>7, <1>8 DEF IInv

\* The end of a transaction: it commits what it decided, or nothing.
LEMMA CommitInv ==
  ASSUME IInv, NEW w \in Workers, Commit(w)
  PROVE  IInv'
<1> DEFINE op == worker[w].op
<1>0. /\ UNCHANGED <<holder, intents, taken, unsettled, given, invoices, lost>> /\ holder = None
      /\ worker[w].pc = "commit" /\ holder # w
  BY WorkersAssumption DEF Commit, money, At
<1>1. CASE ~Commits(w)
  <2>1. UNCHANGED <<order, payload>>
    BY <1>1 DEF Commit
  <2>2. worker' = [worker EXCEPT ![w] = Idle]
    BY <1>1 DEF Commit, Ends, IInv, TypeOK
  <2> QED BY <2>1, <2>2, <1>0, EndsInv
<1>2. CASE Commits(w)
  <2>1. order' = OrderAfter(op) /\ payload' = PayloadAfter(op)
    BY <1>2 DEF Commit
  <2>2. Ends(w, TRUE)
    BY <1>2 DEF Commit
  <2>3. Stands(op)
    BY <1>0, <1>2 DEF IInv, FreshStands, FreshRequest, Commits
  <2>4. op \in Ops /\ order \in OrderType /\ payload \in PayloadType
    BY <2>3 DEF IInv, TypeOK, Stands
  <2> HIDE DEF op
  <2>5. /\ order' \in OrderType
        /\ order'.refund = order.refund
        /\ order'.amount = order.amount
        /\ order.fulfil \in Terminal => order'.fulfil = order.fulfil
    BY <2>1, <2>3, <2>4, OrderAfterTyped DEF Stands
  <2>6. payload' \in PayloadType
    BY <2>1, <2>4, PayloadAfterTyped
  <2> QED BY <2>1, <2>2, <2>5, <2>6, <1>0, WritesInv
<1> QED BY <1>1, <1>2

\* The end of a request without a transaction.
LEMMA OverwriteInv ==
  ASSUME IInv, NEW w \in Workers, Overwrite(w)
  PROVE  IInv'
<1>1. /\ payload' = worker[w].payload /\ worker[w].pc = "overwrite"
      /\ UNCHANGED <<order, holder, intents, taken, unsettled, given, invoices, lost>> /\ holder = None
      /\ Ends(w, TRUE)
  BY DEF Overwrite, money, At
<1>2. worker[w].payload \in PayloadType /\ order \in OrderType
  BY DEF IInv, TypeOK, RequestType
<1> QED BY <1>1, <1>2, WritesInv

----------------------------------------------------------------------------
(* Cancellations *)

\* A cancellation past its update goes on: the row is held, or not, as before.
LEMMA GoesOnInv ==
  ASSUME IInv, NEW w \in Workers, NEW r \in RequestType, worker' = [worker EXCEPT ![w] = r],
         r.pc \in Cancelling \union {"idle"},
         holder = w => r.pc \in Cancelling,
         r.pc = "invoice" => holder = w,
         intents' \in [Kinds -> IntentType], \A k \in Kinds : Sound(k, intents'[k]),
         given' \in [Kinds -> Nat],
         IntentsRight', GivenCounted',
         UNCHANGED <<order, payload, holder, taken, unsettled, invoices, lost>>
  PROVE  IInv'
<1>1. FreshRequest(r)
  BY DEF FreshRequest, Cancelling
<1>2. /\ holder' \in Workers \union {None} /\ lost' \in 0..MaxLost
      /\ holder' = w => r.pc \in Cancelling /\ order.fulfil \notin Terminal
  BY WorkersAssumption DEF IInv, TypeOK, HolderCancels
<1> QED BY <1>1, <1>2, MovesInv

\* While nothing is given back, the count stands.
LEMMA CountGoesOn ==
  ASSUME IInv, NEW w \in Workers, NEW r \in RequestType, worker' = [worker EXCEPT ![w] = r],
         r.pc \in {"read", "ask"} => holder = w \/ worker[w].pc \in {"read", "ask"},
         holder = w /\ worker[w].pc \in {"book", "note", "invoice"} => r.pc \in {"book", "note", "invoice"},
         UNCHANGED <<order, holder, taken, given, lost>>
  PROVE  GivenCounted'
<1>1. TypeOK /\ GivenCounted /\ worker \in [Workers -> RequestType]
  BY DEF IInv, TypeOK
<1>2. \A v \in Workers : worker'[v] = IF v = w THEN r ELSE worker[v]
  BY <1>1
<1>3. Pending' \subseteq Pending
  BY <1>2 DEF Pending
<1>4. HasAsked => HasAsked'
  BY <1>2 DEF HasAsked
<1>5. taken' \in [Kinds -> Nat] /\ lost' \in Nat /\ \A k \in Kinds : taken[k] <= taken'[k]
  BY <1>1, BoundsAssumption DEF TypeOK
<1>6. lost + Held <= lost' + Held'
  BY <1>1, <1>4, HeldKept
<1> QED BY <1>1, <1>3, <1>5, <1>6, CountKept

\* Where a handler comes back to its transaction.
Back(w) == IF holder = w THEN Request("invoice", "none", NoPayload, worker[w].amount, {}) ELSE Idle

LEMMA BackTyped ==
  ASSUME TypeOK, NEW w \in Workers
  PROVE  /\ Back(w) \in RequestType
         /\ Back(w).pc = IF holder = w THEN "invoice" ELSE "idle"
         /\ Returns(w) => worker' = [worker EXCEPT ![w] = Back(w)]
<1>1. worker[w].amount \in 0..Total /\ NoPayload \in PayloadType
  BY PayloadsTyped DEF TypeOK, RequestType, NoPayload
<1>2. /\ Request("invoice", "none", NoPayload, worker[w].amount, {}) \in RequestType
      /\ Request("invoice", "none", NoPayload, worker[w].amount, {}).pc = "invoice"
  BY <1>1, NoIntentTyped DEF Request, RequestType, Kinds
<1> QED BY <1>2, IdleTyped DEF Back, Returns

\* A cancellation in a later phase is of its type.
LEMMA PhaseTyped ==
  ASSUME TypeOK, NEW w \in Workers, NEW pc \in Cancelling
  PROVE  /\ [worker[w] EXCEPT !.pc = pc] \in RequestType
         /\ [worker[w] EXCEPT !.pc = pc].pc = pc
         /\ [worker[w] EXCEPT !.pc = pc].kind = worker[w].kind
         /\ [worker[w] EXCEPT !.pc = pc].row = worker[w].row
<1>1. worker[w] \in RequestType
  BY DEF TypeOK
<1> QED BY <1>1 DEF RequestType, Cancelling

\* markMaterialIntentRefunded changes states only.
LEMMA MarkedTyped ==
  ASSUME NEW is \in [Kinds -> IntentType], NEW partial \in BOOLEAN
  PROVE  /\ MarkedRefunded(is, partial) \in [Kinds -> IntentType]
         /\ \A k \in Kinds :
              /\ MarkedRefunded(is, partial)[k].amount = is[k].amount
              /\ MarkedRefunded(is, partial)[k].refunded = is[k].refunded
              /\ \/ MarkedRefunded(is, partial)[k].state = is[k].state
                 \/ /\ is[k].state = "PAID"
                    /\ MarkedRefunded(is, partial)[k].state \in {"PARTIALLY_REFUNDED", "REFUNDED"}
<1>1. ASSUME NEW k \in Kinds, NEW state \in {"PARTIALLY_REFUNDED", "REFUNDED"}
      PROVE  /\ [is[k] EXCEPT !.state = state] \in IntentType
             /\ [is[k] EXCEPT !.state = state].amount = is[k].amount
             /\ [is[k] EXCEPT !.state = state].refunded = is[k].refunded
             /\ [is[k] EXCEPT !.state = state].state = state
  <2>1. is[k] \in IntentType
    OBVIOUS
  <2> HIDE DEF IntentType
  <2> QED BY <2>1 DEF IntentType, States
<1> QED BY <1>1 DEF MarkedRefunded

\* So the intents stay right, and the copies of the requests.
LEMMA MarkedRight ==
  ASSUME IInv, NEW w \in Workers, NEW r \in RequestType, worker' = [worker EXCEPT ![w] = r],
         r.pc \notin {"ask", "book"}, NEW partial \in BOOLEAN, intents' = MarkedRefunded(intents, partial),
         UNCHANGED taken
  PROVE  /\ intents' \in [Kinds -> IntentType]
         /\ \A k \in Kinds : Sound(k, intents'[k])
         /\ IntentsRight'
<1>1. TypeOK /\ worker \in [Workers -> RequestType] /\ intents \in [Kinds -> IntentType] /\ IntentsRight
  BY DEF IInv, TypeOK
<1>2. \A v \in Workers : worker'[v] = IF v = w THEN r ELSE worker[v]
  BY <1>1
<1>3. /\ intents' \in [Kinds -> IntentType]
      /\ \A k \in Kinds : /\ intents'[k].amount = intents[k].amount
                          /\ intents'[k].refunded = intents[k].refunded
                          /\ \/ intents'[k].state = intents[k].state
                             \/ /\ intents[k].state = "PAID"
                                /\ intents'[k].state \in {"PARTIALLY_REFUNDED", "REFUNDED"}
  BY <1>1, MarkedTyped
<1>4. \A k \in Kinds : Sound(k, intents'[k])
  BY <1>1, <1>3 DEF TypeOK, Sound
<1>5. \A k \in Kinds : IntentRight(k, intents'[k], taken')
  BY <1>1, <1>3 DEF IntentsRight, IntentRight
<1>6. \A v \in Workers : worker'[v].pc \in {"ask", "book"} => worker'[v].kind \in Kinds
  BY <1>1, <1>2 DEF RequestType
<1>7. \A v \in Workers : CopyRight(worker'[v], intents', taken')
  BY <1>1, <1>2, <1>3, <1>6 DEF IntentsRight, CopyRight
<1> QED BY <1>3, <1>4, <1>5, <1>7 DEF IntentsRight

\* The update of the row, which is then held.
LEMMA CancelUpdateInv ==
  ASSUME IInv, NEW w \in Workers, CancelUpdate(w)
  PROVE  IInv'
<1>0. /\ TypeOK /\ GivenCounted /\ worker[w].pc = "cancel" /\ holder = None /\ holder # w
      /\ UNCHANGED <<order, payload, intents, taken, unsettled, given, invoices, lost>>
      /\ worker \in [Workers -> RequestType]
  BY WorkersAssumption DEF CancelUpdate, At, money, IInv, TypeOK
<1>1. CASE Commits(w)
  <2> DEFINE r == [worker[w] EXCEPT !.pc = "mark"]
  <2>1. r \in RequestType /\ r.pc = "mark"
    BY <1>0, PhaseTyped DEF Cancelling
  <2>2. holder' = w /\ worker' = [worker EXCEPT ![w] = r]
    BY <1>1 DEF CancelUpdate
  <2> HIDE DEF r
  <2>3. order.fulfil \notin Terminal
    BY <1>0, <1>1 DEF IInv, FreshStands, FreshRequest, Commits
  <2>4. \A v \in Workers : worker'[v] = IF v = w THEN r ELSE worker[v]
    BY <1>0, <2>2
  <2>5. IntentsRight'
    BY <1>0, <2>1, <2>2, CopiesKept DEF CopyRight
  <2>6. Pending' \subseteq Pending
    BY <1>0, <2>1, <2>2, <2>4, WorkersAssumption DEF Pending
  <2>7. HasAsked => HasAsked'
    BY <1>0, WorkersAssumption DEF HasAsked
  <2>8. GivenCounted'
    <3>1. taken' \in [Kinds -> Nat] /\ lost' \in Nat /\ \A k \in Kinds : taken[k] <= taken'[k]
      BY <1>0, BoundsAssumption DEF TypeOK
    <3>2. lost + Held <= lost' + Held'
      BY <1>0, <2>7, HeldKept
    <3> QED BY <1>0, <2>6, <3>1, <3>2, CountKept
  <2>9. FreshRequest(r)
    BY <2>1 DEF FreshRequest
  <2>10. /\ intents' \in [Kinds -> IntentType] /\ \A k \in Kinds : Sound(k, intents'[k])
         /\ given' \in [Kinds -> Nat] /\ lost' \in 0..MaxLost /\ holder' \in Workers \union {None}
    BY <1>0, <2>2 DEF TypeOK
  <2>11. \A v \in Workers \ {w} : holder' = v <=> holder = v
    BY <1>0, <2>2, WorkersAssumption
  <2> QED BY <1>0, <2>1, <2>2, <2>3, <2>5, <2>8, <2>9, <2>10, <2>11, MovesInv DEF Cancelling
<1>2. CASE ~Commits(w)
  <2>1. worker' = [worker EXCEPT ![w] = Idle] /\ holder' = holder
    BY <1>0, <1>2 DEF CancelUpdate, Ends
  <2> QED BY <1>0, <2>1, EndsInv
<1> QED BY <1>1, <1>2

\* The intents are marked, before and after the gateway is asked.
LEMMA CancelMarksInv ==
  ASSUME IInv, NEW w \in Workers, CancelMark(w) \/ RefundNote(w)
  PROVE  IInv'
<1>0. /\ TypeOK /\ worker \in [Workers -> RequestType]
      /\ UNCHANGED <<order, payload, holder, taken, unsettled, given, invoices, lost>>
      /\ given' \in [Kinds -> Nat]
  BY DEF CancelMark, RefundNote, IInv, TypeOK
<1>1. CASE CancelMark(w)
  <2> DEFINE r == IF holder = w THEN [worker[w] EXCEPT !.pc = "read"] ELSE Idle
             partial == worker[w].amount < Total
  <2>1. r \in RequestType /\ r.pc = IF holder = w THEN "read" ELSE "idle"
    BY <1>0, PhaseTyped, IdleTyped DEF Cancelling
  <2>2. worker' = [worker EXCEPT ![w] = r] /\ worker[w].pc = "mark"
    BY <1>1 DEF CancelMark, At
  <2>3. intents' = MarkedRefunded(intents, partial) /\ partial \in BOOLEAN
    BY <1>1 DEF CancelMark
  <2> HIDE DEF r, partial
  <2>4. r.pc \notin {"ask", "book"}
    BY <2>1
  <2>5. intents' \in [Kinds -> IntentType] /\ (\A k \in Kinds : Sound(k, intents'[k])) /\ IntentsRight'
    BY <1>0, <2>1, <2>2, <2>3, <2>4, MarkedRight
  <2>6. GivenCounted'
    BY <1>0, <2>1, <2>2, CountGoesOn
  <2> QED BY <1>0, <2>1, <2>2, <2>5, <2>6, GoesOnInv DEF Cancelling
<1>2. CASE RefundNote(w)
  <2>1. worker' = [worker EXCEPT ![w] = Back(w)] /\ intents' = MarkedRefunded(intents, TRUE)
    BY <1>0, <1>2, BackTyped DEF RefundNote
  <2>2. Back(w) \in RequestType /\ Back(w).pc = IF holder = w THEN "invoice" ELSE "idle"
    BY <1>0, BackTyped
  <2>3. Back(w).pc \notin {"ask", "book"} /\ TRUE \in BOOLEAN
    BY <2>2
  <2>4. intents' \in [Kinds -> IntentType] /\ (\A k \in Kinds : Sound(k, intents'[k])) /\ IntentsRight'
    BY <1>0, <2>1, <2>2, <2>3, MarkedRight
  <2>5. GivenCounted'
    BY <1>0, <2>1, <2>2, CountGoesOn
  <2> QED BY <1>0, <2>1, <2>2, <2>4, <2>5, GoesOnInv DEF Cancelling
<1> QED BY <1>1, <1>2

\* The row, and what is asked of it, of a cancellation that asks the gateway.
LEMMA AskedTyped ==
  ASSUME IInv, NEW w \in Workers, worker[w].pc \in {"ask", "book"}
  PROVE  /\ worker[w].kind \in Kinds
         /\ worker[w].row \in IntentType
         /\ worker[w].row.refunded \in Nat /\ worker[w].row.amount = Price(worker[w].kind)
         /\ Asked(w) \in Nat
         /\ worker[w].row.refunded + Asked(w) <= worker[w].row.amount
         /\ Asked(w) <= Price(worker[w].kind)
         /\ Price(worker[w].kind) <= taken[worker[w].kind]
         /\ intents[worker[w].kind].state # "ABSENT"
<1>1. /\ worker[w].kind \in Kinds /\ worker[w].row \in IntentType
      /\ worker[w].amount \in Nat
      /\ worker[w].row.refunded \in Nat
  <2>1. worker[w] \in RequestType
    BY DEF IInv, TypeOK
  <2>2. worker[w].kind \in Kinds /\ worker[w].row \in IntentType /\ worker[w].amount \in 0..Total
    BY <2>1 DEF RequestType
  <2> QED BY <2>2, PriceAssumption DEF IntentType
<1>2. /\ worker[w].row.amount = Price(worker[w].kind)
      /\ worker[w].row.refunded < worker[w].row.amount
      /\ intents[worker[w].kind].state # "ABSENT"
      /\ Price(worker[w].kind) <= taken[worker[w].kind]
  BY DEF IInv, IntentsRight, CopyRight
<1>3. Price(worker[w].kind) \in Nat
  BY <1>1, PriceTyped
<1>4. Remaining(worker[w].row) \in Nat /\ Remaining(worker[w].row) <= Price(worker[w].kind)
  BY <1>1, <1>2, <1>3 DEF Remaining
<1>5. Asked(w) \in Nat /\ Asked(w) <= Remaining(worker[w].row)
  BY <1>1, <1>4 DEF Asked, Least
<1>6. worker[w].row.refunded + Asked(w) <= worker[w].row.amount
  BY <1>1, <1>2, <1>3, <1>5 DEF Remaining
<1>7. Asked(w) <= Price(worker[w].kind)
  BY <1>3, <1>4, <1>5
<1> QED BY <1>1, <1>2, <1>5, <1>6, <1>7

\* Reading the intent.
LEMMA RefundReadInv ==
  ASSUME IInv, NEW w \in Workers, RefundRead(w)
  PROVE  IInv'
<1>0. /\ TypeOK /\ worker \in [Workers -> RequestType] /\ worker[w].pc = "read"
      /\ UNCHANGED <<order, payload, holder, intents, taken, unsettled, given, invoices, lost>>
      /\ intents' \in [Kinds -> IntentType] /\ (\A k \in Kinds : Sound(k, intents'[k]))
      /\ given' \in [Kinds -> Nat]
  BY DEF RefundRead, IInv, TypeOK, At, money
<1>1. ASSUME NEW k \in Kinds, Refundable(intents[k]),
             worker' = [worker EXCEPT ![w].pc = "ask", ![w].paid = {}, ![w].kind = k, ![w].row = intents[k]]
      PROVE  IInv'
  <2> DEFINE r == [[[[worker[w] EXCEPT !.pc = "ask"] EXCEPT !.paid = {}] EXCEPT !.kind = k] EXCEPT !.row = intents[k]]
  <2>1. r \in RequestType /\ r.pc = "ask" /\ r.kind = k /\ r.row = intents[k]
    <3>1. worker[w] \in RequestType /\ intents[k] \in IntentType /\ {} \in SUBSET Kinds
      BY <1>0 DEF TypeOK
    <3> HIDE DEF IntentType
    <3> QED BY <3>1 DEF RequestType
  <2>2. worker' = [worker EXCEPT ![w] = r]
    BY <1>1, <1>0
  <2> HIDE DEF r
  <2>3. CopyRight(r, intents, taken)
    <3>1. /\ intents[k].state \in {"PAID", "PARTIALLY_REFUNDED"} /\ intents[k].amount - intents[k].refunded > 0
          /\ intents[k].amount \in {0, Price(k)} /\ intents[k] \in IntentType
      BY <1>1, <1>0 DEF Refundable, Remaining, TypeOK, Sound
    <3>2. intents[k].amount = Price(k) /\ Price(k) <= taken[k]
      BY <3>1 DEF IInv, IntentsRight, IntentRight
    <3>3. intents[k].refunded \in Nat /\ Price(k) \in Nat
      BY <3>1, PriceTyped DEF IntentType
    <3>4. intents[k].refunded < intents[k].amount
      BY <3>1, <3>2, <3>3
    <3> QED BY <2>1, <3>1, <3>2, <3>4 DEF CopyRight
  <2>4. IntentsRight'
    BY <1>0, <2>1, <2>2, <2>3, CopiesKept
  <2>5. GivenCounted'
    BY <1>0, <2>1, <2>2, CountGoesOn
  <2> QED BY <1>0, <2>1, <2>2, <2>4, <2>5, GoesOnInv DEF Cancelling
<1>2. CASE Returns(w)
  <2>1. worker' = [worker EXCEPT ![w] = Back(w)] /\ Back(w) \in RequestType
        /\ Back(w).pc = IF holder = w THEN "invoice" ELSE "idle"
    BY <1>0, <1>2, BackTyped
  <2>2. IntentsRight'
    BY <1>0, <2>1, CopiesKept DEF CopyRight
  <2>3. GivenCounted'
    BY <1>0, <2>1, CountGoesOn
  <2> QED BY <1>0, <2>1, <2>2, <2>3, GoesOnInv DEF Cancelling
<1>3. worker[w].paid \subseteq Kinds
  BY <1>0 DEF RequestType
<1> QED BY <1>1, <1>2, <1>3 DEF RefundRead

\* Asking the gateway.
LEMMA RefundAskInv ==
  ASSUME IInv, NEW w \in Workers, RefundAsk(w)
  PROVE  IInv'
<1>0. /\ TypeOK /\ GivenCounted /\ worker \in [Workers -> RequestType] /\ worker[w].pc = "ask"
      /\ UNCHANGED <<order, payload, holder, intents, taken, unsettled, invoices, lost>>
      /\ intents' \in [Kinds -> IntentType] /\ (\A k \in Kinds : Sound(k, intents'[k]))
  BY DEF RefundAsk, IInv, TypeOK, At
<1>1. /\ Back(w) \in RequestType
      /\ Back(w).pc = IF holder = w THEN "invoice" ELSE "idle"
  BY <1>0, BackTyped
<1>2. ASSUME given' = [given EXCEPT ![worker[w].kind] = @ + Asked(w)],
             NEW r \in RequestType, worker' = [worker EXCEPT ![w] = r],
             r.pc \in {"book", "invoice", "idle"}, holder = w => r.pc \in {"book", "invoice"},
             r.pc = "invoice" => holder = w, CopyRight(r, intents, taken)
      PROVE  IInv'
  <2>1. \A v \in Workers : worker'[v] = IF v = w THEN r ELSE worker[v]
    BY <1>0, <1>2
  <2>2. IntentsRight'
    BY <1>0, <1>2, CopiesKept
  <2>3. HasAsked => HasAsked'
    BY <1>0, <2>1 DEF HasAsked
  <2>4. \/ w \in Pending /\ Pending' \subseteq Pending \ {w}
        \/ Pending' \subseteq Pending /\ ~HasAsked /\ HasAsked'
    <3>1. CASE holder # w
      <4>1. w \in Pending
        BY <3>1, <1>0 DEF Pending
      <4>2. Pending' \subseteq Pending \ {w}
        BY <1>0, <1>2, <2>1 DEF Pending
      <4> QED BY <4>1, <4>2
    <3>2. CASE holder = w
      <4>1. order.fulfil \notin Terminal
        BY <3>2, WorkersAssumption DEF IInv, HolderCancels
      <4>2. order.refund # "processed"
        BY <4>1 DEF IInv, RefundInvoicedOnce, Terminal
      <4>3. ~HasAsked
        BY <3>2, <4>2, <1>0 DEF HasAsked
      <4>4. HasAsked'
        BY <3>2, <1>0, <1>2, <2>1 DEF HasAsked
      <4>5. Pending' \subseteq Pending
        BY <1>0, <1>2, <2>1 DEF Pending
      <4> QED BY <4>3, <4>4, <4>5
    <3> QED BY <3>1, <3>2
  <2>5. /\ worker[w].kind \in Kinds /\ Asked(w) \in Nat /\ Asked(w) <= Price(worker[w].kind)
        /\ Price(worker[w].kind) <= taken[worker[w].kind]
    BY <1>0, AskedTyped
  <2>6. GivenCounted'
    BY <1>0, <1>2, <2>3, <2>4, <2>5, CountGiven
  <2>7. given' \in [Kinds -> Nat]
    BY <1>0, <1>2, <2>5 DEF TypeOK
  <2> QED BY <1>0, <1>2, <2>2, <2>6, <2>7, GoesOnInv DEF Cancelling
<1>3. CASE given' = [given EXCEPT ![worker[w].kind] = @ + Asked(w)] /\ Returns(w)
  <2>1. worker' = [worker EXCEPT ![w] = Back(w)]
    BY <1>0, <1>3, BackTyped
  <2>2. CopyRight(Back(w), intents, taken)
    BY <1>1 DEF CopyRight
  <2> QED BY <1>1, <1>2, <1>3, <2>1, <2>2
<1>4. CASE /\ given' = [given EXCEPT ![worker[w].kind] = @ + Asked(w)]
           /\ worker' = [worker EXCEPT ![w].pc = "book"]
  <2> DEFINE r == [worker[w] EXCEPT !.pc = "book"]
  <2>1. /\ r \in RequestType /\ r.pc = "book" /\ r.kind = worker[w].kind /\ r.row = worker[w].row
    BY <1>0, PhaseTyped DEF Cancelling
  <2>2. worker' = [worker EXCEPT ![w] = r]
    BY <1>4
  <2> HIDE DEF r
  <2>3. CopyRight(r, intents, taken)
    BY <1>0, <2>1 DEF IInv, IntentsRight, CopyRight
  <2> QED BY <1>2, <1>4, <2>1, <2>2, <2>3
<1>5. CASE Returns(w) /\ UNCHANGED given
  <2>1. worker' = [worker EXCEPT ![w] = Back(w)]
    BY <1>0, <1>5, BackTyped
  <2>2. IntentsRight'
    BY <1>0, <1>1, <2>1, CopiesKept DEF CopyRight
  <2>3. GivenCounted'
    BY <1>0, <1>1, <1>5, <2>1, CountGoesOn
  <2>4. given' \in [Kinds -> Nat]
    BY <1>0, <1>5 DEF TypeOK
  <2> QED BY <1>0, <1>1, <2>1, <2>2, <2>3, <2>4, GoesOnInv DEF Cancelling
<1> QED BY <1>3, <1>4, <1>5 DEF RefundAsk

\* Booking what the gateway gave back, over the intent.
LEMMA RefundBookInv ==
  ASSUME IInv, NEW w \in Workers, RefundBook(w)
  PROVE  IInv'
<1> DEFINE k == worker[w].kind
           refunded == worker[w].row.refunded + Asked(w)
           state == IF refunded >= worker[w].row.amount THEN "REFUNDED" ELSE "PARTIALLY_REFUNDED"
           r == Request("note", "none", NoPayload, worker[w].amount, {})
           i == [[intents[k] EXCEPT !.refunded = refunded] EXCEPT !.state = state]
<1>0. /\ TypeOK /\ worker \in [Workers -> RequestType] /\ worker[w].pc = "book"
      /\ intents \in [Kinds -> IntentType]
      /\ UNCHANGED <<order, payload, holder, taken, unsettled, given, invoices, lost>>
      /\ given' \in [Kinds -> Nat]
  BY DEF RefundBook, IInv, TypeOK, At
<1>1. /\ k \in Kinds /\ refunded \in Nat /\ refunded <= Price(k) /\ Price(k) <= taken[k]
      /\ intents[k].state # "ABSENT"
  BY <1>0, AskedTyped
<1>2. intents[k].amount = Price(k) /\ intents[k] \in IntentType
  BY <1>0, <1>1 DEF IInv, IntentsRight, IntentRight
<1>3. r \in RequestType /\ r.pc = "note"
  <2>1. worker[w].amount \in 0..Total /\ NoPayload \in PayloadType
    BY <1>0, PayloadsTyped DEF RequestType, NoPayload
  <2> QED BY <2>1, NoIntentTyped DEF Request, RequestType, Kinds
<1>4. worker' = [worker EXCEPT ![w] = r]
  BY DEF RefundBook
<1>5. intents' = [intents EXCEPT ![k] = i]
  BY <1>0, <1>1 DEF RefundBook
<1>6. state \in {"REFUNDED", "PARTIALLY_REFUNDED"}
  OBVIOUS
<1> HIDE DEF refunded, state, r
<1>7. /\ i \in IntentType /\ i.refunded = refunded /\ i.amount = Price(k)
      /\ i.state \in {"REFUNDED", "PARTIALLY_REFUNDED"}
  BY <1>1, <1>2, <1>6 DEF IntentType, States
<1> HIDE DEF i
<1>8. /\ intents' \in [Kinds -> IntentType]
      /\ \A j \in Kinds : intents'[j] = IF j = k THEN i ELSE intents[j]
      /\ \A v \in Workers : worker'[v] = IF v = w THEN r ELSE worker[v]
  BY <1>0, <1>1, <1>4, <1>5, <1>7
<1>9. \A j \in Kinds : Sound(j, intents'[j])
  BY <1>0, <1>1, <1>7, <1>8 DEF TypeOK, Sound
<1>10. \A j \in Kinds : IntentRight(j, intents'[j], taken')
  BY <1>0, <1>1, <1>7, <1>8 DEF IInv, IntentsRight, IntentRight
<1>11. \A v \in Workers : CopyRight(worker'[v], intents', taken')
  <2>1. \A v \in Workers : worker[v].kind \in Kinds
    BY <1>0 DEF RequestType
  <2> QED BY <2>1, <1>0, <1>3, <1>7, <1>8 DEF IInv, IntentsRight, CopyRight
<1>12. IntentsRight'
  BY <1>10, <1>11 DEF IntentsRight
<1>13. GivenCounted'
  BY <1>0, <1>3, <1>4, CountGoesOn
<1> QED BY <1>0, <1>3, <1>4, <1>8, <1>9, <1>12, <1>13, GoesOnInv DEF Cancelling

\* A transaction is lost: its handler ends, or goes on.
LEMMA LostInv ==
  ASSUME IInv, NEW w \in Workers, CancelTimesOut(w) \/ CancelStops(w)
  PROVE  IInv'
<1>00. lost \in 0..MaxLost /\ lost \in Nat
  BY BoundsAssumption DEF IInv, TypeOK
<1>01. UNCHANGED <<order, payload, intents, taken, unsettled, given, invoices>>
  BY DEF CancelTimesOut, CancelStops, money
<1>0. /\ TypeOK /\ GivenCounted /\ worker \in [Workers -> RequestType]
      /\ intents' \in [Kinds -> IntentType] /\ (\A k \in Kinds : Sound(k, intents'[k]))
      /\ given' \in [Kinds -> Nat]
  BY <1>01 DEF IInv, TypeOK
<1>1. CASE holder = w
  <2>0. holder' = None /\ lost' = lost + 1 /\ lost < MaxLost
    BY <1>1 DEF CancelTimesOut, CancelStops
  <2>1. holder' = None /\ lost' = lost + 1 /\ lost' \in 0..MaxLost
    BY <2>0, <1>00, BoundsAssumption
  <2>2. worker[w].pc \in Cancelling
    BY <1>1 DEF IInv, HolderCancels
  <2>3. PICK r \in {Idle, worker[w]} : /\ worker' = [worker EXCEPT ![w] = r]
                                       /\ worker[w].pc = "invoice" => r = Idle
    <3>1. CASE worker' = [worker EXCEPT ![w] = Idle]
      BY <3>1
    <3>2. CASE UNCHANGED worker /\ worker[w].pc # "invoice"
      <4>1. worker' = [worker EXCEPT ![w] = worker[w]]
        BY <3>2, <1>0, <1>00, <1>01
      <4> QED BY <3>2, <4>1
    <3>3. Ends(w, FALSE) => worker' = [worker EXCEPT ![w] = Idle]
      BY <1>0, <1>00, <1>01 DEF Ends
    <3> QED BY <3>1, <3>2, <3>3 DEF CancelTimesOut, CancelStops, At
  <2>4. r \in RequestType /\ r.pc # "invoice" /\ r.pc \in Cancelling \union {"idle"}
        /\ (r.pc = "idle" \/ r = worker[w])
    BY <1>0, <1>00, <1>01, <2>2, <2>3, IdleTyped
  <2>5. \A v \in Workers : worker'[v] = IF v = w THEN r ELSE worker[v]
    BY <1>0, <1>00, <1>01, <2>3
  <2>6. IntentsRight'
    <3>1. CopyRight(r, intents, taken)
      BY <2>4 DEF CopyRight, IInv, IntentsRight
    <3> QED BY <1>0, <1>00, <1>01, <2>3, <2>4, <3>1, CopiesKept
  <2>7. GivenCounted'
    <3>1. CASE worker[w].pc \in {"read", "ask"}
      <4>1. Pending' \subseteq Pending \union {w}
        BY <1>1, <2>1, <2>5 DEF Pending
      <4>2. HasAsked => HasAsked'
        BY <1>0, <1>00, <1>01, <1>1, <3>1 DEF HasAsked
      <4> QED BY <1>0, <1>00, <1>01, <2>1, <4>1, <4>2, CountLost
    <3>2. CASE worker[w].pc \notin {"read", "ask"}
      <4>1. Pending' \subseteq Pending
        BY <1>1, <2>1, <2>4, <2>5, <3>2 DEF Pending
      <4>2. taken' \in [Kinds -> Nat] /\ lost' \in Nat /\ \A k \in Kinds : taken[k] <= taken'[k]
        BY <1>0, <1>00, <1>01, <2>1 DEF TypeOK
      <4>3. lost + Held <= lost' + Held'
        BY <1>0, <1>00, <1>01, <2>1 DEF Held
      <4> QED BY <1>0, <1>00, <1>01, <4>1, <4>2, <4>3, CountKept
    <3> QED BY <3>1, <3>2
  <2>8. FreshRequest(r)
    BY <2>4 DEF FreshRequest, Cancelling
  <2>9. /\ holder' \in Workers \union {None}
        /\ \A v \in Workers \ {w} : holder' = v <=> holder = v
        /\ holder' # w
    BY <1>1, <2>1, WorkersAssumption
  <2> QED BY <1>0, <1>00, <1>01, <2>1, <2>3, <2>4, <2>6, <2>7, <2>8, <2>9, MovesInv
<1>2. CASE holder # w
  <2>1. CancelStops(w) /\ UNCHANGED <<holder, lost>> /\ worker' = [worker EXCEPT ![w] = Idle]
    BY <1>0, <1>00, <1>01, <1>2 DEF CancelTimesOut, CancelStops, Ends
  <2> QED BY <1>0, <1>00, <1>01, <1>2, <2>1, EndsInv
<1> QED BY <1>1, <1>2

\* The commit of a cancellation: the first, so the only invoice.
LEMMA CancelCommitInv ==
  ASSUME IInv, NEW w \in Workers, CancelCommit(w)
  PROVE  IInv'
<1> DEFINE a == worker[w].amount
<1>1. worker \in [Workers -> RequestType] /\ TypeOK /\ HolderCancels /\ IntentsRight /\ GivenCounted
  BY DEF IInv, TypeOK
<1>2. /\ order.fulfil \notin Terminal /\ holder = w
      /\ order' = Row("CANCELLED", IF a > 0 THEN "refunded" ELSE order.payment, "processed", a)
      /\ payload' = Patched(payload, "CANCELLED")
      /\ invoices' = IF a > 0 THEN Append(invoices, a) ELSE invoices
      /\ holder' = None /\ Ends(w, TRUE)
      /\ UNCHANGED <<intents, taken, unsettled, given, lost>>
  BY <1>1, WorkersAssumption DEF CancelCommit, At, HolderCancels
<1>3. a \in 0..Total
  BY <1>1 DEF RequestType
<1>4. invoices = << >>
  BY <1>2 DEF IInv, RefundInvoicedOnce, Terminal
<1> HIDE DEF a
<1>5. /\ worker' \in [Workers -> RequestType]
      /\ worker'[w].pc = "idle"
      /\ \A v \in Workers \ {w} :
              /\ worker'[v].pc = worker[v].pc
              /\ worker[v].pc \notin {"commit", "cancel"} => worker'[v] = worker[v]
              /\ worker[v].pc \in {"commit", "cancel"} => worker'[v].stale
  BY <1>1, <1>2, EndsTyped
<1>6. invoices' = (IF a > 0 THEN <<a>> ELSE << >>) /\ invoices' \in Seq(1..Total)
  <2>1. CASE a > 0
    <3>1. a \in 1..Total
      BY <2>1, <1>3
    <3>2. Append(invoices, a) = <<a>>
      BY <1>4, <3>1
    <3> QED BY <3>1, <3>2, <2>1, <1>2
  <2>2. CASE ~(a > 0)
    BY <2>2, <1>2, <1>4
  <2> QED BY <2>1, <2>2
<1>7. payload' \in PayloadType
  BY <1>1, <1>2, PatchedTyped DEF TypeOK, Statuses
<1>8. order' \in OrderType
  BY <1>1, <1>2, <1>3 DEF TypeOK, OrderType, Row, Statuses
<1>9. TypeOK'
  BY <1>1, <1>2, <1>5, <1>6, <1>7, <1>8 DEF TypeOK
<1>10. RefundInvoicedOnce'
  BY <1>2, <1>6 DEF RefundInvoicedOnce, Row
<1>11. FreshStands'
  <2>1. \A v \in Workers : ~worker'[v].stale => worker'[v].pc \notin {"commit", "cancel"}
    BY <1>5
  <2> QED BY <2>1 DEF FreshStands, FreshRequest
<1>12. HolderCancels'
  BY <1>1, <1>2, <1>5, WorkersAssumption DEF HolderCancels
<1>13. IntentsRight'
  BY <1>1, <1>2, <1>5 DEF IntentsRight, CopyRight, IntentRight
<1>14. GivenCounted'
  <2>1. Pending' \subseteq Pending
    BY <1>2, <1>5 DEF Pending
  <2>2. HasAsked'
    BY <1>2 DEF HasAsked, Row
  <2>3. taken' \in [Kinds -> Nat] /\ lost' \in Nat /\ \A k \in Kinds : taken[k] <= taken'[k]
    BY <1>1, <1>2, BoundsAssumption DEF TypeOK
  <2>4. lost + Held <= lost' + Held'
    BY <1>1, <1>2, <2>2, HeldKept
  <2> QED BY <1>1, <1>2, <2>1, <2>3, <2>4, CountKept
<1> QED BY <1>9, <1>10, <1>11, <1>12, <1>13, <1>14 DEF IInv

----------------------------------------------------------------------------
(* Payments *)

\* More is taken, and the requests have the copies they had.
LEMMA CopiesStay ==
  ASSUME IInv, taken' \in [Kinds -> Nat],
         \A k \in Kinds : taken[k] <= taken'[k],
         \A k \in Kinds : /\ IntentRight(k, intents'[k], taken')
                          /\ intents'[k].state = "ABSENT" => intents[k].state = "ABSENT",
         \A w \in Workers : /\ worker'[w].pc = worker[w].pc
                            /\ worker[w].pc \notin {"commit", "cancel"} => worker'[w] = worker[w]
  PROVE  IntentsRight'
<1>1. ASSUME NEW w \in Workers PROVE CopyRight(worker'[w], intents', taken')
  <2>1. CASE worker[w].pc \in {"ask", "book"}
    <3>1. worker'[w] = worker[w]
      BY <2>1
    <3>2. worker[w].kind \in Kinds
      BY DEF IInv, TypeOK, RequestType
    <3> DEFINE k == worker[w].kind
    <3>3. CopyRight(worker[w], intents, taken)
      BY DEF IInv, IntentsRight
    <3>4. Price(k) \in Nat /\ taken[k] \in Nat /\ taken'[k] \in Nat /\ taken[k] <= taken'[k]
      BY <3>2, PriceTyped DEF IInv, TypeOK
    <3>5. Price(k) <= taken'[k]
      BY <2>1, <3>3, <3>4 DEF CopyRight
    <3> QED BY <2>1, <3>1, <3>2, <3>3, <3>5 DEF CopyRight
  <2>2. CASE worker[w].pc \notin {"ask", "book"}
    BY <2>2 DEF CopyRight
  <2> QED BY <2>1, <2>2
<1> QED BY <1>1 DEF IntentsRight

\* The count of what was given back stands.
LEMMA CountStays ==
  ASSUME IInv, taken' \in [Kinds -> Nat], \A k \in Kinds : taken[k] <= taken'[k],
         order'.refund = order.refund, \A w \in Workers : worker'[w].pc = worker[w].pc,
         UNCHANGED <<holder, given, lost>>
  PROVE  GivenCounted'
<1>1. TypeOK /\ GivenCounted /\ lost' \in Nat
  BY BoundsAssumption DEF IInv, TypeOK
<1>2. Pending' \subseteq Pending
  BY DEF Pending
<1>3. HasAsked => HasAsked'
  BY DEF HasAsked
<1>4. lost + Held <= lost' + Held'
  BY <1>1, <1>3, HeldKept
<1> QED BY <1>1, <1>2, <1>4, CountKept

\* A step of the payments that leaves the row and the requests alone.
LEMMA PaymentStepInv ==
  ASSUME IInv, intents' \in [Kinds -> IntentType], taken' \in [Kinds -> Nat], unsettled' \in BOOLEAN,
         \A k \in Kinds : taken[k] <= taken'[k],
         \A k \in Kinds : /\ Sound(k, intents'[k]) /\ IntentRight(k, intents'[k], taken')
                          /\ intents'[k].state = "ABSENT" => intents[k].state = "ABSENT",
         UNCHANGED <<order, payload, holder, given, invoices, lost, worker>>
  PROVE  IInv'
<1>1. TypeOK'
  BY DEF IInv, TypeOK
<1>2. RefundInvoicedOnce' /\ HolderCancels'
  BY DEF IInv, RefundInvoicedOnce, HolderCancels
<1>3. FreshStands'
  BY DEF IInv, FreshStands, FreshRequest, Stands, OrderAfter
<1>4. IntentsRight'
  BY CopiesStay
<1>5. GivenCounted'
  BY CountStays
<1> QED BY <1>1, <1>2, <1>3, <1>4, <1>5 DEF IInv

\* An intent is created, or used again.
LEMMA AskInv ==
  ASSUME IInv, PayMaterials \/ PayDelivery
  PROVE  IInv'
<1>0. /\ TypeOK /\ intents \in [Kinds -> IntentType] /\ \A k \in Kinds : Sound(k, intents[k])
      /\ taken' \in [Kinds -> Nat] /\ unsettled' \in BOOLEAN /\ \A k \in Kinds : taken[k] <= taken'[k]
      /\ UNCHANGED <<order, payload, holder, taken, unsettled, given, invoices, lost, worker>>
  BY DEF IInv, TypeOK, PayMaterials, PayDelivery
<1>1. ASSUME NEW k \in Kinds, NEW refunded \in Nat, refunded <= Price(k),
             intents' = [intents EXCEPT ![k] = [state |-> "PENDING", amount |-> Price(k), refunded |-> refunded]]
      PROVE  IInv'
  <2> DEFINE i == [state |-> "PENDING", amount |-> Price(k), refunded |-> refunded]
  <2>1. i \in IntentType /\ i.state = "PENDING" /\ i.amount = Price(k) /\ i.refunded = refunded
    BY <1>1, PriceAssumption DEF IntentType, States, Price
  <2>2. intents' = [intents EXCEPT ![k] = i]
    BY <1>1
  <2> HIDE DEF i
  <2>3. intents' \in [Kinds -> IntentType] /\ \A j \in Kinds : intents'[j] = IF j = k THEN i ELSE intents[j]
    BY <1>0, <2>1, <2>2
  <2>4. \A j \in Kinds : IntentRight(j, intents'[j], taken')
    BY <1>0, <2>1, <2>3 DEF IInv, IntentsRight, IntentRight
  <2>5. \A j \in Kinds : Sound(j, intents'[j])
    BY <1>0, <1>1, <2>1, <2>3 DEF Sound
  <2>6. \A j \in Kinds : intents'[j].state = "ABSENT" => intents[j].state = "ABSENT"
    BY <2>1, <2>3
  <2> QED BY <1>0, <2>3, <2>4, <2>5, <2>6, PaymentStepInv
<1>2. CASE PayMaterials
  <2>1. "MATERIAL_ORDER" \in Kinds /\ Price("MATERIAL_ORDER") = Total /\ 0 \in Nat /\ 0 <= Total
    BY PriceAssumption DEF Kinds, Price
  <2>2. intents' = [intents EXCEPT !["MATERIAL_ORDER"] =
           [state |-> "PENDING", amount |-> Price("MATERIAL_ORDER"), refunded |-> 0]]
    BY <1>2, <2>1 DEF PayMaterials
  <2> QED BY <1>1, <2>1, <2>2
<1>3. CASE PayDelivery
  <2>1. "DELIVERY_FEE" \in Kinds /\ Price("DELIVERY_FEE") = Fee
    BY DEF Kinds, Price
  <2>2. payload.fee = Fee
    BY <1>0, <1>3 DEF PayDelivery, TypeOK, PayloadType
  <2>3. intents["DELIVERY_FEE"].refunded \in Nat /\ intents["DELIVERY_FEE"].refunded <= Fee
    <3>1. intents["DELIVERY_FEE"] \in IntentType
      BY <1>0, <2>1
    <3>2. /\ intents["DELIVERY_FEE"].amount \in {0, Fee}
          /\ intents["DELIVERY_FEE"].refunded <= intents["DELIVERY_FEE"].amount
      BY <1>0, <2>1 DEF Sound
    <3>3. intents["DELIVERY_FEE"].refunded \in Nat
      BY <3>1 DEF IntentType
    <3> QED BY <3>2, <3>3, PriceAssumption
  <2>4. intents' = [intents EXCEPT !["DELIVERY_FEE"] =
           [state |-> "PENDING", amount |-> Price("DELIVERY_FEE"), refunded |-> intents["DELIVERY_FEE"].refunded]]
    BY <1>3, <2>1, <2>2 DEF PayDelivery
  <2> QED BY <1>1, <2>1, <2>3, <2>4
<1> QED BY <1>2, <1>3

\* What a paid intent does to the intents.
LEMMA PaidRight ==
  ASSUME IInv, NEW kind \in Kinds, Paid(kind)
  PROVE  /\ intents' \in [Kinds -> IntentType]
         /\ taken' \in [Kinds -> Nat]
         /\ \A k \in Kinds : taken[k] <= taken'[k]
         /\ \A k \in Kinds : /\ Sound(k, intents'[k]) /\ IntentRight(k, intents'[k], taken')
                             /\ intents'[k].state = "ABSENT" => intents[k].state = "ABSENT"
<1> DEFINE i == [intents[kind] EXCEPT !.state = "PAID"]
           total == taken[kind] + intents[kind].amount
<1>0. /\ intents \in [Kinds -> IntentType] /\ taken \in [Kinds -> Nat]
      /\ \A k \in Kinds : Sound(k, intents[k]) /\ IntentRight(k, intents[k], taken)
  BY DEF IInv, TypeOK, IntentsRight
<1>1. /\ intents[kind] \in IntentType /\ intents[kind].state = "PENDING" /\ intents[kind].amount \in Nat
      /\ intents[kind].amount = Price(kind)
  BY <1>0, PriceAssumption DEF Paid, IntentType, IntentRight
<1>2. i \in IntentType /\ i.state = "PAID" /\ i.amount = intents[kind].amount /\ i.refunded = intents[kind].refunded
  BY <1>1 DEF IntentType, States
<1>3. intents' = [intents EXCEPT ![kind] = i] /\ taken' = [taken EXCEPT ![kind] = total]
  BY DEF Paid
<1>4. total \in Nat /\ total >= taken[kind] /\ total >= Price(kind)
  BY <1>0, <1>1
<1> HIDE DEF i, total
<1>5. /\ intents' \in [Kinds -> IntentType] /\ \A k \in Kinds : intents'[k] = IF k = kind THEN i ELSE intents[k]
      /\ taken' \in [Kinds -> Nat] /\ \A k \in Kinds : taken'[k] = IF k = kind THEN total ELSE taken[k]
  BY <1>0, <1>2, <1>3, <1>4
<1>6. \A k \in Kinds : taken[k] <= taken'[k]
  BY <1>0, <1>4, <1>5
<1>7. \A k \in Kinds : Sound(k, intents'[k])
  BY <1>0, <1>2, <1>5 DEF Sound
<1>8. \A k \in Kinds : IntentRight(k, intents'[k], taken')
  BY <1>0, <1>1, <1>2, <1>4, <1>5 DEF IntentRight
<1>9. \A k \in Kinds : intents'[k].state = "ABSENT" => intents[k].state = "ABSENT"
  BY <1>2, <1>5
<1> QED BY <1>5, <1>6, <1>7, <1>8, <1>9

\* The events of the payments, and their end.
LEMMA PaymentInv ==
  ASSUME IInv, Payment
  PROVE  IInv'
<1>0. TypeOK /\ "MATERIAL_ORDER" \in Kinds /\ "DELIVERY_FEE" \in Kinds
  BY DEF IInv, Kinds
<1>1. CASE DeliveryPaid
  <2>1. Paid("DELIVERY_FEE") /\ unsettled' = TRUE /\ UNCHANGED <<order, payload, holder, given, invoices, lost, worker>>
    BY <1>1 DEF DeliveryPaid
  <2> QED BY <2>1, <1>0, PaidRight, PaymentStepInv
<1>2. CASE Settled
  <2>1. unsettled' = FALSE /\ UNCHANGED <<order, payload, holder, intents, taken, given, invoices, lost, worker>>
    BY <1>2 DEF Settled
  <2>2. /\ intents' \in [Kinds -> IntentType] /\ taken' \in [Kinds -> Nat]
        /\ \A k \in Kinds : taken[k] <= taken'[k]
        /\ \A k \in Kinds : /\ Sound(k, intents'[k]) /\ IntentRight(k, intents'[k], taken')
                            /\ intents'[k].state = "ABSENT" => intents[k].state = "ABSENT"
    BY <2>1, <1>0 DEF TypeOK, IInv, IntentsRight
  <2> QED BY <2>1, <2>2, PaymentStepInv
<1>3. CASE MaterialsPaid
  <2>1. Paid("MATERIAL_ORDER") /\ holder = None /\ UNCHANGED <<holder, unsettled, given, invoices, lost>>
    BY <1>3 DEF MaterialsPaid
  <2>2. /\ intents' \in [Kinds -> IntentType] /\ taken' \in [Kinds -> Nat]
        /\ \A k \in Kinds : taken[k] <= taken'[k]
        /\ \A k \in Kinds : /\ Sound(k, intents'[k]) /\ IntentRight(k, intents'[k], taken')
                            /\ intents'[k].state = "ABSENT" => intents[k].state = "ABSENT"
    BY <2>1, <1>0, PaidRight
  <2>3. CASE order.payment = "paid"
    <3>1. UNCHANGED <<order, payload, worker>> /\ unsettled' \in BOOLEAN
      BY <1>0, <1>3, <2>1, <2>3 DEF MaterialsPaid, TypeOK
    <3> QED BY <2>1, <2>2, <3>1, PaymentStepInv
  <2>4. CASE order.payment # "paid"
    <3>0. worker \in [Workers -> RequestType] /\ HolderCancels
      BY <1>0 DEF TypeOK, IInv
    <3>1. /\ order' = [order EXCEPT !.payment = "paid"]
          /\ payload' = [payload EXCEPT !.paid = FALSE]
          /\ worker' = [w \in Workers |-> Outdated(worker[w])]
      BY <1>3, <2>4 DEF MaterialsPaid
    <3>2. /\ order' \in OrderType /\ order'.refund = order.refund /\ order'.amount = order.amount
          /\ order'.fulfil = order.fulfil
      BY <3>1, <1>0 DEF TypeOK, OrderType
    <3>3. payload' \in PayloadType
      BY <3>1, <1>0 DEF TypeOK, PayloadType
    <3>4. ASSUME NEW w \in Workers
          PROVE  /\ worker'[w] \in RequestType
                 /\ worker'[w].pc = worker[w].pc
                 /\ worker[w].pc \notin {"commit", "cancel"} => worker'[w] = worker[w]
                 /\ worker[w].pc \in {"commit", "cancel"} => worker'[w].stale
      <4>1. worker[w] \in RequestType /\ worker'[w] = Outdated(worker[w])
        BY <3>0, <3>1
      <4> QED BY <4>1, OutdatedTyped
    <3>5. worker' \in [Workers -> RequestType]
      BY <3>1, <3>4
    <3>6. \A k \in Kinds : Sound(k, intents'[k])
      BY <2>2
    <3>7. TypeOK'
      BY <1>0, <2>1, <2>2, <3>2, <3>3, <3>5, <3>6 DEF TypeOK
    <3>8. RefundInvoicedOnce'
      BY <2>1, <3>2 DEF IInv, RefundInvoicedOnce
    <3>9. FreshStands'
      <4>1. \A w \in Workers : ~worker'[w].stale => worker'[w].pc \notin {"commit", "cancel"}
        BY <3>4
      <4> QED BY <4>1 DEF FreshStands, FreshRequest
    <3>10. HolderCancels'
      BY <2>1, <3>0, <3>2, <3>4 DEF HolderCancels
    <3>11. IntentsRight'
      BY <2>2, <3>4, CopiesStay
    <3>12. GivenCounted'
      BY <2>1, <2>2, <3>2, <3>4, CountStays
    <3> QED BY <3>7, <3>8, <3>9, <3>10, <3>11, <3>12 DEF IInv
  <2> QED BY <2>3, <2>4
<1> QED BY <1>1, <1>2, <1>3, AskInv DEF Payment

----------------------------------------------------------------------------
(* The invariant, and what it shows *)

\* A new order satisfies the invariant.
LEMMA InitInv == Init => IInv
<1> SUFFICES ASSUME Init PROVE IInv
  OBVIOUS
<1>1. \A w \in Workers : worker[w] = Idle
  BY DEF Init
<1>2. TypeOK
  <2>1. intents \in [Kinds -> IntentType] /\ \A k \in Kinds : Sound(k, intents[k])
    BY NoIntentTyped DEF Init, NoIntent, Sound
  <2>2. worker \in [Workers -> RequestType]
    BY IdleTyped DEF Init
  <2>3. order \in OrderType
    BY PriceAssumption DEF Init, Row, OrderType, Statuses, Linear
  <2>4. payload \in PayloadType
    BY PayloadsTyped DEF Init
  <2>5. /\ given \in [Kinds -> Nat] /\ taken \in [Kinds -> Nat]
        /\ holder \in Workers \union {None} /\ unsettled \in BOOLEAN
    BY DEF Init
  <2>6. invoices \in Seq(1..Total) /\ lost \in 0..MaxLost
    BY BoundsAssumption DEF Init
  <2> QED BY <2>1, <2>2, <2>3, <2>4, <2>5, <2>6 DEF TypeOK
<1>3. RefundInvoicedOnce
  BY DEF Init, Row, RefundInvoicedOnce
<1>4. FreshStands
  BY <1>1, IdleTyped DEF FreshStands, FreshRequest
<1>5. HolderCancels
  BY <1>1, IdleTyped, WorkersAssumption DEF Init, HolderCancels
<1>6. IntentsRight
  BY <1>1, IdleTyped DEF Init, NoIntent, IntentsRight, IntentRight, CopyRight
<1>7. GivenCounted
  <2>1. Pending = {}
    BY <1>1, IdleTyped DEF Pending
  <2>2. IsFiniteSet(Pending) /\ Cardinality(Pending) = 0
    BY <2>1, FS_EmptySet
  <2>3. 0 + Cardinality(Pending) <= lost + Held
    BY <2>2 DEF Init, Held
  <2>4. \A k \in Kinds : given[k] <= 0 * Price(k) /\ ~(given[k] > 0)
    BY PriceTyped DEF Init
  <2> QED BY <2>2, <2>3, <2>4 DEF GivenCounted
<1> QED BY <1>2, <1>3, <1>4, <1>5, <1>6, <1>7 DEF IInv

\* Every step keeps it.
LEMMA NextInv == IInv /\ [Next]_vars => IInv'
<1> SUFFICES ASSUME IInv, [Next]_vars PROVE IInv'
  OBVIOUS
<1>1. CASE Payment
  BY <1>1, PaymentInv
<1>2. ASSUME NEW w \in Workers, Store(w) \/ Customer(w) \/ AutoConfirm(w) \/ Settle(w) PROVE IInv'
  BY <1>2, RequestsInv DEF Store, Customer
<1>3. ASSUME NEW w \in Workers, Cancels(w) PROVE IInv'
  BY <1>3, CancelReadInv, CancelUpdateInv, CancelMarksInv, CancelCommitInv, LostInv DEF Cancels
<1>4. ASSUME NEW w \in Workers, Commit(w) \/ Overwrite(w) PROVE IInv'
  BY <1>4, CommitInv, OverwriteInv
<1>6. ASSUME NEW w \in Workers, Refunds(w) PROVE IInv'
  BY <1>6, RefundReadInv, RefundAskInv, RefundBookInv, CancelMarksInv DEF Refunds
<1>5. CASE UNCHANGED vars
  BY <1>5 DEF vars, IInv, TypeOK, RefundInvoicedOnce, FreshStands, FreshRequest, Stands, OrderAfter,
              Dispatchable, HolderCancels, IntentsRight, GivenCounted, Pending, HasAsked, Held
<1> QED BY <1>1, <1>2, <1>3, <1>4, <1>5, <1>6 DEF Next

\* In every reachable state a transaction that would commit decided on the row as it is,
\* only a cancellation that has the row comes to its commit, and every cancellation that
\* asked the gateway, or whose handler may still ask, has the row, committed, or was lost.
THEOREM Invariant == Spec => []IInv
BY InitInv, NextInv, PTL DEF Spec

\* Every variable stays in its set, and no intent is refunded above its amount.
THEOREM TypeCorrect == Spec => []TypeOK
<1>1. IInv => TypeOK
  BY DEF IInv
<1> QED BY <1>1, Invariant, PTL

\* A cancelled order has its one refund invoice, whatever overlaps and rolls back.
THEOREM InvoicedOnce == Spec => []RefundInvoicedOnce
<1>1. IInv => RefundInvoicedOnce
  BY DEF IInv
<1> QED BY <1>1, Invariant, PTL

\* The gateway gives back what was paid once, and once more at most for each
\* cancellation whose transaction was lost, however late its handler asks or books.
THEOREM GivenBack == Spec => []GivenBackOncePerLoss
<1>1. ASSUME IInv, NEW k \in Kinds PROVE given[k] <= taken[k] + lost * Price(k)
  <2> DEFINE p == Price(k)
  <2>0. given[k] \in Nat /\ taken[k] \in Nat /\ lost \in Nat /\ p \in Nat
    BY <1>1, PriceTyped, BoundsAssumption DEF IInv, TypeOK
  <2>1. PICK n \in Nat : n + Cardinality(Pending) <= lost + Held /\ given[k] <= n * p
    BY <1>1 DEF IInv, GivenCounted
  <2>2. n <= lost + 1
    <3>1. Cardinality(Pending) \in Nat /\ Held \in Nat /\ Held <= 1
      BY <1>1, FS_CardinalityType DEF IInv, GivenCounted, Held
    <3> QED BY <3>1, <2>0, <2>1
  <2>3. given[k] > 0 => p <= taken[k]
    BY <1>1 DEF IInv, GivenCounted
  <2> HIDE DEF p
  <2>4. lost + 1 \in Nat /\ n * p \in Nat /\ lost * p \in Nat /\ (lost + 1) * p = lost * p + p
    BY <2>0
  <2>5. n * p <= (lost + 1) * p
    BY <2>0, <2>2, <2>4, TimesMonotone
  <2>6. n * p <= lost * p + p
    BY <2>4, <2>5
  <2>7. given[k] <= taken[k] + lost * p
    BY <2>0, <2>1, <2>3, <2>4, <2>6, WithinTaken, Zenon
  <2> QED BY <2>7 DEF p
<1>2. IInv => GivenBackOncePerLoss
  BY <1>1 DEF GivenBackOncePerLoss
<1> QED BY <1>2, Invariant, PTL

----------------------------------------------------------------------------
(* What a step may never do *)

\* Only a commit, a cancellation's or a transaction's, changes the status of the order.
LEMMA FulfilChanges ==
  ASSUME IInv, [Next]_vars, order'.fulfil # order.fulfil
  PROVE  \E w \in Workers :
           \/ CancelCommit(w)
           \/ Commit(w) /\ Commits(w) /\ order' = OrderAfter(worker[w].op) /\ Stands(worker[w].op)
<1>0. order \in OrderType
  BY DEF IInv, TypeOK
<1>1. CASE Payment
  <2>1. order' = order \/ order' = [order EXCEPT !.payment = "paid"]
    BY <1>1 DEF Payment, PayMaterials, PayDelivery, MaterialsPaid, DeliveryPaid, Settled
  <2> QED BY <2>1, <1>0 DEF OrderType
<1>2. ASSUME NEW w \in Workers, Store(w) \/ Customer(w) \/ AutoConfirm(w) \/ Settle(w)
      PROVE  FALSE
  BY <1>2 DEF Store, Customer, Fulfil, Acknowledge, Collect, GiveUpDelivery, ChangeDelivery, ApproveDelivery,
              RejectDelivery, ReportIssue, AutoConfirm, Settle, PayAtOnce, Decides, Prepares
<1>3. ASSUME NEW w \in Workers, Cancels(w) \/ Refunds(w) \/ Overwrite(w)
      PROVE  CancelCommit(w)
  BY <1>3 DEF Cancels, CancelRead, CancelUpdate, CancelMark, CancelTimesOut, CancelStops, Refunds,
              RefundRead, RefundAsk, RefundBook, RefundNote, Overwrite
<1>4. ASSUME NEW w \in Workers, Commit(w)
      PROVE  Commit(w) /\ Commits(w) /\ order' = OrderAfter(worker[w].op) /\ Stands(worker[w].op)
  <2>1. Commits(w)
    BY <1>4 DEF Commit
  <2> QED BY <1>4, <2>1 DEF Commit, Commits, IInv, FreshStands, FreshRequest, At
<1>5. CASE UNCHANGED vars
  BY <1>5 DEF vars
<1> QED BY <1>1, <1>2, <1>3, <1>4, <1>5 DEF Next

\* A terminal order stays as it is: a stale request, or one that waits for a
\* cancellation, does not take it out of its status.
THEOREM TerminalStaysSo == Spec => TerminalStays
<1>1. IInv /\ [Next]_vars => [order.fulfil \in Terminal => order'.fulfil = order.fulfil]_order
  <2> SUFFICES ASSUME IInv, [Next]_vars, order.fulfil \in Terminal, order'.fulfil # order.fulfil PROVE FALSE
    OBVIOUS
  <2>1. PICK w \in Workers :
           \/ CancelCommit(w)
           \/ Commit(w) /\ Commits(w) /\ order' = OrderAfter(worker[w].op) /\ Stands(worker[w].op)
    BY FulfilChanges
  <2>2. CASE CancelCommit(w)
    BY <2>2, WorkersAssumption DEF IInv, HolderCancels, CancelCommit, At
  <2>3. CASE order' = OrderAfter(worker[w].op) /\ Stands(worker[w].op)
    BY <2>3 DEF Stands
  <2> QED BY <2>1, <2>2, <2>3
<1> QED BY <1>1, Invariant, PTL DEF Spec, TerminalStays

\* The store's delivery leaves only while its fee is marked paid in the order that leaves,
\* whatever writes the delivery between the decision and the commit.
THEOREM LeavesPaid == Spec => LeavesMarkedPaid
<1>1. IInv /\ [Next]_vars =>
        [order.fulfil # "OUT_FOR_DELIVERY" /\ order'.fulfil = "OUT_FOR_DELIVERY"
           /\ payload.type = "STORE" /\ payload.fee > 0
         => payload.paid]_order
  <2> SUFFICES ASSUME IInv, [Next]_vars, order.fulfil # "OUT_FOR_DELIVERY", order'.fulfil = "OUT_FOR_DELIVERY",
                      payload.type = "STORE", payload.fee > 0
               PROVE  payload.paid
    OBVIOUS
  <2>1. PICK w \in Workers :
           \/ CancelCommit(w)
           \/ Commit(w) /\ Commits(w) /\ order' = OrderAfter(worker[w].op) /\ Stands(worker[w].op)
    BY FulfilChanges
  <2>2. CASE CancelCommit(w)
    BY <2>2 DEF CancelCommit, Row
  <2>3. CASE order' = OrderAfter(worker[w].op) /\ Stands(worker[w].op)
    <3>1. worker[w].op \in Ops /\ order \in OrderType
      BY <2>3 DEF Stands, IInv, TypeOK
    <3>2. worker[w].op = "OUT_FOR_DELIVERY"
      BY <3>1, <2>3, OrderAfterTyped
    <3> QED BY <3>2, <2>3 DEF Stands, Dispatchable
  <2> QED BY <2>1, <2>2, <2>3
<1> QED BY <1>1, Invariant, PTL DEF Spec, LeavesMarkedPaid
=============================================================================
