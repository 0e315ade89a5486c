------------------------ MODULE GatewayRefunds_proofs ------------------------
(***************************************************************************)
(* Whatever the workers' interleaving, their stale rows, the gateway's      *)
(* answers and the crashes: no intent is refunded beyond its ceiling,       *)
(* nothing is finalized that the gateway did not pay, and no intent waits   *)
(* for a refund it has counted.                                             *)
(*                                                                          *)
(* A worker writes back the row it read, so the invariant must hold of the  *)
(* rows in the workers' hands as well (RecOK), and for that what it says of *)
(* the gateway must survive every step of the gateway (Grows).              *)
(***************************************************************************)
EXTENDS GatewayRefunds, SequenceTheorems, TLAPS

Paid(g, r) == r \in DOMAIN g /\ g[r].status = "processed"

RowOK(g, i, row) ==
  /\ row.refunded <= Ceiling[i]
  /\ \A r \in row.finalized : Paid(g, r) /\ g[r].intent = i
  /\ row.pending.ref # None => row.pending.ref \notin row.finalized

RecOK(g, rec) ==
  /\ rec.pc \in {"ask", "save", "verify", "money", "fail", "note"} =>
       rec.at \in Intents /\ RowOK(g, rec.at, rec.row)
  /\ rec.pc \in {"save", "verify", "money", "artifacts", "book", "fail", "note"} =>
       rec.ref \in DOMAIN g /\ g[rec.ref].intent = rec.at
  /\ rec.pc = "save" /\ rec.answer = "processed" => Paid(g, rec.ref)
  /\ rec.pc \in {"money", "artifacts", "book"} => Paid(g, rec.ref)
  /\ rec.pc = "save" => rec.ref \notin rec.row.finalized
  /\ \A r \in rec.refs : Paid(g, r)

IInv ==
  /\ TypeOK
  /\ \A i \in Intents : RowOK(gateway, i, intents[i])
  /\ \A r \in refund.finalized : Paid(gateway, r)
  /\ \A w \in Workers : RecOK(gateway, worker[w])

\* What every step of the gateway leaves true of it.
Grows(g, h) ==
  /\ DOMAIN g \subseteq DOMAIN h
  /\ \A r \in DOMAIN g : /\ h[r].intent = g[r].intent
                         /\ g[r].status = "processed" => h[r].status = "processed"

----------------------------------------------------------------------------
(* The operators on rows. *)

\* What applyIntentRefundMoney adds is at most what is left of the intent.
LEMMA AppliedFits ==
  ASSUME NEW i \in Intents, NEW row \in Rows, NEW ref \in Refs, NEW amount \in Nat,
         NEW key \in Keys
  PROVE  /\ Remaining(i, row) \in Nat
         /\ Applied(i, row, ref, amount, key) \in Nat
         /\ Applied(i, row, ref, amount, key) <= Remaining(i, row)
         /\ row.refunded <= Ceiling[i] =>
              row.refunded + Applied(i, row, ref, amount, key) <= Ceiling[i]
  BY CeilingAssumption DEF Rows, Remaining, Applied, Min2

\* The row it writes is a row.
LEMMA RowWithMoneyIsRow ==
  ASSUME NEW i \in Intents, NEW row \in Rows, NEW ref \in Refs, NEW amount \in Nat,
         NEW key \in Keys
  PROVE  RowWithMoney(i, row, ref, amount, key) \in Rows
<1> DEFINE sum == Applied(i, row, ref, amount, key)
<1>1. sum \in Nat
  BY AppliedFits
<1>2. NoSlice \in Slices
  BY BoundsAssumption DEF NoSlice, Slices, NoKey, Keys, Tasks, None, Refs
<1>3. [ref |-> ref, amount |-> sum, key |-> key] \in Slices
  BY <1>1 DEF Slices
<1> DEFINE refunded == row.refunded + sum
           pending == IF row.pending.ref \in {None, ref} THEN NoSlice ELSE row.pending
           finalized == row.finalized \union {ref}
           last == [ref |-> ref, amount |-> sum, key |-> key]
<1>4. refunded \in Nat /\ pending \in Slices /\ finalized \subseteq Refs /\ last \in Slices
  BY <1>1, <1>2, <1>3 DEF Rows
<1>5. RowWithMoney(i, row, ref, amount, key) =
        [row EXCEPT !.refunded = refunded, !.pending = pending, !.finalized = finalized,
                    !.last = last]
  BY DEF RowWithMoney
<1> HIDE DEF refunded, pending, finalized, last
<1> QED
  BY <1>4, <1>5 DEF Rows

\* It stays within the ceiling, and finalizes nothing but what was paid.
LEMMA RowWithMoneyIsOK ==
  ASSUME NEW g, NEW i \in Intents, NEW row \in Rows, NEW ref \in Refs, NEW amount \in Nat,
         NEW key \in Keys, RowOK(g, i, row), Paid(g, ref), g[ref].intent = i
  PROVE  RowOK(g, i, RowWithMoney(i, row, ref, amount, key))
<1> DEFINE sum == Applied(i, row, ref, amount, key)
<1>1. sum \in Nat /\ row.refunded + sum <= Ceiling[i]
  BY AppliedFits DEF RowOK
<1> HIDE DEF sum
<1>2. /\ RowWithMoney(i, row, ref, amount, key).refunded = row.refunded + sum
      /\ RowWithMoney(i, row, ref, amount, key).finalized = row.finalized \union {ref}
      /\ \/ RowWithMoney(i, row, ref, amount, key).pending = NoSlice
         \/ /\ RowWithMoney(i, row, ref, amount, key).pending = row.pending
            /\ row.pending.ref # ref
  BY DEF RowWithMoney, Rows, sum
<1>3. NoSlice.ref = None
  BY DEF NoSlice
<1> QED
  BY <1>1, <1>2, <1>3 DEF RowOK

LEMMA RowGrows ==
  ASSUME NEW g, NEW h, Grows(g, h), NEW i, NEW row, RowOK(g, i, row)
  PROVE  RowOK(h, i, row)
  BY DEF Grows, RowOK, Paid

LEMMA RecGrows ==
  ASSUME NEW g, NEW h, Grows(g, h), NEW rec, RecOK(g, rec)
  PROVE  RecOK(h, rec)
  BY RowGrows DEF Grows, RecOK, Paid

LEMMA IdleIsOK ==
  ASSUME NEW g
  PROVE  Idle \in Works /\ RecOK(g, Idle) /\ NewRow \in Rows
<1>1. NoSlice \in Slices
  BY BoundsAssumption DEF NoSlice, Slices, NoKey, Keys, Tasks, None, Refs
<1>2. NewRow \in Rows
  BY <1>1, BoundsAssumption DEF NewRow, Rows, None, Refs
<1>3. NoEvent \in AllEvents
  BY BoundsAssumption DEF NoEvent, AllEvents, None, Refs, Kinds
<1>5. Idle \in Works
  BY <1>2, <1>3, BoundsAssumption DEF Idle, Works, Tasks, None, Refs
<1>6. RecOK(g, Idle)
  BY DEF Idle, RecOK
<1> QED
  BY <1>2, <1>5, <1>6

----------------------------------------------------------------------------
(* The shape of the steps. *)

Counters ==
  /\ decided \in 0..Len(Decisions)
  /\ owed \in Nat
  /\ repaid \in Seq(Repayments)
  /\ handled \subseteq AllEvents
  /\ faults \in 0..MaxFaults

\* A step of one worker keeps the invariant if what it writes is good.
LEMMA WorkerStep ==
  ASSUME IInv, NEW w \in Workers, NEW rec \in Works, Become(w, rec),
         gateway' \in Seq(Refunds), Len(gateway') <= MaxRefunds, Grows(gateway, gateway'),
         RecOK(gateway', rec),
         intents' \in [Intents -> Rows],
         \A i \in Intents : intents'[i] = intents[i] \/ RowOK(gateway', i, intents'[i]),
         refund' \in JobRefunds, \A r \in refund'.finalized : Paid(gateway', r),
         Counters'
  PROVE  IInv'
<1>1. TypeOK'
  BY DEF IInv, TypeOK, Become, Counters
<1>2. \A i \in Intents : RowOK(gateway', i, intents'[i])
  BY RowGrows DEF IInv
<1>3. \A v \in Workers : RecOK(gateway', worker'[v])
  <2>1. TAKE v \in Workers
  <2>2. CASE v = w
    BY <2>2 DEF Become, IInv, TypeOK
  <2>3. CASE v # w
    <3>1. worker'[v] = worker[v] /\ RecOK(gateway, worker[v])
      BY <2>3 DEF Become, IInv, TypeOK
    <3> QED
      BY <3>1, RecGrows
  <2> QED
    BY <2>2, <2>3
<1> QED
  BY <1>1, <1>2, <1>3 DEF IInv

LEMMA GrowsStays == ASSUME NEW g PROVE Grows(g, g)
  BY DEF Grows

\* A step of one worker that writes none of the shared records but the counters.
LEMMA QuietStep ==
  ASSUME IInv, NEW w \in Workers, NEW rec \in Works, Become(w, rec), RecOK(gateway, rec),
         UNCHANGED <<intents, gateway, refund>>, Counters'
  PROVE  IInv'
<1>1. Grows(gateway, gateway)
  BY GrowsStays
<1> QED
  BY <1>1, WorkerStep DEF IInv, TypeOK

\* A step of one worker that writes the job's refund.
LEMMA RefundStep ==
  ASSUME IInv, NEW w \in Workers, NEW rec \in Works, Become(w, rec), RecOK(gateway, rec),
         UNCHANGED <<intents, gateway>>, Counters',
         refund' \in JobRefunds, \A r \in refund'.finalized : Paid(gateway, r)
  PROVE  IInv'
<1>1. Grows(gateway, gateway)
  BY GrowsStays
<1> QED
  BY <1>1, WorkerStep DEF IInv, TypeOK

\* A step of one worker that writes the row of one intent.
LEMMA RowStep ==
  ASSUME IInv, NEW w \in Workers, NEW rec \in Works, Become(w, rec), RecOK(gateway, rec),
         UNCHANGED <<gateway, refund>>, Counters',
         NEW i \in Intents, NEW row \in Rows, RowOK(gateway, i, row),
         intents' = [intents EXCEPT ![i] = row]
  PROVE  IInv'
<1>1. Grows(gateway, gateway)
  BY GrowsStays
<1>2. intents' \in [Intents -> Rows]
  BY DEF IInv, TypeOK
<1>3. \A j \in Intents : intents'[j] = intents[j] \/ RowOK(gateway, j, intents'[j])
  BY DEF IInv, TypeOK
<1> QED
  BY <1>1, <1>2, <1>3, WorkerStep DEF IInv, TypeOK

LEMMA CountersStay ==
  ASSUME IInv, UNCHANGED <<decided, owed, repaid, handled, faults>>
  PROVE  Counters'
  BY DEF IInv, TypeOK, Counters

\* The payload of a row alone, or the money with it.
LEMMA PersistedRow ==
  ASSUME IInv, NEW i \in Intents, NEW row \in Rows, RowOK(gateway, i, row)
  PROVE  /\ [row EXCEPT !.refunded = intents[i].refunded] \in Rows
         /\ RowOK(gateway, i, [row EXCEPT !.refunded = intents[i].refunded])
<1>1. intents[i] \in Rows /\ RowOK(gateway, i, intents[i])
  BY DEF IInv, TypeOK
<1>2. [row EXCEPT !.refunded = intents[i].refunded] \in Rows
  BY <1>1 DEF Rows
<1>3. /\ [row EXCEPT !.refunded = intents[i].refunded].refunded = intents[i].refunded
      /\ [row EXCEPT !.refunded = intents[i].refunded].finalized = row.finalized
      /\ [row EXCEPT !.refunded = intents[i].refunded].pending = row.pending
  BY DEF Rows
<1> QED
  BY <1>1, <1>2, <1>3 DEF RowOK

----------------------------------------------------------------------------
(* The actions of a worker, one by one. *)

AsksFor(asking, rec, task, amount, plan) ==
  asking = [rec EXCEPT !.pc = "read", !.task = task, !.amount = amount, !.left = amount,
                       !.plan = plan, !.at = 1]

LEMMA AskingRecord ==
  ASSUME NEW rec \in Works, NEW task \in Tasks, NEW amount \in Nat,
         NEW plan \in [Intents -> Nat], NEW asking, AsksFor(asking, rec, task, amount, plan)
  PROVE  asking \in Works /\ asking.pc = "read" /\ asking.refs = rec.refs
  BY DEF AsksFor, Works

LEMMA AskingIsOK ==
  ASSUME IInv, NEW rec \in Works, NEW task \in Tasks, NEW amount \in Nat,
         \A r \in rec.refs : Paid(gateway, r)
  PROVE  Asking(rec, task, amount) \in Works /\ RecOK(gateway, Asking(rec, task, amount))
<1> DEFINE plan == [i \in Intents |-> Remaining(i, intents[i])]
<1>1. plan \in [Intents -> Nat]
  BY CeilingAssumption DEF IInv, TypeOK, Rows, Remaining
<1>2. AsksFor(Asking(rec, task, amount), rec, task, amount, plan)
  BY DEF Asking, AsksFor
<1> HIDE DEF plan
<1>3. /\ Asking(rec, task, amount) \in Works
      /\ Asking(rec, task, amount).pc = "read"
      /\ Asking(rec, task, amount).refs = rec.refs
  BY <1>1, <1>2, AskingRecord
<1> QED
  BY <1>3 DEF RecOK

LEMMA AnsweredIsOK ==
  ASSUME IInv, NEW rec \in Works, \A r \in rec.refs : Paid(gateway, r),
         NEW answer \in {"pending", "ok", "short", "nothing", "failed"}
  PROVE  Answered(rec, answer) \in Works /\ RecOK(gateway, Answered(rec, answer))
<1>1. NewRow \in Rows /\ None \in Refs
  BY IdleIsOK, BoundsAssumption DEF None, Refs
<1>2. Answered(rec, answer) \in Works
  BY <1>1 DEF Answered, Works
<1>3. Answered(rec, answer).pc = "answered" /\ Answered(rec, answer).refs = rec.refs
  BY DEF Answered, Works
<1> QED
  BY <1>2, <1>3 DEF RecOK

\* A worker whose next step keeps nothing of a row is in order anywhere but there.
LEMMA GotoIsOK ==
  ASSUME IInv, NEW w \in Workers,
         NEW pc \in {"idle", "read", "answered", "record", "request", "continue",
                     "failed", "mark"}
  PROVE  /\ [worker[w] EXCEPT !.pc = pc] \in Works
         /\ RecOK(gateway, [worker[w] EXCEPT !.pc = pc])
<1>1. worker[w] \in Works /\ RecOK(gateway, worker[w])
  BY DEF IInv, TypeOK
<1>2. [worker[w] EXCEPT !.pc = pc] \in Works
  BY <1>1 DEF Works
<1>3. /\ [worker[w] EXCEPT !.pc = pc].pc = pc
      /\ [worker[w] EXCEPT !.pc = pc].refs = worker[w].refs
  BY <1>1 DEF Works
<1> QED
  BY <1>1, <1>2, <1>3 DEF RecOK

LEMMA ReadIntentStep ==
  ASSUME IInv, NEW w \in Workers, ReadIntent(w)
  PROVE  IInv'
<1>1. worker[w] \in Works /\ RecOK(gateway, worker[w])
  BY DEF IInv, TypeOK
<1>2. Counters' /\ UNCHANGED <<intents, gateway, refund>>
  BY CountersStay DEF ReadIntent
<1>3. \A r \in worker[w].refs : Paid(gateway, r)
  BY <1>1 DEF RecOK
<1>4. CASE Become(w, Answered(worker[w], "ok")) \/ Become(w, Answered(worker[w], "short"))
  BY <1>1, <1>2, <1>3, <1>4, AnsweredIsOK, QuietStep
<1>5. CASE \E i \in SlicesLeft(w) :
             LET here == [worker[w] EXCEPT !.at = i]
             IN  Become(w, IF Remaining(i, intents[i]) = 0 THEN Answered(here, "nothing")
                           ELSE IF intents[i].pending.ref # None THEN Answered(here, "pending")
                           ELSE [here EXCEPT !.pc = "ask", !.row = intents[i]])
  <2>1. PICK i \in SlicesLeft(w) :
             LET here == [worker[w] EXCEPT !.at = i]
             IN  Become(w, IF Remaining(i, intents[i]) = 0 THEN Answered(here, "nothing")
                           ELSE IF intents[i].pending.ref # None THEN Answered(here, "pending")
                           ELSE [here EXCEPT !.pc = "ask", !.row = intents[i]])
    BY <1>5
  <2> DEFINE here == [worker[w] EXCEPT !.at = i]
             ask == [here EXCEPT !.pc = "ask", !.row = intents[i]]
  <2>2. /\ i \in Intents /\ i \in Nat
        /\ intents[i] \in Rows /\ RowOK(gateway, i, intents[i])
    BY <2>1, NIntentsAssumption DEF SlicesLeft, IInv, TypeOK, Intents
  <2>3. here \in Works /\ here.refs = worker[w].refs
    BY <1>1, <2>2 DEF Works
  <2>4. /\ ask \in Works
        /\ ask.pc = "ask" /\ ask.at = i /\ ask.row = intents[i] /\ ask.refs = worker[w].refs
    BY <1>1, <2>2 DEF Works
  <2>5. RecOK(gateway, ask)
    <3> HIDE DEF ask
    <3> QED
      BY <2>2, <2>4, <1>3 DEF RecOK
  <2>6. \/ Become(w, Answered(here, "nothing"))
        \/ Become(w, Answered(here, "pending"))
        \/ Become(w, ask)
    BY <2>1
  <2> HIDE DEF here, ask
  <2> QED
    BY <1>2, <1>3, <2>3, <2>4, <2>5, <2>6, AnsweredIsOK, QuietStep
<1> QED
  BY <1>4, <1>5 DEF ReadIntent

LEMMA SliceIsNat ==
  ASSUME IInv, NEW w \in Workers, worker[w].at \in Intents
  PROVE  /\ Slice(w) \in Nat /\ Slice(w) <= worker[w].left
         /\ Key(w) \in Keys
<1>1. /\ worker[w].left \in Nat /\ worker[w].plan \in [Intents -> Nat]
      /\ worker[w].task \in Tasks /\ worker[w].amount \in Nat /\ worker[w].number \in Nat
  BY DEF IInv, TypeOK, Works
<1>2. Slice(w) \in Nat /\ Slice(w) <= worker[w].left
  BY <1>1 DEF Slice, Min2
<1>3. Key(w) \in Keys
  BY <1>1, <1>2 DEF Key, Keys, Tasks
<1> QED
  BY <1>2, <1>3

LEMMA AskGatewayStep ==
  ASSUME IInv, NEW w \in Workers, AskGateway(w)
  PROVE  IInv'
<1> DEFINE rec == worker[w]
           amount == Min2(Slice(w), Remaining(rec.at, rec.row))
           new == Len(gateway) + 1
<1>1. rec \in Works /\ RecOK(gateway, rec) /\ rec.pc = "ask"
  BY DEF IInv, TypeOK, AskGateway, At
<1>2. rec.at \in Intents /\ rec.row \in Rows /\ RowOK(gateway, rec.at, rec.row)
  BY <1>1 DEF RecOK, Works
<1>3. amount \in Nat
  BY <1>2, SliceIsNat, CeilingAssumption DEF Remaining, Min2, Rows
<1> HIDE DEF amount
<1>4. PICK status \in {"pending", "processed"} :
        /\ gateway' = Append(gateway, [intent |-> rec.at, amount |-> amount, status |-> status])
        /\ \/ /\ Become(w, [rec EXCEPT !.pc = "save", !.ref = new, !.answer = status])
              /\ UNCHANGED faults
           \/ /\ faults < MaxFaults
              /\ faults' = faults + 1
              /\ Become(w, Answered(rec, "failed"))
  BY DEF AskGateway, amount
<1>5. /\ gateway \in Seq(Refunds) /\ Len(gateway) < MaxRefunds
      /\ UNCHANGED <<intents, refund, decided, owed, repaid, handled>>
  BY DEF IInv, TypeOK, AskGateway
<1>6. [intent |-> rec.at, amount |-> amount, status |-> status] \in Refunds
  BY <1>2, <1>3 DEF Refunds
<1>7. /\ gateway' \in Seq(Refunds) /\ Len(gateway') = new /\ new <= MaxRefunds
      /\ new \in Refs /\ new \in DOMAIN gateway'
      /\ \A r \in DOMAIN gateway : r \in DOMAIN gateway' /\ gateway'[r] = gateway[r]
      /\ gateway'[new] = [intent |-> rec.at, amount |-> amount, status |-> status]
  BY <1>4, <1>5, <1>6, BoundsAssumption DEF Refs
<1>8. Grows(gateway, gateway')
  BY <1>7 DEF Grows
<1>9. Counters'
  BY <1>4, <1>5, BoundsAssumption DEF IInv, TypeOK, Counters
<1>10. \A next \in Works : Become(w, next) /\ RecOK(gateway', next) => IInv'
  <2>1. \A r \in refund.finalized : Paid(gateway', r)
    BY <1>8 DEF IInv, Grows, Paid
  <2> QED
    BY <1>5, <1>7, <1>8, <1>9, <2>1, WorkerStep DEF IInv, TypeOK
<1>11. CASE Become(w, Answered(rec, "failed"))
  <2>1. Answered(rec, "failed") \in Works /\ RecOK(gateway, Answered(rec, "failed"))
    BY <1>1, AnsweredIsOK DEF RecOK
  <2> QED
    BY <2>1, <1>8, <1>10, <1>11, RecGrows
<1>12. CASE Become(w, [rec EXCEPT !.pc = "save", !.ref = new, !.answer = status])
  <2> DEFINE next == [rec EXCEPT !.pc = "save", !.ref = new, !.answer = status]
  <2> HIDE DEF rec, new
  <2>1. /\ next \in Works /\ next.pc = "save" /\ next.ref = new /\ next.answer = status
        /\ next.at = rec.at /\ next.row = rec.row /\ next.refs = rec.refs
    BY <1>1, <1>4, <1>7 DEF Works
  <2>2. RowOK(gateway', rec.at, rec.row) /\ \A r \in rec.refs : Paid(gateway', r)
    BY <1>1, <1>2, <1>8, RowGrows DEF RecOK, Grows, Paid
  <2>4. new \notin rec.row.finalized
    <3>1. new \notin DOMAIN gateway
      BY <1>5 DEF new
    <3> QED
      BY <1>2, <3>1 DEF RowOK, Paid
  <2> HIDE DEF next
  <2>3. RecOK(gateway', next)
    BY <1>2, <1>7, <2>1, <2>2, <2>4 DEF RecOK, Paid
  <2> QED
    BY <1>10, <1>12, <2>1, <2>3 DEF next
<1> QED
  BY <1>4, <1>11, <1>12

LEMMA WorkerIsOK ==
  ASSUME IInv, NEW w \in Workers
  PROVE  /\ worker[w] \in Works /\ RecOK(gateway, worker[w])
         /\ \A r \in worker[w].refs : Paid(gateway, r)
         /\ worker[w].refs \subseteq Refs
  BY DEF IInv, TypeOK, RecOK, Works

LEMMA AskRefusedStep ==
  ASSUME IInv, NEW w \in Workers, AskRefused(w)
  PROVE  IInv'
<1>1. Answered(worker[w], "failed") \in Works /\ RecOK(gateway, Answered(worker[w], "failed"))
  BY WorkerIsOK, AnsweredIsOK
<1> QED
  BY <1>1, CountersStay, QuietStep DEF AskRefused

\* applyIntentRefundMoney on a row and a refund that are in order.
LEMMA MoneyStep ==
  ASSUME IInv, NEW w \in Workers, NEW rec \in Works, Become(w, rec), RecOK(gateway, rec),
         UNCHANGED <<gateway, refund>>, Counters',
         NEW i \in Intents, NEW row \in Rows, RowOK(gateway, i, row),
         NEW ref \in Refs, Paid(gateway, ref), gateway[ref].intent = i,
         NEW amount \in Nat, NEW key \in Keys,
         ApplyIntentRefundMoney(i, row, ref, amount, key)
  PROVE  IInv'
<1>1. CASE UNCHANGED intents
  BY <1>1, QuietStep
<1>2. CASE intents' = [intents EXCEPT ![i] = RowWithMoney(i, row, ref, amount, key)]
  <2>1. RowWithMoney(i, row, ref, amount, key) \in Rows
    BY RowWithMoneyIsRow
  <2>2. RowOK(gateway, i, RowWithMoney(i, row, ref, amount, key))
    BY RowWithMoneyIsOK
  <2> QED
    BY <1>2, <2>1, <2>2, RowStep
<1> QED
  BY <1>1, <1>2 DEF ApplyIntentRefundMoney

LEMMA SaveAnswerStep ==
  ASSUME IInv, NEW w \in Workers, SaveAnswer(w)
  PROVE  IInv'
<1> DEFINE rec == worker[w]
           amount == gateway[rec.ref].amount
           next == [rec EXCEPT !.pc = "read", !.left = @ - Slice(w), !.at = @ + 1,
                               !.row = NewRow, !.ref = None, !.answer = "none",
                               !.refs = @ \union {rec.ref}]
           row == [rec.row EXCEPT !.pending = [ref |-> rec.ref, amount |-> amount, key |-> Key(w)]]
<1>1. rec \in Works /\ RecOK(gateway, rec) /\ rec.pc = "save"
  BY WorkerIsOK DEF SaveAnswer, At
<1>2. /\ rec.at \in Intents /\ rec.row \in Rows /\ RowOK(gateway, rec.at, rec.row)
      /\ rec.ref \in Refs /\ rec.ref \in DOMAIN gateway /\ gateway[rec.ref].intent = rec.at
      /\ rec.ref \notin rec.row.finalized
  BY <1>1 DEF RecOK, Works
<1>3. amount \in Nat /\ Key(w) \in Keys /\ Slice(w) \in Nat /\ Slice(w) <= rec.left
  <2>1. gateway[rec.ref] \in Refunds
    BY <1>2 DEF IInv, TypeOK
  <2> QED
    BY <1>2, <2>1, SliceIsNat DEF Refunds
<1>4. UNCHANGED <<gateway, refund>> /\ Counters'
  BY CountersStay DEF SaveAnswer
<1>5. CASE /\ rec.answer = "processed"
           /\ ApplyIntentRefundMoney(rec.at, rec.row, rec.ref, amount, Key(w))
           /\ Become(w, next)
  <2> DEFINE left == rec.left - Slice(w)
             at == rec.at + 1
             refs == rec.refs \union {rec.ref}
  <2>1. left \in Nat /\ at \in Nat /\ refs \subseteq Refs
    <3>1. rec.left \in Nat /\ rec.at \in Nat /\ rec.refs \subseteq Refs
      BY <1>1 DEF Works
    <3> QED
      BY <1>2, <1>3, <3>1
  <2>2. NewRow \in Rows /\ None \in Refs
    BY IdleIsOK, BoundsAssumption DEF None, Refs
  <2>3. next = [rec EXCEPT !.pc = "read", !.left = left, !.at = at, !.row = NewRow,
                           !.ref = None, !.answer = "none", !.refs = refs]
    OBVIOUS
  <2> HIDE DEF left, at, refs, next
  <2>4. next \in Works /\ next.pc = "read" /\ next.refs = refs
    BY <1>1, <2>1, <2>2, <2>3 DEF Works
  <2>5. Paid(gateway, rec.ref) /\ \A r \in refs : Paid(gateway, r)
    BY <1>1, <1>5 DEF RecOK, refs
  <2>6. RecOK(gateway, next)
    BY <2>4, <2>5 DEF RecOK
  <2> HIDE DEF rec, amount
  <2> QED
    BY <1>2, <1>3, <1>4, <1>5, <2>4, <2>5, <2>6, MoneyStep
<1>6. CASE PersistPayload(rec.at, row) /\ Become(w, Answered(rec, "pending"))
  <2>1. [ref |-> rec.ref, amount |-> amount, key |-> Key(w)] \in Slices
    BY <1>2, <1>3 DEF Slices
  <2>2. /\ row \in Rows /\ row.refunded = rec.row.refunded
        /\ row.finalized = rec.row.finalized /\ row.pending.ref = rec.ref
    BY <1>2, <2>1 DEF Rows
  <2>3. RowOK(gateway, rec.at, row)
    BY <1>2, <2>2 DEF RowOK
  <2>4. Answered(rec, "pending") \in Works /\ RecOK(gateway, Answered(rec, "pending"))
    BY WorkerIsOK, AnsweredIsOK
  <2> HIDE DEF rec, row
  <2> QED
    BY <1>2, <1>4, <1>6, <2>2, <2>3, <2>4, PersistedRow, RowStep DEF PersistPayload
<1> QED
  BY <1>5, <1>6 DEF SaveAnswer

LEMMA DecisionIsTyped ==
  /\ Len(Decisions) \in Nat
  /\ \A d \in 1..Len(Decisions) : Decisions[d].immediate \in Nat /\ Decisions[d].debt \in Nat
<1>1. \A d \in 1..Len(Decisions) : Decisions[d] \in [immediate: Nat, debt: Nat]
  BY DecisionsAssumption, ElementOfSeq
<1> QED
  BY <1>1, DecisionsAssumption

LEMMA ResolveBeginStep ==
  ASSUME IInv, NEW w \in Workers, ResolveBegin(w)
  PROVE  IInv'
<1> DEFINE rec == [Idle EXCEPT !.decision = decided + 1]
           now == Decisions[decided + 1].immediate
<1>1. /\ decided + 1 \in 0..Len(Decisions) /\ now \in Nat
      /\ Idle \in Works /\ Idle.refs = {} /\ "staged" \in Tasks
  <2>1. decided \in Nat /\ decided < Len(Decisions) /\ Len(Decisions) \in Nat
    BY DecisionsAssumption DEF ResolveBegin, IInv, TypeOK
  <2>2. Decisions[decided + 1].immediate \in Nat
    BY <2>1, DecisionIsTyped
  <2>3. Idle \in Works /\ Idle.refs = {} /\ "staged" \in Tasks
    BY IdleIsOK DEF Idle, Tasks
  <2> QED
    BY <2>1, <2>2, <2>3
<1>2. rec \in Works /\ rec.refs = {}
  BY <1>1 DEF Works
<1>3. [rec EXCEPT !.pc = "record"] \in Works /\ RecOK(gateway, [rec EXCEPT !.pc = "record"])
  <2> DEFINE next == [rec EXCEPT !.pc = "record"]
  <2>1. next \in Works /\ next.pc = "record" /\ next.refs = {}
    BY <1>2 DEF Works
  <2> HIDE DEF next
  <2>2. RecOK(gateway, next)
    BY <2>1 DEF RecOK
  <2> QED
    BY <2>1, <2>2 DEF next
<1> HIDE DEF rec, now
<1>4. Asking(rec, "staged", now) \in Works /\ RecOK(gateway, Asking(rec, "staged", now))
  BY <1>1, <1>2, AskingIsOK
<1>5. Become(w, [rec EXCEPT !.pc = "record"]) \/ Become(w, Asking(rec, "staged", now))
  BY DEF ResolveBegin, rec, now
<1> QED
  BY <1>3, <1>4, <1>5, CountersStay, QuietStep DEF ResolveBegin

LEMMA ResolveAnsweredStep ==
  ASSUME IInv, NEW w \in Workers, ResolveAnswered(w)
  PROVE  IInv'
<1>1. Become(w, Idle) \/ Become(w, [worker[w] EXCEPT !.pc = "record"])
  BY DEF ResolveAnswered
<1> QED
  BY <1>1, IdleIsOK, GotoIsOK, CountersStay, QuietStep DEF ResolveAnswered

LEMMA RecordDecisionStep ==
  ASSUME IInv, NEW w \in Workers, RecordDecision(w)
  PROVE  IInv'
<1>1. Idle \in Works /\ RecOK(gateway, Idle) /\ Become(w, Idle)
  BY IdleIsOK DEF RecordDecision
<1>2. UNCHANGED <<intents, gateway, repaid, handled, faults>>
  BY DEF RecordDecision
<1>3. CASE UNCHANGED <<decided, owed, refund>>
  BY <1>1, <1>2, <1>3, CountersStay, QuietStep
<1>4. CASE /\ worker[w].decision = decided + 1
           /\ decided' = decided + 1
           /\ owed' = owed + Decisions[decided + 1].debt
           /\ refund' = [refund EXCEPT !.immediate = Decisions[decided + 1].immediate,
                                       !.pending = Decisions[decided + 1].debt]
  <2>1. decided \in Nat /\ decided + 1 \in 1..Len(Decisions)
    BY <1>4, DecisionIsTyped DEF IInv, TypeOK, Works
  <2>2. Counters'
    BY <1>2, <1>4, <2>1, DecisionIsTyped DEF IInv, TypeOK, Counters
  <2>3. Decisions[decided + 1].immediate \in Nat /\ Decisions[decided + 1].debt \in Nat
    BY <2>1, DecisionIsTyped
  <2>4. refund' \in JobRefunds /\ refund'.finalized = refund.finalized
    BY <1>4, <2>3 DEF IInv, TypeOK, JobRefunds
  <2> QED
    BY <1>1, <1>2, <2>2, <2>4, RefundStep DEF IInv
<1> QED
  BY <1>3, <1>4 DEF RecordDecision

\* A worker that takes up repayment n, of an amount.
LEMMA CheckingIsOK ==
  ASSUME IInv, NEW n \in Nat, NEW amount \in Nat
  PROVE  /\ [Idle EXCEPT !.pc = "check", !.number = n, !.amount = amount] \in Works
         /\ RecOK(gateway, [Idle EXCEPT !.pc = "check", !.number = n, !.amount = amount])
<1> DEFINE next == [Idle EXCEPT !.pc = "check", !.number = n, !.amount = amount]
<1>1. Idle \in Works /\ Idle.refs = {}
  BY IdleIsOK DEF Idle
<1>2. next \in Works /\ next.pc = "check" /\ next.refs = {}
  BY <1>1 DEF Works
<1> HIDE DEF next
<1>3. RecOK(gateway, next)
  BY <1>2 DEF RecOK
<1> QED
  BY <1>2, <1>3 DEF next

LEMMA ConfirmRepaymentStep ==
  ASSUME IInv, NEW w \in Workers, ConfirmRepayment(w)
  PROVE  IInv'
<1> DEFINE next(n, amount) == [Idle EXCEPT !.pc = "check", !.number = n, !.amount = amount]
<1>1. PICK amount \in Repayments :
        /\ repaid' = Append(repaid, amount)
        /\ owed' = owed - Min2(owed, amount)
        /\ refund' = IF owed = 0 THEN refund
                     ELSE [refund EXCEPT !.status = "READY", !.ready = @ + Min2(owed, amount)]
        /\ Become(w, next(Len(repaid) + 1, amount))
  BY DEF ConfirmRepayment
<1>2. UNCHANGED <<intents, gateway, decided, handled, faults>>
  BY DEF ConfirmRepayment
<1>3. /\ amount \in Nat /\ owed \in Nat /\ repaid \in Seq(Repayments) /\ Len(repaid) + 1 \in Nat
      /\ refund \in JobRefunds
  BY RepaymentsAssumption DEF IInv, TypeOK
<1>4. Min2(owed, amount) \in Nat /\ owed' \in Nat
  BY <1>1, <1>3 DEF Min2
<1>5. refund' \in JobRefunds /\ refund'.finalized = refund.finalized
  <2> DEFINE ready == refund.ready + Min2(owed, amount)
  <2>1. ready \in Nat
    BY <1>3, <1>4 DEF JobRefunds
  <2>2. refund' = refund \/ refund' = [refund EXCEPT !.status = "READY", !.ready = ready]
    BY <1>1
  <2> HIDE DEF ready
  <2> QED
    BY <1>3, <2>1, <2>2 DEF JobRefunds
<1>6. repaid' \in Seq(Repayments)
  BY <1>1, <1>3
<1>7. Counters'
  BY <1>2, <1>4, <1>6 DEF IInv, TypeOK, Counters
<1>8. /\ next(Len(repaid) + 1, amount) \in Works
      /\ RecOK(gateway, next(Len(repaid) + 1, amount))
  BY <1>3, CheckingIsOK
<1> HIDE DEF next
<1> QED
  BY <1>1, <1>2, <1>5, <1>7, <1>8, RefundStep DEF IInv

LEMMA PayoutAgainStep ==
  ASSUME IInv, NEW w \in Workers, PayoutAgain(w)
  PROVE  IInv'
<1>1. PICK n \in DOMAIN repaid :
        Become(w, [Idle EXCEPT !.pc = "check", !.number = n, !.amount = repaid[n]])
  BY DEF PayoutAgain
<1>2. n \in Nat /\ repaid[n] \in Nat
  <2>1. repaid \in Seq(Repayments)
    BY DEF IInv, TypeOK
  <2>2. n \in 1..Len(repaid) /\ repaid[n] \in Repayments
    BY <1>1, <2>1, ElementOfSeq
  <2>3. n \in Nat
    BY <2>1, <2>2
  <2>4. repaid[n] \in Nat
    BY <2>2, RepaymentsAssumption
  <2> QED
    BY <2>3, <2>4
<1> QED
  BY <1>1, <1>2, CheckingIsOK, CountersStay, QuietStep DEF PayoutAgain

LEMMA PayoutCheckStep ==
  ASSUME IInv, NEW w \in Workers, PayoutCheck(w)
  PROVE  IInv'
<1> DEFINE amount == PayoutAmount(worker[w].amount)
           next == [worker[w] EXCEPT !.pc = "request", !.amount = amount]
<1>1. worker[w] \in Works /\ RecOK(gateway, worker[w]) /\ refund \in JobRefunds
  BY WorkerIsOK DEF IInv, TypeOK
<1>2. CASE Become(w, Idle)
  BY <1>2, IdleIsOK, CountersStay, QuietStep DEF PayoutCheck
<1>3. CASE Become(w, next)
  <2>1. worker[w].amount \in Nat
    BY <1>1 DEF Works
  <2>2. amount \in Nat
    BY <1>1, <2>1 DEF PayoutAmount, JobRefunds
  <2> HIDE DEF amount
  <2>3. next \in Works /\ next.pc = "request" /\ next.refs = worker[w].refs
    BY <1>1, <2>2 DEF Works
  <2> HIDE DEF next
  <2>4. RecOK(gateway, next)
    BY <1>1, <2>3 DEF RecOK
  <2> QED
    BY <1>3, <2>3, <2>4, CountersStay, QuietStep DEF PayoutCheck
<1> QED
  BY <1>2, <1>3 DEF PayoutCheck

LEMMA PayoutRequestStep ==
  ASSUME IInv, NEW w \in Workers, PayoutRequest(w)
  PROVE  IInv'
<1> DEFINE next == Asking(worker[w], "payout", worker[w].amount)
<1>1. worker[w].amount \in Nat /\ "payout" \in Tasks
  BY WorkerIsOK DEF Works, Tasks
<1>2. next \in Works /\ RecOK(gateway, next)
  BY <1>1, WorkerIsOK, AskingIsOK
<1> HIDE DEF next
<1>3. refund' \in JobRefunds /\ refund'.finalized = refund.finalized
  BY DEF PayoutRequest, IInv, TypeOK, JobRefunds
<1>4. Become(w, next)
  BY DEF PayoutRequest, next
<1> QED
  BY <1>2, <1>3, <1>4, CountersStay, RefundStep DEF PayoutRequest, IInv

LEMMA PayoutAnsweredStep ==
  ASSUME IInv, NEW w \in Workers, PayoutAnswered(w)
  PROVE  IInv'
<1> DEFINE rec == worker[w]
           immediate == refund.immediate + rec.amount
           pending == refund.pending - Min2(refund.pending, rec.amount)
<1>1. /\ rec \in Works /\ refund \in JobRefunds
      /\ rec.refs \subseteq Refs /\ \A r \in rec.refs : Paid(gateway, r)
  BY WorkerIsOK DEF IInv, TypeOK
<1>2. immediate \in Nat /\ pending \in Nat
  <2>1. refund.immediate \in Nat /\ refund.pending \in Nat
    BY <1>1 DEF JobRefunds
  <2>2. rec.amount \in Nat
    BY <1>1 DEF Works
  <2> HIDE DEF rec
  <2> QED
    BY <2>1, <2>2 DEF Min2
<1>3. \/ refund' = [refund EXCEPT !.status = "REFUND_COMPLETED", !.immediate = immediate,
                                  !.pending = pending, !.ready = 0, !.finalized = rec.refs]
      \/ refund' = [refund EXCEPT !.status = "REFUND_PROCESSING"]
      \/ refund' = [refund EXCEPT !.status = "REFUND_FAILED"]
  BY DEF PayoutAnswered
<1> HIDE DEF rec, immediate, pending
<1>4. /\ refund' \in JobRefunds
      /\ refund'.finalized = rec.refs \/ refund'.finalized = refund.finalized
  <2>1. CASE refund' = [refund EXCEPT !.status = "REFUND_COMPLETED", !.immediate = immediate,
                                      !.pending = pending, !.ready = 0, !.finalized = rec.refs]
    BY <1>1, <1>2, <2>1 DEF JobRefunds
  <2>2. CASE refund' = [refund EXCEPT !.status = "REFUND_PROCESSING"]
    BY <1>1, <2>2 DEF JobRefunds
  <2>3. CASE refund' = [refund EXCEPT !.status = "REFUND_FAILED"]
    BY <1>1, <2>3 DEF JobRefunds
  <2> QED
    BY <1>3, <2>1, <2>2, <2>3
<1>5. \A r \in refund'.finalized : Paid(gateway, r)
  BY <1>1, <1>4 DEF IInv
<1>6. Become(w, Idle) /\ UNCHANGED <<intents, gateway>> /\ Counters'
  BY CountersStay DEF PayoutAnswered
<1> QED
  BY <1>4, <1>5, <1>6, IdleIsOK, RefundStep

LEMMA ReleaseRecoversStep ==
  ASSUME IInv, NEW w \in Workers, ReleaseRecovers(w)
  PROVE  IInv'
<1> DEFINE next(amount) == [Idle EXCEPT !.pc = "release", !.amount = amount]
<1>1. PICK amount \in 1..owed :
        owed' = owed - amount /\ (Become(w, Idle) \/ Become(w, next(amount)))
  BY DEF ReleaseRecovers
<1>2. UNCHANGED <<intents, gateway, refund, decided, repaid, handled, faults>>
  BY DEF ReleaseRecovers
<1>3. amount \in Nat /\ owed' \in Nat
  BY <1>1 DEF IInv, TypeOK
<1>4. Counters'
  BY <1>2, <1>3 DEF IInv, TypeOK, Counters
<1>5. Idle \in Works /\ RecOK(gateway, Idle) /\ Idle.refs = {}
  BY IdleIsOK DEF Idle
<1>6. next(amount) \in Works /\ next(amount).pc = "release" /\ next(amount).refs = {}
  BY <1>3, <1>5 DEF Works
<1> HIDE DEF next
<1>7. RecOK(gateway, next(amount))
  BY <1>6 DEF RecOK
<1> QED
  BY <1>1, <1>2, <1>4, <1>5, <1>6, <1>7, QuietStep

LEMMA StagedRequestStep ==
  ASSUME IInv, NEW w \in Workers, StagedRequest(w)
  PROVE  IInv'
<1> DEFINE next == Asking(worker[w], "release", worker[w].amount)
<1>1. worker[w].amount \in Nat /\ "release" \in Tasks
  BY WorkerIsOK DEF Works, Tasks
<1>2. next \in Works /\ RecOK(gateway, next)
  BY <1>1, WorkerIsOK, AskingIsOK
<1> HIDE DEF next
<1>3. Become(w, next)
  BY DEF StagedRequest, next
<1> QED
  BY <1>2, <1>3, CountersStay, QuietStep DEF StagedRequest

LEMMA StagedAnsweredStep ==
  ASSUME IInv, NEW w \in Workers, StagedAnswered(w)
  PROVE  IInv'
<1> DEFINE rec == worker[w]
           immediate == refund.immediate + rec.amount
           pending == refund.pending - Min2(refund.pending, rec.amount)
<1>1. rec \in Works /\ refund \in JobRefunds
  BY WorkerIsOK DEF IInv, TypeOK
<1>2. immediate \in Nat /\ pending \in Nat
  <2>1. refund.immediate \in Nat /\ refund.pending \in Nat
    BY <1>1 DEF JobRefunds
  <2>2. rec.amount \in Nat
    BY <1>1 DEF Works
  <2> HIDE DEF rec
  <2> QED
    BY <2>1, <2>2 DEF Min2
<1>3. \/ refund' = [refund EXCEPT !.status = "REFUND_COMPLETED", !.immediate = immediate,
                                  !.pending = pending]
      \/ refund' = [refund EXCEPT !.status = "REFUND_PROCESSING"]
      \/ refund' = refund
  BY DEF StagedAnswered
<1> HIDE DEF rec, immediate, pending
<1>4. refund' \in JobRefunds /\ refund'.finalized = refund.finalized
  <2>1. CASE refund' = [refund EXCEPT !.status = "REFUND_COMPLETED", !.immediate = immediate,
                                      !.pending = pending]
    BY <1>1, <1>2, <2>1 DEF JobRefunds
  <2>2. CASE refund' = [refund EXCEPT !.status = "REFUND_PROCESSING"]
    BY <1>1, <2>2 DEF JobRefunds
  <2>3. CASE refund' = refund
    BY <1>1, <2>3
  <2> QED
    BY <1>3, <2>1, <2>2, <2>3
<1>5. \A r \in refund'.finalized : Paid(gateway, r)
  BY <1>4 DEF IInv
<1>6. Become(w, Idle) /\ UNCHANGED <<intents, gateway>> /\ Counters'
  BY CountersStay DEF StagedAnswered
<1> QED
  BY <1>4, <1>5, <1>6, IdleIsOK, RefundStep

LEMMA HookBeginStep ==
  ASSUME IInv, NEW w \in Workers, HookBegin(w)
  PROVE  IInv'
<1>1. PICK e : HookTakes(w, e)
  BY DEF HookBegin
<1> DEFINE i == gateway[e.ref].intent
           next == [Idle EXCEPT !.pc = "verify", !.task = "hook", !.event = e, !.ref = e.ref,
                                !.at = i, !.row = intents[i]]
<1>2. e.ref \in DOMAIN gateway /\ e \in Events(e.ref) /\ Become(w, next)
  BY <1>1 DEF HookTakes
<1>3. e.ref \in Refs
  BY <1>2, BoundsAssumption DEF IInv, TypeOK, Refs
<1>4. e \in AllEvents
  BY <1>2, <1>3 DEF Events, AllEvents, Kinds
<1>5. i \in Intents /\ i \in Nat
  <2>1. gateway[e.ref] \in Refunds
    BY <1>2 DEF IInv, TypeOK
  <2> QED
    BY <2>1, NIntentsAssumption DEF Refunds, Intents
<1>6. intents[i] \in Rows /\ RowOK(gateway, i, intents[i])
  BY <1>5 DEF IInv, TypeOK
<1> HIDE DEF i
<1>7. /\ next \in Works /\ next.pc = "verify" /\ next.ref = e.ref /\ next.at = i
      /\ next.row = intents[i] /\ next.refs = {}
  <2>1. Idle \in Works /\ Idle.refs = {} /\ "hook" \in Tasks
    BY IdleIsOK DEF Idle, Tasks
  <2> QED
    BY <1>3, <1>4, <1>5, <1>6, <2>1 DEF Works
<1> HIDE DEF next
<1>8. RecOK(gateway, next)
  BY <1>2, <1>5, <1>6, <1>7 DEF RecOK, i
<1> QED
  BY <1>1, <1>2, <1>7, <1>8, CountersStay, QuietStep DEF HookTakes

LEMMA HookVerifyStep ==
  ASSUME IInv, NEW w \in Workers, HookVerify(w)
  PROVE  IInv'
<1>1. /\ worker[w] \in Works /\ RecOK(gateway, worker[w]) /\ worker[w].pc = "verify"
  BY WorkerIsOK DEF HookVerify, At
<1>2. PICK pc \in {"note", "money", "fail"} :
        /\ Goto(w, pc)
        /\ pc = "money" => gateway[worker[w].ref].status = "processed"
  BY DEF HookVerify
<1> DEFINE next == [worker[w] EXCEPT !.pc = pc]
<1>3. /\ next \in Works /\ next.pc = pc /\ next.ref = worker[w].ref /\ next.at = worker[w].at
      /\ next.row = worker[w].row /\ next.refs = worker[w].refs
  BY <1>1 DEF Works
<1>4. Become(w, next)
  BY <1>2 DEF Goto
<1> HIDE DEF next
<1>5. RecOK(gateway, next)
  BY <1>1, <1>2, <1>3 DEF RecOK, Paid
<1> QED
  BY <1>3, <1>4, <1>5, CountersStay, QuietStep DEF HookVerify

LEMMA SliceIsTyped ==
  ASSUME IInv, NEW w \in Workers, worker[w].ref \in DOMAIN gateway
  PROVE  SliceAmount(worker[w]) \in Nat /\ SliceKey(worker[w]) \in Keys
<1>1. worker[w].row \in Rows /\ gateway[worker[w].ref].amount \in Nat
  <2>1. gateway[worker[w].ref] \in Refunds
    BY DEF IInv, TypeOK
  <2> QED
    BY <2>1 DEF IInv, TypeOK, Works, Refunds
<1>2. /\ worker[w].row.pending \in Slices /\ worker[w].row.last \in Slices
      /\ NoKey \in Keys
  BY <1>1 DEF Rows, NoKey, Keys, Tasks
<1>3. /\ worker[w].row.pending.amount \in Nat /\ worker[w].row.pending.key \in Keys
      /\ worker[w].row.last.amount \in Nat /\ worker[w].row.last.key \in Keys
  BY <1>2 DEF Slices
<1>4. SliceAmount(worker[w]) \in {worker[w].row.pending.amount, worker[w].row.last.amount,
                                  gateway[worker[w].ref].amount, 0}
  BY DEF SliceAmount
<1>5. SliceKey(worker[w]) \in {worker[w].row.pending.key, worker[w].row.last.key, NoKey}
  BY DEF SliceKey
<1> QED
  BY <1>1, <1>2, <1>3, <1>4, <1>5

LEMMA HookMoneyStep ==
  ASSUME IInv, NEW w \in Workers, HookMoney(w)
  PROVE  IInv'
<1> DEFINE rec == worker[w]
           amount == SliceAmount(rec)
           key == SliceKey(rec)
           counted == IF AlreadyFinalized(rec.row, rec.ref, key) THEN amount
                      ELSE Applied(rec.at, rec.row, rec.ref, amount, key)
           pc == IF counted = 0 THEN "mark" ELSE "artifacts"
           next == [rec EXCEPT !.pc = pc, !.amount = counted, !.row = NewRow]
<1>1. rec \in Works /\ RecOK(gateway, rec) /\ rec.pc = "money"
  BY WorkerIsOK DEF HookMoney, At
<1>2. /\ rec.at \in Intents /\ rec.row \in Rows /\ RowOK(gateway, rec.at, rec.row)
      /\ rec.ref \in Refs /\ rec.ref \in DOMAIN gateway /\ gateway[rec.ref].intent = rec.at
      /\ Paid(gateway, rec.ref) /\ \A r \in rec.refs : Paid(gateway, r)
  BY <1>1 DEF RecOK, Works
<1>3. amount \in Nat /\ key \in Keys
  BY <1>2, SliceIsTyped
<1>4. /\ ApplyIntentRefundMoney(rec.at, rec.row, rec.ref, amount, key)
      /\ Become(w, Idle) \/ Become(w, next)
      /\ UNCHANGED <<gateway, refund>> /\ Counters'
  BY CountersStay DEF HookMoney
<1> HIDE DEF amount, key
<1>5. counted \in Nat
  BY <1>2, <1>3, AppliedFits
<1>6. pc \in {"mark", "artifacts"} /\ NewRow \in Rows
  BY IdleIsOK
<1> HIDE DEF counted, pc
<1>7. /\ next \in Works /\ next.pc = pc /\ next.ref = rec.ref /\ next.at = rec.at
      /\ next.refs = rec.refs
  BY <1>1, <1>5, <1>6 DEF Works
<1> HIDE DEF next
<1>8. RecOK(gateway, next)
  BY <1>2, <1>6, <1>7 DEF RecOK
<1> HIDE DEF rec
<1>9. CASE Become(w, Idle)
  BY <1>2, <1>3, <1>4, <1>9, IdleIsOK, MoneyStep
<1>10. CASE Become(w, next)
  BY <1>2, <1>3, <1>4, <1>7, <1>8, <1>10, MoneyStep
<1> QED
  BY <1>4, <1>9, <1>10

LEMMA HookArtifactsStep ==
  ASSUME IInv, NEW w \in Workers, HookArtifacts(w)
  PROVE  IInv'
<1>1. worker[w] \in Works /\ RecOK(gateway, worker[w]) /\ worker[w].pc = "artifacts"
  BY WorkerIsOK DEF HookArtifacts, At
<1>2. CASE Goto(w, "continue")
  BY <1>2, GotoIsOK, CountersStay, QuietStep DEF HookArtifacts, Goto
<1>3. CASE Goto(w, "book")
  <2> DEFINE next == [worker[w] EXCEPT !.pc = "book"]
  <2>1. /\ next \in Works /\ next.pc = "book" /\ next.ref = worker[w].ref
        /\ next.at = worker[w].at /\ next.refs = worker[w].refs
    BY <1>1 DEF Works
  <2>2. Become(w, next)
    BY <1>3 DEF Goto
  <2> HIDE DEF next
  <2>3. RecOK(gateway, next)
    BY <1>1, <2>1 DEF RecOK
  <2> QED
    BY <2>1, <2>2, <2>3, CountersStay, QuietStep DEF HookArtifacts
<1> QED
  BY <1>2, <1>3 DEF HookArtifacts

LEMMA HookBookStep ==
  ASSUME IInv, NEW w \in Workers, HookBook(w)
  PROVE  IInv'
<1> DEFINE rec == worker[w]
           left == refund.pending - Min2(refund.pending, rec.amount)
           immediate == refund.immediate + rec.amount
           ready == IF left = 0 THEN 0 ELSE refund.ready
           status == IF left = 0 THEN "REFUND_COMPLETED" ELSE "REFUND_PROCESSING"
           finalized == refund.finalized \union {rec.ref}
<1>1. rec \in Works /\ RecOK(gateway, rec) /\ rec.pc = "book" /\ refund \in JobRefunds
  BY WorkerIsOK DEF HookBook, At, IInv, TypeOK
<1>2. left \in Nat /\ immediate \in Nat /\ ready \in Nat /\ finalized \subseteq Refs
  BY <1>1, SMTT(20) DEF Works, JobRefunds, Min2
<1>3. \A r \in finalized : Paid(gateway, r)
  BY <1>1 DEF RecOK, IInv
<1>4. status \in {"REFUND_COMPLETED", "REFUND_PROCESSING"}
  OBVIOUS
<1>5. refund' = [status |-> status, immediate |-> immediate, pending |-> left,
                 ready |-> ready, finalized |-> finalized]
  BY DEF HookBook
<1>6. Goto(w, "continue") /\ UNCHANGED <<intents, gateway>> /\ Counters'
  BY CountersStay DEF HookBook
<1> HIDE DEF left, immediate, ready, status, finalized
<1>7. refund' \in JobRefunds /\ refund'.finalized = finalized
  BY <1>2, <1>4, <1>5 DEF JobRefunds
<1> QED
  BY <1>3, <1>6, <1>7, GotoIsOK, RefundStep DEF Goto

LEMMA HookContinueStep ==
  ASSUME IInv, NEW w \in Workers, HookContinue(w)
  PROVE  IInv'
<1>1. CASE Goto(w, "mark")
  BY <1>1, GotoIsOK, CountersStay, QuietStep DEF HookContinue, Goto
<1>2. CASE \E left \in 1..refund.pending :
             /\ left = Min2(refund.pending, PolicyRefundable)
             /\ Become(w, Asking(worker[w], "continue", left))
  <2>1. PICK left \in 1..refund.pending : Become(w, Asking(worker[w], "continue", left))
    BY <1>2
  <2>2. left \in Nat /\ "continue" \in Tasks
    BY DEF IInv, TypeOK, JobRefunds, Tasks
  <2>3. /\ Asking(worker[w], "continue", left) \in Works
        /\ RecOK(gateway, Asking(worker[w], "continue", left))
    BY <2>2, WorkerIsOK, AskingIsOK
  <2> QED
    BY <2>1, <2>3, CountersStay, QuietStep DEF HookContinue
<1> QED
  BY <1>1, <1>2 DEF HookContinue

\* The status of the job's refund alone.
LEMMA StatusIsTyped ==
  ASSUME IInv, NEW status \in {"REFUND_PROCESSING", "REFUND_FAILED"}
  PROVE  /\ [refund EXCEPT !.status = status] \in JobRefunds
         /\ \A r \in [refund EXCEPT !.status = status].finalized : Paid(gateway, r)
<1>1. /\ [refund EXCEPT !.status = status] \in JobRefunds
      /\ [refund EXCEPT !.status = status].finalized = refund.finalized
  BY DEF IInv, TypeOK, JobRefunds
<1> QED
  BY <1>1 DEF IInv

LEMMA ContinueAnsweredStep ==
  ASSUME IInv, NEW w \in Workers, ContinueAnswered(w)
  PROVE  IInv'
<1>1. UNCHANGED <<intents, gateway>> /\ Counters'
  BY CountersStay DEF ContinueAnswered
<1>2. \/ UNCHANGED refund
      \/ refund' = [refund EXCEPT !.status = "REFUND_PROCESSING"]
  BY DEF ContinueAnswered
<1>3. refund' \in JobRefunds /\ \A r \in refund'.finalized : Paid(gateway, r)
  BY <1>2, StatusIsTyped DEF IInv, TypeOK
<1>4. Become(w, Idle) \/ Become(w, [worker[w] EXCEPT !.pc = "mark"])
  BY DEF ContinueAnswered, Goto
<1> QED
  BY <1>1, <1>3, <1>4, IdleIsOK, GotoIsOK, RefundStep

\* A worker done with its row, on its way out.
LEMMA LeavingIsOK ==
  ASSUME IInv, NEW w \in Workers, NEW pc \in {"mark", "failed"}
  PROVE  /\ [worker[w] EXCEPT !.pc = pc, !.row = NewRow] \in Works
         /\ RecOK(gateway, [worker[w] EXCEPT !.pc = pc, !.row = NewRow])
<1> DEFINE next == [worker[w] EXCEPT !.pc = pc, !.row = NewRow]
<1>1. worker[w] \in Works /\ NewRow \in Rows /\ \A r \in worker[w].refs : Paid(gateway, r)
  BY WorkerIsOK, IdleIsOK
<1>2. next \in Works /\ next.pc = pc /\ next.refs = worker[w].refs
  BY <1>1 DEF Works
<1> HIDE DEF next
<1>3. RecOK(gateway, next)
  BY <1>1, <1>2 DEF RecOK
<1> QED
  BY <1>2, <1>3 DEF next

LEMMA HookFailStep ==
  ASSUME IInv, NEW w \in Workers, HookFail(w)
  PROVE  IInv'
<1> DEFINE rec == worker[w]
           row == [rec.row EXCEPT !.attempt = rec.ref, !.pending = NoSlice]
<1>1. rec \in Works /\ RecOK(gateway, rec) /\ rec.pc = "fail"
  BY WorkerIsOK DEF HookFail, At
<1>2. /\ rec.at \in Intents /\ rec.row \in Rows /\ RowOK(gateway, rec.at, rec.row)
      /\ rec.ref \in Refs /\ NoSlice \in Slices
  BY <1>1, BoundsAssumption DEF RecOK, Works, NoSlice, Slices, NoKey, Keys, Tasks, None, Refs
<1>3. UNCHANGED <<gateway, refund>> /\ Counters'
  BY CountersStay DEF HookFail
<1>4. CASE UNCHANGED intents /\ Become(w, [rec EXCEPT !.pc = "mark", !.row = NewRow])
  BY <1>3, <1>4, LeavingIsOK, QuietStep
<1>5. CASE /\ PersistPayload(rec.at, row)
           /\ Become(w, [rec EXCEPT !.pc = "failed", !.row = NewRow])
  <2>1. /\ row \in Rows /\ row.refunded = rec.row.refunded
        /\ row.finalized = rec.row.finalized /\ row.pending.ref = None
    BY <1>2 DEF Rows, NoSlice
  <2>2. RowOK(gateway, rec.at, row)
    BY <1>2, <2>1 DEF RowOK
  <2> HIDE DEF row
  <2> QED
    BY <1>2, <1>3, <1>5, <2>1, <2>2, LeavingIsOK, PersistedRow, RowStep DEF PersistPayload
<1> QED
  BY <1>4, <1>5 DEF HookFail

LEMMA HookFailedStep ==
  ASSUME IInv, NEW w \in Workers, HookFailed(w)
  PROVE  IInv'
<1>1. UNCHANGED <<intents, gateway>> /\ Counters'
  BY CountersStay DEF HookFailed
<1>2. refund' \in JobRefunds /\ \A r \in refund'.finalized : Paid(gateway, r)
  BY StatusIsTyped DEF HookFailed
<1> QED
  BY <1>1, <1>2, GotoIsOK, RefundStep DEF HookFailed, Goto

LEMMA HookNoteStep ==
  ASSUME IInv, NEW w \in Workers, HookNote(w)
  PROVE  IInv'
<1> DEFINE rec == worker[w]
<1>1. rec \in Works /\ RecOK(gateway, rec) /\ rec.pc = "note"
  BY WorkerIsOK DEF HookNote, At
<1>2. rec.at \in Intents /\ rec.row \in Rows /\ RowOK(gateway, rec.at, rec.row)
  BY <1>1 DEF RecOK, Works
<1>3. UNCHANGED <<gateway, refund>> /\ Counters'
  BY CountersStay DEF HookNote
<1>4. Become(w, [rec EXCEPT !.pc = "mark", !.row = NewRow])
  BY DEF HookNote
<1>5. CASE UNCHANGED intents
  BY <1>3, <1>4, <1>5, LeavingIsOK, QuietStep
<1>6. CASE PersistPayload(rec.at, rec.row)
  BY <1>2, <1>3, <1>4, <1>6, LeavingIsOK, PersistedRow, RowStep DEF PersistPayload
<1> QED
  BY <1>5, <1>6 DEF HookNote

LEMMA HookMarkStep ==
  ASSUME IInv, NEW w \in Workers, HookMark(w)
  PROVE  IInv'
<1>1. Idle \in Works /\ RecOK(gateway, Idle) /\ Become(w, Idle)
  BY IdleIsOK DEF HookMark
<1>2. worker[w].event \in AllEvents
  BY WorkerIsOK DEF Works
<1>3. Counters'
  BY <1>2 DEF HookMark, IInv, TypeOK, Counters
<1> QED
  BY <1>1, <1>3, QuietStep DEF HookMark

LEMMA CrashStep ==
  ASSUME IInv, NEW w \in Workers, Crash(w)
  PROVE  IInv'
<1>1. Counters'
  BY BoundsAssumption DEF Crash, IInv, TypeOK, Counters
<1> QED
  BY <1>1, IdleIsOK, QuietStep DEF Crash

LEMMA GatewaySettlesStep ==
  ASSUME IInv, GatewaySettles
  PROVE  IInv'
<1>1. PICK r \in DOMAIN gateway, status \in {"processed", "failed"} :
        gateway[r].status = "pending" /\ gateway' = [gateway EXCEPT ![r].status = status]
  BY DEF GatewaySettles
<1>2. gateway \in Seq(Refunds) /\ gateway[r] \in Refunds
  BY DEF IInv, TypeOK
<1> DEFINE settled == [gateway[r] EXCEPT !.status = status]
<1>3. settled \in Refunds /\ settled.intent = gateway[r].intent
  BY <1>2 DEF Refunds
<1>4. gateway' = [gateway EXCEPT ![r] = settled]
  BY <1>1
<1> HIDE DEF settled
<1>5. gateway' \in Seq(Refunds) /\ Len(gateway') = Len(gateway)
  BY <1>2, <1>3, <1>4
<1>6. /\ DOMAIN gateway' = DOMAIN gateway
      /\ gateway'[r] = settled
      /\ \A q \in DOMAIN gateway : q # r => gateway'[q] = gateway[q]
  BY <1>2, <1>4
<1>7. Grows(gateway, gateway')
  BY <1>1, <1>3, <1>6 DEF Grows
<1>8. UNCHANGED <<intents, refund, decided, owed, repaid, handled, worker, faults>>
  BY DEF GatewaySettles
<1>9. TypeOK'
  BY <1>5, <1>8 DEF IInv, TypeOK
<1>10. \A i \in Intents : RowOK(gateway', i, intents[i])
  BY <1>7, RowGrows DEF IInv
<1>11. \A q \in refund.finalized : Paid(gateway', q)
  BY <1>7 DEF IInv, Grows, Paid
<1>12. \A w \in Workers : RecOK(gateway', worker[w])
  BY <1>7, RecGrows DEF IInv
<1> QED
  BY <1>8, <1>9, <1>10, <1>11, <1>12 DEF IInv

----------------------------------------------------------------------------
(* The theorems. *)

LEMMA InitInvariant == Init => IInv
<1> SUFFICES ASSUME Init PROVE IInv
  OBVIOUS
<1>1. NewRow \in Rows /\ Idle \in Works
  BY IdleIsOK
<1>2. /\ intents \in [Intents -> Rows]
      /\ worker \in [Workers -> Works]
  BY <1>1 DEF Init
<1>3. gateway \in Seq(Refunds) /\ Len(gateway) <= MaxRefunds
  BY BoundsAssumption DEF Init
<1>4. refund \in JobRefunds /\ refund.finalized = {}
  BY DEF Init, JobRefunds
<1>5. /\ decided \in 0..Len(Decisions) /\ owed \in Nat /\ repaid \in Seq(Repayments)
      /\ handled \subseteq AllEvents /\ faults \in 0..MaxFaults
  BY DecisionIsTyped, BoundsAssumption DEF Init
<1>6. \A i \in Intents : RowOK(gateway, i, intents[i])
  BY CeilingAssumption DEF Init, RowOK, NewRow
<1>7. \A w \in Workers : RecOK(gateway, worker[w])
  BY IdleIsOK DEF Init
<1> QED
  BY <1>2, <1>3, <1>4, <1>5, <1>6, <1>7 DEF IInv, TypeOK

LEMMA NextInvariant == IInv /\ [Next]_vars => IInv'
<1> SUFFICES ASSUME IInv, [Next]_vars PROVE IInv'
  OBVIOUS
<1>1. CASE UNCHANGED vars
  BY <1>1 DEF vars, IInv, TypeOK
<1>2. CASE GatewaySettles
  BY <1>2, GatewaySettlesStep
<1>3. ASSUME NEW w \in Workers, Begin(w) PROVE IInv'
  BY <1>3, ResolveBeginStep, ConfirmRepaymentStep, PayoutAgainStep, ReleaseRecoversStep,
     HookBeginStep DEF Begin
<1>4. ASSUME NEW w \in Workers, Continue(w) PROVE IInv'
  BY <1>4, ReadIntentStep, AskGatewayStep, AskRefusedStep, SaveAnswerStep,
     ResolveAnsweredStep, RecordDecisionStep, PayoutCheckStep, PayoutRequestStep,
     PayoutAnsweredStep, StagedRequestStep, StagedAnsweredStep, HookVerifyStep, HookMoneyStep, HookArtifactsStep, HookBookStep,
     HookContinueStep, ContinueAnsweredStep, HookFailStep, HookFailedStep, HookNoteStep,
     HookMarkStep DEF Continue
<1>5. ASSUME NEW w \in Workers, Crash(w) PROVE IInv'
  BY <1>5, CrashStep
<1> QED
  BY <1>1, <1>2, <1>3, <1>4, <1>5 DEF Next

\* The inductive invariant: the rows in the workers' hands included.
THEOREM Invariant == Spec => []IInv
  BY InitInvariant, NextInvariant, PTL DEF Spec

\* The records of requests, webhooks, intents and gateway keep their types.
THEOREM TypeCorrect == Spec => []TypeOK
<1>1. IInv => TypeOK
  BY DEF IInv
<1> QED
  BY <1>1, Invariant, PTL

\* However refund requests and webhooks overlap, an intent never counts more as
\* refunded than its ceiling.
THEOREM NeverAboveCeiling == Spec => []RefundedWithinCeiling
<1>1. IInv => RefundedWithinCeiling
  BY DEF IInv, RowOK, RefundedWithinCeiling
<1> QED
  BY <1>1, Invariant, PTL

\* What is finalized on an intent or on the job, the gateway has paid, from that
\* intent.
THEOREM FinalizedIsPaid == Spec => []FinalizedWasProcessed
<1>1. IInv => FinalizedWasProcessed
  BY DEF IInv, RowOK, FinalizedWasProcessed, Paid, Processed
<1> QED
  BY <1>1, Invariant, PTL

\* No intent waits for a refund that it counts already, however requests and events
\* write back the rows they read.
THEOREM NotPendingAndCounted == Spec => []PendingNotCounted
<1>1. IInv => PendingNotCounted
  BY DEF IInv, RowOK, PendingNotCounted
<1> QED
  BY <1>1, Invariant, PTL

=============================================================================
