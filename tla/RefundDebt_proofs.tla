-------------------------- MODULE RefundDebt_proofs --------------------------
(***************************************************************************)
(* Whatever the requests' interleaving, the order of the gateway's reports  *)
(* and the number of restarts of an attempt under a new reference: a        *)
(* gateway repayment takes debt off only if it was charged, an attempt that *)
(* was given up never counts as paid, no debt is recovered beyond what it   *)
(* was, and what leaves the ledger was taken from the provider.             *)
(*                                                                          *)
(* A reference belongs to one repayment for ever (of), and what the gateway *)
(* charged on it is final.  A request that will confirm has seen a paid     *)
(* intent, and the intent may since have started over: what survives is     *)
(* the charge, so that is what the invariant says of it (CapturedFor).      *)
(* The shapes below leave out the amounts: what is charged does not depend  *)
(* on them.  The types, which follow in the second part, need the sums of   *)
(* SumLemmas; the third part is about what confirmations write over.        *)
(***************************************************************************)
EXTENDS RefundDebt, SumLemmas, SequenceTheorems, TLAPS

States == {"ABSENT", "PENDING", "PAID", "FAILED", "CANCELLED"}
ReviewStates == {"ABSENT", "SUBMITTED", "CONFIRMED", "REJECTED"}

IsIntent(i) ==
  i \in [state: States, ref: 0..MaxRefs, amount: {i.amount}, gateway: {i.gateway},
         abandoned: BOOLEAN, late: {i.late}]
IsRepayment(p) ==
  p \in [status: ReviewStates, method: {p.method}, job: {p.job}, amount: {p.amount}]
IsCheckout(c) ==
  c \in [of: 0..NRepayments, asked: {c.asked}, told: SUBSET {"PAID", "FAILED"}, charged: {c.charged}]
IsRequest(q) ==
  /\ q \in [pc: {q.pc}, r: 0..NRepayments, job: {q.job}, amount: {q.amount},
            intent: {q.intent}, rows: {q.rows}, debts: {q.debts}, claims: {q.claims}]
  /\ IsIntent(q.intent)

Shapes ==
  /\ minted \in 0..MaxRefs
  /\ repayments = [r \in Repayments |-> repayments[r]]
  /\ intents = [r \in Repayments |-> intents[r]]
  /\ checkouts = [ref \in Refs |-> checkouts[ref]]
  /\ worker = [w \in Workers |-> worker[w]]
  /\ \A r \in Repayments : IsRepayment(repayments[r]) /\ IsIntent(intents[r])
  /\ \A ref \in Refs : IsCheckout(checkouts[ref])
  /\ \A w \in Workers : IsRequest(worker[w])

\* The gateway charged an amount on a reference of repayment r.
Charged(ref, r, amount) ==
  /\ ref \in Refs
  /\ checkouts[ref].of = r
  /\ "PAID" \in checkouts[ref].told
  /\ checkouts[ref].charged = amount

CapturedFor(r) == \E ref \in Refs : Charged(ref, r, repayments[r].amount)
Captured(r) ==
  /\ repayments[r].status # "ABSENT"
  /\ repayments[r].method = "GATEWAY" => CapturedFor(r)

RefOf(r, ref) == ref # None => ref <= minted /\ checkouts[ref].of = r

IntentInv(r) ==
  /\ RefOf(r, intents[r].ref)
  /\ intents[r].state = "PAID" => Charged(intents[r].ref, r, intents[r].amount)
  /\ intents[r].abandoned => intents[r].state # "PAID"

Confirming == {"confirm", "take", "mirror"}

RequestInv(w) ==
  /\ worker[w].pc \in {"continue", "abandon"} =>
       /\ worker[w].r \in Repayments
       /\ RefOf(worker[w].r, worker[w].intent.ref)
  /\ worker[w].pc \in Confirming => worker[w].r \in Repayments /\ Captured(worker[w].r)

IInv ==
  /\ Shapes
  /\ \A ref \in Refs : ref > minted => checkouts[ref].told = {}
  /\ \A r \in Repayments : IntentInv(r)
  /\ \A w \in Workers : RequestInv(w)
  /\ \A d \in debits : d.by \in Repayments /\ Captured(d.by)

----------------------------------------------------------------------------
(* The initial state, and steps that leave the payments alone. *)

LEMMA InitInv == Init => IInv
<1> SUFFICES ASSUME Init PROVE IInv OBVIOUS
<1>1. IsIntent(NoIntent) /\ IsRepayment(NoRepayment) /\ IsCheckout(NoCheckout) /\ IsRequest(Idle)
  BY BoundsAssumption
  DEF IsIntent, IsRepayment, IsCheckout, IsRequest, NoIntent, NoRepayment, NoCheckout, Idle, Request, States,
      ReviewStates, None
<1>2. Shapes
  BY <1>1, BoundsAssumption DEF Init, Shapes
<1>3. \A r \in Repayments : IntentInv(r)
  BY DEF Init, IntentInv, RefOf, NoIntent, None
<1>4. \A w \in Workers : RequestInv(w)
  BY DEF Init, RequestInv, Idle, Request, Confirming
<1>5. \A ref \in Refs : checkouts[ref].told = {}
  BY DEF Init, NoCheckout
<1> QED
  BY <1>2, <1>3, <1>4, <1>5 DEF IInv, Init

\* A request reads, or ends: its record is all that changes.
LEMMA RequestMoves ==
  ASSUME IInv, NEW w \in Workers, NEW rec,
         Become(w, rec), UNCHANGED <<payments, debits>>,
         IsRequest(rec),
         rec.pc \in {"continue", "abandon"} => rec.r \in Repayments /\ RefOf(rec.r, rec.intent.ref),
         rec.pc \in Confirming => rec.r \in Repayments /\ Captured(rec.r)
  PROVE  IInv'
<1> USE DEF payments
<1>1. \A v \in Workers : worker'[v] = IF v = w THEN rec ELSE worker[v]
  BY DEF IInv, Shapes, Become
<1>2. worker' = [v \in Workers |-> worker'[v]]
  BY DEF IInv, Shapes, Become
<1>3. Shapes'
  BY <1>1, <1>2 DEF IInv, Shapes
<1>4. \A r, ref : /\ RefOf(r, ref)' <=> RefOf(r, ref)
                  /\ Captured(r)' <=> Captured(r)
  BY DEF RefOf, Captured, CapturedFor, Charged
<1>5. \A r \in Repayments : IntentInv(r)'
  BY DEF IInv, IntentInv, RefOf, Charged
<1>6. \A v \in Workers : RequestInv(v)'
  BY <1>1, <1>4 DEF IInv, RequestInv
<1> QED
  BY <1>3, <1>4, <1>5, <1>6 DEF IInv

\* Nothing of a payment or a request changes.
LEMMA Elsewhere ==
  ASSUME IInv, UNCHANGED <<payments, debits, worker>>
  PROVE  IInv'
  BY DEF IInv, Shapes, IntentInv, RequestInv, RefOf, Captured, CapturedFor, Charged, payments

----------------------------------------------------------------------------
(* What every step keeps of the payments. *)

Kept ==
  /\ minted \in 0..MaxRefs /\ minted' \in 0..MaxRefs /\ minted <= minted'
  /\ \A ref \in Refs :
       /\ ref <= minted => checkouts'[ref].of = checkouts[ref].of
       /\ "PAID" \in checkouts[ref].told =>
            /\ checkouts'[ref].of = checkouts[ref].of
            /\ "PAID" \in checkouts'[ref].told
            /\ checkouts'[ref].charged = checkouts[ref].charged
  /\ \A r \in Repayments :
       repayments[r].status # "ABSENT" =>
         /\ repayments'[r].status # "ABSENT"
         /\ repayments'[r].method = repayments[r].method
         /\ repayments'[r].amount = repayments[r].amount

LEMMA ChargedStays ==
  ASSUME Kept, NEW ref, NEW r, NEW amount, Charged(ref, r, amount)
  PROVE  Charged(ref, r, amount)'
  BY DEF Kept, Charged

LEMMA CapturedStays ==
  ASSUME Kept, NEW r \in Repayments, Captured(r)
  PROVE  Captured(r)'
<1>1. ASSUME repayments'[r].method = "GATEWAY" PROVE CapturedFor(r)'
  <2>1. repayments[r].method = "GATEWAY" /\ repayments'[r].amount = repayments[r].amount
    BY <1>1 DEF Kept, Captured
  <2>2. PICK ref \in Refs : Charged(ref, r, repayments[r].amount)
    BY <2>1 DEF Captured, CapturedFor
  <2>3. Charged(ref, r, repayments[r].amount)'
    BY <2>1, <2>2 DEF Kept, Charged
  <2> QED
    BY <2>3 DEF CapturedFor
<1> QED
  BY <1>1 DEF Captured, Kept

LEMMA RefOfStays ==
  ASSUME Kept, NEW r, NEW ref \in 0..MaxRefs, RefOf(r, ref)
  PROVE  RefOf(r, ref)'
  BY BoundsAssumption DEF Kept, RefOf, Refs, None

\* A request whose record stays as it was may go on.
LEMMA RequestStays ==
  ASSUME Kept, NEW w \in Workers, IsRequest(worker[w]), RequestInv(w), worker'[w] = worker[w]
  PROVE  RequestInv(w)'
<1>1. worker[w].intent.ref \in 0..MaxRefs
  BY DEF IsRequest, IsIntent
<1>2. worker[w].pc \in {"continue", "abandon"} => RefOf(worker[w].r, worker[w].intent.ref)'
  BY <1>1, RefOfStays DEF RequestInv
<1>3. worker[w].pc \in Confirming => worker[w].r \in Repayments /\ Captured(worker[w].r)'
  BY CapturedStays DEF RequestInv
<1> QED
  BY <1>2, <1>3 DEF RequestInv

\* An intent that stays as it was is still right.
LEMMA IntentStays ==
  ASSUME Kept, NEW r \in Repayments, IsIntent(intents[r]), IntentInv(r), intents'[r] = intents[r]
  PROVE  IntentInv(r)'
<1>1. intents[r].ref \in 0..MaxRefs
  BY DEF IsIntent
<1>2. RefOf(r, intents[r].ref)'
  BY <1>1, RefOfStays DEF IntentInv
<1>3. intents[r].state = "PAID" => Charged(intents[r].ref, r, intents[r].amount)'
  BY ChargedStays DEF IntentInv
<1> QED
  BY <1>2, <1>3 DEF IntentInv, Charged, RefOf

\* A step of the payments that ends a request, or that no request takes.
LEMMA PaymentsMove ==
  ASSUME IInv, Kept, Shapes',
         \A ref \in Refs : ref > minted' => checkouts'[ref].told = {},
         \A r \in Repayments : intents'[r] = intents[r] \/ IntentInv(r)',
         \A w \in Workers : worker'[w] = worker[w] \/ worker'[w].pc \in {"idle", "clear"},
         \A d \in debits' : d \in debits \/ (d.by \in Repayments /\ Captured(d.by)')
  PROVE  IInv'
<1>1. \A r \in Repayments : IntentInv(r)'
  BY IntentStays DEF IInv, Shapes
<1>2. \A w \in Workers : RequestInv(w)'
  <2> SUFFICES ASSUME NEW w \in Workers PROVE RequestInv(w)'
    OBVIOUS
  <2>1. CASE worker'[w] = worker[w]
    BY <2>1, RequestStays DEF IInv, Shapes
  <2>2. CASE worker'[w].pc \in {"idle", "clear"}
    BY <2>2 DEF RequestInv, Confirming
  <2> QED
    BY <2>1, <2>2
<1>3. \A d \in debits' : d.by \in Repayments /\ Captured(d.by)'
  BY CapturedStays DEF IInv
<1> QED
  BY <1>1, <1>2, <1>3 DEF IInv

\* What ending a request leaves of the requests.
LEMMA Ends ==
  ASSUME Shapes, NEW w \in Workers, NEW rec, Become(w, rec), IsRequest(rec)
  PROVE  /\ worker' = [v \in Workers |-> worker'[v]]
         /\ \A v \in Workers : worker'[v] = IF v = w THEN rec ELSE worker[v]
         /\ \A v \in Workers : IsRequest(worker'[v])
  BY DEF Shapes, Become

LEMMA IdleIsRequest == IsRequest(Idle) /\ Idle.pc = "idle" /\ IsIntent(NoIntent)
  BY BoundsAssumption DEF IsRequest, IsIntent, Idle, Request, NoIntent, States, None

\* The record a request starts from is filled in.
LEMMA FilledIn ==
  ASSUME NEW pc, NEW r \in 0..NRepayments, NEW job, NEW amount, NEW i, IsIntent(i), NEW rows
  PROVE  /\ IsRequest(Request(pc, r, job, amount, i, rows))
         /\ Request(pc, r, job, amount, i, rows).pc = pc
         /\ Request(pc, r, job, amount, i, rows).r = r
         /\ Request(pc, r, job, amount, i, rows).intent = i
<1> DEFINE q == Request(pc, r, job, amount, i, rows)
<1>1. /\ q \in [pc: {pc}, r: 0..NRepayments, job: {job}, amount: {amount}, intent: {i}, rows: {rows},
               debts: {<< >>}, claims: {<< >>}]
      /\ q.debts = << >> /\ q.claims = << >>
      /\ q.pc = pc /\ q.r = r /\ q.job = job /\ q.amount = amount /\ q.intent = i /\ q.rows = rows
  BY DEF Request
<1> HIDE DEF q
<1>2. IsRequest(q)
  BY <1>1 DEF IsRequest
<1> QED
  BY <1>1, <1>2 DEF q

LEMMA NoneIsInRange == None \in 0..NRepayments
  BY BoundsAssumption DEF None

\* A step that notes what it read and has not looked at a repayment.
LEMMA NotesInv ==
  ASSUME IInv, NEW w \in Workers, NEW pc, pc \notin {"continue", "abandon"} \union Confirming,
         NEW job, NEW amount, NEW rows, NEW r \in 0..NRepayments,
         Become(w, Request(pc, r, job, amount, NoIntent, rows)),
         UNCHANGED <<payments, debits>>
  PROVE  IInv'
<1> DEFINE q == Request(pc, r, job, amount, NoIntent, rows)
<1>1. IsRequest(q) /\ q.pc = pc
  BY FilledIn, IdleIsRequest
<1> HIDE DEF q
<1>2. Become(w, q)
  BY DEF q
<1> QED
  BY <1>1, <1>2, RequestMoves

LEMMA EndsInv ==
  ASSUME IInv, NEW w \in Workers, Leave(w), UNCHANGED <<payments, debits>>
  PROVE  IInv'
  BY RequestMoves, IdleIsRequest DEF Leave, Confirming

\* A request goes on to a step that uses nothing it read of a repayment.
LEMMA GoesOnInv ==
  ASSUME IInv, NEW w \in Workers, NEW pc, pc \notin {"continue", "abandon"} \union Confirming,
         Goto(w, pc), UNCHANGED <<payments, debits>>
  PROVE  IInv'
<1> DEFINE old == worker[w]
           new == [old EXCEPT !.pc = pc]
<1>1. IsRequest(old)
  BY DEF IInv, Shapes
<1>2. Become(w, new)
  BY DEF Goto
<1>3. /\ new \in [pc: {pc}, r: 0..NRepayments, job: {old.job}, amount: {old.amount},
                  intent: {old.intent}, rows: {old.rows}, debts: {old.debts}, claims: {old.claims}]
      /\ new.pc = pc
  BY <1>1 DEF IsRequest
<1>4. IsIntent(old.intent)
  BY <1>1 DEF IsRequest
<1> HIDE DEF new, old
<1>5. IsRequest(new)
  BY <1>3, <1>4 DEF IsRequest
<1> QED
  BY <1>2, <1>3, <1>5, RequestMoves

----------------------------------------------------------------------------
(* The gateway and its reports. *)

LEMMA DecidesInv ==
  ASSUME IInv, NEW ref \in Refs, NEW s \in {"PAID", "FAILED"}, NEW amount, GatewayDecides(ref, s, amount)
  PROVE  IInv'
<1>1. \A t \in Refs :
        checkouts'[t] = IF t = ref THEN [checkouts[ref] EXCEPT !.told = @ \union {s},
                                                              !.charged = IF s = "PAID" THEN amount ELSE @]
                        ELSE checkouts[t]
  BY DEF IInv, Shapes, GatewayDecides
<1>2. \A t \in Refs : IsCheckout(checkouts'[t])
  <2> DEFINE c == checkouts[ref]
             told == c.told \union {s}
             charged == IF s = "PAID" THEN amount ELSE c.charged
  <2>1. IsCheckout(c)
    BY DEF IInv, Shapes
  <2>2. checkouts'[ref] = [of |-> c.of, asked |-> c.asked, told |-> told, charged |-> charged]
    BY <1>1, <2>1 DEF IsCheckout
  <2>3. IsCheckout(checkouts'[ref])
    <3>1. told \in SUBSET {"PAID", "FAILED"} /\ c.of \in 0..NRepayments
      BY <2>1 DEF IsCheckout
    <3> HIDE DEF told, charged, c
    <3> QED
      BY <2>2, <3>1 DEF IsCheckout
  <2> QED
    BY <1>1, <2>3 DEF IInv, Shapes
<1>3. Shapes'
  BY <1>2 DEF IInv, Shapes, GatewayDecides
<1>4. Kept
  BY <1>1 DEF IInv, Shapes, IsCheckout, GatewayDecides, Kept
<1>5. \A t \in Refs : t > minted' => checkouts'[t].told = {}
  BY <1>1 DEF IInv, Shapes, GatewayDecides, Refs
<1> QED
  BY <1>3, <1>4, <1>5, PaymentsMove DEF GatewayDecides, debt

\* What a report makes of an intent that is right is right.
LEMMA ReportInv ==
  ASSUME IInv, NEW ref \in Refs, NEW s \in {"PAID", "FAILED"}, s \in checkouts[ref].told,
         Report(ref, s), UNCHANGED <<checkouts, minted>>
  PROVE  /\ intents' = [r \in Repayments |-> intents'[r]]
         /\ \A r \in Repayments : IsIntent(intents'[r])
         /\ \A r \in Repayments : IntentInv(r)'
<1> DEFINE i(r) == intents[r]
<1>1. \A r \in Repayments : intents'[r] = IF r \in Reports(ref) THEN IntentAfter(i(r), ref, s) ELSE i(r)
  BY DEF Report
<1>2. SUFFICES ASSUME NEW r \in Repayments PROVE IsIntent(intents'[r]) /\ IntentInv(r)'
  BY DEF Report
<1>3. IsIntent(i(r)) /\ IntentInv(r)
  BY DEF IInv, Shapes
<1>4. CASE intents'[r] = i(r)
  BY <1>3, <1>4 DEF IntentInv, RefOf, Charged
<1>5. CASE r \in Reports(ref) /\ intents'[r] # i(r)
  <2>1. i(r).ref = ref /\ intents'[r] = IntentAfter(i(r), ref, s)
    BY <1>1, <1>5 DEF Reports
  <2>2. CASE intents'[r] = [i(r) EXCEPT !.late = "required"]
    BY <1>3, <2>2 DEF IsIntent, IntentInv, RefOf, Charged
  <2>3. CASE intents'[r] = [i(r) EXCEPT !.state = "CANCELLED"]
    BY <1>3, <2>3 DEF IsIntent, IntentInv, RefOf, Charged, States
  <2>4. CASE /\ intents'[r] = [i(r) EXCEPT !.state = s]
             /\ ~i(r).abandoned
             /\ s = "PAID" => checkouts[ref].charged = i(r).amount
    BY <1>3, <2>1, <2>4 DEF IsIntent, IntentInv, RefOf, Charged, States, None, Refs
  <2> QED
    BY <1>3, <1>5, <2>1, <2>2, <2>3, <2>4 DEF IntentAfter, IsIntent
<1> QED
  BY <1>1, <1>4, <1>5

LEMMA WebhookInv ==
  ASSUME IInv, NEW ref \in Refs, NEW s \in {"PAID", "FAILED"}, Webhook(ref, s)
  PROVE  IInv'
<1>1. /\ intents' = [r \in Repayments |-> intents'[r]]
      /\ \A r \in Repayments : IsIntent(intents'[r])
      /\ \A r \in Repayments : IntentInv(r)'
  BY ReportInv DEF Webhook
<1>2. Shapes'
  BY <1>1 DEF IInv, Shapes, Webhook
<1>3. Kept
  BY DEF IInv, Shapes, Webhook, Kept
<1> QED
  BY <1>1, <1>2, <1>3, PaymentsMove DEF Webhook, IInv, debt

----------------------------------------------------------------------------
(* Checkouts. *)

\* The rows a new attempt starts with.
LEMMA FreshRows ==
  ASSUME NEW r \in Repayments, NEW ref \in Refs, NEW amount, NEW gateway
  PROVE  /\ IsIntent(NewIntent(ref, amount, gateway))
         /\ NewIntent(ref, amount, gateway).ref = ref
         /\ NewIntent(ref, amount, gateway).state = "PENDING"
         /\ NewIntent(ref, amount, gateway).abandoned = FALSE
         /\ IsCheckout(NewCheckout(r, amount))
         /\ NewCheckout(r, amount).of = r
         /\ NewCheckout(r, amount).told = {}
<1> DEFINE i == NewIntent(ref, amount, gateway)
           c == NewCheckout(r, amount)
<1>1. i = [state |-> "PENDING", ref |-> ref, amount |-> amount, gateway |-> gateway,
           abandoned |-> FALSE, late |-> "none"]
  BY DEF NewIntent
<1>2. c = [of |-> r, asked |-> {amount}, told |-> {}, charged |-> 0]
  BY DEF NewCheckout
<1>3. ref \in 0..MaxRefs /\ r \in 0..NRepayments
  BY BoundsAssumption DEF Refs, Repayments
<1> HIDE DEF i, c
<1>4. IsIntent(i) /\ i.ref = ref /\ i.state = "PENDING" /\ i.abandoned = FALSE
  BY <1>1, <1>3 DEF IsIntent, States
<1>5. IsCheckout(c) /\ c.of = r /\ c.told = {}
  BY <1>2, <1>3 DEF IsCheckout
<1> QED
  BY <1>4, <1>5 DEF i, c

LEMMA CreateInv ==
  ASSUME IInv, NEW w \in Workers, NEW gateway, CheckoutCreate(w, gateway)
  PROVE  IInv'
<1>0. Leave(w) /\ UNCHANGED debits
  BY DEF CheckoutCreate, debt
<1>1. /\ worker' = [v \in Workers |-> worker'[v]]
      /\ \A v \in Workers : worker'[v] = IF v = w THEN Idle ELSE worker[v]
      /\ \A v \in Workers : IsRequest(worker'[v])
  BY <1>0, Ends, IdleIsRequest DEF IInv, Leave
<1>2. CASE UNCHANGED <<repayments, intents, checkouts, minted>>
  <2>1. Shapes'
    BY <1>1, <1>2 DEF IInv, Shapes
  <2>2. Kept
    BY <1>2 DEF IInv, Shapes, Kept
  <2> QED
    BY <1>0, <1>1, <1>2, <2>1, <2>2, PaymentsMove, IdleIsRequest DEF IInv
<1>3. CASE ~UNCHANGED <<repayments, intents, checkouts, minted>>
  <2> DEFINE j == worker[w].job
             amount == worker[w].amount
  <2>1. PICK r \in Absent :
          /\ minted < MaxRefs /\ minted' = minted + 1
          /\ repayments' = [repayments EXCEPT ![r] =
               [status |-> "SUBMITTED", method |-> "GATEWAY", job |-> j, amount |-> amount]]
          /\ intents' = [intents EXCEPT ![r] = NewIntent(minted + 1, amount, gateway)]
          /\ checkouts' = [checkouts EXCEPT ![minted + 1] = NewCheckout(r, amount)]
    BY <1>3 DEF CheckoutCreate, NewRef
  <2>2. r \in Repayments /\ repayments[r].status = "ABSENT" /\ minted + 1 \in Refs
    BY <2>1, BoundsAssumption DEF Absent, IInv, Shapes, Refs
  <2>3. \A t \in Refs : checkouts'[t] = IF t = minted + 1
                                        THEN NewCheckout(r, amount) ELSE checkouts[t]
    BY <2>1 DEF IInv, Shapes
  <2>4. \A t \in Refs : IsCheckout(checkouts'[t])
    <3>1. IsCheckout(NewCheckout(r, amount))
      BY <2>2, FreshRows
    <3> QED
      BY <2>3, <3>1 DEF IInv, Shapes
  <2>5. \A q \in Repayments : /\ repayments'[q] = IF q = r
                                 THEN [status |-> "SUBMITTED", method |-> "GATEWAY", job |-> j, amount |-> amount]
                                 ELSE repayments[q]
                              /\ IsRepayment(repayments'[q])
    BY <2>1, <2>2 DEF IInv, Shapes, IsRepayment, ReviewStates
  <2>6. \A q \in Repayments : /\ intents'[q] = IF q = r
                                 THEN NewIntent(minted + 1, amount, gateway)
                                 ELSE intents[q]
                              /\ IsIntent(intents'[q])
    BY <2>1, <2>2, FreshRows, ZenonT(30) DEF IInv, Shapes
  <2>7. Shapes'
    <3>1. minted' \in 0..MaxRefs
      BY <2>1, <2>2 DEF Refs
    <3>2. /\ repayments' = [q \in Repayments |-> repayments'[q]]
          /\ intents' = [q \in Repayments |-> intents'[q]]
          /\ checkouts' = [t \in Refs |-> checkouts'[t]]
      BY <2>1 DEF IInv, Shapes
    <3> QED
      BY <1>1, <2>4, <2>5, <2>6, <3>1, <3>2 DEF Shapes
  <2>8. Kept
    BY <2>1, <2>2, <2>3, <2>5 DEF IInv, Shapes, Kept, Refs
  <2>9. IntentInv(r)'
    <3>1. /\ intents'[r].ref = minted + 1 /\ intents'[r].state = "PENDING" /\ intents'[r].abandoned = FALSE
          /\ checkouts'[minted + 1].of = r
      <4>1. intents'[r] = NewIntent(minted + 1, amount, gateway)
        BY <2>2, <2>6
      <4>2. checkouts'[minted + 1] = NewCheckout(r, amount)
        BY <2>2, <2>3
      <4>3. /\ NewIntent(minted + 1, amount, gateway).ref = minted + 1
            /\ NewIntent(minted + 1, amount, gateway).state = "PENDING"
            /\ NewIntent(minted + 1, amount, gateway).abandoned = FALSE
        BY DEF NewIntent
      <4>4. NewCheckout(r, amount).of = r
        BY DEF NewCheckout
      <4> QED
        BY <4>1, <4>2, <4>3, <4>4
    <3> QED
      BY <2>1, <3>1 DEF IntentInv, RefOf, IInv, Shapes
  <2>10. \A t \in Refs : t > minted' => checkouts'[t].told = {}
    BY <2>1, <2>3 DEF IInv, Shapes, Refs
  <2> QED
    BY <1>0, <1>1, <2>6, <2>7, <2>8, <2>9, <2>10, PaymentsMove, IdleIsRequest
<1> QED
  BY <1>2, <1>3

\* Starting over: the new reference is the repayment's, the old state is gone.
LEMMA ResetKeeps ==
  ASSUME IInv, NEW w \in Workers, NEW gateway, worker[w].r \in Repayments,
         ResetForRetry(w, gateway), UNCHANGED repayments
  PROVE  /\ Kept
         /\ intents' = [r \in Repayments |-> intents'[r]] /\ \A r \in Repayments : IsIntent(intents'[r])
         /\ checkouts' = [ref \in Refs |-> checkouts'[ref]] /\ \A ref \in Refs : IsCheckout(checkouts'[ref])
         /\ minted' \in 0..MaxRefs
         /\ \A ref \in Refs : ref > minted' => checkouts'[ref].told = {}
         /\ \A r \in Repayments : intents'[r] = intents[r] \/ IntentInv(r)'
<1> DEFINE me == worker[w].r
           amount == worker[w].amount
           new == [intents[me] EXCEPT !.state = "PENDING", !.ref = minted + 1, !.amount = amount, !.gateway = gateway]
<1>1. /\ minted < MaxRefs /\ minted' = minted + 1 /\ minted \in 0..MaxRefs
      /\ intents' = [intents EXCEPT ![me] = new]
      /\ checkouts' = [checkouts EXCEPT ![minted + 1] = NewCheckout(me, amount)]
  BY DEF ResetForRetry, NewRef, IInv, Shapes
<1>2. minted + 1 \in Refs /\ minted' \in 0..MaxRefs /\ me \in Repayments
  BY <1>1, BoundsAssumption DEF Refs
<1>3. /\ IsIntent(new) /\ new.ref = minted + 1 /\ new.state = "PENDING"
  <2> DEFINE old == intents[me]
  <2>1. IsIntent(old)
    BY DEF IInv, Shapes
  <2>2. minted + 1 \in 0..MaxRefs
    BY <1>2 DEF Refs
  <2> HIDE DEF old, amount
  <2>3. /\ new \in [state: States, ref: 0..MaxRefs, amount: {amount}, gateway: {gateway},
                    abandoned: BOOLEAN, late: {old.late}]
        /\ new.ref = minted + 1 /\ new.state = "PENDING"
    BY <2>1, <2>2 DEF IsIntent, States, old
  <2> HIDE DEF new
  <2> QED
    BY <2>3 DEF IsIntent
<1> HIDE DEF new, me, amount
<1>4. \A q \in Repayments : intents'[q] = IF q = me THEN new ELSE intents[q]
  BY <1>1, <1>2 DEF IInv, Shapes
<1>5. \A t \in Refs : checkouts'[t] = IF t = minted + 1 THEN NewCheckout(me, amount) ELSE checkouts[t]
  BY <1>1 DEF IInv, Shapes
<1>6. IsCheckout(NewCheckout(me, amount)) /\ NewCheckout(me, amount).of = me /\ NewCheckout(me, amount).told = {}
  BY <1>2, FreshRows
<1>7. \A t \in Refs : IsCheckout(checkouts'[t])
  BY <1>5, <1>6 DEF IInv, Shapes
<1>8. Kept
  BY <1>1, <1>2, <1>5 DEF IInv, Shapes, Kept, Refs
<1>9. ASSUME NEW q \in Repayments, q = me PROVE IntentInv(q)'
  <2>1. checkouts'[minted + 1].of = q
    BY <1>2, <1>5, <1>6, <1>9
  <2>2. intents'[q].ref = minted + 1 /\ intents'[q].state = "PENDING"
    BY <1>3, <1>4, <1>9
  <2> QED
    BY <1>1, <2>1, <2>2 DEF IntentInv, RefOf
<1>10. \A t \in Refs : t > minted' => checkouts'[t].told = {}
  BY <1>1, <1>5 DEF IInv, Refs
<1>11. /\ intents' = [q \in Repayments |-> intents'[q]]
       /\ checkouts' = [t \in Refs |-> checkouts'[t]]
  BY <1>1 DEF IInv, Shapes
<1>12. \A q \in Repayments : IsIntent(intents'[q])
  BY <1>3, <1>4 DEF IInv, Shapes
<1>13. \A q \in Repayments : intents'[q] = intents[q] \/ IntentInv(q)'
  <2> SUFFICES ASSUME NEW q \in Repayments, intents'[q] # intents[q] PROVE IntentInv(q)'
    OBVIOUS
  <2>1. q = me
    BY <1>4
  <2> QED
    BY <1>9, <2>1
<1> QED
  BY <1>2, <1>7, <1>8, <1>10, <1>11, <1>12, <1>13

\* Showing a reference again leaves what it was charged.
LEMMA ShowKeeps ==
  ASSUME IInv, NEW w \in Workers, ShowAgain(w), UNCHANGED <<repayments, minted>>
  PROVE  /\ Kept
         /\ checkouts' = [ref \in Refs |-> checkouts'[ref]] /\ \A ref \in Refs : IsCheckout(checkouts'[ref])
         /\ \A ref \in Refs : ref > minted' => checkouts'[ref].told = {}
<1> DEFINE ref == worker[w].intent.ref
           asked == checkouts[ref].asked \union {worker[w].amount}
<1>1. \A t \in Refs : checkouts'[t] = IF t = ref THEN [checkouts[t] EXCEPT !.asked = asked] ELSE checkouts[t]
  BY DEF ShowAgain, IInv, Shapes
<1>2. checkouts' = [t \in Refs |-> checkouts'[t]]
  BY DEF ShowAgain, IInv, Shapes
<1> HIDE DEF asked
<1>3. \A t \in Refs : /\ IsCheckout(checkouts'[t])
                      /\ checkouts'[t].of = checkouts[t].of
                      /\ checkouts'[t].told = checkouts[t].told
                      /\ checkouts'[t].charged = checkouts[t].charged
  <2> SUFFICES ASSUME NEW t \in Refs
               PROVE  /\ IsCheckout(checkouts'[t])
                      /\ checkouts'[t].of = checkouts[t].of
                      /\ checkouts'[t].told = checkouts[t].told
                      /\ checkouts'[t].charged = checkouts[t].charged
    OBVIOUS
  <2> DEFINE c == checkouts[t]
             shown == [c EXCEPT !.asked = asked]
  <2>1. IsCheckout(c)
    BY DEF IInv, Shapes
  <2>2. /\ shown \in [of: 0..NRepayments, asked: {asked}, told: SUBSET {"PAID", "FAILED"}, charged: {c.charged}]
        /\ shown.of = c.of /\ shown.told = c.told
    BY <2>1 DEF IsCheckout
  <2> HIDE DEF shown
  <2>3. IsCheckout(shown) /\ shown.charged = c.charged
    BY <2>2 DEF IsCheckout
  <2>4. checkouts'[t] = shown \/ checkouts'[t] = c
    BY <1>1 DEF shown
  <2> QED
    BY <2>1, <2>2, <2>3, <2>4
<1> QED
  BY <1>2, <1>3 DEF IInv, Shapes, Kept

LEMMA ContinueInv ==
  ASSUME IInv, NEW w \in Workers, NEW gateway,
         \/ ContinuePayfast(w, gateway)
         \/ \E s \in {"PAID", "PENDING", "FAILED"} : ContinuePaystack(w, gateway, s)
  PROVE  IInv'
<1>1. /\ At(w, "continue") /\ Leave(w) /\ UNCHANGED <<repayments, handled, debits>>
      /\ \/ ShowAgain(w) /\ UNCHANGED <<intents, minted>>
         \/ ResetForRetry(w, gateway)
         \/ /\ "PAID" \in checkouts[worker[w].intent.ref].told
            /\ Report(worker[w].intent.ref, "PAID") /\ UNCHANGED <<checkouts, minted>>
         \/ UNCHANGED <<intents, checkouts, minted>>
  BY DEF ContinuePayfast, ContinuePaystack, VerifiedAs, debt
<1>2. /\ worker' = [v \in Workers |-> worker'[v]]
      /\ \A v \in Workers : worker'[v] = IF v = w THEN Idle ELSE worker[v]
      /\ \A v \in Workers : IsRequest(worker'[v])
  BY <1>1, Ends, IdleIsRequest DEF IInv, Leave
<1>3. worker[w].r \in Repayments /\ IsIntent(worker[w].intent)
  BY <1>1 DEF IInv, RequestInv, At, Shapes, IsRequest
<1>4. CASE ShowAgain(w) /\ UNCHANGED <<intents, minted>>
  <2>1. Shapes'
    BY <1>1, <1>2, <1>4, ShowKeeps DEF IInv, Shapes
  <2> QED
    BY <1>1, <1>2, <1>4, <2>1, ShowKeeps, PaymentsMove, IdleIsRequest
<1>5. CASE ResetForRetry(w, gateway)
  <2>1. Shapes'
    BY <1>1, <1>2, <1>3, <1>5, ResetKeeps DEF IInv, Shapes
  <2> QED
    BY <1>1, <1>2, <1>3, <1>5, <2>1, ResetKeeps, PaymentsMove, IdleIsRequest
<1>6. CASE UNCHANGED <<intents, checkouts, minted>>
  <2>1. Shapes' /\ Kept
    BY <1>1, <1>2, <1>6 DEF IInv, Shapes, Kept
  <2> QED
    BY <1>1, <1>2, <1>6, <2>1, PaymentsMove, IdleIsRequest DEF IInv
<1>7. CASE /\ "PAID" \in checkouts[worker[w].intent.ref].told
           /\ Report(worker[w].intent.ref, "PAID") /\ UNCHANGED <<checkouts, minted>>
  <2>1. CASE worker[w].intent.ref \in Refs
    <3>1. /\ intents' = [r \in Repayments |-> intents'[r]]
          /\ \A r \in Repayments : IsIntent(intents'[r])
          /\ \A r \in Repayments : IntentInv(r)'
      BY <1>7, <2>1, ReportInv
    <3>2. Shapes' /\ Kept
      BY <1>1, <1>2, <1>7, <3>1 DEF IInv, Shapes, Kept
    <3> QED
      BY <1>1, <1>2, <1>7, <3>1, <3>2, PaymentsMove, IdleIsRequest DEF IInv
  <2>2. CASE worker[w].intent.ref \notin Refs
    <3>1. worker[w].intent.ref = None
      BY <1>3, <2>2, BoundsAssumption DEF IsIntent, Refs, None
    <3>2. UNCHANGED intents
      BY <1>7, <3>1 DEF Report, Reports, IInv, Shapes
    <3> QED
      BY <1>6, <1>7, <3>2
  <2> QED
    BY <2>1, <2>2
<1> QED
  BY <1>1, <1>4, <1>5, <1>6, <1>7

----------------------------------------------------------------------------
(* Transfers and reviews. *)

\* Ending a request with nothing but the review of a repayment written.
LEMMA ReviewMoves ==
  ASSUME IInv, NEW w \in Workers, NEW rec, Become(w, rec), IsRequest(rec), rec.pc \in {"idle", "clear"},
         repayments' = [r \in Repayments |-> repayments'[r]],
         \A r \in Repayments :
           /\ IsRepayment(repayments'[r])
           /\ repayments[r].status # "ABSENT" =>
                /\ repayments'[r].status # "ABSENT"
                /\ repayments'[r].method = repayments[r].method
                /\ repayments'[r].amount = repayments[r].amount,
         UNCHANGED <<intents, checkouts, minted>>,
         \A d \in debits' : d \in debits \/ (d.by \in Repayments /\ Captured(d.by)')
  PROVE  IInv'
<1>1. /\ worker' = [v \in Workers |-> worker'[v]]
      /\ \A v \in Workers : worker'[v] = IF v = w THEN rec ELSE worker[v]
      /\ \A v \in Workers : IsRequest(worker'[v])
  BY Ends DEF IInv
<1>2. Shapes'
  BY <1>1 DEF IInv, Shapes
<1>3. Kept
  BY DEF IInv, Shapes, Kept
<1> QED
  BY <1>1, <1>2, <1>3, PaymentsMove DEF IInv

LEMMA TransferInv ==
  ASSUME IInv, NEW w \in Workers, TransferCreate(w)
  PROVE  IInv'
<1>1. Leave(w) /\ UNCHANGED <<intents, checkouts, minted, debits>>
  BY DEF TransferCreate, debt
<1>2. /\ repayments' = [r \in Repayments |-> repayments'[r]]
      /\ \A r \in Repayments :
           /\ IsRepayment(repayments'[r])
           /\ repayments[r].status # "ABSENT" => repayments'[r] = repayments[r]
  <2>1. CASE UNCHANGED repayments
    BY <2>1 DEF IInv, Shapes
  <2>2. CASE ~UNCHANGED repayments
    <3> DEFINE scope == worker[w].job
               amount == worker[w].amount
               row == [status |-> "SUBMITTED", method |-> "BANK_TRANSFER", job |-> scope, amount |-> amount]
    <3>1. PICK r \in Absent : repayments' = [repayments EXCEPT ![r] = row]
      BY <2>2 DEF TransferCreate
    <3>2. IsRepayment(row)
      BY DEF IsRepayment, ReviewStates
    <3> HIDE DEF row
    <3> QED
      BY <3>1, <3>2 DEF IInv, Shapes, Absent
  <2> QED
    BY <2>1, <2>2
<1> QED
  BY <1>1, <1>2, ReviewMoves, IdleIsRequest DEF Leave

LEMMA Reviewed == {"CONFIRMED", "REJECTED"} \subseteq ReviewStates \ {"ABSENT"}
  BY DEF ReviewStates

\* A repayment's new status leaves its method and its amount.
LEMMA StatusWrites ==
  ASSUME IInv, NEW r, NEW s \in ReviewStates \ {"ABSENT"}, repayments' = [repayments EXCEPT ![r].status = s]
  PROVE  /\ repayments' = [q \in Repayments |-> repayments'[q]]
         /\ \A q \in Repayments :
              /\ IsRepayment(repayments'[q])
              /\ repayments[q].status # "ABSENT" =>
                   /\ repayments'[q].status # "ABSENT"
                   /\ repayments'[q].method = repayments[q].method
                   /\ repayments'[q].amount = repayments[q].amount
<1>1. repayments' = [q \in Repayments |-> repayments'[q]]
  BY DEF IInv, Shapes
<1>2. ASSUME NEW q \in Repayments
      PROVE  /\ IsRepayment(repayments'[q])
             /\ repayments[q].status # "ABSENT" =>
                  /\ repayments'[q].status # "ABSENT"
                  /\ repayments'[q].method = repayments[q].method
                  /\ repayments'[q].amount = repayments[q].amount
  <2>1. IsRepayment(repayments[q])
    BY DEF IInv, Shapes
  <2>2. repayments'[q] = repayments[q] \/ repayments'[q] = [repayments[q] EXCEPT !.status = s]
    BY DEF IInv, Shapes
  <2> QED
    BY <2>1, <2>2 DEF IsRepayment
<1> QED
  BY <1>1, <1>2

LEMMA RejectInv ==
  ASSUME IInv, NEW w \in Workers, RejectWrite(w)
  PROVE  IInv'
<1>1. repayments' = [repayments EXCEPT ![worker[w].r].status = "REJECTED"]
  BY DEF RejectWrite
<1>2. Become(w, Idle) /\ UNCHANGED <<intents, checkouts, minted, debits>>
  BY DEF RejectWrite, Leave, debt
<1>3. /\ repayments' = [q \in Repayments |-> repayments'[q]]
      /\ \A q \in Repayments :
           /\ IsRepayment(repayments'[q])
           /\ repayments[q].status # "ABSENT" =>
                /\ repayments'[q].status # "ABSENT"
                /\ repayments'[q].method = repayments[q].method
                /\ repayments'[q].amount = repayments[q].amount
  BY <1>1, StatusWrites, Reviewed
<1> QED
  BY <1>2, <1>3, ReviewMoves, IdleIsRequest

\* A confirmation notes what its transaction read.
LEMMA ConfirmGoesOnInv ==
  ASSUME IInv, NEW w \in Workers, worker[w].pc \in Confirming, NEW pc \in {"take", "mirror"}, NEW debts, NEW claims,
         NEW rec, rec = [worker[w] EXCEPT !.pc = pc, !.debts = debts, !.claims = claims],
         Become(w, rec), UNCHANGED <<payments, debits>>
  PROVE  IInv'
<1> DEFINE old == worker[w]
<1>1. IsRequest(old) /\ old.r \in Repayments /\ Captured(old.r)
  BY DEF IInv, Shapes, RequestInv
<1>2. /\ rec \in [pc: {pc}, r: 0..NRepayments, job: {old.job}, amount: {old.amount},
                  intent: {old.intent}, rows: {old.rows}, debts: {debts}, claims: {claims}]
      /\ rec.pc = pc /\ rec.r = old.r
  BY <1>1 DEF IsRequest
<1>3. IsIntent(old.intent)
  BY <1>1 DEF IsRequest
<1>4. IsRequest(rec)
  BY <1>2, <1>3 DEF IsRequest
<1> HIDE DEF old
<1> QED
  BY <1>1, <1>2, <1>4, RequestMoves

LEMMA ConfirmReadsInv ==
  ASSUME IInv, NEW w \in Workers, ConfirmDebts(w) \/ ConfirmTake(w) \/ ConfirmStops(w)
  PROVE  IInv'
<1>0. UNCHANGED <<payments, debits>>
  BY DEF ConfirmDebts, ConfirmTake, ConfirmStops, debt
<1>1. IsRequest(worker[w])
  BY DEF IInv, Shapes
<1>2. CASE ConfirmDebts(w)
  <2> DEFINE debts == OwedIn(ConfirmScope(worker[w].r))
             rec == [worker[w] EXCEPT !.pc = "take", !.debts = debts]
  <2>1. worker[w].pc \in Confirming /\ Become(w, rec)
    BY <1>2 DEF ConfirmDebts, At, Confirming
  <2> HIDE DEF debts
  <2>2. rec = [worker[w] EXCEPT !.pc = "take", !.debts = debts, !.claims = worker[w].claims]
    BY <1>1 DEF IsRequest
  <2> HIDE DEF rec
  <2> QED BY <1>0, <2>1, <2>2, ConfirmGoesOnInv
<1>3. CASE ConfirmTake(w)
  <2> DEFINE claims == BalanceIn(ConfirmScope(worker[w].r))
             rec == [worker[w] EXCEPT !.pc = "mirror", !.claims = claims]
  <2>1. worker[w].pc \in Confirming /\ (Leave(w) \/ Become(w, rec))
    BY <1>3 DEF ConfirmTake, At, Confirming
  <2> HIDE DEF claims
  <2>2. rec = [worker[w] EXCEPT !.pc = "mirror", !.debts = worker[w].debts, !.claims = claims]
    BY <1>1 DEF IsRequest
  <2> HIDE DEF rec
  <2>3. CASE Leave(w)
    BY <1>0, <2>3, EndsInv
  <2>4. CASE Become(w, rec)
    BY <1>0, <2>1, <2>2, <2>4, ConfirmGoesOnInv
  <2> QED BY <2>1, <2>3, <2>4
<1>4. CASE ConfirmStops(w)
  BY <1>0, <1>4, EndsInv DEF ConfirmStops
<1> QED
  BY <1>2, <1>3, <1>4

LEMMA ConfirmCommitInv ==
  ASSUME IInv, NEW w \in Workers, ConfirmCommit(w)
  PROVE  IInv'
<1>1. worker[w].r \in Repayments /\ Captured(worker[w].r)
  BY DEF ConfirmCommit, At, IInv, RequestInv, Confirming
<1>2. PICK r \in Repayments : r = worker[w].r
  BY <1>1
<1> DEFINE rec == Request("clear", r, NoJob, 0, NoIntent, {})
<1>3. UNCHANGED <<intents, checkouts, minted>>
  BY DEF ConfirmCommit
<1>4. \A d \in debits' : d \in debits \/ d.by = r
  BY <1>2 DEF ConfirmCommit, NewDebits
<1>5. Become(w, rec) /\ IsRequest(rec) /\ rec.pc = "clear"
  <2>1. r \in 0..NRepayments
    BY BoundsAssumption DEF Repayments
  <2>2. IsRequest(rec) /\ rec.pc = "clear"
    BY <2>1, FilledIn, IdleIsRequest
  <2> QED BY <1>2, <2>2 DEF ConfirmCommit
<1>6. /\ repayments' = [q \in Repayments |-> repayments'[q]]
      /\ \A q \in Repayments :
           /\ IsRepayment(repayments'[q])
           /\ repayments[q].status # "ABSENT" =>
                /\ repayments'[q].status # "ABSENT"
                /\ repayments'[q].method = repayments[q].method
                /\ repayments'[q].amount = repayments[q].amount
  BY StatusWrites, Reviewed DEF ConfirmCommit
<1>7. Kept
  BY <1>3, <1>6 DEF Kept, IInv, Shapes
<1>8. Captured(r)'
  BY <1>1, <1>2, <1>7, CapturedStays
<1>9. \A d \in debits' : d \in debits \/ (d.by \in Repayments /\ Captured(d.by)')
  BY <1>4, <1>8 DEF Captured, CapturedFor, Charged
<1> HIDE DEF rec
<1> QED
  BY <1>3, <1>5, <1>6, <1>9, ReviewMoves

LEMMA AbandonInv ==
  ASSUME IInv, NEW w \in Workers, AbandonWrite(w)
  PROVE  IInv'
<1> DEFINE read == worker[w].intent
<1>1. worker[w].r \in Repayments /\ RefOf(worker[w].r, read.ref) /\ IsIntent(read)
  BY DEF AbandonWrite, At, IInv, RequestInv, Shapes, IsRequest
<1>2. /\ Become(w, Idle) /\ UNCHANGED <<debits, checkouts, minted>>
      /\ repayments' = [repayments EXCEPT ![worker[w].r].status = "REJECTED"]
  BY DEF AbandonWrite, Leave, debt
<1>3. /\ worker' = [v \in Workers |-> worker'[v]]
      /\ \A v \in Workers : worker'[v] = IF v = w THEN Idle ELSE worker[v]
      /\ \A v \in Workers : IsRequest(worker'[v])
  BY <1>2, Ends, IdleIsRequest DEF IInv
<1>4. /\ repayments' = [r \in Repayments |-> repayments'[r]]
      /\ \A r \in Repayments :
           /\ IsRepayment(repayments'[r])
           /\ repayments[r].status # "ABSENT" =>
                /\ repayments'[r].status # "ABSENT"
                /\ repayments'[r].method = repayments[r].method
                /\ repayments'[r].amount = repayments[r].amount
  BY <1>2, StatusWrites, Reviewed
<1>5. Kept
  BY <1>2, <1>4 DEF Kept, IInv, Shapes
<1>6. \A r \in Repayments :
        /\ r # worker[w].r => intents'[r] = intents[r]
        /\ r = worker[w].r =>
             /\ IsIntent(intents'[r])
             /\ intents'[r].state = "CANCELLED" /\ intents'[r].ref = read.ref
  <2> SUFFICES ASSUME NEW r \in Repayments
               PROVE  /\ r # worker[w].r => intents'[r] = intents[r]
                      /\ r = worker[w].r =>
                           /\ IsIntent(intents'[r])
                           /\ intents'[r].state = "CANCELLED" /\ intents'[r].ref = read.ref
    OBVIOUS
  <2> DEFINE old == intents[r]
             ref == read.ref
             late == read.late
             new == [old EXCEPT !.state = "CANCELLED", !.ref = ref, !.abandoned = TRUE, !.late = late]
  <2>1. /\ r # worker[w].r => intents'[r] = intents[r]
        /\ r = worker[w].r => intents'[r] = new
    BY DEF AbandonWrite, IInv, Shapes
  <2>2. IsIntent(old) /\ ref \in 0..MaxRefs
    BY <1>1 DEF IInv, Shapes, IsIntent
  <2> HIDE DEF old, ref, late
  <2>3. /\ new \in [state: States, ref: 0..MaxRefs, amount: {old.amount}, gateway: {old.gateway},
                    abandoned: BOOLEAN, late: {late}]
        /\ new.state = "CANCELLED" /\ new.ref = ref
    BY <2>2 DEF IsIntent, States
  <2> HIDE DEF new
  <2>4. IsIntent(new)
    BY <2>3 DEF IsIntent
  <2> QED
    BY <2>1, <2>3, <2>4 DEF ref
<1>7. intents' = [r \in Repayments |-> intents'[r]]
  BY DEF AbandonWrite, IInv, Shapes
<1>8. \A r \in Repayments : intents'[r] = intents[r] \/ IntentInv(r)'
  BY <1>1, <1>2, <1>6 DEF IntentInv, RefOf
<1>9. Shapes'
  BY <1>2, <1>3, <1>4, <1>6, <1>7 DEF IInv, Shapes
<1> QED
  BY <1>2, <1>3, <1>5, <1>8, <1>9, PaymentsMove, IdleIsRequest DEF IInv

LEMMA ResolveInv ==
  ASSUME IInv, NEW r \in Repayments, Resolve(r)
  PROVE  IInv'
<1>1. \A q \in Repayments :
        intents'[q] = IF q = r THEN [intents[q] EXCEPT !.late = "resolved"] ELSE intents[q]
  BY DEF Resolve, IInv, Shapes
<1>2. \A q \in Repayments : IsIntent(intents'[q]) /\ IntentInv(q)'
  <2> SUFFICES ASSUME NEW q \in Repayments PROVE IsIntent(intents'[q]) /\ IntentInv(q)'
    OBVIOUS
  <2>1. IsIntent(intents[q]) /\ IntentInv(q)
    BY DEF IInv, Shapes
  <2> QED
    BY <1>1, <2>1 DEF IsIntent, IntentInv, RefOf, Charged, Resolve
<1>3. Shapes'
  BY <1>2 DEF IInv, Shapes, Resolve
<1>4. Kept
  BY DEF IInv, Shapes, Resolve, Kept
<1> QED
  BY <1>2, <1>3, <1>4, PaymentsMove DEF Resolve, IInv, debt

----------------------------------------------------------------------------
(* Requests that read. *)

LEMMA LooksInv ==
  ASSUME IInv, NEW w \in Workers, Looks(w)
  PROVE  IInv'
<1>1. CASE EnsureRead(w)
  <2> DEFINE seen == {[row |-> k, owed |-> ledger[k].owed] : k \in OwedRows}
  <2>1. Become(w, Request("ensure", None, NoJob, 0, NoIntent, seen))
    BY <1>1 DEF EnsureRead
  <2>2. UNCHANGED <<payments, debits>>
    BY <1>1 DEF EnsureRead, debt
  <2> HIDE DEF seen
  <2> QED
    BY <2>1, <2>2, NotesInv, NoneIsInRange DEF Confirming
<1>2. CASE EnsureSum(w)
  <2>1. Goto(w, "backfill") \/ Leave(w)
    BY <1>2 DEF EnsureSum
  <2>2. UNCHANGED <<payments, debits>>
    BY <1>2 DEF EnsureSum, debt
  <2> QED
    BY <2>1, <2>2, GoesOnInv, EndsInv DEF Confirming
<1>3. CASE EnsureCreate(w)
  <2>1. Leave(w) /\ UNCHANGED <<payments, debits>>
    BY <1>3 DEF EnsureCreate
  <2> QED
    BY <2>1, EndsInv
<1> QED
  BY <1>1, <1>2, <1>3 DEF Looks

\* What a checkout or an abandonment read of an intent stays true.
LEMMA ReadsIntentInv ==
  ASSUME IInv, NEW w \in Workers, NEW r \in Repayments, NEW pc \in {"continue", "abandon"},
         NEW job, NEW amount,
         Become(w, Request(pc, r, job, amount, intents[r], {})),
         UNCHANGED <<payments, debits>>
  PROVE  IInv'
<1>1. PICK i : i = intents[r]
  OBVIOUS
<1> DEFINE q == Request(pc, r, job, amount, i, {})
<1>2. Become(w, q)
  BY <1>1
<1>3. IsIntent(i) /\ RefOf(r, i.ref)
  BY <1>1 DEF IInv, Shapes, IntentInv
<1>4. r \in 0..NRepayments
  BY BoundsAssumption DEF Repayments
<1>5. IsRequest(q) /\ q.pc = pc /\ q.r = r /\ q.intent = i
  BY <1>3, <1>4, FilledIn
<1> HIDE DEF q
<1> QED
  BY <1>2, <1>3, <1>5, RequestMoves DEF Confirming

LEMMA PaysInv ==
  ASSUME IInv, NEW w \in Workers, Pays(w)
  PROVE  IInv'
<1>1. ASSUME NEW j \in Jobs, CheckoutRead(w, j) PROVE IInv'
  <2> DEFINE amount == Due(j)
  <2>1. UNCHANGED <<payments, debits>>
    BY <1>1 DEF CheckoutRead, debt
  <2>2. CASE Become(w, Request("create", None, j, amount, NoIntent, {}))
    <3>1. Become(w, Request("create", None, j, amount, NoIntent, {}))
        BY <2>2
    <3> HIDE DEF amount
    <3> QED
      BY <2>1, <3>1, NotesInv, NoneIsInRange DEF Confirming
  <2>3. ASSUME NEW r \in Repayments,
               Become(w, Request("continue", r, j, amount, intents[r], {}))
        PROVE  IInv'
    <3> HIDE DEF amount
    <3> QED
      BY <2>1, <2>3, ReadsIntentInv
  <2>4. SubmittedFor(j) \subseteq Repayments
    BY DEF SubmittedFor
  <2> HIDE DEF amount
  <2> QED
    BY <1>1, <2>2, <2>3, <2>4 DEF CheckoutRead, amount
<1>2. ASSUME NEW scope \in Jobs \union {NoJob}, TransferRead(w, scope) PROVE IInv'
  <2> DEFINE amount == Due(scope)
  <2>1. Become(w, Request("transfer", None, scope, amount, NoIntent, {}))
    BY <1>2 DEF TransferRead
  <2>2. UNCHANGED <<payments, debits>>
    BY <1>2 DEF TransferRead, debt
  <2> HIDE DEF amount
  <2> QED
    BY <2>1, <2>2, NotesInv, NoneIsInRange DEF Confirming
<1> QED
  BY <1>1, <1>2, CreateInv, ContinueInv, TransferInv DEF Pays

\* What may be confirmed has been captured.
LEMMA ConfirmReadInv ==
  ASSUME IInv, NEW w \in Workers, NEW r \in Repayments, ConfirmRead(w, r)
  PROVE  IInv'
<1> DEFINE q == Request("confirm", r, NoJob, 0, NoIntent, {})
<1>1. Become(w, q) /\ UNCHANGED <<payments, debits>>
  BY DEF ConfirmRead, debt
<1>2. Captured(r)
  <2>1. repayments[r].method = "GATEWAY" =>
          Charged(intents[r].ref, r, repayments[r].amount)
    BY DEF ConfirmRead, Payable, IInv, IntentInv
  <2> QED
    BY <2>1 DEF Captured, CapturedFor, ConfirmRead, Charged
<1>3. r \in 0..NRepayments
  BY BoundsAssumption DEF Repayments
<1>4. IsRequest(q) /\ q.pc = "confirm" /\ q.r = r
  BY <1>3, FilledIn, IdleIsRequest
<1> HIDE DEF q
<1> QED
  BY <1>1, <1>2, <1>4, RequestMoves

LEMMA ReviewsInv ==
  ASSUME IInv, NEW w \in Workers, Reviews(w)
  PROVE  IInv'
<1>1. ASSUME NEW r \in Repayments, RejectRead(w, r) PROVE IInv'
  <2>1. Become(w, Request("reject", r, NoJob, 0, NoIntent, {}))
    BY <1>1 DEF RejectRead
  <2>2. UNCHANGED <<payments, debits>>
    BY <1>1 DEF RejectRead, debt
  <2>3. r \in 0..NRepayments
    BY BoundsAssumption DEF Repayments
  <2> QED
    BY <2>1, <2>2, <2>3, NotesInv DEF Confirming
<1>2. ASSUME NEW r \in Repayments, AbandonRead(w, r) PROVE IInv'
  <2>1. Become(w, Request("abandon", r, NoJob, 0, intents[r], {}))
    BY <1>2 DEF AbandonRead
  <2>2. UNCHANGED <<payments, debits>>
    BY <1>2 DEF AbandonRead, debt
  <2> QED
    BY <2>1, <2>2, ReadsIntentInv
<1>3. CASE ClearRead(w)
  <2>1. Goto(w, "lift") \/ Leave(w)
    BY <1>3 DEF ClearRead
  <2>2. UNCHANGED <<payments, debits>>
    BY <1>3 DEF ClearRead, debt
  <2> QED
    BY <2>1, <2>2, GoesOnInv, EndsInv DEF Confirming
<1>4. CASE Lift(w)
  <2>1. Leave(w) /\ UNCHANGED <<payments, debits>>
    BY <1>4 DEF Lift, debt
  <2> QED
    BY <2>1, EndsInv
<1> QED
  BY <1>1, <1>2, <1>3, <1>4, ConfirmReadInv, ConfirmReadsInv, ConfirmCommitInv, RejectInv, AbandonInv DEF Reviews

----------------------------------------------------------------------------
(* The theorems. *)

LEMMA NextInv ==
  ASSUME IInv, [Next]_vars
  PROVE  IInv'
<1>1. CASE Refunds
  <2>1. UNCHANGED <<payments, debits, worker>>
    BY <1>1 DEF Refunds, Incur, DueDatePasses
  <2> QED
    BY <2>1, Elsewhere
<1>2. CASE Releases
  <2>1. UNCHANGED <<payments, debits, worker>>
    BY <1>2 DEF Releases, Release
  <2> QED
    BY <2>1, Elsewhere
<1>3. CASE Admin \/ Enforcement
  <2>1. UNCHANGED <<payments, debits, worker>>
    BY <1>3 DEF Admin, AdminBlock, AdminUnblock, Enforcement, SweepRead, SweepRow, debt
  <2> QED
    BY <2>1, Elsewhere
<1>4. CASE AtGateway
  BY <1>4, DecidesInv, WebhookInv DEF AtGateway
<1>5. CASE \E w \in Workers : Looks(w) \/ Pays(w) \/ Reviews(w)
  BY <1>5, LooksInv, PaysInv, ReviewsInv
<1>6. CASE \E r \in Repayments : Resolve(r)
  BY <1>6, ResolveInv
<1>7. CASE UNCHANGED vars
  BY <1>7, Elsewhere DEF vars, payments
<1> QED
  BY <1>1, <1>2, <1>3, <1>4, <1>5, <1>6, <1>7 DEF Next

\* References belong to one repayment each, a paid intent was charged, and a
\* request that will confirm has a captured payment in hand.
THEOREM Invariant == Spec => []IInv
<1>1. IInv /\ [Next]_vars => IInv'
  BY NextInv
<1> QED
  BY InitInv, <1>1, PTL DEF Spec

\* Debt taken off by a gateway repayment was charged to the provider
\* (assertGatewayRepaymentIntentPayable), although the intent may have started
\* over, been abandoned or failed between the check and the transaction.
THEOREM RecoveredIsCharged == Spec => []RecoveredWasCharged
<1>1. IInv => RecoveredWasCharged
  <2> SUFFICES ASSUME IInv, NEW d \in debits, repayments[d.by].method = "GATEWAY"
               PROVE  \E ref \in Refs : /\ checkouts[ref].of = d.by
                                        /\ "PAID" \in checkouts[ref].told
                                        /\ checkouts[ref].charged = repayments[d.by].amount
    BY DEF RecoveredWasCharged
  <2>1. CapturedFor(d.by)
    BY DEF IInv, Captured
  <2> QED
    BY <2>1 DEF CapturedFor, Charged
<1> QED
  BY Invariant, <1>1, PTL

\* Reports on an attempt that was given up never make it paid
\* (processWebhookResult), in whatever order they come.
THEOREM AbandonedNeverPaid == Spec => []AbandonedIsNotPaid
<1>1. IInv => AbandonedIsNotPaid
  BY DEF IInv, IntentInv, AbandonedIsNotPaid
<1> QED
  BY Invariant, <1>1, PTL

----------------------------------------------------------------------------
(* Types. *)

LEMMA FunctionIsSeq ==
  ASSUME NEW S, NEW n \in Nat, NEW f, f \in [1..n -> S]
  PROVE  f \in Seq(S) /\ Len(f) = n /\ DOMAIN f = 1..n
<1>1. f \in Seq(S)
  BY SeqDef
<1>2. Len(f) \in Nat /\ DOMAIN f = 1..Len(f)
  BY <1>1, LenProperties
<1>3. DOMAIN f = 1..n
  OBVIOUS
<1>4. 1..Len(f) = 1..n
  BY <1>2, <1>3
<1>5. Len(f) = n
  BY <1>2, <1>4
<1> QED
  BY <1>1, <1>2, <1>5

\* The rows of the two tables.
LEMMA Rows ==
  ASSUME DebtTypes
  PROVE  /\ Len(recoveries) \in Nat /\ DOMAIN recoveries = 1..Len(recoveries)
         /\ \A k \in DOMAIN recoveries : recoveries[k] \in Recoveries /\ Balance(k) \in Nat
         /\ Len(ledger) \in Nat /\ DOMAIN ledger = 1..Len(ledger)
         /\ \A k \in DOMAIN ledger : ledger[k] \in LedgerRows
<1>1. Len(recoveries) \in Nat /\ DOMAIN recoveries = 1..Len(recoveries)
  BY LenProperties DEF DebtTypes
<1>2. \A k \in DOMAIN recoveries : recoveries[k] \in Recoveries
  BY <1>1, ElementOfSeq DEF DebtTypes
<1>3. Len(ledger) \in Nat /\ DOMAIN ledger = 1..Len(ledger)
  BY LenProperties DEF DebtTypes
<1>4. \A k \in DOMAIN ledger : ledger[k] \in LedgerRows
  BY <1>3, ElementOfSeq DEF DebtTypes
<1>5. \A k \in DOMAIN recoveries : Balance(k) \in Nat
  BY <1>2 DEF DebtTypes, Balance, Recoveries
<1> QED
  BY <1>1, <1>2, <1>3, <1>4, <1>5

\* What is due on a job is a number.
LEMMA DueIsNat ==
  ASSUME DebtTypes, NEW scope
  PROVE  Due(scope) \in Nat
<1> DEFINE bal == [k \in DOMAIN recoveries |-> Balance(k)]
           rows == {k \in DOMAIN recoveries : Active(k) /\ InScope(recoveries[k].job, scope)}
<1>1. \A k \in DOMAIN recoveries : Balance(k) \in Nat
  BY Rows
<1>2. IsFiniteSet(rows)
  <2>1. IsFiniteSet(DOMAIN recoveries)
    BY Rows, FS_Interval
  <2> QED BY <2>1, FS_Subset
<1>3. \A k \in rows : bal[k] \in Nat
  BY <1>1
<1> HIDE DEF bal, rows
<1>4. SumFunctionOnSet(bal, rows) \in Nat
  BY <1>2, <1>3, SumNat
<1> QED
  BY <1>4 DEF Due, bal, rows

LEMMA Capped ==
  ASSUME NEW amount \in Nat, NEW before \in Nat, NEW owed \in Nat
  PROVE  (IF amount <= before THEN 0 ELSE Min2(owed, amount - before)) + Min2(amount, before)
           = Min2(amount, owed + before)
  BY DEF Min2

\* Oldest first, no row gives more than it owes, and all together no more than
\* is asked for.
LEMMA FifoTakes ==
  ASSUME NEW n \in Nat, NEW due \in [1..n -> Nat], NEW amount \in Nat
  PROVE  /\ FifoTake(due, amount) \in [1..n -> Nat]
         /\ \A k \in 1..n :
              /\ FifoTake(due, amount)[k] = LET before == SumFunctionOnSet(due, 1..(k - 1))
                                            IN  IF amount <= before THEN 0 ELSE Min2(due[k], amount - before)
              /\ FifoTake(due, amount)[k] <= due[k]
         /\ SumFunction(FifoTake(due, amount)) \in Nat
         /\ SumFunction(FifoTake(due, amount)) <= amount
<1> DEFINE take == FifoTake(due, amount)
           D(m) == SumFunctionOnSet(due, 1..m)
           T(m) == SumFunctionOnSet(take, 1..m)
<1>1. \A m \in 0..n : IsFiniteSet(1..m) /\ D(m) \in Nat
  <2> SUFFICES ASSUME NEW m \in 0..n PROVE IsFiniteSet(1..m) /\ D(m) \in Nat
    OBVIOUS
  <2>1. IsFiniteSet(1..m)
    BY FS_Interval
  <2>2. \A k \in 1..m : due[k] \in Nat
    OBVIOUS
  <2> QED BY <2>1, <2>2, SumNat
<1>2. take = [k \in 1..n |-> IF amount <= D(k - 1) THEN 0 ELSE Min2(due[k], amount - D(k - 1))]
  BY DEF FifoTake
<1> HIDE DEF take, D
<1>3. ASSUME NEW k \in 1..n PROVE take[k] \in Nat /\ take[k] <= due[k]
  <2>1. k - 1 \in 0..n
    OBVIOUS
  <2>2. D(k - 1) \in Nat
    BY <1>1, <2>1
  <2> QED BY <1>2, <2>2 DEF Min2
<1>4. take \in [1..n -> Nat]
  BY <1>2, <1>3
<1>5. T(n) <= amount /\ T(n) \in Nat
  <2> DEFINE Bad == {m \in Nat : m <= n /\ T(m) # Min2(amount, D(m))}
  <2>1. Bad = {}
    <3> SUFFICES ASSUME Bad # {} PROVE FALSE
      OBVIOUS
    <3>1. PICK m \in Bad : \A l \in Bad : m <= l
      <4> HIDE DEF Bad
      <4>1. Bad \in SUBSET Nat
        BY DEF Bad
      <4> QED BY <4>1, SmallestNumber
    <3>2. CASE m = 0
      <4>1. 1..m = {}
        BY <3>2
      <4>2. T(m) = 0 /\ D(m) = 0
        BY <4>1, SumEmpty DEF D
      <4> QED BY <3>1, <4>2 DEF Min2
    <3>3. CASE m # 0
      <4> DEFINE l == m - 1
      <4>0. T(m) # Min2(amount, D(m))
        BY <3>1
      <4>1. l \in 0..n /\ l \notin Bad /\ m \in 1..n /\ l \in Nat /\ l <= n
        BY <3>1, <3>3
      <4>2. T(l) = Min2(amount, D(l))
        BY <4>1
      <4>3. IsFiniteSet(1..l) /\ 1..m = (1..l) \union {m} /\ m \notin 1..l
        BY <1>1, <4>1
      <4>4. T(m) = take[m] + T(l)
        <5>1. (\A k \in 1..l : take[k] \in Int) /\ take[m] \in Int
          BY <1>3, <4>1
        <5> QED BY <4>3, <5>1, SumAdd
      <4>5. D(m) = due[m] + D(l)
        <5>1. (\A k \in 1..l : due[k] \in Int) /\ due[m] \in Int
          BY <4>1
        <5> HIDE DEF l
        <5> QED BY <4>3, <5>1, SumAdd DEF D
      <4>6. take[m] = IF amount <= D(l) THEN 0 ELSE Min2(due[m], amount - D(l))
        BY <1>2, <4>1
      <4>7. D(l) \in Nat /\ due[m] \in Nat
        BY <1>1, <4>1
      <4> HIDE DEF l, T
      <4>8. T(m) = Min2(amount, D(m))
        <5>1. (IF amount <= D(l) THEN 0 ELSE Min2(due[m], amount - D(l))) + Min2(amount, D(l))
                = Min2(amount, due[m] + D(l))
          <6> DEFINE owed == due[m]
                     before == D(l)
          <6>1. owed \in Nat /\ before \in Nat
            BY <4>7
          <6> HIDE DEF owed, before
          <6>2. (IF amount <= before THEN 0 ELSE Min2(owed, amount - before)) + Min2(amount, before)
                  = Min2(amount, owed + before)
            BY <6>1, Capped, ZenonT(30)
          <6> QED BY <6>2 DEF owed, before
        <5>2. T(m) = (IF amount <= D(l) THEN 0 ELSE Min2(due[m], amount - D(l))) + Min2(amount, D(l))
          BY <4>2, <4>4, <4>6
        <5>3. Min2(amount, D(m)) = Min2(amount, due[m] + D(l))
          BY <4>5
        <5> QED BY <5>1, <5>2, <5>3
      <4> QED BY <4>0, <4>8
    <3> QED BY <3>2, <3>3
  <2>2. T(n) = Min2(amount, D(n)) /\ D(n) \in Nat
    <3>1. n \in 0..n /\ n \notin Bad
      BY <2>1
    <3>2. D(n) \in Nat
      BY <1>1, <3>1
    <3> HIDE DEF T
    <3> QED BY <3>1, <3>2
  <2> HIDE DEF T
  <2> QED BY <2>2 DEF Min2
<1>6. SumFunction(take) = T(n)
  BY <1>4 DEF SumFunction
<1> QED
  BY <1>2, <1>3, <1>4, <1>5, <1>6 DEF take, D

\* What is read of the two tables.
LEMMA ReadsTables ==
  ASSUME DebtTypes, NEW scope
  PROVE  /\ OwedIn(scope) \in [1..Len(ledger) -> Nat]
         /\ BalanceIn(scope) \in [1..Len(recoveries) -> Nat]
         /\ \A k \in DOMAIN recoveries : BalanceIn(scope)[k] <= recoveries[k].total
<1>1. OwedIn(scope) \in [1..Len(ledger) -> Nat]
  <2>1. DOMAIN ledger = 1..Len(ledger) /\ \A k \in DOMAIN ledger : ledger[k].owed \in Nat
    BY Rows DEF LedgerRows
  <2> QED BY <2>1 DEF OwedIn
<1>2. BalanceIn(scope) \in [1..Len(recoveries) -> Nat]
  BY Rows DEF BalanceIn
<1>3. ASSUME NEW k \in DOMAIN recoveries PROVE BalanceIn(scope)[k] <= recoveries[k].total
  <2>1. recoveries[k].total \in Nat /\ recoveries[k].recovered \in Nat
    BY Rows DEF Recoveries
  <2>2. BalanceIn(scope)[k] = 0 \/ BalanceIn(scope)[k] = Balance(k)
    BY DEF BalanceIn
  <2> QED BY <2>1, <2>2 DEF Balance
<1> QED
  BY <1>1, <1>2, <1>3

\* What was read of the two tables, some time ago: rows may have been added.
Read(debts, claims) ==
  /\ debts \in Seq(Nat) /\ Len(debts) <= Len(ledger)
  /\ claims \in Seq(Nat) /\ Len(claims) <= Len(recoveries)
  /\ \A k \in DOMAIN claims : claims[k] <= recoveries[k].total

LEMMA SeqIsFunction ==
  ASSUME NEW f \in Seq(Nat)
  PROVE  Len(f) \in Nat /\ DOMAIN f = 1..Len(f) /\ f \in [1..Len(f) -> Nat]
<1>1. Len(f) \in Nat /\ f \in [1..Len(f) -> Nat]
  BY LenProperties, SeqDef
<1> QED
  BY <1>1

\* What an amount takes from rows that were read.
LEMMA FifoGives ==
  ASSUME NEW due \in Seq(Nat), NEW amount \in Nat
  PROVE  /\ DOMAIN FifoTake(due, amount) = DOMAIN due
         /\ \A k \in DOMAIN due : /\ FifoTake(due, amount)[k] \in Nat /\ due[k] \in Nat
                                  /\ FifoTake(due, amount)[k] <= due[k]
         /\ SumFunction(FifoTake(due, amount)) \in Nat
<1> DEFINE n == Len(due)
           take == FifoTake(due, amount)
<1>1. n \in Nat /\ DOMAIN due = 1..n /\ due \in [1..n -> Nat]
  BY SeqIsFunction
<1> HIDE DEF n
<1>2. /\ take \in [1..n -> Nat]
      /\ \A k \in 1..n : take[k] <= due[k]
      /\ SumFunction(take) \in Nat
  BY <1>1, FifoTakes
<1> HIDE DEF take
<1>3. /\ DOMAIN take = DOMAIN due /\ SumFunction(take) \in Nat
      /\ \A k \in DOMAIN due : take[k] \in Nat /\ due[k] \in Nat /\ take[k] <= due[k]
  BY <1>1, <1>2
<1> QED
  BY <1>3 DEF take

\* What a payment makes of a recovery.
LEMMA RowPays ==
  ASSUME NEW k, NEW balance \in Nat, NEW take \in Nat, recoveries[k] \in Recoveries,
         balance <= recoveries[k].total, take <= balance
  PROVE  /\ RowAfter(k, balance, take) \in Recoveries
         /\ RowAfter(k, balance, take).total = recoveries[k].total
         /\ RowAfter(k, balance, take).recovered <= recoveries[k].total
<1> DEFINE row == recoveries[k]
           status == IF take = balance THEN "RECOVERED" ELSE "PARTIALLY_RECOVERED"
           recovered == row.total - (balance - take)
<1>1. row \in Recoveries /\ row.total \in Nat /\ status \in Statuses
  BY DEF Recoveries, Statuses
<1>2. recovered \in Nat /\ recovered <= row.total
  BY <1>1
<1>3. RowAfter(k, balance, take) = [row EXCEPT !.recovered = recovered, !.status = status]
  BY DEF RowAfter
<1> HIDE DEF row, status, recovered
<1>4. /\ [row EXCEPT !.recovered = recovered, !.status = status] \in Recoveries
      /\ [row EXCEPT !.recovered = recovered, !.status = status].total = row.total
      /\ [row EXCEPT !.recovered = recovered, !.status = status].recovered = recovered
  BY <1>1, <1>2 DEF Recoveries
<1> QED
  BY <1>2, <1>3, <1>4 DEF row

\* What a payment makes of a row of the ledger.
LEMMA LedgerPays ==
  ASSUME NEW k, NEW owed \in Nat, NEW take \in Nat, ledger[k] \in LedgerRows, take <= owed
  PROVE  /\ LedgerAfter(k, owed, take) \in LedgerRows
         /\ LedgerAfter(k, owed, take).owed = owed - take
         /\ LedgerAfter(k, owed, take).clawed = ledger[k].clawed + take
<1>1. owed - take \in Nat /\ ledger[k].clawed + take \in Nat
  BY DEF LedgerRows
<1> QED
  BY <1>1 DEF LedgerAfter, LedgerRows

\* Recovering debt, row by row, from what was read.
LEMMA Recovers ==
  ASSUME DebtTypes, NEW debts, NEW claims, Read(debts, claims), NEW amount \in Nat,
         Recover(debts, claims, amount)
  PROVE  /\ ledger' \in Seq(LedgerRows) /\ Len(ledger') = Len(ledger) /\ DOMAIN ledger' = DOMAIN ledger
         /\ \A k \in DOMAIN ledger :
              \/ ledger'[k] = ledger[k]
              \/ /\ k \in DOMAIN debts /\ debts[k] > 0
                 /\ ledger'[k].owed + ledger'[k].clawed = debts[k] + ledger[k].clawed
                 /\ ledger[k].clawed <= ledger'[k].clawed
         /\ recoveries' \in Seq(Recoveries) /\ Len(recoveries') = Len(recoveries)
         /\ DOMAIN recoveries' = DOMAIN recoveries
         /\ \A k \in DOMAIN recoveries : /\ recoveries'[k].total = recoveries[k].total
                                         /\ recoveries'[k].recovered <= recoveries'[k].total
<1> DEFINE taken == FifoTake(debts, amount)
           mirrored == FifoTake(claims, SumFunction(taken))
           entry(k) == IF Gives(taken, k) THEN LedgerAfter(k, debts[k], taken[k]) ELSE ledger[k]
           row(k) == IF Gives(mirrored, k) THEN RowAfter(k, claims[k], mirrored[k]) ELSE recoveries[k]
<1>0. debts \in Seq(Nat) /\ claims \in Seq(Nat) /\ \A k \in DOMAIN claims : claims[k] <= recoveries[k].total
  BY DEF Read
<1>1. /\ DOMAIN taken = DOMAIN debts /\ SumFunction(taken) \in Nat
      /\ \A k \in DOMAIN debts : taken[k] \in Nat /\ debts[k] \in Nat /\ taken[k] <= debts[k]
  BY <1>0, FifoGives
<1>2. /\ DOMAIN mirrored = DOMAIN claims
      /\ \A k \in DOMAIN claims : mirrored[k] \in Nat /\ claims[k] \in Nat /\ mirrored[k] <= claims[k]
  <2> DEFINE recovered == SumFunction(taken)
  <2>1. recovered \in Nat
    BY <1>1
  <2> HIDE DEF recovered
  <2>2. /\ DOMAIN FifoTake(claims, recovered) = DOMAIN claims
        /\ \A k \in DOMAIN claims : /\ FifoTake(claims, recovered)[k] \in Nat /\ claims[k] \in Nat
                                    /\ FifoTake(claims, recovered)[k] <= claims[k]
    BY <1>0, <2>1, FifoGives
  <2> QED BY <2>2 DEF recovered
<1>3. /\ ledger' = [k \in DOMAIN ledger |-> entry(k)]
      /\ recoveries' = [k \in DOMAIN recoveries |-> row(k)]
  BY DEF Recover
<1> HIDE DEF taken, mirrored
<1>4. ASSUME NEW k \in DOMAIN ledger
      PROVE  /\ entry(k) \in LedgerRows
             /\ \/ entry(k) = ledger[k]
                \/ /\ k \in DOMAIN debts /\ debts[k] > 0
                   /\ entry(k).owed + entry(k).clawed = debts[k] + ledger[k].clawed
                   /\ ledger[k].clawed <= entry(k).clawed
  <2>0. ledger[k] \in LedgerRows
    BY Rows
  <2>1. CASE ~Gives(taken, k)
    BY <2>0, <2>1
  <2>2. CASE Gives(taken, k)
    <3>1. k \in DOMAIN debts /\ taken[k] \in Nat /\ taken[k] > 0 /\ debts[k] \in Nat /\ taken[k] <= debts[k]
      BY <1>1, <2>2 DEF Gives
    <3>2. /\ entry(k) \in LedgerRows
          /\ entry(k).owed = debts[k] - taken[k]
          /\ entry(k).clawed = ledger[k].clawed + taken[k]
      BY <2>0, <2>2, <3>1, LedgerPays
    <3>3. ledger[k].clawed \in Nat
      BY <2>0 DEF LedgerRows
    <3> HIDE DEF entry
    <3> QED BY <3>1, <3>2, <3>3
  <2> QED BY <2>1, <2>2
<1>5. ASSUME NEW k \in DOMAIN recoveries
      PROVE  row(k) \in Recoveries /\ row(k).total = recoveries[k].total /\ row(k).recovered <= row(k).total
  <2>0. recoveries[k] \in Recoveries /\ recoveries[k].recovered <= recoveries[k].total
    BY Rows DEF DebtTypes
  <2>1. CASE ~Gives(mirrored, k)
    BY <2>0, <2>1
  <2>2. CASE Gives(mirrored, k)
    <3>1. /\ mirrored[k] \in Nat /\ claims[k] \in Nat /\ mirrored[k] <= claims[k]
          /\ claims[k] <= recoveries[k].total
      BY <1>0, <1>2, <2>2 DEF Gives
    <3> QED BY <2>0, <2>2, <3>1, RowPays
  <2> QED BY <2>1, <2>2
<1> HIDE DEF entry, row
<1>6. /\ ledger' \in Seq(LedgerRows) /\ Len(ledger') = Len(ledger) /\ DOMAIN ledger' = DOMAIN ledger
  <2>1. ledger' \in [1..Len(ledger) -> LedgerRows] /\ Len(ledger) \in Nat /\ DOMAIN ledger = 1..Len(ledger)
    BY <1>3, <1>4, Rows
  <2> QED BY <2>1, FunctionIsSeq
<1>7. /\ recoveries' \in Seq(Recoveries) /\ Len(recoveries') = Len(recoveries)
      /\ DOMAIN recoveries' = DOMAIN recoveries
  <2>1. /\ recoveries' \in [1..Len(recoveries) -> Recoveries] /\ Len(recoveries) \in Nat
        /\ DOMAIN recoveries = 1..Len(recoveries)
    BY <1>3, <1>5, Rows
  <2> QED BY <2>1, FunctionIsSeq
<1>8. /\ \A k \in DOMAIN ledger : ledger'[k] = entry(k)
      /\ \A k \in DOMAIN recoveries : recoveries'[k] = row(k)
  BY <1>3
<1> QED
  BY <1>4, <1>5, <1>6, <1>7, <1>8

LEMMA InitTypes == Init => TypeOK
<1> SUFFICES ASSUME Init PROVE TypeOK OBVIOUS
<1>1. recoveries \in Seq(Recoveries) /\ ledger \in Seq(LedgerRows)
  BY EmptySeq DEF Init
<1>2. DOMAIN recoveries = {} /\ DOMAIN ledger = {}
  BY DEF Init
<1>3. DebtTypes
  BY <1>1, <1>2, BoundsAssumption DEF Init, DebtTypes
<1>4. NoIntent \in Intent /\ NoCheckout \in Checkout
  BY BoundsAssumption DEF NoIntent, NoCheckout, Intent, Checkout, None
<1>5. PaymentTypes
  BY <1>4, BoundsAssumption DEF Init, PaymentTypes, NoRepayment
<1>6. Idle \in AllRequests /\ Idle.rows = {} /\ Idle.debts = << >> /\ Idle.claims = << >>
  BY <1>4, BoundsAssumption, EmptySeq DEF Idle, Request, AllRequests, None
<1>7. Len(<< >>) = 0 /\ DOMAIN << >> = {}
  BY EmptySeq
<1>8. Len(ledger) = 0 /\ Len(recoveries) = 0
  BY <1>7 DEF Init
<1>9. RequestTypes
  BY <1>6, <1>7, <1>8 DEF Init, RequestTypes
<1> QED
  BY <1>3, <1>5, <1>9 DEF TypeOK

(* What a step leaves alone. *)

LEMMA DebtStays ==
  ASSUME DebtTypes, UNCHANGED <<debt, provider, sweep, extras>>
  PROVE  DebtTypes'
  BY DEF DebtTypes, debt

LEMMA PaymentsStay ==
  ASSUME PaymentTypes, UNCHANGED payments
  PROVE  PaymentTypes'
  BY DEF PaymentTypes, payments

\* Rows are added to the tables, and what was claimed of a recovery stays.
Grows ==
  /\ Len(ledger') \in Nat /\ Len(recoveries') \in Nat
  /\ DOMAIN ledger \subseteq DOMAIN ledger' /\ Len(ledger) <= Len(ledger')
  /\ DOMAIN recoveries \subseteq DOMAIN recoveries' /\ Len(recoveries) <= Len(recoveries')
  /\ \A k \in DOMAIN recoveries : recoveries'[k].total = recoveries[k].total

LEMMA GrowsAlone ==
  ASSUME DebtTypes, UNCHANGED <<ledger, recoveries>>
  PROVE  Grows
<1>1. Len(ledger) \in Nat /\ Len(recoveries) \in Nat
  BY Rows
<1> QED
  BY <1>1 DEF Grows

\* What a request noted points into the tables.
Noted(rec) ==
  /\ \A d \in rec.rows : d.row \in DOMAIN ledger
  /\ Read(rec.debts, rec.claims)

LEMMA RequestsNoted == RequestTypes => \A w \in Workers : worker[w] \in AllRequests /\ Noted(worker[w])
  BY DEF RequestTypes, AllRequests, Noted, Read

LEMMA NotedStays ==
  ASSUME DebtTypes, Grows, NEW rec \in AllRequests, Noted(rec)
  PROVE  /\ \A d \in rec.rows : d.row \in DOMAIN ledger'
         /\ Len(rec.debts) <= Len(ledger')
         /\ Len(rec.claims) <= Len(recoveries')
         /\ \A k \in DOMAIN rec.claims : rec.claims[k] <= recoveries'[k].total
<1> DEFINE debts == rec.debts
           claims == rec.claims
<1>1. debts \in Seq(Nat) /\ claims \in Seq(Nat)
  BY DEF AllRequests
<1>2. Len(debts) <= Len(ledger) /\ Len(claims) <= Len(recoveries)
      /\ \A k \in DOMAIN claims : claims[k] <= recoveries[k].total
  BY DEF Noted, Read
<1>3. \A d \in rec.rows : d.row \in DOMAIN ledger'
  BY DEF Noted, Grows
<1> HIDE DEF debts, claims
<1>4. Len(debts) \in Nat /\ Len(claims) \in Nat /\ DOMAIN claims = 1..Len(claims)
  BY <1>1, SeqIsFunction
<1>5. Len(ledger) \in Nat /\ Len(recoveries) \in Nat /\ DOMAIN recoveries = 1..Len(recoveries)
  BY Rows
<1>6. /\ Len(ledger) <= Len(ledger') /\ Len(recoveries) <= Len(recoveries')
      /\ Len(ledger') \in Nat /\ Len(recoveries') \in Nat
      /\ \A k \in DOMAIN recoveries : recoveries'[k].total = recoveries[k].total
  BY DEF Grows
<1>7. Len(debts) <= Len(ledger') /\ Len(claims) <= Len(recoveries')
  BY <1>2, <1>4, <1>5, <1>6
<1>8. \A k \in DOMAIN claims : k \in DOMAIN recoveries
  BY <1>2, <1>4, <1>5
<1>9. \A k \in DOMAIN claims : claims[k] <= recoveries'[k].total
  BY <1>2, <1>6, <1>8
<1> QED
  BY <1>3, <1>7, <1>9 DEF debts, claims

LEMMA RequestBecomes ==
  ASSUME DebtTypes, RequestTypes, NEW w \in Workers, NEW rec \in AllRequests, Become(w, rec), Grows, Noted(rec)
  PROVE  RequestTypes'
<1>1. worker' \in [Workers -> AllRequests] /\ \A v \in Workers : worker'[v] = IF v = w THEN rec ELSE worker[v]
  BY DEF RequestTypes, Become
<1>2. \A v \in Workers : worker'[v] \in AllRequests /\ Noted(worker'[v])
  BY <1>1, RequestsNoted
<1>3. \A v \in Workers : /\ \A d \in worker'[v].rows : d.row \in DOMAIN ledger'
                         /\ Len(worker'[v].debts) <= Len(ledger')
                         /\ Len(worker'[v].claims) <= Len(recoveries')
                         /\ \A k \in DOMAIN worker'[v].claims : worker'[v].claims[k] <= recoveries'[k].total
  <2> SUFFICES ASSUME NEW v \in Workers
               PROVE  /\ \A d \in worker'[v].rows : d.row \in DOMAIN ledger'
                      /\ Len(worker'[v].debts) <= Len(ledger')
                      /\ Len(worker'[v].claims) <= Len(recoveries')
                      /\ \A k \in DOMAIN worker'[v].claims : worker'[v].claims[k] <= recoveries'[k].total
    OBVIOUS
  <2>1. PICK q : q = worker'[v]
    OBVIOUS
  <2>2. q \in AllRequests /\ Noted(q)
    BY <1>2, <2>1
  <2> QED BY <2>1, <2>2, NotedStays
<1> QED
  BY <1>1, <1>3 DEF RequestTypes

LEMMA RequestsStay ==
  ASSUME DebtTypes, RequestTypes, UNCHANGED worker, Grows
  PROVE  RequestTypes'
<1>1. \A v \in Workers : worker[v] \in AllRequests /\ Noted(worker[v])
  BY RequestsNoted
<1>2. \A v \in Workers : /\ \A d \in worker[v].rows : d.row \in DOMAIN ledger'
                         /\ Len(worker[v].debts) <= Len(ledger')
                         /\ Len(worker[v].claims) <= Len(recoveries')
                         /\ \A k \in DOMAIN worker[v].claims : worker[v].claims[k] <= recoveries'[k].total
  <2> SUFFICES ASSUME NEW v \in Workers
               PROVE  /\ \A d \in worker[v].rows : d.row \in DOMAIN ledger'
                      /\ Len(worker[v].debts) <= Len(ledger')
                      /\ Len(worker[v].claims) <= Len(recoveries')
                      /\ \A k \in DOMAIN worker[v].claims : worker[v].claims[k] <= recoveries'[k].total
    OBVIOUS
  <2>1. PICK q : q = worker[v]
    OBVIOUS
  <2>2. q \in AllRequests /\ Noted(q)
    BY <1>1, <2>1
  <2> QED BY <2>1, <2>2, NotedStays
<1> QED
  BY <1>2 DEF RequestTypes

\* A request that has read nothing of the tables.
LEMMA NothingNoted ==
  ASSUME DebtTypes, NEW rec, rec.rows = {}, rec.debts = << >>, rec.claims = << >>
  PROVE  Noted(rec)
<1>1. Len(<< >>) = 0 /\ DOMAIN << >> = {} /\ << >> \in Seq(Nat)
  BY EmptySeq
<1>2. Len(ledger) \in Nat /\ Len(recoveries) \in Nat
  BY Rows
<1> QED
  BY <1>1, <1>2 DEF Noted, Read

LEMMA RequestLeaves ==
  ASSUME DebtTypes, RequestTypes, NEW w \in Workers, Leave(w), Grows
  PROVE  RequestTypes'
<1>1. Idle \in AllRequests /\ Idle.rows = {} /\ Idle.debts = << >> /\ Idle.claims = << >>
  BY BoundsAssumption, EmptySeq DEF Idle, Request, AllRequests, None, NoIntent, Intent
<1>2. Noted(Idle)
  BY <1>1, NothingNoted
<1> QED
  BY <1>1, <1>2, RequestBecomes DEF Leave

LEMMA RequestGoes ==
  ASSUME DebtTypes, RequestTypes, NEW w \in Workers, NEW pc \in {"backfill", "clear", "lift"}, Goto(w, pc), Grows
  PROVE  RequestTypes'
<1> DEFINE rec == [worker[w] EXCEPT !.pc = pc]
<1>1. rec \in AllRequests /\ rec.rows = worker[w].rows /\ rec.debts = worker[w].debts /\ rec.claims = worker[w].claims
  <2>1. worker[w] \in AllRequests
    BY DEF RequestTypes
  <2> QED
    BY <2>1 DEF AllRequests
<1>2. Noted(worker[w])
  BY RequestsNoted
<1>3. Become(w, rec)
  BY DEF Goto
<1> HIDE DEF rec
<1>4. Noted(rec)
  BY <1>1, <1>2 DEF Noted
<1> QED
  BY <1>1, <1>3, <1>4, RequestBecomes

(* Debt. *)

\* A row is added to the recoveries.
LEMMA RecoveryAdded ==
  ASSUME DebtTypes, NEW row \in Recoveries, recoveries' = Append(recoveries, row)
  PROVE  /\ recoveries' \in Seq(Recoveries)
         /\ DOMAIN recoveries' = 1..(Len(recoveries) + 1)
         /\ \A k \in DOMAIN recoveries : k \in DOMAIN recoveries' /\ recoveries'[k] = recoveries[k]
         /\ recoveries'[Len(recoveries) + 1] = row
<1>1. recoveries \in Seq(Recoveries) /\ Len(recoveries) \in Nat /\ DOMAIN recoveries = 1..Len(recoveries)
  BY Rows DEF DebtTypes
<1>2. recoveries' \in Seq(Recoveries) /\ Len(recoveries') = Len(recoveries) + 1
  BY <1>1, AppendProperties
<1>3. DOMAIN recoveries' = 1..(Len(recoveries) + 1)
  BY <1>2, LenProperties
<1>4. \A k \in 1..Len(recoveries) : recoveries'[k] = recoveries[k]
  BY <1>1, AppendProperties
<1>5. recoveries'[Len(recoveries) + 1] = row
  BY <1>1, AppendProperties
<1>6. \A k \in 1..Len(recoveries) : k \in 1..(Len(recoveries) + 1)
  BY <1>1
<1> QED
  BY <1>1, <1>2, <1>3, <1>4, <1>5, <1>6

LEMMA IncurTypes == TypeOK /\ Incur => TypeOK'
<1> SUFFICES ASSUME TypeOK, Incur PROVE TypeOK'
  OBVIOUS
<1> DEFINE n == Len(ledger) + 1
           owes == [job |-> Debts[n].job, owed |-> Debts[n].amount, clawed |-> 0]
           row == [job |-> Debts[n].job, total |-> Debts[n].amount, recovered |-> 0, status |-> "PENDING",
                   due |-> FALSE]
<1>0. DebtTypes /\ PaymentTypes /\ RequestTypes
  BY DEF TypeOK
<1>1. ledger \in Seq(LedgerRows) /\ Len(ledger) \in Nat /\ DOMAIN ledger = 1..Len(ledger)
  BY <1>0, Rows DEF DebtTypes
<1>2. Debts[n] \in [job: Jobs, amount: Nat \ {0}]
  <2>1. n \in 1..Len(Debts)
    BY <1>1, DebtsAssumption DEF Incur
  <2> QED BY <2>1, DebtsAssumption, ElementOfSeq
<1>3. owes \in LedgerRows /\ row \in Recoveries /\ row.recovered <= row.total
  BY <1>2 DEF Recoveries, Statuses, LedgerRows
<1>4. ledger' = Append(ledger, owes) /\ recoveries' = Append(recoveries, row)
  BY DEF Incur
<1> HIDE DEF owes, row
<1>5. ledger' \in Seq(LedgerRows) /\ DOMAIN ledger \subseteq DOMAIN ledger' /\ Len(ledger') = Len(ledger) + 1
  <2>1. ledger' \in Seq(LedgerRows) /\ Len(ledger') = Len(ledger) + 1
    BY <1>1, <1>3, <1>4, AppendProperties
  <2>2. DOMAIN ledger' = 1..(Len(ledger) + 1)
    BY <2>1, LenProperties
  <2> QED BY <1>1, <2>1, <2>2
<1>6. /\ recoveries' \in Seq(Recoveries) /\ DOMAIN recoveries \subseteq DOMAIN recoveries'
      /\ \A k \in DOMAIN recoveries' : recoveries'[k].recovered <= recoveries'[k].total
  <2>1. Len(recoveries) \in Nat /\ DOMAIN recoveries = 1..Len(recoveries)
    BY <1>0, Rows
  <2>2. \A k \in 1..(Len(recoveries) + 1) : k \in 1..Len(recoveries) \/ k = Len(recoveries) + 1
    BY <2>1
  <2>3. \A k \in DOMAIN recoveries : recoveries[k].recovered <= recoveries[k].total
    BY <1>0 DEF DebtTypes
  <2> QED BY <1>0, <1>3, <1>4, <2>1, <2>2, <2>3, RecoveryAdded
<1>7. DebtTypes'
  BY <1>0, <1>5, <1>6 DEF DebtTypes, Incur
<1>8. Grows
  <2>1. Len(recoveries) \in Nat /\ DOMAIN recoveries = 1..Len(recoveries)
    BY <1>0, Rows
  <2>2. Len(recoveries') = Len(recoveries) + 1
    BY <1>3, <1>4, <1>0, AppendProperties DEF DebtTypes
  <2>3. \A k \in DOMAIN recoveries : recoveries'[k] = recoveries[k]
    BY <1>0, <1>3, <1>4, RecoveryAdded
  <2> QED BY <1>1, <1>5, <1>6, <2>1, <2>2, <2>3 DEF Grows
<1>9. PaymentTypes' /\ RequestTypes'
  BY <1>0, <1>8, PaymentsStay, RequestsStay DEF Incur
<1> QED
  BY <1>7, <1>9 DEF TypeOK

\* A row of the recoveries keeps its amounts and its job.
LEMMA RecoveryMarked ==
  ASSUME DebtTypes, NEW k \in DOMAIN recoveries, NEW row \in Recoveries,
         row.total = recoveries[k].total, row.recovered = recoveries[k].recovered,
         recoveries' = [recoveries EXCEPT ![k] = row], UNCHANGED ledger
  PROVE  /\ recoveries' \in Seq(Recoveries) /\ DOMAIN recoveries' = DOMAIN recoveries
         /\ \A l \in DOMAIN recoveries : recoveries'[l].recovered <= recoveries'[l].total
         /\ Grows
<1>1. recoveries \in Seq(Recoveries) /\ \A l \in DOMAIN recoveries : recoveries[l].recovered <= recoveries[l].total
  BY DEF DebtTypes
<1>2. recoveries' \in Seq(Recoveries) /\ DOMAIN recoveries' = DOMAIN recoveries /\ Len(recoveries') = Len(recoveries)
  BY <1>1, ExceptSeq
<1>3. \A l \in DOMAIN recoveries : recoveries'[l] = IF l = k THEN row ELSE recoveries[l]
  OBVIOUS
<1>4. Len(recoveries) \in Nat /\ Len(ledger) \in Nat
  BY Rows
<1>5. Grows
  BY <1>2, <1>3, <1>4 DEF Grows
<1> QED
  BY <1>1, <1>2, <1>3, <1>5

LEMMA DueDateTypes ==
  ASSUME TypeOK, NEW k \in DOMAIN recoveries, DueDatePasses(k)
  PROVE  TypeOK'
<1> DEFINE row == [recoveries[k] EXCEPT !.due = TRUE]
<1>0. DebtTypes /\ PaymentTypes /\ RequestTypes
  BY DEF TypeOK
<1>1. row \in Recoveries /\ row.total = recoveries[k].total
      /\ row.recovered = recoveries[k].recovered
  BY <1>0, Rows DEF Recoveries
<1>2. recoveries' = [recoveries EXCEPT ![k] = row] /\ UNCHANGED ledger
  BY DEF DueDatePasses
<1> HIDE DEF row
<1>3. recoveries' \in Seq(Recoveries) /\ DOMAIN recoveries' = DOMAIN recoveries /\ Grows
      /\ \A l \in DOMAIN recoveries : recoveries'[l].recovered <= recoveries'[l].total
  BY <1>0, <1>1, <1>2, RecoveryMarked
<1>4. DebtTypes'
  BY <1>0, <1>3 DEF DebtTypes, DueDatePasses
<1> QED
  BY <1>0, <1>3, <1>4, PaymentsStay, RequestsStay DEF DueDatePasses, TypeOK

\* Recovering debt leaves rows that are rows.
LEMMA RecoverTypes ==
  ASSUME DebtTypes, NEW debts, NEW claims, Read(debts, claims), NEW amount \in Nat, Recover(debts, claims, amount),
         UNCHANGED <<provider, sweep>>, extras' \in 0..MaxExtras,
         debits' \subseteq [by: Repayments, row: DOMAIN ledger, amount: Nat \ {0}]
  PROVE  DebtTypes' /\ Grows
<1>1. /\ ledger' \in Seq(LedgerRows) /\ DOMAIN ledger' = DOMAIN ledger /\ Len(ledger') = Len(ledger)
      /\ recoveries' \in Seq(Recoveries) /\ DOMAIN recoveries' = DOMAIN recoveries
      /\ Len(recoveries') = Len(recoveries)
      /\ \A k \in DOMAIN recoveries : /\ recoveries'[k].total = recoveries[k].total
                                      /\ recoveries'[k].recovered <= recoveries'[k].total
  BY Recovers
<1>2. Len(ledger) \in Nat /\ Len(recoveries) \in Nat
  BY Rows
<1>3. Grows
  BY <1>1, <1>2 DEF Grows
<1> QED
  BY <1>1, <1>3 DEF DebtTypes

\* A read of now, in any scope.
LEMMA ReadsNow ==
  ASSUME DebtTypes, NEW scope
  PROVE  Read(OwedIn(scope), BalanceIn(scope))
<1> DEFINE debts == OwedIn(scope)
           claims == BalanceIn(scope)
<1>1. /\ debts \in [1..Len(ledger) -> Nat] /\ claims \in [1..Len(recoveries) -> Nat]
      /\ \A k \in DOMAIN recoveries : claims[k] <= recoveries[k].total
  BY ReadsTables
<1>2. Len(ledger) \in Nat /\ Len(recoveries) \in Nat /\ DOMAIN recoveries = 1..Len(recoveries)
  BY Rows
<1> HIDE DEF debts, claims
<1>3. /\ debts \in Seq(Nat) /\ Len(debts) = Len(ledger)
      /\ claims \in Seq(Nat) /\ Len(claims) = Len(recoveries) /\ DOMAIN claims = DOMAIN recoveries
  BY <1>1, <1>2, FunctionIsSeq
<1> QED
  BY <1>1, <1>2, <1>3 DEF Read, debts, claims

LEMMA ReleaseTypes ==
  ASSUME TypeOK, NEW amount \in Nat, Release(amount)
  PROVE  TypeOK'
<1>0. DebtTypes /\ PaymentTypes /\ RequestTypes
  BY DEF TypeOK
<1>1. extras' \in 0..MaxExtras
  BY <1>0, BoundsAssumption DEF DebtTypes, Release
<1> DEFINE debts == OwedIn(NoJob)
           claims == BalanceIn(NoJob)
<1>2. Read(debts, claims)
  BY <1>0, ReadsNow
<1>3. Recover(debts, claims, amount) /\ UNCHANGED <<debits, payments, provider, sweep, worker>>
  BY DEF Release
<1>4. debits' \subseteq [by: Repayments, row: DOMAIN ledger, amount: Nat \ {0}]
  BY <1>0, <1>3 DEF DebtTypes
<1> HIDE DEF debts, claims
<1>5. DebtTypes' /\ Grows
  BY <1>0, <1>1, <1>2, <1>3, <1>4, RecoverTypes
<1> QED
  BY <1>0, <1>3, <1>5, PaymentsStay, RequestsStay DEF TypeOK

LEMMA EnforcementTypes == TypeOK /\ Enforcement => TypeOK'
<1> SUFFICES ASSUME TypeOK, Enforcement PROVE TypeOK'
  OBVIOUS
<1>0. DebtTypes /\ PaymentTypes /\ RequestTypes
  BY DEF TypeOK
<1>1. CASE SweepRead
  <2>1. Swept \subseteq DOMAIN recoveries
    BY DEF Swept
  <2>2. (provider.blocked /\ provider.debtBlock) \in BOOLEAN
    BY <1>0 DEF DebtTypes
  <2>3. DebtTypes'
    BY <1>0, <1>1, <2>1, <2>2 DEF DebtTypes, SweepRead, debt
  <2> QED
    BY <1>0, <1>1, <2>3, PaymentsStay, GrowsAlone, RequestsStay DEF SweepRead, TypeOK, debt
<1>2. CASE SweepRow
  <2> DEFINE k == Min(sweep.rows)
             row == [recoveries[k] EXCEPT !.status = "OVERDUE"]
  <2>1. k \in sweep.rows
    <3>1. sweep.rows \subseteq DOMAIN recoveries /\ sweep.rows # {}
      BY <1>0, <1>2 DEF DebtTypes, SweepRow
    <3>2. sweep.rows \in SUBSET Nat
      BY <1>0, <3>1, Rows
    <3>3. \E m \in sweep.rows : \A l \in sweep.rows : m <= l
      BY <3>1, <3>2, SmallestNumber
    <3> QED BY <3>3 DEF Min
  <2>2. k \in DOMAIN recoveries
    BY <1>0, <2>1 DEF DebtTypes
  <2>3. row \in Recoveries /\ row.total = recoveries[k].total
        /\ row.recovered = recoveries[k].recovered
    BY <1>0, <2>2, Rows DEF Recoveries, Statuses
  <2>4. recoveries' = [recoveries EXCEPT ![k] = row] /\ sweep' = [sweep EXCEPT !.rows = @ \ {k}] /\ UNCHANGED ledger
    BY <1>2 DEF SweepRow
  <2> HIDE DEF k, row
  <2>5. recoveries' \in Seq(Recoveries) /\ DOMAIN recoveries' = DOMAIN recoveries /\ Grows
        /\ \A l \in DOMAIN recoveries : recoveries'[l].recovered <= recoveries'[l].total
    BY <1>0, <2>2, <2>3, <2>4, RecoveryMarked
  <2>6. provider' \in [blocked: BOOLEAN, reason: {"none", "admin", "debt"}, debtBlock: BOOLEAN]
    BY <1>0, <1>2 DEF DebtTypes, SweepRow
  <2>7. sweep' \in [rows: SUBSET (DOMAIN recoveries), blocked: BOOLEAN]
    BY <1>0, <2>4 DEF DebtTypes
  <2>8. DebtTypes'
    BY <1>0, <1>2, <2>5, <2>6, <2>7 DEF DebtTypes, SweepRow
  <2> QED
    BY <1>0, <1>2, <2>5, <2>8, PaymentsStay, RequestsStay DEF SweepRow, TypeOK
<1> QED
  BY <1>1, <1>2 DEF Enforcement

LEMMA AdminTypes == TypeOK /\ Admin => TypeOK'
<1> SUFFICES ASSUME TypeOK, Admin PROVE TypeOK'
  OBVIOUS
<1>0. DebtTypes /\ PaymentTypes /\ RequestTypes
  BY DEF TypeOK
<1>1. UNCHANGED <<debt, payments, sweep, worker>> /\ extras < MaxExtras /\ extras' = extras + 1
  BY DEF Admin, AdminBlock, AdminUnblock
<1>2. provider' \in [blocked: BOOLEAN, reason: {"none", "admin", "debt"}, debtBlock: BOOLEAN]
  <2>1. CASE AdminBlock
    BY <1>0, <2>1 DEF DebtTypes, AdminBlock
  <2>2. CASE AdminUnblock
    BY <2>2 DEF AdminUnblock
  <2> QED BY <2>1, <2>2 DEF Admin
<1>3. extras' \in 0..MaxExtras
  BY <1>0, <1>1, BoundsAssumption DEF DebtTypes
<1>4. DebtTypes'
  BY <1>0, <1>1, <1>2, <1>3 DEF DebtTypes, debt
<1> QED
  BY <1>0, <1>1, <1>4, PaymentsStay, GrowsAlone, RequestsStay DEF TypeOK, debt

LEMMA LooksTypes ==
  ASSUME TypeOK, NEW w \in Workers, Looks(w)
  PROVE  TypeOK'
<1>0. DebtTypes /\ PaymentTypes /\ RequestTypes
  BY DEF TypeOK
<1>1. CASE EnsureRead(w)
  <2> DEFINE rows == {[row |-> k, owed |-> ledger[k].owed] : k \in OwedRows}
             rec == Request("ensure", None, NoJob, 0, NoIntent, rows)
  <2>1. rows \subseteq [row: Nat \ {0}, owed: Nat \ {0}] /\ \A d \in rows : d.row \in DOMAIN ledger
    <3>1. \A k \in OwedRows : k \in DOMAIN ledger /\ k \in Nat \ {0} /\ ledger[k].owed \in Nat \ {0}
      BY <1>0, Rows DEF OwedRows, LedgerRows
    <3> QED BY <3>1
  <2> HIDE DEF rows
  <2>2. rec \in AllRequests /\ rec.rows = rows /\ rec.debts = << >> /\ rec.claims = << >>
    BY <2>1, BoundsAssumption, EmptySeq DEF AllRequests, Request, None, NoIntent, Intent
  <2>3. Become(w, rec) /\ UNCHANGED <<debt, payments, provider, sweep, extras>>
    BY <1>1 DEF EnsureRead, rows
  <2> HIDE DEF rec
  <2>4. RequestTypes'
    <3>1. Read(<< >>, << >>)
      <4>1. Len(<< >>) = 0 /\ DOMAIN << >> = {} /\ << >> \in Seq(Nat)
        BY EmptySeq
      <4>2. Len(ledger) \in Nat /\ Len(recoveries) \in Nat
        BY <1>0, Rows
      <4> QED BY <4>1, <4>2 DEF Read
    <3>2. Noted(rec)
      BY <2>1, <2>2, <3>1 DEF Noted
    <3>3. Grows
      BY <1>0, <2>3, GrowsAlone DEF debt
    <3> QED BY <1>0, <2>2, <2>3, <3>2, <3>3, RequestBecomes
  <2> QED BY <1>0, <2>3, <2>4, DebtStays, PaymentsStay DEF TypeOK
<1>2. CASE EnsureSum(w)
  <2>1. RequestTypes'
    BY <1>0, <1>2, GrowsAlone, RequestGoes, RequestLeaves DEF EnsureSum, debt
  <2> QED BY <1>0, <1>2, <2>1, DebtStays, PaymentsStay DEF TypeOK, EnsureSum
<1>3. CASE EnsureCreate(w)
  <2>1. UNCHANGED recoveries \/ \E row \in Recoveries : /\ row.recovered <= row.total
                                                        /\ recoveries' = Append(recoveries, row)
    <3>1. CASE Unclaimed(w) = {}
      BY <1>3, <3>1 DEF EnsureCreate
    <3>2. CASE Unclaimed(w) # {}
      <4> DEFINE d == CHOOSE d \in Unclaimed(w) : \A e \in Unclaimed(w) : d.row <= e.row
                 row == [job |-> ledger[d.row].job, total |-> d.owed,
                         recovered |-> 0, status |-> "PENDING", due |-> FALSE]
      <4>1. Unclaimed(w) \subseteq worker[w].rows
        BY DEF Unclaimed
      <4>2. \A e \in worker[w].rows : e \in [row: Nat \ {0}, owed: Nat \ {0}] /\ e.row \in DOMAIN ledger
        BY <1>0 DEF RequestTypes, AllRequests
      <4>3. \E e \in Unclaimed(w) : \A f \in Unclaimed(w) : e.row <= f.row
        <5> DEFINE rows == {e.row : e \in Unclaimed(w)}
        <5>1. rows \in SUBSET Nat /\ rows # {}
          BY <3>2, <4>1, <4>2
        <5> HIDE DEF rows
        <5>2. PICK m \in rows : \A l \in rows : m <= l
          BY <5>1, SmallestNumber
        <5> QED BY <5>2 DEF rows
      <4>4. d \in Unclaimed(w)
        BY <4>3
      <4>5. recoveries' = Append(recoveries, row)
        BY <1>3, <3>2 DEF EnsureCreate
      <4> HIDE DEF d
      <4>6. row \in Recoveries /\ row.recovered <= row.total
        <5>1. d.owed \in Nat /\ ledger[d.row].job \in Jobs
          BY <1>0, <4>1, <4>2, <4>4, Rows DEF LedgerRows
        <5> QED BY <5>1 DEF Recoveries, Statuses
      <4> QED BY <4>5, <4>6
    <3> QED BY <3>1, <3>2
  <2>2. /\ recoveries' \in Seq(Recoveries) /\ DOMAIN recoveries \subseteq DOMAIN recoveries'
        /\ \A k \in DOMAIN recoveries' : recoveries'[k].recovered <= recoveries'[k].total
        /\ Grows
    <3>0. UNCHANGED ledger
      BY <1>3 DEF EnsureCreate
    <3>1. CASE UNCHANGED recoveries
      BY <1>0, <3>0, <3>1, GrowsAlone DEF DebtTypes
    <3>2. ASSUME NEW row \in Recoveries, row.recovered <= row.total, recoveries' = Append(recoveries, row)
          PROVE  /\ recoveries' \in Seq(Recoveries) /\ DOMAIN recoveries \subseteq DOMAIN recoveries'
                 /\ \A k \in DOMAIN recoveries' : recoveries'[k].recovered <= recoveries'[k].total
                 /\ Grows
      <4>1. Len(recoveries) \in Nat /\ DOMAIN recoveries = 1..Len(recoveries)
        BY <1>0, Rows
      <4>2. \A k \in 1..(Len(recoveries) + 1) : k \in 1..Len(recoveries) \/ k = Len(recoveries) + 1
        BY <4>1
      <4>3. \A k \in DOMAIN recoveries : recoveries[k].recovered <= recoveries[k].total
        BY <1>0 DEF DebtTypes
      <4>4. Len(recoveries') = Len(recoveries) + 1 /\ Len(ledger) \in Nat
        BY <1>0, <3>2, AppendProperties, Rows DEF DebtTypes
      <4>5. \A k \in DOMAIN recoveries : k \in DOMAIN recoveries' /\ recoveries'[k] = recoveries[k]
        BY <1>0, <3>2, RecoveryAdded
      <4>6. Grows
        BY <3>0, <4>1, <4>4, <4>5 DEF Grows
      <4> QED BY <1>0, <3>2, <4>1, <4>2, <4>3, <4>6, RecoveryAdded
    <3> QED BY <2>1, <3>1, <3>2
  <2>3. DebtTypes'
    BY <1>0, <1>3, <2>2 DEF DebtTypes, EnsureCreate
  <2>4. RequestTypes'
    BY <1>0, <1>3, <2>2, RequestLeaves DEF EnsureCreate
  <2> QED BY <1>0, <1>3, <2>3, <2>4, PaymentsStay DEF TypeOK, EnsureCreate
<1> QED
  BY <1>1, <1>2, <1>3 DEF Looks

(* Payments. *)

LEMMA NewIntents ==
  ASSUME NEW ref \in 0..MaxRefs, NEW amount \in Nat, NEW gateway \in Gateways, NEW r \in Repayments
  PROVE  NewIntent(ref, amount, gateway) \in Intent /\ NewCheckout(r, amount) \in Checkout
  BY DEF NewIntent, NewCheckout, Intent, Checkout, Repayments

LEMMA NewRefInRange ==
  ASSUME PaymentTypes, minted < MaxRefs
  PROVE  NewRef \in Refs /\ NewRef \in 0..MaxRefs
  BY BoundsAssumption DEF PaymentTypes, NewRef, Refs

LEMMA CheckoutCreateTypes ==
  ASSUME TypeOK, NEW w \in Workers, NEW gateway \in Gateways, CheckoutCreate(w, gateway)
  PROVE  TypeOK'
<1>0. DebtTypes /\ PaymentTypes /\ RequestTypes
  BY DEF TypeOK
<1> DEFINE j == worker[w].job
           amount == worker[w].amount
<1>1. j \in Jobs \union {NoJob} /\ amount \in Nat
  BY <1>0 DEF RequestTypes, AllRequests
<1>2. PaymentTypes'
  <2>1. CASE UNCHANGED <<repayments, intents, checkouts, minted>>
    BY <1>0, <2>1, PaymentsStay DEF CheckoutCreate, payments
  <2>2. ASSUME NEW r \in Absent,
               minted < MaxRefs, minted' = NewRef,
               repayments' = [repayments EXCEPT ![r] =
                 [status |-> "SUBMITTED", method |-> "GATEWAY", job |-> j, amount |-> amount]],
               intents' = [intents EXCEPT ![r] = NewIntent(NewRef, amount, gateway)],
               checkouts' = [checkouts EXCEPT ![NewRef] = NewCheckout(r, amount)]
        PROVE  PaymentTypes'
    <3> DEFINE row == [status |-> "SUBMITTED", method |-> "GATEWAY", job |-> j, amount |-> amount]
               new == NewIntent(NewRef, amount, gateway)
               shown == NewCheckout(r, amount)
    <3>1. r \in Repayments /\ NewRef \in Refs /\ NewRef \in 0..MaxRefs
      BY <1>0, <2>2, NewRefInRange DEF Absent
    <3>2. new \in Intent /\ shown \in Checkout
      BY <1>1, <3>1, NewIntents
    <3>3. row \in [status: {"ABSENT", "SUBMITTED", "CONFIRMED", "REJECTED"},
                   method: {"NONE", "GATEWAY", "BANK_TRANSFER"}, job: Jobs \union {NoJob}, amount: Nat]
      BY <1>1
    <3>4. /\ repayments' = [repayments EXCEPT ![r] = row] /\ intents' = [intents EXCEPT ![r] = new]
          /\ checkouts' = [checkouts EXCEPT ![NewRef] = shown]
      BY <2>2
    <3> HIDE DEF row, new, shown
    <3> QED BY <1>0, <2>2, <3>1, <3>2, <3>3, <3>4 DEF PaymentTypes, CheckoutCreate
  <2> QED BY <2>1, <2>2 DEF CheckoutCreate
<1>3. RequestTypes'
  BY <1>0, GrowsAlone, RequestLeaves DEF CheckoutCreate, debt
<1> QED
  BY <1>0, <1>2, <1>3, DebtStays DEF TypeOK, CheckoutCreate

LEMMA ReportTypes ==
  ASSUME PaymentTypes, NEW ref, NEW s \in {"PAID", "PENDING", "FAILED"}, Report(ref, s)
  PROVE  intents' \in [Repayments -> Intent]
<1>1. ASSUME NEW r \in Repayments PROVE IntentAfter(intents[r], ref, s) \in Intent
  BY DEF PaymentTypes, IntentAfter, Intent
<1> QED
  BY <1>1 DEF PaymentTypes, Report

\* An attempt that is shown again, or starts over.
LEMMA ShowTypes ==
  ASSUME PaymentTypes, RequestTypes, NEW w \in Workers, ShowAgain(w)
  PROVE  checkouts' \in [Refs -> Checkout]
<1> DEFINE ref == worker[w].intent.ref
           row == [checkouts[ref] EXCEPT !.asked = @ \union {worker[w].amount}]
<1>1. worker[w].amount \in Nat
  BY DEF RequestTypes, AllRequests
<1>2. checkouts \in [Refs -> Checkout]
  BY DEF PaymentTypes
<1>3. ref \in Refs => row \in Checkout
  BY <1>1, <1>2 DEF Checkout
<1>4. checkouts' = [checkouts EXCEPT ![ref] = row]
  BY DEF ShowAgain
<1> HIDE DEF row, ref
<1> QED
  BY <1>2, <1>3, <1>4

LEMMA ResetTypes ==
  ASSUME PaymentTypes, RequestTypes, NEW w \in Workers, NEW gateway \in Gateways, ResetForRetry(w, gateway),
         worker[w].r \in Repayments
  PROVE  /\ intents' \in [Repayments -> Intent] /\ checkouts' \in [Refs -> Checkout]
         /\ minted' \in 0..MaxRefs
<1> DEFINE r == worker[w].r
           row == [intents[r] EXCEPT !.state = "PENDING", !.ref = NewRef,
                                     !.amount = worker[w].amount, !.gateway = gateway]
           shown == NewCheckout(r, worker[w].amount)
<1>1. worker[w].amount \in Nat
  BY DEF RequestTypes, AllRequests
<1>2. NewRef \in Refs /\ NewRef \in 0..MaxRefs
  BY NewRefInRange DEF ResetForRetry
<1>3. row \in Intent
  <2>1. intents[r] \in Intent
    BY DEF PaymentTypes
  <2> QED BY <1>1, <1>2, <2>1 DEF Intent
<1>4. shown \in Checkout
  BY <1>1, <1>2, NewIntents
<1>5. /\ intents' = [intents EXCEPT ![r] = row] /\ checkouts' = [checkouts EXCEPT ![NewRef] = shown]
      /\ minted' = NewRef
  BY DEF ResetForRetry
<1> HIDE DEF row, shown
<1> QED
  BY <1>2, <1>3, <1>4, <1>5 DEF PaymentTypes

LEMMA ContinueTypes ==
  ASSUME TypeOK, IInv, NEW w \in Workers, NEW gateway \in Gateways,
         ContinuePayfast(w, gateway) \/ \E s \in {"PAID", "PENDING", "FAILED"} : ContinuePaystack(w, gateway, s)
  PROVE  TypeOK'
<1>0. DebtTypes /\ PaymentTypes /\ RequestTypes
  BY DEF TypeOK
<1>1. /\ worker[w].pc = "continue" /\ Leave(w)
      /\ UNCHANGED <<debt, repayments, handled, provider, sweep, extras>>
  BY DEF ContinuePayfast, ContinuePaystack, At
<1>2. worker[w].r \in Repayments
  BY <1>1 DEF IInv, RequestInv
<1>3. \/ ShowAgain(w) /\ UNCHANGED <<intents, minted>>
      \/ ResetForRetry(w, gateway)
      \/ Report(worker[w].intent.ref, "PAID") /\ UNCHANGED <<checkouts, minted>>
      \/ UNCHANGED <<intents, checkouts, minted>>
  BY DEF ContinuePayfast, ContinuePaystack
<1>4. /\ intents' \in [Repayments -> Intent] /\ checkouts' \in [Refs -> Checkout]
      /\ minted' \in 0..MaxRefs
  BY <1>0, <1>2, <1>3, ShowTypes, ResetTypes, ReportTypes DEF PaymentTypes
<1>5. PaymentTypes'
  BY <1>0, <1>1, <1>4 DEF PaymentTypes
<1>6. RequestTypes'
  BY <1>0, <1>1, GrowsAlone, RequestLeaves DEF debt
<1> QED
  BY <1>0, <1>1, <1>5, <1>6, DebtStays DEF TypeOK

LEMMA AtGatewayTypes == TypeOK /\ AtGateway => TypeOK'
<1> SUFFICES ASSUME TypeOK, NEW ref \in Refs, NEW s \in {"PAID", "FAILED"},
                    Webhook(ref, s) \/ \E amount \in checkouts[ref].asked : GatewayDecides(ref, s, amount)
             PROVE  TypeOK'
  BY DEF AtGateway
<1>0. DebtTypes /\ PaymentTypes /\ RequestTypes
  BY DEF TypeOK
<1>1. CASE Webhook(ref, s)
  <2>1. intents' \in [Repayments -> Intent]
    BY <1>0, <1>1, ReportTypes DEF Webhook
  <2>2. PaymentTypes'
    BY <1>0, <1>1, <2>1 DEF PaymentTypes, Webhook
  <2> QED BY <1>0, <1>1, <2>2, DebtStays, GrowsAlone, RequestsStay DEF TypeOK, Webhook, debt
<1>2. ASSUME NEW amount \in checkouts[ref].asked, GatewayDecides(ref, s, amount) PROVE TypeOK'
  <2> DEFINE row == [checkouts[ref] EXCEPT !.told = @ \union {s},
                                           !.charged = IF s = "PAID" THEN amount ELSE @]
  <2>1. amount \in Nat /\ checkouts[ref] \in Checkout
    BY <1>0, <1>2 DEF PaymentTypes, Checkout
  <2>2. row \in Checkout
    BY <2>1 DEF Checkout
  <2>3. checkouts' = [checkouts EXCEPT ![ref] = row]
    BY <1>2 DEF GatewayDecides
  <2> HIDE DEF row
  <2>4. PaymentTypes'
    <3>1. checkouts' \in [Refs -> Checkout]
      BY <1>0, <2>2, <2>3 DEF PaymentTypes
    <3> QED BY <1>0, <1>2, <3>1 DEF PaymentTypes, GatewayDecides
  <2> QED BY <1>0, <1>2, <2>4, DebtStays, GrowsAlone, RequestsStay DEF TypeOK, GatewayDecides, debt
<1> QED
  BY <1>1, <1>2

\* A request that has read nothing of the tables yet.
Fresh(rec) == rec \in AllRequests /\ rec.rows = {} /\ rec.debts = << >> /\ rec.claims = << >>

LEMMA ReadsTypes ==
  ASSUME TypeOK, NEW w \in Workers,
         \/ \E j \in Jobs : CheckoutRead(w, j)
         \/ \E scope \in Jobs \union {NoJob} : TransferRead(w, scope)
         \/ \E r \in Repayments : ConfirmRead(w, r) \/ RejectRead(w, r) \/ AbandonRead(w, r)
  PROVE  TypeOK'
<1>0. DebtTypes /\ PaymentTypes /\ RequestTypes
  BY DEF TypeOK
<1>1. \A scope : Due(scope) \in Nat
  BY <1>0, DueIsNat
<1>2. NoIntent \in Intent /\ \A r \in Repayments : intents[r] \in Intent /\ r \in 0..NRepayments
  BY <1>0, BoundsAssumption DEF PaymentTypes, NoIntent, Intent, None, Repayments
<1>3. \A pc \in {"create", "continue", "transfer", "confirm", "reject", "abandon"}, r \in 0..NRepayments,
         j \in Jobs \union {NoJob}, amount \in Nat, intent \in Intent :
        Fresh(Request(pc, r, j, amount, intent, {}))
  BY EmptySeq DEF Request, AllRequests, Fresh
<1>4. /\ UNCHANGED <<debt, payments, provider, sweep, extras>>
      /\ \E rec : Become(w, rec) /\ Fresh(rec)
  <2> DEFINE Reads == /\ UNCHANGED <<debt, payments, provider, sweep, extras>>
                      /\ \E rec : Become(w, rec) /\ Fresh(rec)
  <2>0. None \in 0..NRepayments /\ 0 \in Nat
    BY BoundsAssumption DEF None
  <2>1. ASSUME NEW j \in Jobs, CheckoutRead(w, j) PROVE Reads
    <3>1. \/ Become(w, Request("create", None, j, Due(j), NoIntent, {}))
          \/ \E r \in Repayments : Become(w, Request("continue", r, j, Due(j), intents[r], {}))
      BY <2>1 DEF CheckoutRead, SubmittedFor
    <3>2. Fresh(Request("create", None, j, Due(j), NoIntent, {}))
      BY <1>1, <1>2, <1>3, <2>0
    <3>3. \A r \in Repayments : Fresh(Request("continue", r, j, Due(j), intents[r], {}))
      BY <1>1, <1>2, <1>3
    <3> QED BY <2>1, <3>1, <3>2, <3>3 DEF CheckoutRead
  <2>2. ASSUME NEW scope \in Jobs \union {NoJob}, TransferRead(w, scope) PROVE Reads
    <3>1. Fresh(Request("transfer", None, scope, Due(scope), NoIntent, {}))
      BY <1>1, <1>2, <1>3, <2>0
    <3> QED BY <2>2, <3>1 DEF TransferRead
  <2>3. ASSUME NEW r \in Repayments, ConfirmRead(w, r) \/ RejectRead(w, r) \/ AbandonRead(w, r) PROVE Reads
    <3>1. \/ Become(w, Request("confirm", r, NoJob, 0, NoIntent, {}))
          \/ Become(w, Request("reject", r, NoJob, 0, NoIntent, {}))
          \/ Become(w, Request("abandon", r, NoJob, 0, intents[r], {}))
      BY <2>3 DEF ConfirmRead, RejectRead, AbandonRead
    <3>2. Fresh(Request("confirm", r, NoJob, 0, NoIntent, {}))
      BY <1>2, <1>3, <2>0
    <3>3. Fresh(Request("reject", r, NoJob, 0, NoIntent, {}))
      BY <1>2, <1>3, <2>0
    <3>4. Fresh(Request("abandon", r, NoJob, 0, intents[r], {}))
      BY <1>2, <1>3, <2>0
    <3>5. UNCHANGED <<debt, payments, provider, sweep, extras>>
      BY <2>3 DEF ConfirmRead, RejectRead, AbandonRead
    <3> QED BY <3>1, <3>2, <3>3, <3>4, <3>5
  <2> QED BY <2>1, <2>2, <2>3
<1>5. PICK rec : Become(w, rec) /\ Fresh(rec)
  BY <1>4
<1>6. rec \in AllRequests /\ Noted(rec)
  BY <1>0, <1>5, NothingNoted DEF Fresh
<1>7. RequestTypes'
  BY <1>0, <1>4, <1>5, <1>6, GrowsAlone, RequestBecomes DEF debt
<1> QED
  BY <1>0, <1>4, <1>7, DebtStays, PaymentsStay DEF TypeOK

LEMMA TransferCreateTypes ==
  ASSUME TypeOK, NEW w \in Workers, TransferCreate(w)
  PROVE  TypeOK'
<1>0. DebtTypes /\ PaymentTypes /\ RequestTypes
  BY DEF TypeOK
<1> DEFINE row == [status |-> "SUBMITTED", method |-> "BANK_TRANSFER", job |-> worker[w].job,
                   amount |-> worker[w].amount]
<1>1. row \in [status: {"ABSENT", "SUBMITTED", "CONFIRMED", "REJECTED"},
               method: {"NONE", "GATEWAY", "BANK_TRANSFER"}, job: Jobs \union {NoJob}, amount: Nat]
  BY <1>0 DEF RequestTypes, AllRequests
<1>2. UNCHANGED repayments \/ \E r \in Repayments : repayments' = [repayments EXCEPT ![r] = row]
  BY DEF TransferCreate, Absent
<1> HIDE DEF row
<1>3. PaymentTypes'
  BY <1>0, <1>1, <1>2 DEF PaymentTypes, TransferCreate
<1>4. RequestTypes'
  BY <1>0, GrowsAlone, RequestLeaves DEF TransferCreate, debt
<1> QED
  BY <1>0, <1>3, <1>4, DebtStays DEF TypeOK, TransferCreate

\* A review closes a repayment.
LEMMA RepaymentCloses ==
  ASSUME PaymentTypes, NEW r, NEW status \in {"CONFIRMED", "REJECTED"},
         repayments' = [repayments EXCEPT ![r].status = status]
  PROVE  repayments' \in [Repayments -> [status: {"ABSENT", "SUBMITTED", "CONFIRMED", "REJECTED"},
                                         method: {"NONE", "GATEWAY", "BANK_TRANSFER"},
                                         job: Jobs \union {NoJob}, amount: Nat]]
  BY DEF PaymentTypes

\* The transaction of a confirmation reads.
LEMMA ConfirmReadsTypes ==
  ASSUME TypeOK, NEW w \in Workers, ConfirmDebts(w) \/ ConfirmTake(w) \/ ConfirmStops(w)
  PROVE  TypeOK'
<1>0. DebtTypes /\ PaymentTypes /\ RequestTypes
  BY DEF TypeOK
<1>1. UNCHANGED <<debt, payments, provider, sweep, extras>>
  BY DEF ConfirmDebts, ConfirmTake, ConfirmStops
<1>2. Grows
  BY <1>0, <1>1, GrowsAlone DEF debt
<1>3. worker[w] \in AllRequests /\ Noted(worker[w])
  BY <1>0, RequestsNoted
<1> DEFINE debts == OwedIn(ConfirmScope(worker[w].r))
           claims == BalanceIn(ConfirmScope(worker[w].r))
           now == [worker[w] EXCEPT !.pc = "take", !.debts = debts]
           next == [worker[w] EXCEPT !.pc = "mirror", !.claims = claims]
<1>4. Read(debts, claims)
  BY <1>0, ReadsNow
<1>5. \/ Leave(w) \/ Become(w, now) \/ Become(w, next)
  BY DEF ConfirmDebts, ConfirmTake, ConfirmStops
<1> HIDE DEF debts, claims
<1>6. /\ now \in AllRequests /\ now.rows = worker[w].rows /\ now.debts = debts /\ now.claims = worker[w].claims
      /\ next \in AllRequests /\ next.rows = worker[w].rows /\ next.debts = worker[w].debts /\ next.claims = claims
  BY <1>3, <1>4 DEF AllRequests, Read
<1> HIDE DEF now, next
<1>7. Noted(now) /\ Noted(next)
  BY <1>3, <1>4, <1>6 DEF Noted, Read
<1>8. RequestTypes'
  BY <1>0, <1>2, <1>5, <1>6, <1>7, RequestLeaves, RequestBecomes
<1> QED
  BY <1>0, <1>1, <1>8, DebtStays, PaymentsStay DEF TypeOK

LEMMA ConfirmCommitTypes ==
  ASSUME TypeOK, IInv, NEW w \in Workers, ConfirmCommit(w)
  PROVE  TypeOK'
<1>0. DebtTypes /\ PaymentTypes /\ RequestTypes
  BY DEF TypeOK
<1> DEFINE r == worker[w].r
           debts == worker[w].debts
           claims == worker[w].claims
           amount == repayments[r].amount
           rows == NewDebits(r, Taken(w))
           rec == Request("clear", r, NoJob, 0, NoIntent, {})
<1>1. /\ Recover(debts, claims, amount) /\ debits' = debits \union rows
      /\ repayments' = [repayments EXCEPT ![r].status = "CONFIRMED"]
      /\ Become(w, rec)
      /\ UNCHANGED <<intents, checkouts, minted, handled, provider, sweep, extras>>
  BY DEF ConfirmCommit
<1>2. r \in Repayments /\ r \in 0..NRepayments
  BY BoundsAssumption DEF IInv, RequestInv, ConfirmCommit, At, Confirming, Repayments
<1>3. amount \in Nat
  BY <1>0, <1>2 DEF PaymentTypes
<1>4. Read(debts, claims)
  BY <1>0, RequestsNoted DEF Noted
<1>5. rows \subseteq [by: Repayments, row: DOMAIN ledger, amount: Nat \ {0}]
  <2> DEFINE taken == FifoTake(debts, amount)
  <2>1. /\ DOMAIN taken = DOMAIN debts /\ \A k \in DOMAIN debts : taken[k] \in Nat
    BY <1>3, <1>4, FifoGives DEF Read
  <2>2. DOMAIN debts \subseteq DOMAIN ledger
    <3> HIDE DEF debts
    <3>1. DOMAIN debts = 1..Len(debts) /\ Len(debts) \in Nat /\ Len(debts) <= Len(ledger)
      BY <1>4, SeqIsFunction DEF Read
    <3>2. DOMAIN ledger = 1..Len(ledger) /\ Len(ledger) \in Nat
      BY <1>0, Rows
    <3> QED BY <3>1, <3>2
  <2>3. Taken(w) = taken
    BY DEF Taken
  <2> HIDE DEF taken, debts, r
  <2> QED BY <1>2, <2>1, <2>2, <2>3 DEF NewDebits
<1>6. Fresh(rec)
  BY <1>2, EmptySeq, BoundsAssumption DEF Fresh, Request, AllRequests, NoIntent, Intent, None
<1> HIDE DEF r, debts, claims, amount, rows, rec
<1>7. extras' \in 0..MaxExtras /\ debits' \subseteq [by: Repayments, row: DOMAIN ledger, amount: Nat \ {0}]
  BY <1>0, <1>1, <1>5 DEF DebtTypes
<1>8. DebtTypes' /\ Grows
  BY <1>0, <1>1, <1>3, <1>4, <1>7, RecoverTypes
<1>9. PaymentTypes'
  BY <1>0, <1>1, RepaymentCloses DEF PaymentTypes
<1>10. RequestTypes'
  <2>1. rec \in AllRequests /\ Noted(rec)
    BY <1>0, <1>6, NothingNoted DEF Fresh
  <2> QED BY <1>0, <1>1, <1>8, <2>1, RequestBecomes
<1> QED
  BY <1>8, <1>9, <1>10 DEF TypeOK

LEMMA ClosesTypes ==
  ASSUME TypeOK, IInv, NEW w \in Workers, RejectWrite(w) \/ AbandonWrite(w)
  PROVE  TypeOK'
<1>0. DebtTypes /\ PaymentTypes /\ RequestTypes
  BY DEF TypeOK
<1>1. PaymentTypes'
  <2>1. CASE RejectWrite(w)
    BY <1>0, <2>1, RepaymentCloses DEF PaymentTypes, RejectWrite
  <2>2. CASE AbandonWrite(w)
    <3> DEFINE r == worker[w].r
               read == worker[w].intent
               row == [intents[r] EXCEPT !.state = "CANCELLED", !.ref = read.ref, !.abandoned = TRUE,
                                         !.late = read.late]
    <3>1. read \in Intent /\ r \in Repayments
      BY <1>0, <2>2 DEF RequestTypes, AllRequests, IInv, RequestInv, AbandonWrite, At
    <3>2. intents[r] \in Intent
      BY <1>0, <3>1 DEF PaymentTypes
    <3>3. row \in Intent
      BY <3>1, <3>2 DEF Intent
    <3>4. intents' = [intents EXCEPT ![r] = row]
      BY <2>2 DEF AbandonWrite
    <3> HIDE DEF row
    <3>5. intents' \in [Repayments -> Intent]
      BY <1>0, <3>3, <3>4 DEF PaymentTypes
    <3> QED BY <1>0, <2>2, <3>5, RepaymentCloses DEF PaymentTypes, AbandonWrite
  <2> QED BY <2>1, <2>2
<1>2. UNCHANGED <<debt, provider, sweep, extras>> /\ Leave(w)
  BY DEF RejectWrite, AbandonWrite
<1>3. RequestTypes'
  BY <1>0, <1>2, GrowsAlone, RequestLeaves DEF debt
<1> QED
  BY <1>0, <1>1, <1>2, <1>3, DebtStays DEF TypeOK

LEMMA ClearTypes ==
  ASSUME TypeOK, NEW w \in Workers, ClearRead(w) \/ Lift(w)
  PROVE  TypeOK'
<1>0. DebtTypes /\ PaymentTypes /\ RequestTypes
  BY DEF TypeOK
<1>1. UNCHANGED <<debt, payments, sweep, extras>> /\ (Leave(w) \/ Goto(w, "lift"))
  BY DEF ClearRead, Lift
<1>2. provider' \in [blocked: BOOLEAN, reason: {"none", "admin", "debt"}, debtBlock: BOOLEAN]
  <2>1. CASE ClearRead(w)
    BY <1>0, <2>1 DEF DebtTypes, ClearRead
  <2>2. CASE Lift(w)
    BY <1>0, <2>2 DEF DebtTypes, Lift
  <2> QED BY <2>1, <2>2
<1>3. DebtTypes'
  BY <1>0, <1>1, <1>2 DEF DebtTypes, debt
<1>4. RequestTypes'
  BY <1>0, <1>1, GrowsAlone, RequestLeaves, RequestGoes DEF debt
<1> QED
  BY <1>0, <1>1, <1>3, <1>4, PaymentsStay DEF TypeOK

LEMMA ResolveTypes ==
  ASSUME TypeOK, NEW r \in Repayments, Resolve(r)
  PROVE  TypeOK'
<1>0. DebtTypes /\ PaymentTypes /\ RequestTypes
  BY DEF TypeOK
<1>1. intents' \in [Repayments -> Intent]
  BY <1>0 DEF PaymentTypes, Intent, Resolve
<1>2. PaymentTypes'
  BY <1>0, <1>1 DEF PaymentTypes, Resolve
<1> QED
  BY <1>0, <1>2, DebtStays, GrowsAlone, RequestsStay DEF TypeOK, Resolve, debt

LEMMA NextTypes == TypeOK /\ IInv /\ [Next]_vars => TypeOK'
<1> SUFFICES ASSUME TypeOK, IInv, [Next]_vars PROVE TypeOK'
  OBVIOUS
<1>1. CASE Refunds
  BY <1>1, IncurTypes, DueDateTypes DEF Refunds
<1>2. CASE Releases
  BY <1>2, ReleaseTypes DEF Releases
<1>3. CASE Admin \/ Enforcement \/ AtGateway
  BY <1>3, AdminTypes, EnforcementTypes, AtGatewayTypes
<1>4. ASSUME NEW w \in Workers, Looks(w) PROVE TypeOK'
  BY <1>4, LooksTypes
<1>5. ASSUME NEW w \in Workers, Pays(w) PROVE TypeOK'
  BY <1>5, ReadsTypes, CheckoutCreateTypes, ContinueTypes, TransferCreateTypes DEF Pays
<1>6. ASSUME NEW w \in Workers, Reviews(w) PROVE TypeOK'
  BY <1>6, ReadsTypes, ConfirmReadsTypes, ConfirmCommitTypes, ClearTypes, ClosesTypes DEF Reviews
<1>7. ASSUME NEW r \in Repayments, Resolve(r) PROVE TypeOK'
  BY <1>7, ResolveTypes
<1>8. CASE UNCHANGED vars
  BY <1>8, DebtStays, PaymentsStay, GrowsAlone, RequestsStay DEF TypeOK, vars, debt, payments
<1> QED
  BY <1>1, <1>2, <1>3, <1>4, <1>5, <1>6, <1>7, <1>8 DEF Next

\* Every row has its fields, no debt is recovered beyond what it was
\* (recoverRefundDebtByAmount), and what points at a row points at one that is
\* there, for any number of debts and requests.
THEOREM Types == Spec => []TypeOK
<1>1. TypeOK /\ IInv /\ [Next]_vars => TypeOK'
  BY NextTypes
<1> QED
  BY InitTypes, Invariant, <1>1, PTL DEF Spec

----------------------------------------------------------------------------
(* What leaves the ledger.  A row is written over by a confirmation that read *)
(* it before a release took from it: what is left then is more than the debt  *)
(* less what was taken, never less.  So the invariant speaks of what was read *)
(* as it does of what is there.                                               *)

Covers(debts) ==
  \A k \in DOMAIN debts : debts[k] > 0 => k \in DOMAIN ledger /\ Debts[k].amount <= debts[k] + ledger[k].clawed

OwedInv ==
  /\ Len(ledger) <= Len(Debts)
  /\ WrittenOffWasTaken
  /\ \A w \in Workers : Covers(worker[w].debts)

LEMMA InitOwed == Init => OwedInv
<1>1. DOMAIN << >> = {} /\ Len(<< >>) = 0 /\ Len(Debts) \in Nat
  BY EmptySeq, DebtsAssumption, LenProperties
<1> QED
  BY <1>1 DEF Init, OwedInv, WrittenOffWasTaken, Covers, Idle, Request

\* Nothing of the ledger changes, and no request reads it for a payment.
LEMMA OwedStays ==
  ASSUME OwedInv, UNCHANGED ledger, \A w \in Workers : worker'[w].debts \in {worker[w].debts, << >>}
  PROVE  OwedInv'
<1>1. Covers(<< >>)
  BY EmptySeq DEF Covers
<1>2. ASSUME NEW w \in Workers PROVE Covers(worker[w].debts)' 
  <2>1. PICK q : q = worker'[w].debts
    OBVIOUS
  <2>2. Covers(q)
    BY <1>1, <2>1 DEF OwedInv
  <2> QED BY <2>1, <2>2 DEF Covers
<1> QED
  BY <1>2 DEF OwedInv, WrittenOffWasTaken

\* What a request becomes, for the requests that read no debts.
LEMMA NotesNoDebts ==
  ASSUME RequestTypes, NEW w \in Workers, NEW rec, Become(w, rec), rec.debts \in {worker[w].debts, << >>}
  PROVE  \A v \in Workers : worker'[v].debts \in {worker[v].debts, << >>}
<1>1. \A v \in Workers : worker'[v] = IF v = w THEN rec ELSE worker[v]
  BY DEF RequestTypes, Become
<1> QED
  BY <1>1

LEMMA IncurOwed ==
  ASSUME DebtTypes, RequestTypes, OwedInv, Incur
  PROVE  OwedInv'
<1> DEFINE n == Len(ledger) + 1
           owes == [job |-> Debts[n].job, owed |-> Debts[n].amount, clawed |-> 0]
<1>1. ledger \in Seq(LedgerRows) /\ Len(ledger) \in Nat /\ DOMAIN ledger = 1..Len(ledger)
  BY Rows DEF DebtTypes
<1>2. Debts[n] \in [job: Jobs, amount: Nat \ {0}]
  <2>1. n \in 1..Len(Debts)
    BY <1>1, DebtsAssumption DEF Incur
  <2> QED BY <2>1, DebtsAssumption, ElementOfSeq
<1>3. owes \in LedgerRows /\ owes.owed = Debts[n].amount /\ owes.clawed = 0
  BY <1>2 DEF LedgerRows
<1>4. ledger' = Append(ledger, owes) /\ UNCHANGED worker
  BY DEF Incur
<1> HIDE DEF owes
<1>5. ledger' \in Seq(LedgerRows) /\ Len(ledger') = n /\ ledger'[n] = owes
  BY <1>1, <1>3, <1>4, AppendProperties
<1>6. DOMAIN ledger' = 1..n
  BY <1>5, LenProperties
<1>7. \A k \in DOMAIN ledger : k \in DOMAIN ledger' /\ ledger'[k] = ledger[k]
  BY <1>1, <1>3, <1>4, <1>6, AppendProperties
<1>8. WrittenOffWasTaken'
  <2>1. \A k \in 1..n : k \in DOMAIN ledger \/ k = n
    BY <1>1
  <2>2. Debts[n].amount <= owes.owed + owes.clawed
    BY <1>2, <1>3
  <2> QED BY <1>5, <1>6, <1>7, <2>1, <2>2 DEF OwedInv, WrittenOffWasTaken
<1>9. \A w \in Workers : Covers(worker[w].debts)'
  BY <1>4, <1>7 DEF OwedInv, Covers
<1>10. Len(ledger') <= Len(Debts)
  BY <1>5 DEF Incur
<1> QED
  BY <1>8, <1>9, <1>10 DEF OwedInv

\* What is read now covers the debts.
LEMMA NowCovers ==
  ASSUME DebtTypes, OwedInv, NEW scope
  PROVE  Covers(OwedIn(scope))
<1> SUFFICES ASSUME NEW k \in DOMAIN ledger, OwedIn(scope)[k] > 0
             PROVE  Debts[k].amount <= OwedIn(scope)[k] + ledger[k].clawed
  BY DEF Covers, OwedIn
<1>1. OwedIn(scope)[k] = ledger[k].owed
  BY DEF OwedIn
<1> QED
  BY <1>1 DEF OwedInv, WrittenOffWasTaken

\* A recovery from what was read takes a clawback for what it leaves out.
LEMMA RecoverOwed ==
  ASSUME DebtTypes, RequestTypes, OwedInv, NEW debts, NEW claims, Read(debts, claims), Covers(debts),
         NEW amount \in Nat, Recover(debts, claims, amount),
         \A w \in Workers : worker'[w].debts \in {worker[w].debts, << >>}
  PROVE  OwedInv'
<1>1. /\ DOMAIN ledger' = DOMAIN ledger /\ ledger' \in Seq(LedgerRows) /\ Len(ledger') = Len(ledger)
      /\ \A k \in DOMAIN ledger :
           \/ ledger'[k] = ledger[k]
           \/ /\ k \in DOMAIN debts /\ debts[k] > 0
              /\ ledger'[k].owed + ledger'[k].clawed = debts[k] + ledger[k].clawed
              /\ ledger[k].clawed <= ledger'[k].clawed
  BY Recovers
<1>2. WrittenOffWasTaken'
  <2> SUFFICES ASSUME NEW k \in DOMAIN ledger PROVE Debts[k].amount <= ledger'[k].owed + ledger'[k].clawed
    BY <1>1 DEF WrittenOffWasTaken
  <2>1. CASE ledger'[k] = ledger[k]
    BY <2>1 DEF OwedInv, WrittenOffWasTaken
  <2>2. CASE /\ k \in DOMAIN debts /\ debts[k] > 0
             /\ ledger'[k].owed + ledger'[k].clawed = debts[k] + ledger[k].clawed
    BY <2>2 DEF Covers
  <2> QED BY <1>1, <2>1, <2>2
<1>3. \A k \in DOMAIN ledger : /\ ledger[k].clawed \in Nat /\ ledger'[k].clawed \in Nat
                              /\ ledger[k].clawed <= ledger'[k].clawed
  <2>1. \A k \in DOMAIN ledger : ledger[k] \in LedgerRows /\ ledger'[k] \in LedgerRows
    <3>1. \A k \in DOMAIN ledger : ledger[k] \in LedgerRows
      BY Rows
    <3>2. Len(ledger') \in Nat /\ DOMAIN ledger' = 1..Len(ledger')
      BY <1>1, LenProperties
    <3>3. \A k \in DOMAIN ledger : ledger'[k] \in LedgerRows
      BY <1>1, <3>2, ElementOfSeq
    <3> QED BY <3>1, <3>3
  <2>2. \A k \in DOMAIN ledger : ledger[k].clawed \in Nat /\ ledger'[k].clawed \in Nat
    BY <2>1 DEF LedgerRows
  <2> QED BY <1>1, <2>2
<1>4. ASSUME NEW w \in Workers PROVE Covers(worker[w].debts)'
  <2>1. PICK q : q = worker'[w].debts
    OBVIOUS
  <2>2. q \in Seq(Nat)
    BY <2>1, EmptySeq DEF RequestTypes, AllRequests
  <2>3. Covers(q)
    <3>1. Covers(<< >>)
      BY EmptySeq DEF Covers
    <3> QED BY <2>1, <3>1 DEF OwedInv
  <2>4. ASSUME NEW k \in DOMAIN q, q[k] > 0
        PROVE  k \in DOMAIN ledger' /\ Debts[k].amount <= q[k] + ledger'[k].clawed
    <3>1. k \in DOMAIN ledger /\ Debts[k].amount <= q[k] + ledger[k].clawed
      BY <2>3, <2>4 DEF Covers
    <3>2. q[k] \in Nat
      BY <2>2, SeqIsFunction
    <3>3. Debts[k].amount \in Nat
      <4>1. DOMAIN ledger = 1..Len(ledger) /\ Len(ledger) \in Nat /\ Len(Debts) \in Nat
        BY Rows, DebtsAssumption, LenProperties
      <4>2. k \in 1..Len(Debts)
        BY <3>1, <4>1 DEF OwedInv
      <4>3. Debts[k] \in [job: Jobs, amount: Nat \ {0}]
        BY <4>2, DebtsAssumption, ElementOfSeq
      <4> QED BY <4>3
    <3> QED BY <1>1, <1>3, <3>1, <3>2, <3>3
  <2> QED BY <2>1, <2>4 DEF Covers
<1> QED
  BY <1>1, <1>2, <1>4 DEF OwedInv

\* The confirmation's transaction reads the ledger as it is.
LEMMA ConfirmDebtsOwed ==
  ASSUME DebtTypes, RequestTypes, OwedInv, NEW w \in Workers, ConfirmDebts(w)
  PROVE  OwedInv'
<1> DEFINE debts == OwedIn(ConfirmScope(worker[w].r))
<1>1. UNCHANGED ledger /\ \A v \in Workers : worker'[v].debts = IF v = w THEN debts ELSE worker[v].debts
  <2>1. worker'[w].debts = debts
    BY DEF ConfirmDebts, Become, RequestTypes, AllRequests
  <2>2. \A v \in Workers : v # w => worker'[v] = worker[v]
    BY DEF ConfirmDebts, Become, RequestTypes
  <2>3. UNCHANGED ledger
    BY DEF ConfirmDebts, debt
  <2> HIDE DEF debts
  <2> QED BY <2>1, <2>2, <2>3
<1>2. Covers(debts)
  BY NowCovers
<1> HIDE DEF debts
<1>3. ASSUME NEW v \in Workers PROVE Covers(worker[v].debts)'
  <2>1. PICK q : q = worker'[v].debts
    OBVIOUS
  <2>2. Covers(q)
    BY <1>1, <1>2, <2>1 DEF OwedInv
  <2> QED BY <1>1, <2>1, <2>2 DEF Covers
<1> QED
  BY <1>1, <1>3 DEF OwedInv, WrittenOffWasTaken

LEMMA ConfirmCommitOwed ==
  ASSUME TypeOK, IInv, OwedInv, NEW w \in Workers, ConfirmCommit(w)
  PROVE  OwedInv'
<1>0. DebtTypes /\ PaymentTypes /\ RequestTypes
  BY DEF TypeOK
<1> DEFINE r == worker[w].r
           debts == worker[w].debts
           claims == worker[w].claims
           amount == repayments[r].amount
           rec == Request("clear", r, NoJob, 0, NoIntent, {})
<1>1. Recover(debts, claims, amount) /\ Become(w, rec)
  BY DEF ConfirmCommit
<1>2. r \in Repayments
  BY DEF IInv, RequestInv, ConfirmCommit, At, Confirming
<1>3. amount \in Nat
  BY <1>0, <1>2 DEF PaymentTypes
<1>4. Read(debts, claims) /\ Covers(debts)
  BY <1>0, RequestsNoted DEF Noted, OwedInv
<1>5. rec.debts = << >>
  BY DEF Request
<1> HIDE DEF r, debts, claims, amount, rec
<1>6. \A v \in Workers : worker'[v].debts \in {worker[v].debts, << >>}
  BY <1>0, <1>1, <1>5, NotesNoDebts
<1> QED
  BY <1>0, <1>1, <1>3, <1>4, <1>6, RecoverOwed

LEMMA ReleaseOwed ==
  ASSUME DebtTypes, RequestTypes, OwedInv, NEW amount \in Nat, Release(amount)
  PROVE  OwedInv'
<1> DEFINE debts == OwedIn(NoJob)
           claims == BalanceIn(NoJob)
<1>1. Read(debts, claims) /\ Covers(debts)
  BY ReadsNow, NowCovers
<1>2. Recover(debts, claims, amount) /\ UNCHANGED worker
  BY DEF Release
<1> HIDE DEF debts, claims
<1> QED
  BY <1>1, <1>2, RecoverOwed

\* A request that ends, or goes on with what it has.
LEMMA RequestOwed ==
  ASSUME RequestTypes, OwedInv, UNCHANGED ledger, NEW w \in Workers, NEW rec, Become(w, rec),
         rec.debts \in {worker[w].debts, << >>}
  PROVE  OwedInv'
  BY NotesNoDebts, OwedStays

\* A request reads no debts.
NoDebts(w) == \E rec : Become(w, rec) /\ rec.debts \in {worker[w].debts, << >>}

LEMMA NoDebtsOwed ==
  ASSUME RequestTypes, OwedInv, UNCHANGED ledger, NEW w \in Workers, NoDebts(w)
  PROVE  OwedInv'
  BY RequestOwed DEF NoDebts

LEMMA RequestsOwed ==
  ASSUME TypeOK, IInv, OwedInv, NEW w \in Workers, Looks(w) \/ Pays(w) \/ Reviews(w)
  PROVE  OwedInv'
<1>0. DebtTypes /\ RequestTypes
  BY DEF TypeOK
<1>1. ASSUME Leave(w) PROVE NoDebts(w)
  BY <1>1 DEF Leave, NoDebts, Idle, Request
<1>2. ASSUME NEW pc, Goto(w, pc) PROVE NoDebts(w)
  <2>1. [worker[w] EXCEPT !.pc = pc].debts = worker[w].debts
    BY <1>0 DEF RequestTypes, AllRequests
  <2> QED BY <1>2, <2>1 DEF Goto, NoDebts
<1>3. ASSUME NEW pc, NEW r, NEW job, NEW amount, NEW intent, NEW rows,
             Become(w, Request(pc, r, job, amount, intent, rows))
      PROVE  NoDebts(w)
  <2>1. Request(pc, r, job, amount, intent, rows).debts = << >>
    BY DEF Request
  <2> QED BY <1>3, <2>1 DEF NoDebts
<1>4. CASE Looks(w)
  <2>1. UNCHANGED ledger
    BY <1>4 DEF Looks, EnsureRead, EnsureSum, EnsureCreate, debt
  <2>2. NoDebts(w)
    BY <1>1, <1>2, <1>3, <1>4 DEF Looks, EnsureRead, EnsureSum, EnsureCreate
  <2> QED BY <1>0, <2>1, <2>2, NoDebtsOwed
<1>5. CASE Pays(w)
  <2>1. UNCHANGED ledger
    BY <1>5 DEF Pays, CheckoutRead, CheckoutCreate, ContinuePayfast, ContinuePaystack, TransferRead, TransferCreate, debt
  <2>2. NoDebts(w)
    BY <1>1, <1>3, <1>5 DEF Pays, CheckoutRead, CheckoutCreate, ContinuePayfast, ContinuePaystack, TransferRead,
       TransferCreate
  <2> QED BY <1>0, <2>1, <2>2, NoDebtsOwed
<1>6. CASE ConfirmDebts(w)
  BY <1>0, <1>6, ConfirmDebtsOwed
<1>7. CASE ConfirmCommit(w)
  BY <1>7, ConfirmCommitOwed
<1>8. CASE ConfirmTake(w)
  <2>1. UNCHANGED ledger
    BY <1>8 DEF ConfirmTake, debt
  <2>2. ASSUME NEW claims, Become(w, [worker[w] EXCEPT !.pc = "mirror", !.claims = claims]) PROVE NoDebts(w)
    <3>1. [worker[w] EXCEPT !.pc = "mirror", !.claims = claims].debts = worker[w].debts
      BY <1>0 DEF RequestTypes, AllRequests
    <3> QED BY <2>2, <3>1 DEF NoDebts
  <2>3. NoDebts(w)
    BY <1>1, <1>8, <2>2 DEF ConfirmTake
  <2> QED BY <1>0, <2>1, <2>3, NoDebtsOwed
<1>9. ASSUME NEW r \in Repayments, ConfirmRead(w, r) \/ RejectRead(w, r) \/ AbandonRead(w, r) PROVE OwedInv'
  <2>1. UNCHANGED ledger
    BY <1>9 DEF ConfirmRead, RejectRead, AbandonRead, debt
  <2>2. NoDebts(w)
    BY <1>3, <1>9 DEF ConfirmRead, RejectRead, AbandonRead
  <2> QED BY <1>0, <2>1, <2>2, NoDebtsOwed
<1>10. CASE ConfirmStops(w) \/ ClearRead(w) \/ Lift(w) \/ RejectWrite(w) \/ AbandonWrite(w)
  <2>1. UNCHANGED ledger
    BY <1>10 DEF ConfirmStops, ClearRead, Lift, RejectWrite, AbandonWrite, debt
  <2>2. NoDebts(w)
    BY <1>1, <1>2, <1>10 DEF ConfirmStops, ClearRead, Lift, RejectWrite, AbandonWrite
  <2> QED BY <1>0, <2>1, <2>2, NoDebtsOwed
<1> QED
  BY <1>4, <1>5, <1>6, <1>7, <1>8, <1>9, <1>10 DEF Reviews

LEMMA NextOwed == TypeOK /\ IInv /\ OwedInv /\ [Next]_vars => OwedInv'
<1> SUFFICES ASSUME TypeOK, IInv, OwedInv, [Next]_vars PROVE OwedInv'
  OBVIOUS
<1>0. DebtTypes /\ RequestTypes
  BY DEF TypeOK
<1>1. ASSUME UNCHANGED <<ledger, worker>> PROVE OwedInv'
  BY <1>1, OwedStays
<1>2. CASE Refunds
  BY <1>0, <1>1, <1>2, IncurOwed DEF Refunds, DueDatePasses
<1>3. CASE Releases
  BY <1>0, <1>3, ReleaseOwed DEF Releases
<1>4. CASE Admin \/ Enforcement \/ AtGateway
  BY <1>1, <1>4 DEF Admin, AdminBlock, AdminUnblock, Enforcement, SweepRead, SweepRow, AtGateway, Webhook,
     GatewayDecides, debt
<1>5. CASE \E w \in Workers : Looks(w) \/ Pays(w) \/ Reviews(w)
  BY <1>5, RequestsOwed
<1>6. CASE \E r \in Repayments : Resolve(r)
  BY <1>1, <1>6 DEF Resolve, debt
<1>7. CASE UNCHANGED vars
  BY <1>1, <1>7 DEF vars
<1> QED
  BY <1>2, <1>3, <1>4, <1>5, <1>6, <1>7 DEF Next

\* Debt leaves the ledger only against clawback rows (recoverRefundDebtLedgerOnly),
\* for any debts, releases and confirmations that write over each other or are
\* rolled back.
THEOREM NothingWrittenOff == Spec => []WrittenOffWasTaken
<1>1. TypeOK /\ IInv /\ OwedInv /\ [Next]_vars => OwedInv'
  BY NextOwed
<1>2. OwedInv => WrittenOffWasTaken
  BY DEF OwedInv
<1> QED
  BY InitOwed, Types, Invariant, <1>1, <1>2, PTL DEF Spec
=============================================================================
