---------------------------- MODULE GatewayRefunds ----------------------------
(***************************************************************************)
(* The customer's side of a refund of labor on one job.  A decision splits  *)
(* into a part paid at once and a part that waits for the provider to repay *)
(* it, in repayments of any amount or out of the provider's later earnings;  *)
(* either part is asked of the gateway slice by slice over the paid         *)
(* PaymentIntents, oldest first, and a slice counts when the gateway's      *)
(* webhook says so, which also starts the next slice.                       *)
(*                                                                          *)
(* A worker is one request or webhook handler of a server.  Between two     *)
(* awaits it is one action here; what it read stays in its record, and the  *)
(* row it writes back is the one it read.                                   *)
(*                                                                          *)
(* payments/refund.service.js, payments/webhook.service.js (refund events), *)
(* providerRefundClawback.service.js, refundRecovery.service.js.            *)
(***************************************************************************)
EXTENDS Integers, Sequences, FiniteSetsExt

CONSTANTS
  NIntents,    \* paid LABOR intents of the job, 1 the oldest
  Ceiling,     \* Ceiling[i]: what of intent i may go back to the customer
  Decisions,   \* the refunds decided on the job, in order: [immediate, debt]
  Repayments,  \* the amounts a provider repays
  Workers,     \* requests and webhook handlers that may overlap
  MaxRepaid,   \* bound: repayments made
  MaxRefunds,  \* bound: refunds the gateway creates
  MaxFaults    \* bound: answers lost and handlers stopped half way

Intents == 1..NIntents

ASSUME NIntentsAssumption == NIntents \in Nat
ASSUME CeilingAssumption == Ceiling \in [Intents -> Nat]
ASSUME DecisionsAssumption == Decisions \in Seq([immediate: Nat, debt: Nat])
ASSUME RepaymentsAssumption == Repayments \subseteq Nat
ASSUME BoundsAssumption == MaxRepaid \in Nat /\ MaxRefunds \in Nat /\ MaxFaults \in Nat

VARIABLES
  intents,   \* intents[i]: refundedAmount and the refund part of gatewayPayload
  gateway,   \* the gateway's refunds, in the order it created them
  refund,    \* job.meta.refund
  decided,   \* number of decisions recorded
  owed,      \* what the provider owes of the job's refunds (RefundDebt has the rows)
  repaid,    \* the repayments an admin verified, in order
  handled,   \* webhook events marked fully processed
  worker,    \* worker[w]: where w is and what it has read
  faults

vars == <<intents, gateway, refund, decided, owed, repaid, handled, worker, faults>>

None == 0
NoKey == <<"none", 0, 0>>
NoSlice == [ref |-> None, amount |-> 0, key |-> NoKey]
NewRow == [refunded |-> 0, pending |-> NoSlice, finalized |-> {},
           last |-> NoSlice, attempt |-> None]
NoEvent == [ref |-> None, kind |-> "none"]
Idle == [pc |-> "idle", task |-> "none", decision |-> 0, number |-> 0, event |-> NoEvent,
         row |-> NewRow, amount |-> 0, left |-> 0,
         plan |-> [i \in Intents |-> 0], at |-> 1, ref |-> None, refs |-> {}, answer |-> "none"]

Min2(a, b) == IF a <= b THEN a ELSE b

Init ==
  /\ intents = [i \in Intents |-> NewRow]
  /\ gateway = << >>
  /\ refund = [status |-> "NONE", immediate |-> 0, pending |-> 0, ready |-> 0,
               finalized |-> {}]
  /\ decided = 0
  /\ owed = 0
  /\ repaid = << >>
  /\ handled = {}
  /\ worker = [w \in Workers |-> Idle]
  /\ faults = 0

----------------------------------------------------------------------------
(* What the code computes from an intent's row. *)

Remaining(i, row) == IF row.refunded < Ceiling[i] THEN Ceiling[i] - row.refunded ELSE 0

\* Mutant: the finalized refunds are not remembered.
AlreadyFinalizedForgets(row, ref, key) == FALSE

AlreadyFinalized(row, ref, key) ==
  \/ ref \in row.finalized
  \/ row.last.ref = ref
  \/ row.last.ref # None /\ key # NoKey /\ row.last.key = key

Historical(row, ref) == ref \in row.finalized \/ row.last.ref = ref \/ row.attempt = ref

\* Mutant: the slice is not capped by what is left of the intent.
AppliedUncapped(i, row, ref, amount, key) == IF AlreadyFinalized(row, ref, key) THEN 0 ELSE amount

\* What applyIntentRefundMoney adds to refundedAmount; 0 when it writes nothing.
Applied(i, row, ref, amount, key) ==
  IF AlreadyFinalized(row, ref, key) THEN 0 ELSE Min2(amount, Remaining(i, row))

\* Mutant: the pending refund stays on the intent when its money is booked.
RowWithMoneyKeepsPending(i, row, ref, amount, key) ==
  LET sum == Applied(i, row, ref, amount, key)
  IN  [row EXCEPT !.refunded = @ + sum, !.finalized = @ \union {ref},
                  !.last = [ref |-> ref, amount |-> sum, key |-> key]]

RowWithMoney(i, row, ref, amount, key) ==
  LET sum == Applied(i, row, ref, amount, key)
  IN  [row EXCEPT !.refunded = @ + sum,
                  !.pending = IF @.ref \in {None, ref} THEN NoSlice ELSE @,
                  !.finalized = @ \union {ref},
                  !.last = [ref |-> ref, amount |-> sum, key |-> key]]

ApplyIntentRefundMoney(i, row, ref, amount, key) ==
  intents' = IF Applied(i, row, ref, amount, key) = 0 THEN intents
             ELSE [intents EXCEPT ![i] = RowWithMoney(i, row, ref, amount, key)]

\* A write of gatewayPayload alone: it leaves refundedAmount as it is now.
PersistPayload(i, row) == intents' = [intents EXCEPT ![i] = [row EXCEPT !.refunded = intents[i].refunded]]

JobHasActivePendingRefund == \E i \in Intents : intents[i].pending.ref # None

PolicyRefundable == SumFunction([i \in Intents |-> Remaining(i, intents[i])])

----------------------------------------------------------------------------
(* One request that the gateway refund an amount, across the intents.      *)

Become(w, rec) == worker' = [worker EXCEPT ![w] = rec]
Goto(w, pc) == Become(w, [worker[w] EXCEPT !.pc = pc])
At(w, pc) == worker[w].pc = pc

\* refundJobLaborAcrossIntents: the refundable intents as they are now.
Asking(rec, task, amount) ==
  [rec EXCEPT !.pc = "read", !.task = task, !.amount = amount, !.left = amount,
              !.plan = [i \in Intents |-> Remaining(i, intents[i])], !.at = 1]

SlicesLeft(w) == {i \in Intents : i >= worker[w].at /\ worker[w].plan[i] > 0}
Slice(w) == Min2(worker[w].left, worker[w].plan[worker[w].at])

\* The idempotency key: of a payout it names the repayment, of the others the amount;
\* a release and a decision share the word.
Key(w) ==
  <<IF worker[w].task = "release" THEN "staged" ELSE worker[w].task,
    IF worker[w].task = "payout" THEN worker[w].number ELSE worker[w].amount, Slice(w)>>

Answered(rec, answer) == [rec EXCEPT !.pc = "answered", !.answer = answer, !.row = NewRow, !.ref = None]

\* requestGatewayRefund: the intent's row, and what it says of a pending refund.
ReadIntent(w) ==
  /\ At(w, "read")
  /\ \/ /\ worker[w].left = 0
        /\ Become(w, Answered(worker[w], "ok"))
     \/ /\ worker[w].left > 0 /\ SlicesLeft(w) = {}
        /\ Become(w, Answered(worker[w], "short"))
     \/ /\ worker[w].left > 0
        /\ \E i \in SlicesLeft(w) :
             /\ \A j \in SlicesLeft(w) : i <= j
             /\ LET here == [worker[w] EXCEPT !.at = i]
                IN  Become(w, IF Remaining(i, intents[i]) = 0 THEN Answered(here, "nothing")
                              ELSE IF intents[i].pending.ref # None THEN Answered(here, "pending")
                              ELSE [here EXCEPT !.pc = "ask", !.row = intents[i]])
  /\ UNCHANGED <<intents, gateway, refund, decided, owed, repaid, handled, faults>>

\* The gateway creates the refund, and its answer arrives or is lost.
AskGateway(w) ==
  LET amount == Min2(Slice(w), Remaining(worker[w].at, worker[w].row))
  IN
  /\ At(w, "ask")
  /\ Len(gateway) < MaxRefunds
  /\ \E status \in {"pending", "processed"} :
       /\ gateway' = Append(gateway, [intent |-> worker[w].at, amount |-> amount, status |-> status])
       /\ \/ /\ Become(w, [worker[w] EXCEPT !.pc = "save", !.ref = Len(gateway) + 1, !.answer = status])
             /\ UNCHANGED faults
          \/ /\ faults < MaxFaults
             /\ faults' = faults + 1
             /\ Become(w, Answered(worker[w], "failed"))
  /\ UNCHANGED <<intents, refund, decided, owed, repaid, handled>>

\* The gateway refuses.
AskRefused(w) ==
  /\ At(w, "ask")
  /\ Become(w, Answered(worker[w], "failed"))
  /\ UNCHANGED <<intents, gateway, refund, decided, owed, repaid, handled, faults>>

SaveAnswer(w) ==
  LET rec == worker[w]
      amount == gateway[rec.ref].amount
  IN
  /\ At(w, "save")
  /\ IF rec.answer = "processed"
     THEN /\ ApplyIntentRefundMoney(rec.at, rec.row, rec.ref, amount, Key(w))
          /\ Become(w, [rec EXCEPT !.pc = "read", !.left = @ - Slice(w), !.at = @ + 1,
                                   !.row = NewRow, !.ref = None, !.answer = "none",
                                   !.refs = @ \union {rec.ref}])
     ELSE /\ PersistPayload(rec.at, [rec.row EXCEPT
               !.pending = [ref |-> rec.ref, amount |-> amount, key |-> Key(w)]])
          /\ Become(w, Answered(rec, "pending"))
  /\ UNCHANGED <<gateway, refund, decided, owed, repaid, handled, faults>>

----------------------------------------------------------------------------
(* A decision: its immediate part is asked of the gateway first, and then  *)
(* one transaction records it, unless it was recorded meanwhile.           *)

ResolveBegin(w) ==
  /\ At(w, "idle")
  /\ decided < Len(Decisions)
  /\ LET rec == [Idle EXCEPT !.decision = decided + 1]
         now == Decisions[decided + 1].immediate
     IN  Become(w, IF now = 0 THEN [rec EXCEPT !.pc = "record"] ELSE Asking(rec, "staged", now))
  /\ UNCHANGED <<intents, gateway, refund, decided, owed, repaid, handled, faults>>

ResolveAnswered(w) ==
  /\ At(w, "answered") /\ worker[w].task = "staged"
  /\ Become(w, IF worker[w].answer \in {"failed", "short"} THEN Idle
               ELSE [worker[w] EXCEPT !.pc = "record"])
  /\ UNCHANGED <<intents, gateway, refund, decided, owed, repaid, handled, faults>>

\* applyProviderRefundClawbackInTransaction, what it writes to meta.refund.
RecordDecision(w) ==
  /\ At(w, "record")
  /\ IF worker[w].decision = decided + 1
     THEN /\ decided' = decided + 1
          /\ owed' = owed + Decisions[decided + 1].debt
          /\ refund' = [refund EXCEPT !.immediate = Decisions[decided + 1].immediate,
                                      !.pending = Decisions[decided + 1].debt]
     ELSE UNCHANGED <<decided, owed, refund>>
  /\ Become(w, Idle)
  /\ UNCHANGED <<intents, gateway, repaid, handled, faults>>

----------------------------------------------------------------------------
(* The provider's repayment of a debt is verified, and the customer paid.  *)

\* confirmAdminRefundRepayment, what it does to this job: the repayment may be of
\* any amount, also more or less than is owed, and the payout follows at once.
ConfirmRepayment(w) ==
  /\ At(w, "idle")
  /\ decided > 0 /\ Len(repaid) < MaxRepaid
  /\ \E amount \in Repayments :
       /\ repaid' = Append(repaid, amount)
       /\ owed' = owed - Min2(owed, amount)
       /\ refund' = IF owed = 0 THEN refund
                    ELSE [refund EXCEPT !.status = "READY", !.ready = @ + Min2(owed, amount)]
       /\ Become(w, [Idle EXCEPT !.pc = "check", !.number = Len(repaid) + 1, !.amount = amount])
  /\ UNCHANGED <<intents, gateway, decided, handled, faults>>

\* An admin asks again for a payout of a verified repayment.
PayoutAgain(w) ==
  /\ At(w, "idle")
  /\ \E n \in DOMAIN repaid :
       Become(w, [Idle EXCEPT !.pc = "check", !.number = n, !.amount = repaid[n]])
  /\ UNCHANGED <<intents, gateway, refund, decided, owed, repaid, handled, faults>>

\* What is ready to be paid out, or is pending, or else the repayment's amount.
PayoutAmount(amount) ==
  IF refund.ready > 0 THEN refund.ready ELSE IF refund.pending > 0 THEN refund.pending ELSE amount

\* processAdminCustomerRefund
PayoutCheck(w) ==
  /\ At(w, "check")
  /\ Become(w, IF refund.status \in {"NONE", "READY", "REFUND_FAILED"}
               THEN [worker[w] EXCEPT !.pc = "request", !.amount = PayoutAmount(@)]
               ELSE Idle)
  /\ UNCHANGED <<intents, gateway, refund, decided, owed, repaid, handled, faults>>

\* executeCustomerRefundPayouts: first the status, then the gateway.
PayoutRequest(w) ==
  /\ At(w, "request")
  /\ refund' = [refund EXCEPT !.status = "REFUND_REQUESTED"]
  /\ Become(w, Asking(worker[w], "payout", worker[w].amount))
  /\ UNCHANGED <<intents, gateway, decided, owed, repaid, handled, faults>>

\* Mutant: what is pending may be overdrawn.
PayoutAnsweredOverdraws(w) ==
  LET rec == worker[w]
  IN
  /\ At(w, "answered") /\ rec.task = "payout"
  /\ refund' = CASE rec.answer = "ok" -> [refund EXCEPT !.status = "REFUND_COMPLETED",
                                             !.immediate = @ + rec.amount,
                                             !.pending = @ - rec.amount,
                                             !.ready = 0, !.finalized = rec.refs]
                 [] rec.answer = "pending" -> [refund EXCEPT !.status = "REFUND_PROCESSING"]
                 [] OTHER -> [refund EXCEPT !.status = "REFUND_FAILED"]
  /\ Become(w, Idle)
  /\ UNCHANGED <<intents, gateway, decided, owed, repaid, handled, faults>>

PayoutAnswered(w) ==
  LET rec == worker[w]
      paid == [refund EXCEPT !.status = "REFUND_COMPLETED",
                             !.immediate = @ + rec.amount,
                             !.pending = @ - Min2(@, rec.amount),
                             !.ready = 0,
                             !.finalized = rec.refs]
  IN
  /\ At(w, "answered") /\ rec.task = "payout"
  /\ refund' = CASE rec.answer = "ok" -> paid
                 [] rec.answer = "pending" -> [refund EXCEPT !.status = "REFUND_PROCESSING"]
                 [] OTHER -> [refund EXCEPT !.status = "REFUND_FAILED"]
  /\ Become(w, Idle)
  /\ UNCHANGED <<intents, gateway, decided, owed, repaid, handled, faults>>

----------------------------------------------------------------------------
(* The provider's later earnings are released, and what he owes is taken from *)
(* them first.                                                                 *)

\* The release pays the customer what it took, or does nothing with it: only the
\* two ways of completing a job do (confirmJobCompletion, and its deadline).
ReleaseRecovers(w) ==
  /\ At(w, "idle")
  /\ \E amount \in 1..owed, pc \in {"idle", "release"} :
       /\ owed' = owed - amount
       /\ Become(w, IF pc = "idle" THEN Idle ELSE [Idle EXCEPT !.pc = pc, !.amount = amount])
  /\ UNCHANGED <<intents, gateway, refund, decided, repaid, handled, faults>>

\* processStagedCustomerPayouts, up to the gateway ...
StagedRequest(w) ==
  /\ At(w, "release")
  /\ Become(w, Asking(worker[w], "release", worker[w].amount))
  /\ UNCHANGED <<intents, gateway, refund, decided, owed, repaid, handled, faults>>

\* ... and after it.  It lists no slices, and leaves what is ready as it is.  A
\* failure changes nothing; that no intent is left to refund need not be one.
StagedAnswered(w) ==
  LET rec == worker[w]
      paid == [refund EXCEPT !.status = "REFUND_COMPLETED",
                             !.immediate = @ + rec.amount,
                             !.pending = @ - Min2(@, rec.amount)]
      processing == [refund EXCEPT !.status = "REFUND_PROCESSING"]
  IN
  /\ At(w, "answered") /\ rec.task = "release"
  /\ refund' \in CASE rec.answer = "ok" -> {paid}
                   [] rec.answer = "failed" -> {refund}
                   [] rec.answer = "short" -> {refund, processing}
                   [] OTHER -> {processing}
  /\ Become(w, Idle)
  /\ UNCHANGED <<intents, gateway, decided, owed, repaid, handled, faults>>

----------------------------------------------------------------------------
(* A refund event of the gateway.  It repeats and overtakes other events    *)
(* until one handling of it has marked it processed.                        *)

Events(r) ==
  {[ref |-> r, kind |-> "processing"]} \union
  (CASE gateway[r].status = "processed" -> {[ref |-> r, kind |-> "processed"]}
     [] gateway[r].status = "failed"    -> {[ref |-> r, kind |-> "failed"]}
     [] OTHER -> {})

\* The id in the event contradicts the pending refund of the intent (HTTP 400).
Contradicts(row, ref) == row.pending.ref \notin {None, ref} /\ ~Historical(row, ref)

\* handlePaystackRefundEvent, up to the call that verifies the refund.
HookTakes(w, e) ==
  /\ At(w, "idle")
  /\ e.ref \in DOMAIN gateway /\ e \in Events(e.ref) \ handled
  /\ LET i == gateway[e.ref].intent
     IN  /\ ~Contradicts(intents[i], e.ref)
         /\ Become(w, [Idle EXCEPT !.pc = "verify", !.task = "hook", !.event = e,
                                   !.ref = e.ref, !.at = i, !.row = intents[i]])
  /\ UNCHANGED <<intents, gateway, refund, decided, owed, repaid, handled, faults>>

HookBegin(w) == \E e \in UNION {Events(r) : r \in DOMAIN gateway} : HookTakes(w, e)

\* Mutant: an event other than a failure means the money went.
HookVerifyTrusting(w) ==
  LET rec == worker[w]
  IN
  /\ At(w, "verify")
  /\ Goto(w, IF rec.event.kind = "failed" THEN "fail" ELSE "money")
  /\ UNCHANGED <<intents, gateway, refund, decided, owed, repaid, handled, faults>>

\* verifyRefund: the gateway's status, not the event's, decides.
HookVerify(w) ==
  LET rec == worker[w]
  IN
  /\ At(w, "verify")
  /\ Goto(w, CASE rec.event.kind = "processing" -> "note"
               [] gateway[rec.ref].status = "processed" -> "money"
               [] gateway[rec.ref].status = "failed" -> "fail"
               [] OTHER -> "note")
  /\ UNCHANGED <<intents, gateway, refund, decided, owed, repaid, handled, faults>>

Targets(rec) == rec.row.pending.ref = rec.ref

\* The amount of the slice as the intent remembers it; 0 when it does not.
SliceAmount(rec) ==
  CASE Targets(rec) -> rec.row.pending.amount
    [] ~Targets(rec) /\ rec.row.last.ref = rec.ref -> rec.row.last.amount
    [] ~Targets(rec) /\ rec.row.last.ref # rec.ref /\ rec.row.attempt = rec.ref -> gateway[rec.ref].amount
    [] OTHER -> 0

SliceKey(rec) ==
  CASE Targets(rec) -> rec.row.pending.key
    [] ~Targets(rec) /\ rec.row.last.ref = rec.ref -> rec.row.last.key
    [] OTHER -> NoKey

\* finalizeCustomerGatewayRefund: the money on the intent.
HookMoney(w) ==
  LET rec == worker[w]
      amount == SliceAmount(rec)
      counted == IF AlreadyFinalized(rec.row, rec.ref, SliceKey(rec)) THEN amount
                 ELSE Applied(rec.at, rec.row, rec.ref, amount, SliceKey(rec))
  IN
  /\ At(w, "money")
  /\ ApplyIntentRefundMoney(rec.at, rec.row, rec.ref, amount, SliceKey(rec))
  /\ Become(w, IF amount = 0 THEN Idle
               ELSE [rec EXCEPT !.pc = IF counted = 0 THEN "mark" ELSE "artifacts",
                                !.amount = counted, !.row = NewRow])
  /\ UNCHANGED <<gateway, refund, decided, owed, repaid, handled, faults>>

\* finalizeJobCustomerRefundArtifacts reads the job outside its transaction ...
HookArtifacts(w) ==
  LET rec == worker[w]
  IN
  /\ At(w, "artifacts")
  /\ Goto(w, IF rec.ref \in refund.finalized \/ refund.status = "REFUND_COMPLETED"
             THEN "continue" ELSE "book")
  /\ UNCHANGED <<intents, gateway, refund, decided, owed, repaid, handled, faults>>

\* ... and books the slice inside it.
HookBook(w) ==
  LET rec == worker[w]
      left == refund.pending - Min2(refund.pending, rec.amount)
  IN
  /\ At(w, "book")
  /\ refund' = [status |-> IF left = 0 THEN "REFUND_COMPLETED" ELSE "REFUND_PROCESSING",
                 immediate |-> refund.immediate + rec.amount,
                 pending |-> left,
                 ready |-> IF left = 0 THEN 0 ELSE refund.ready,
                 finalized |-> refund.finalized \union {rec.ref}]
  /\ Goto(w, "continue")
  /\ UNCHANGED <<intents, gateway, decided, owed, repaid, handled, faults>>

\* continueFifoRefundIfNeeded
HookContinue(w) ==
  /\ At(w, "continue")
  /\ IF PolicyRefundable = 0 \/ refund.pending = 0 \/ JobHasActivePendingRefund
     THEN Goto(w, "mark")
     ELSE \E left \in 1..refund.pending :
            /\ left = Min2(refund.pending, PolicyRefundable)
            /\ Become(w, Asking(worker[w], "continue", left))
  /\ UNCHANGED <<intents, gateway, refund, decided, owed, repaid, handled, faults>>

\* classifyFifoContinuation: no next slice and no good reason means HTTP 500,
\* and the gateway sends the event again.
ContinueAnswered(w) ==
  /\ At(w, "answered") /\ worker[w].task = "continue"
  /\ IF worker[w].answer = "pending"
     THEN Goto(w, "mark") /\ UNCHANGED refund
     ELSE /\ refund' = [refund EXCEPT !.status = "REFUND_PROCESSING"]
          /\ IF worker[w].answer = "short" THEN Goto(w, "mark") ELSE Become(w, Idle)
  /\ UNCHANGED <<intents, gateway, decided, owed, repaid, handled, faults>>

\* updatePendingRefundStatus(intent, "FAILED")
HookFail(w) ==
  LET rec == worker[w]
  IN
  /\ At(w, "fail")
  /\ IF Targets(rec)
     THEN /\ PersistPayload(rec.at, [rec.row EXCEPT !.attempt = rec.ref, !.pending = NoSlice])
          /\ Become(w, [rec EXCEPT !.pc = "failed", !.row = NewRow])
     ELSE /\ Become(w, [rec EXCEPT !.pc = "mark", !.row = NewRow])
          /\ UNCHANGED intents
  /\ UNCHANGED <<gateway, refund, decided, owed, repaid, handled, faults>>

HookFailed(w) ==
  /\ At(w, "failed")
  /\ refund' = [refund EXCEPT !.status = "REFUND_FAILED"]
  /\ Goto(w, "mark")
  /\ UNCHANGED <<intents, gateway, decided, owed, repaid, handled, faults>>

\* Mutant: an event that changes nothing clears the pending refund.
HookNoteClears(w) ==
  LET rec == worker[w]
  IN
  /\ At(w, "note")
  /\ IF Targets(rec) THEN PersistPayload(rec.at, [rec.row EXCEPT !.pending = NoSlice])
     ELSE UNCHANGED intents
  /\ Become(w, [rec EXCEPT !.pc = "mark", !.row = NewRow])
  /\ UNCHANGED <<gateway, refund, decided, owed, repaid, handled, faults>>

\* updatePendingRefundStatus(intent, "PENDING")
HookNote(w) ==
  LET rec == worker[w]
  IN
  /\ At(w, "note")
  /\ IF Targets(rec) THEN PersistPayload(rec.at, rec.row) ELSE UNCHANGED intents
  /\ Become(w, [rec EXCEPT !.pc = "mark", !.row = NewRow])
  /\ UNCHANGED <<gateway, refund, decided, owed, repaid, handled, faults>>

\* markEventFullyProcessed
HookMark(w) ==
  /\ At(w, "mark")
  /\ handled' = handled \union {worker[w].event}
  /\ Become(w, Idle)
  /\ UNCHANGED <<intents, gateway, refund, decided, owed, repaid, faults>>

----------------------------------------------------------------------------
\* The gateway settles a refund it accepted.
GatewaySettles ==
  /\ \E r \in DOMAIN gateway, status \in {"processed", "failed"} :
       /\ gateway[r].status = "pending"
       /\ gateway' = [gateway EXCEPT ![r].status = status]
  /\ UNCHANGED <<intents, refund, decided, owed, repaid, handled, worker, faults>>

\* The process of a worker stops.
Crash(w) ==
  /\ ~At(w, "idle") /\ faults < MaxFaults
  /\ faults' = faults + 1
  /\ Become(w, Idle)
  /\ UNCHANGED <<intents, gateway, refund, decided, owed, repaid, handled>>

\* A request or an event arrives at an idle worker, ...
Begin(w) ==
  \/ ResolveBegin(w) \/ ConfirmRepayment(w) \/ PayoutAgain(w) \/ ReleaseRecovers(w)
  \/ HookBegin(w)

\* ... which goes on with it to its end.
Continue(w) ==
  \/ ReadIntent(w) \/ AskGateway(w) \/ AskRefused(w) \/ SaveAnswer(w)
  \/ ResolveAnswered(w) \/ RecordDecision(w)
  \/ PayoutCheck(w) \/ PayoutRequest(w) \/ PayoutAnswered(w)
  \/ StagedRequest(w) \/ StagedAnswered(w)
  \/ HookVerify(w) \/ HookMoney(w) \/ HookArtifacts(w) \/ HookBook(w)
  \/ HookContinue(w) \/ ContinueAnswered(w)
  \/ HookFail(w) \/ HookFailed(w) \/ HookNote(w) \/ HookMark(w)

Next == GatewaySettles \/ \E w \in Workers : Begin(w) \/ Continue(w) \/ Crash(w)

Spec == Init /\ [][Next]_vars

\* A handler that does not stop goes on, and the gateway repeats an event until
\* it is answered 200: some worker takes it however often they are busy.
FairSpec ==
  /\ Spec
  /\ \A w \in Workers : WF_vars(Continue(w))
  /\ \A w \in Workers, r \in 1..MaxRefunds :
       SF_vars(HookTakes(w, [ref |-> r, kind |-> "processed"]))

----------------------------------------------------------------------------
(* Properties. *)

Kinds == {"none", "processing", "processed", "failed"}
Refs == 0..MaxRefunds
Tasks == {"none", "staged", "payout", "release", "continue", "hook"}
Keys == Tasks \X Nat \X Nat
Slices == [ref: Refs, amount: Nat, key: Keys]
Rows == [refunded: Nat, pending: Slices, finalized: SUBSET Refs, last: Slices, attempt: Refs]
Refunds == [intent: Intents, amount: Nat, status: {"pending", "processed", "failed"}]
JobRefunds ==
  [status: {"NONE", "READY", "REFUND_REQUESTED", "REFUND_PROCESSING", "REFUND_COMPLETED",
            "REFUND_FAILED"},
   immediate: Nat, pending: Nat, ready: Nat, finalized: SUBSET Refs]
AllEvents == [ref: Refs, kind: Kinds]
Works ==
  [pc: {"idle", "read", "ask", "save", "answered", "record", "check", "request", "release", "verify",
        "money", "artifacts", "book", "continue", "fail", "failed", "note", "mark"},
   task: Tasks, decision: 0..Len(Decisions), number: Nat, event: AllEvents, row: Rows,
   amount: Nat, left: Nat, plan: [Intents -> Nat], at: Nat, ref: Refs, refs: SUBSET Refs,
   answer: {"none", "pending", "processed", "ok", "short", "nothing", "failed"}]

TypeOK ==
  /\ intents \in [Intents -> Rows]
  /\ gateway \in Seq(Refunds) /\ Len(gateway) <= MaxRefunds
  /\ refund \in JobRefunds
  /\ decided \in 0..Len(Decisions)
  /\ owed \in Nat
  /\ repaid \in Seq(Repayments)
  /\ handled \subseteq AllEvents
  /\ worker \in [Workers -> Works]
  /\ faults \in 0..MaxFaults

\* However requests, webhooks and retries overlap, an intent never counts more
\* as refunded than laborCustomerRefundCeiling allows (its commission stays).
RefundedWithinCeiling == \A i \in Intents : intents[i].refunded <= Ceiling[i]

Processed(r) == r \in DOMAIN gateway /\ gateway[r].status = "processed"

\* However they overlap, a slice is finalized, on the intent it was asked of and
\* on the job, only if the gateway really processed it.
FinalizedWasProcessed ==
  /\ \A i \in Intents : \A r \in intents[i].finalized : Processed(r) /\ gateway[r].intent = i
  /\ \A r \in refund.finalized : Processed(r)

\* However they overlap, an intent never waits for a refund that it already counts:
\* the event that ends the waiting would change nothing, and no more of the intent
\* could ever be refunded.
PendingNotCounted ==
  \A i \in Intents :
    intents[i].pending.ref # None => intents[i].pending.ref \notin intents[i].finalized

Sum(S) == SumFunctionOnSet([r \in DOMAIN gateway |-> gateway[r].amount], S)

\* With handlers one at a time, through lost answers, stops half way, retries and
\* events repeated or out of order: refundedAmount never counts a slice twice,
\* nor one the gateway did not pay.
BooksMatchGateway ==
  \A i \in Intents :
    intents[i].refunded <= Sum({r \in DOMAIN gateway : Processed(r) /\ gateway[r].intent = i})

Waits(i, r) == intents[i].pending.ref = r /\ intents[i].pending.key # intents[i].last.key

\* In the same runs, a slice the gateway processed and an intent waits for is
\* finalized in the end, whatever stops on the way and however its event repeats
\* or is overtaken; unless its key is that of the slice finalized before it.
ProcessedIsBooked ==
  \A r \in 1..MaxRefunds, i \in Intents :
    (Processed(r) /\ Waits(i, r)) ~> (r \in intents[i].finalized)
=============================================================================
