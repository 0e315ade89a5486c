------------------------- MODULE LaborPayments_proofs -------------------------
(***************************************************************************)
(* Theorems about LaborPayments, for every payment mode and all bounds.    *)
(***************************************************************************)
EXTENDS LaborPayments, TLAPS

\* A handler that begins or ends leaves the set of handlers well formed.
LEMMA HandlerTypes ==
  /\ \A r \in Refs : Handler("chargeFailed", r) \in Handlers
  /\ \A i \in Intents : Handler("confirmReturn", i) \in Handlers
  /\ \A op \in {"markComplete", "oblige", "obligeAdmin", "confirm", "cancel",
                "markRefunded", "forceSnapshot", "openDispute", "reopenDispute", "refund"} :
       Handler(op, 0) \in Handlers
  BY DEF Handler, Handlers

\* Setting the state of some intents changes nothing else of any row.
LEMMA SetIntentStateType ==
  ASSUME intents \in [Intents -> IntentRows], NEW S, NEW state \in IntentStates,
         SetIntentState(S, state)
  PROVE  intents' \in [Intents -> IntentRows]
  BY DEF SetIntentState, IntentRows

\* The job row a settlement writes.
LEMMA JobAfterPaymentType ==
  ASSUME job \in JobRows, NEW type \in PaymentTypes
  PROVE  JobAfterPayment(type) \in JobRows
<1> DEFINE completes == type \in CompletionTypes
           status == CASE completes -> "COMPLETED"
                       [] ~completes /\ job.status = "ACCEPTED" -> "IN_PROGRESS"
                       [] OTHER -> job.status
           override == IF completes THEN "COMPLETED" ELSE "SERVICE_PAID"
           credited == [job.credited EXCEPT ![type] = @ + 1]
           adminDue == ~completes /\ job.adminDue
<1>1. JobAfterPayment(type)
        = [job EXCEPT !.progress = ProgressAfter(type), !.credited = credited,
                      !.status = status, !.override = override, !.adminDue = adminDue]
  BY DEF JobAfterPayment
<1>2. ProgressAfter(type) \in PaymentProgress
  BY DEF ProgressAfter, PaymentProgress
<1>3. credited \in [PaymentTypes -> Nat]
  BY DEF JobRows
<1>4. status \in JobStatuses
  BY DEF JobRows, JobStatuses
<1>5. override \in StatusOverrides
  BY DEF StatusOverrides
<1>6. adminDue \in BOOLEAN
  BY DEF JobRows
<1> HIDE DEF status, override, credited, adminDue
<1> QED
  BY <1>1, <1>2, <1>3, <1>4, <1>5, <1>6 DEF JobRows

\* Checkout, webhook and settlement steps write rows their columns allow.
LEMMA CheckoutKeepsType == ASSUME TypeOK, CheckoutNext PROVE TypeOK'
<1> USE DEF TypeOK
<1>1. ASSUME NEW g \in Gateways, CreatePaymentIntent(g) PROVE TypeOK'
  <2>1. NextLaborPayment \in PaymentTypes
    BY <1>1 DEF CreatePaymentIntent, NextLaborPayment, ResolveNextLaborPaymentType,
                PaymentTypes, NoPayment
  <2>2. minted + 1 \in Refs
    BY <1>1, BoundsAssumption DEF CreatePaymentIntent, Refs
  <2>3. job.quote \in Quotes
    BY DEF JobRows
  <2>4. checkouts' \in [Refs -> Checkouts]
    BY <1>1, <2>1, <2>2, <2>3 DEF CreatePaymentIntent, Checkouts
  <2>5. intents' \in [Intents -> IntentRows]
    <3>1. PICK i \in Intents :
             intents' = [intents EXCEPT ![i] =
                           [state |-> "PENDING", type |-> NextLaborPayment,
                            ref |-> minted + 1, quote |-> job.quote]]
      BY <1>1 DEF CreatePaymentIntent, IntentToUse, ReusableIntents, IntentsOfType
    <3> QED
      BY <2>1, <2>2, <2>3, <3>1 DEF IntentRows, IntentStates
  <2> QED
    BY <1>1, <2>2, <2>4, <2>5 DEF CreatePaymentIntent
<1>2. ASSUME NEW r \in Refs, NEW s \in NotificationStates, GatewayDecides(r, s)
      PROVE  TypeOK'
  <2>1. checkouts' = [checkouts EXCEPT ![r].told = @ \cup {s}]
    BY <1>2 DEF GatewayDecides
  <2>2. checkouts \in [Refs -> Checkouts]
    OBVIOUS
  <2>3. checkouts' \in [Refs -> Checkouts]
    <3> HIDE DEF TypeOK
    <3> QED
      BY <2>1, <2>2 DEF Checkouts
  <2> QED
    BY <1>2, <2>3 DEF GatewayDecides
<1>3. ASSUME NEW r \in Refs, NEW s \in NotificationStates, WebhookIntentNotFound(r, s)
      PROVE  TypeOK'
  BY <1>3 DEF WebhookIntentNotFound, EventRecorded
<1>4. ASSUME NEW r \in Refs, WebhookPaid(r) PROVE TypeOK'
  <2>1. PICK i \in IntentByReference(r) :
          \/ UNCHANGED <<job, obligation, intents, ledger>>
          \/ SetIntentState({i}, "PAID") /\ Settle(i)
    BY <1>4 DEF WebhookPaid
  <2>2. i \in Intents
    BY DEF IntentByReference
  <2>3. events' \in [Refs -> [NotificationStates -> {"NONE", "INTENT_NOT_FOUND", "PROCESSED"}]]
    BY <1>4 DEF WebhookPaid, EventRecorded, NotificationStates
  <2>4. intents' \in [Intents -> IntentRows]
    BY <2>1, SetIntentStateType DEF IntentStates
  <2>5. job' \in JobRows /\ obligation' \in [state : ObligationStates, source : Sources]
        /\ ledger' \subseteq LedgerRows
    <3>1. CASE UNCHANGED <<job, obligation, intents, ledger>>
      BY <3>1
    <3>2. CASE UNCHANGED <<job, obligation, ledger>>
      BY <3>2
    <3>3. CASE /\ job' = JobAfterPayment(intents[i].type)
               /\ ledger' = LedgerAfterPayment(i)
               /\ obligation' = IF intents[i].type \in CompletionTypes
                                THEN ObligationAfterCase("PAID") ELSE obligation
      <4>0. intents[i] \in IntentRows /\ intents[i].type \in PaymentTypes
        BY <2>2 DEF IntentRows
      <4>1. job' \in JobRows
        BY <3>3, <4>0, JobAfterPaymentType
      <4>2. ledger' \subseteq LedgerRows
        BY <2>2, <3>3, <4>0 DEF LedgerAfterPayment, LedgerRows, IntentRows
      <4>3. obligation' \in [state : ObligationStates, source : Sources]
        BY <3>3 DEF ObligationAfterCase, ObligationStates
      <4> QED
        BY <4>1, <4>2, <4>3
    <3> QED
      BY <2>1, <3>1, <3>2, <3>3 DEF Settle
  <2> QED
    BY <1>4, <2>3, <2>4, <2>5 DEF WebhookPaid
<1>5. ASSUME NEW r \in Refs, NEW s \in {"FAILED", "CANCELLED"},
             UnpaidNotification(r, s), inFlight' \subseteq Handlers
      PROVE  TypeOK'
  <2>1. intents' \in [Intents -> IntentRows]
    BY <1>5, SetIntentStateType DEF UnpaidNotification, IntentStates
  <2>2. events' \in [Refs -> [NotificationStates -> {"NONE", "INTENT_NOT_FOUND", "PROCESSED"}]]
    BY <1>5 DEF UnpaidNotification, EventRecorded, NotificationStates
  <2> QED
    BY <1>5, <2>1, <2>2 DEF UnpaidNotification
<1>6. ASSUME NEW r \in Refs, NEW s \in {"FAILED", "CANCELLED"}, PayfastNotPaid(r, s)
      PROVE  TypeOK'
  BY <1>5, <1>6 DEF PayfastNotPaid
<1>7. ASSUME NEW r \in Refs, PaystackChargeFailed(r) PROVE TypeOK'
  BY <1>7, HandlerTypes DEF PaystackChargeFailed, Begin
<1>8. ASSUME NEW r \in Refs, ApplyChargeFailed(r) PROVE TypeOK'
  BY <1>5, <1>8 DEF ApplyChargeFailed, End
<1>9. ASSUME NEW i \in Intents, PaymentReturn(i) PROVE TypeOK'
  BY <1>9, HandlerTypes DEF PaymentReturn, Begin
<1>10. ASSUME NEW i \in Intents, MarkProcessing(i) PROVE TypeOK'
  <2>1. intents' \in [Intents -> IntentRows]
    BY <1>10, SetIntentStateType DEF MarkProcessing, IntentStates
  <2> QED
    BY <1>10, <2>1 DEF MarkProcessing, End
<1> QED
  BY <1>1, <1>2, <1>3, <1>4, <1>6, <1>7, <1>8, <1>9, <1>10 DEF CheckoutNext
\* So do the steps of the job's life.
LEMMA LifecycleKeepsType == ASSUME TypeOK, LifecycleNext PROVE TypeOK'
<1> USE DEF TypeOK
<1>1. CASE AcceptProposedPrice
  <2>1. job.price + 1 \in Quotes
    BY <1>1, BoundsAssumption DEF AcceptProposedPrice, JobRows, Quotes
  <2>2. job' \in JobRows
    BY <1>1, <2>1 DEF AcceptProposedPrice, JobRows, StatusOverrides
  <2>3. inFlight' \subseteq Handlers
    BY <1>1, HandlerTypes DEF AcceptProposedPrice, Begin
  <2> QED
    BY <1>1, <2>2, <2>3 DEF AcceptProposedPrice
<1>2. CASE SnapshotPaymentMode
  BY <1>2 DEF SnapshotPaymentMode, End, JobRows
<1>3. CASE RequestMarkComplete
  BY <1>3, HandlerTypes DEF RequestMarkComplete, Begin
<1>4. CASE MarkComplete
  <2>1. job' \in JobRows
    BY <1>4 DEF MarkComplete, JobRows, StatusOverrides
  <2>2. inFlight' \subseteq Handlers
    BY <1>4, HandlerTypes DEF MarkComplete
  <2> QED
    BY <1>4, <2>1, <2>2 DEF MarkComplete
<1>5. CASE OpenObligation
  BY <1>5 DEF OpenObligation, UpsertOpenObligation, End, ObligationStates, Sources
<1>6. CASE RequestConfirmation
  BY <1>6, HandlerTypes DEF RequestConfirmation, Begin
<1>7. CASE ConfirmJobCompletion
  BY <1>7 DEF ConfirmJobCompletion, End, JobRows, JobStatuses
<1>8. CASE DeadlinePasses
  BY <1>8 DEF DeadlinePasses, JobRows
<1>9. CASE SystemCompleteJobAfterDeadline
  BY <1>9 DEF SystemCompleteJobAfterDeadline, JobRows, JobStatuses, StatusOverrides
<1>10. CASE RequestCancellation
  BY <1>10, HandlerTypes DEF RequestCancellation, Begin
<1>11. CASE CancelJob
  BY <1>11, HandlerTypes DEF CancelJob, JobRows, JobStatuses, StatusOverrides
<1>12. CASE MarkLaborIntentRefunded
  <2>1. intents' \in [Intents -> IntentRows]
    BY <1>12, SetIntentStateType DEF MarkLaborIntentRefunded, IntentStates
  <2> QED
    BY <1>12, <2>1 DEF MarkLaborIntentRefunded, End
<1> QED
  BY <1>1, <1>2, <1>3, <1>4, <1>5, <1>6, <1>7, <1>8, <1>9, <1>10, <1>11, <1>12
     DEF LifecycleNext

\* And those of a dispute and its side effects.
LEMMA DisputeKeepsType == ASSUME TypeOK, DisputeNext PROVE TypeOK'
<1> USE DEF TypeOK
<1>1. CASE RequestDispute
  BY <1>1, HandlerTypes DEF RequestDispute, Begin
<1>2. ASSUME NEW op \in {"openDispute", "reopenDispute"}, OpenDispute(op) PROVE TypeOK'
  <2>1. job' \in JobRows
    BY <1>2 DEF OpenDispute, JobRows, StatusOverrides
  <2>2. /\ dispute' \in [status : {"NONE", "OPEN", "RESOLVED"}, cases : Nat]
        /\ obligation' \in [state : ObligationStates, source : Sources]
    BY <1>2 DEF OpenDispute, ObligationStates
  <2>3. sweep' \in [snapshot : BOOLEAN, mark : SUBSET Intents, void : SUBSET Intents]
    BY <1>2 DEF OpenDispute, NoSweep
  <2> QED
    BY <1>2, <2>1, <2>2, <2>3 DEF OpenDispute, End
<1>3. CASE SweepSnapshot
  BY <1>3 DEF SweepSnapshot
<1>4. ASSUME NEW i \in Intents, MarkIntentDisputed(i) \/ VoidCompletionIntent(i)
      PROVE  TypeOK'
  <2>1. intents' \in [Intents -> IntentRows]
    BY <1>4, SetIntentStateType DEF MarkIntentDisputed, VoidCompletionIntent, IntentStates
  <2>2. sweep' \in [snapshot : BOOLEAN, mark : SUBSET Intents, void : SUBSET Intents]
    BY <1>4 DEF MarkIntentDisputed, VoidCompletionIntent
  <2> QED
    BY <1>4, <2>1, <2>2 DEF MarkIntentDisputed, VoidCompletionIntent
<1>5. CASE ReleaseFunds
  <2>1. job' \in JobRows
    BY <1>5 DEF ReleaseFunds, JobRows, JobStatuses, StatusOverrides
  <2>2. inFlight' \subseteq Handlers
    BY <1>5, HandlerTypes DEF ReleaseFunds, Begin
  <2>3. /\ dispute' \in [status : {"NONE", "OPEN", "RESOLVED"}, cases : Nat]
        /\ obligation' \in [state : ObligationStates, source : Sources]
    BY <1>5 DEF ReleaseFunds, Resolved, ObligationStates
  <2> QED
    BY <1>5, <2>1, <2>2, <2>3 DEF ReleaseFunds
<1>6. CASE OpenAdminObligation
  BY <1>6 DEF OpenAdminObligation, UpsertOpenObligation, End, ObligationStates, Sources
<1>7. CASE GatewayRefundFirst
  <2>1. intents' \in [Intents -> IntentRows]
    BY <1>7 DEF GatewayRefundFirst, RefundableIntents, IntentRows, IntentStates
  <2>2. inFlight' \subseteq Handlers
    BY <1>7, HandlerTypes DEF GatewayRefundFirst, Begin
  <2> QED
    BY <1>7, <2>1, <2>2 DEF GatewayRefundFirst
<1>8. CASE ResolveWithRefund \/ ReturnProvider
  <2>1. job' \in JobRows
    <3>1. CASE ResolveWithRefund
      BY <3>1 DEF ResolveWithRefund, JobRows, JobStatuses, StatusOverrides
    <3>2. CASE ReturnProvider
      BY <3>2 DEF ReturnProvider, JobRows, JobStatuses, StatusOverrides
    <3> QED
      BY <1>8, <3>1, <3>2
  <2>2. /\ dispute' \in [status : {"NONE", "OPEN", "RESOLVED"}, cases : Nat]
        /\ obligation' \in [state : ObligationStates, source : Sources]
    BY <1>8 DEF ResolveWithRefund, ReturnProvider, Resolved, ObligationAfterCase,
                ObligationStates
  <2> QED
    BY <1>8, <2>1, <2>2 DEF ResolveWithRefund, ReturnProvider, End
<1>9. CASE CloseCase
  BY <1>9 DEF CloseCase, Resolved, ObligationStates, JobRows
<1> QED
  BY <1>1, <1>2, <1>3, <1>4, <1>5, <1>6, <1>7, <1>8, <1>9 DEF DisputeNext

\* Whatever the handlers do, in whatever order, every row stays within what its
\* columns allow; in particular no reference is used that was not minted.
THEOREM LaborTypeOK == Spec => []TypeOK
<1>1. Init => TypeOK
  <2> SUFFICES ASSUME Init PROVE TypeOK
    OBVIOUS
  <2>1. job \in JobRows
    BY BoundsAssumption DEF Init, JobRows, JobStatuses, StatusOverrides, PaymentProgress,
                            Quotes
  <2>2. /\ intents \in [Intents -> IntentRows]
        /\ checkouts \in [Refs -> Checkouts]
        /\ minted \in {0} \cup Refs
    BY BoundsAssumption DEF Init, IntentRows, IntentStates, Checkouts, PaymentTypes, Quotes
  <2>3. /\ dispute \in [status : {"NONE", "OPEN", "RESOLVED"}, cases : Nat]
        /\ obligation \in [state : ObligationStates, source : Sources]
        /\ sweep \in [snapshot : BOOLEAN, mark : SUBSET Intents, void : SUBSET Intents]
        /\ events \in [Refs -> [NotificationStates
                                 -> {"NONE", "INTENT_NOT_FOUND", "PROCESSED"}]]
    BY DEF Init, ObligationStates, Sources, NoSweep
  <2> QED
    BY <2>1, <2>2, <2>3 DEF Init, TypeOK
<1>2. TypeOK /\ [Next]_vars => TypeOK'
  <2> SUFFICES ASSUME TypeOK, [Next]_vars PROVE TypeOK'
    OBVIOUS
  <2>1. CASE HandlerDies
    BY <2>1 DEF HandlerDies, TypeOK
  <2>2. CASE SweepDies
    BY <2>2 DEF SweepDies, TypeOK, NoSweep
  <2>3. CASE UNCHANGED vars
    BY <2>3 DEF vars, TypeOK
  <2> QED
    BY <2>1, <2>2, <2>3, CheckoutKeepsType, LifecycleKeepsType, DisputeKeepsType DEF Next
<1> QED
  BY <1>1, <1>2, PTL DEF Spec
----------------------------------------------------------------------------
(* What can change the books *)

\* Only a webhook that reports a paid checkout books anything: the ledger and the
\* job's totals are nobody else's to write.
LEMMA OnlyPaidBooks ==
  ASSUME TypeOK, [Next]_vars
  PROVE  \/ \E r \in Refs : WebhookPaid(r)
         \/ /\ UNCHANGED ledger
            /\ job'.progress = job.progress
            /\ job'.credited = job.credited
<1>0. job \in JobRows
  BY DEF TypeOK
<1>1. CASE CheckoutNext
  BY <1>1
     DEF CheckoutNext, CreatePaymentIntent, GatewayDecides, WebhookIntentNotFound,
         PayfastNotPaid, UnpaidNotification, PaystackChargeFailed, ApplyChargeFailed,
         PaymentReturn, MarkProcessing
<1>2. CASE LifecycleNext
  <2>1. UNCHANGED ledger
    BY <1>2
       DEF LifecycleNext, AcceptProposedPrice, SnapshotPaymentMode, RequestMarkComplete,
           MarkComplete, OpenObligation, RequestConfirmation, ConfirmJobCompletion,
           DeadlinePasses, SystemCompleteJobAfterDeadline, RequestCancellation, CancelJob,
           MarkLaborIntentRefunded
  <2>2. job'.progress = job.progress /\ job'.credited = job.credited
    BY <1>0, <1>2
       DEF LifecycleNext, AcceptProposedPrice, SnapshotPaymentMode, RequestMarkComplete,
           MarkComplete, OpenObligation, RequestConfirmation, ConfirmJobCompletion,
           DeadlinePasses, SystemCompleteJobAfterDeadline, RequestCancellation, CancelJob,
           MarkLaborIntentRefunded, JobRows
  <2> QED
    BY <2>1, <2>2
<1>3. CASE DisputeNext
  <2>1. UNCHANGED ledger
    BY <1>3
       DEF DisputeNext, RequestDispute, OpenDispute, SweepSnapshot, MarkIntentDisputed,
           VoidCompletionIntent, ReleaseFunds, OpenAdminObligation, GatewayRefundFirst,
           ResolveWithRefund, ReturnProvider, CloseCase
  <2>2. job'.progress = job.progress /\ job'.credited = job.credited
    BY <1>0, <1>3
       DEF DisputeNext, RequestDispute, OpenDispute, SweepSnapshot, MarkIntentDisputed,
           VoidCompletionIntent, ReleaseFunds, OpenAdminObligation, GatewayRefundFirst,
           ResolveWithRefund, ReturnProvider, CloseCase, JobRows
  <2> QED
    BY <2>1, <2>2
<1>4. CASE HandlerDies \/ SweepDies \/ UNCHANGED vars
  BY <1>4 DEF HandlerDies, SweepDies, vars
<1> QED
  BY <1>1, <1>2, <1>3, <1>4 DEF Next

----------------------------------------------------------------------------
(* Cases: the dispute row, and the freeze of the job agree. *)

\* The steps that say nothing of a case: they leave the dispute row and the
\* freeze, and release no balance.
LEMMA OutsideCase ==
  ASSUME OpenCaseFreezesJob, UNCHANGED dispute,
         job'.frozen = job.frozen,
         job'.adminDue => job.adminDue
  PROVE  OpenCaseFreezesJob'
  BY DEF OpenCaseFreezesJob

\* The steps that leave a case resolved.
LEMMA CaseResolved ==
  ASSUME dispute'.status # "OPEN"
  PROVE  OpenCaseFreezesJob'
  BY DEF OpenCaseFreezesJob

LEMMA NextKeepsOpenCaseFrozen ==
  ASSUME TypeOK, OpenCaseFreezesJob, [Next]_vars
  PROVE  OpenCaseFreezesJob'
<1>0. /\ job \in JobRows
      /\ dispute \in [status : {"NONE", "OPEN", "RESOLVED"}, cases : Nat]
  BY DEF TypeOK
<1>1. CASE UNCHANGED <<job, dispute>>
  BY <1>1, OutsideCase
<1>2. ASSUME NEW r \in Refs, WebhookPaid(r) PROVE OpenCaseFreezesJob'
  <2>1. CASE UNCHANGED job
    BY <1>1, <1>2, <2>1 DEF WebhookPaid
  <2>2. ASSUME NEW i \in Intents,
               job' = JobAfterPayment(intents[i].type),
               obligation' = IF intents[i].type \in CompletionTypes
                             THEN ObligationAfterCase("PAID") ELSE obligation
        PROVE  OpenCaseFreezesJob'
    <3>1. job'.frozen = job.frozen /\ (job'.adminDue => job.adminDue)
      BY <1>0, <2>2 DEF JobAfterPayment, JobRows
    <3> QED
      BY <1>2, <3>1, OutsideCase DEF WebhookPaid
  <2> QED
    BY <1>2, <2>1, <2>2 DEF WebhookPaid, Settle, IntentByReference
<1>3. CASE CheckoutNext
  BY <1>1, <1>2, <1>3
     DEF CheckoutNext, CreatePaymentIntent, GatewayDecides, WebhookIntentNotFound,
         PayfastNotPaid, UnpaidNotification, PaystackChargeFailed, ApplyChargeFailed,
         PaymentReturn, MarkProcessing
<1>4. CASE \/ AcceptProposedPrice \/ SnapshotPaymentMode \/ MarkComplete
           \/ ConfirmJobCompletion \/ DeadlinePasses \/ SystemCompleteJobAfterDeadline
           \/ CancelJob
  <2>1. UNCHANGED dispute
    BY <1>4 DEF AcceptProposedPrice, SnapshotPaymentMode, MarkComplete,
                ConfirmJobCompletion, DeadlinePasses, SystemCompleteJobAfterDeadline,
                CancelJob
  <2>2. job'.frozen = job.frozen /\ job'.adminDue = job.adminDue
    BY <1>0, <1>4
       DEF JobRows, AcceptProposedPrice, SnapshotPaymentMode, MarkComplete,
           ConfirmJobCompletion, DeadlinePasses, SystemCompleteJobAfterDeadline, CancelJob
  <2> QED
    BY <2>1, <2>2, OutsideCase
<1>5. CASE OpenObligation \/ OpenAdminObligation
  BY <1>0, <1>5, OutsideCase DEF OpenObligation, OpenAdminObligation, UpsertOpenObligation
<1>6. CASE LifecycleNext
  BY <1>1, <1>4, <1>5, <1>6
     DEF LifecycleNext, RequestMarkComplete, RequestConfirmation, RequestCancellation,
         MarkLaborIntentRefunded
<1>7. ASSUME NEW op \in {"openDispute", "reopenDispute"}, OpenDispute(op) PROVE OpenCaseFreezesJob'
  <2>1. dispute'.status = "OPEN" /\ job'.frozen /\ ~job'.adminDue
    BY <1>0, <1>7 DEF OpenDispute, JobRows
  <2> QED
    BY <2>1 DEF OpenCaseFreezesJob
<1>8. CASE ReleaseFunds \/ CloseCase
  <2>1. dispute'.status = "RESOLVED"
    BY <1>0, <1>8 DEF ReleaseFunds, CloseCase, Resolved
  <2> QED
    BY <2>1, CaseResolved
<1>9. CASE ResolveWithRefund \/ ReturnProvider
  <2>1. dispute'.status = "RESOLVED"
    BY <1>0, <1>9 DEF ResolveWithRefund, ReturnProvider, Resolved
  <2> QED
    BY <2>1, CaseResolved
<1>10. CASE DisputeNext
  BY <1>1, <1>5, <1>7, <1>8, <1>9, <1>10
     DEF DisputeNext, RequestDispute, SweepSnapshot, MarkIntentDisputed,
         VoidCompletionIntent, GatewayRefundFirst
<1>11. CASE HandlerDies \/ SweepDies \/ UNCHANGED vars
  BY <1>1, <1>11 DEF HandlerDies, SweepDies, vars
<1> QED
  BY <1>3, <1>6, <1>10, <1>11 DEF Next

\* The freeze and the released balance follow the dispute row through every
\* opening, reopening, resolution and late write.
THEOREM LaborOpenCaseFreezesJob == Spec => []OpenCaseFreezesJob
<1>1. Init => OpenCaseFreezesJob
  BY DEF Init, OpenCaseFreezesJob
<1>2. TypeOK /\ OpenCaseFreezesJob /\ [Next]_vars => OpenCaseFreezesJob'
  BY NextKeepsOpenCaseFrozen
<1> QED
  BY <1>1, <1>2, LaborTypeOK, PTL DEF Spec

\* No completion payment is booked while a case is open: the settlement looks at
\* the freeze only, and the freeze stands for the dispute row.
THEOREM LaborNoCompletionBookedUnderReview == Spec => NoCompletionBookedUnderReview
<1> DEFINE Booking == \A entry \in ledger' \ ledger :
                        entry.type \in CompletionTypes => dispute.status # "OPEN"
<1>1. TypeOK /\ OpenCaseFreezesJob /\ [Next]_vars => [Booking]_vars
  <2> SUFFICES ASSUME TypeOK, OpenCaseFreezesJob, [Next]_vars PROVE Booking
    OBVIOUS
  <2>1. ASSUME NEW r \in Refs, WebhookPaid(r) PROVE Booking
    <3> SUFFICES ASSUME NEW entry \in ledger' \ ledger, entry.type \in CompletionTypes
                 PROVE  dispute.status # "OPEN"
      OBVIOUS
    <3>1. PICK i \in IntentByReference(r) : SetIntentState({i}, "PAID") /\ Settle(i)
      BY <2>1 DEF WebhookPaid
    <3>2. entry.type = intents[i].type
      BY <3>1 DEF Settle, LedgerAfterPayment
    <3>3. ~job.frozen
      BY <3>1, <3>2 DEF Settle, MaySettle, UnderReview
    <3> QED
      BY <3>3 DEF OpenCaseFreezesJob
  <2>2. CASE UNCHANGED ledger
    BY <2>2
  <2> QED
    BY <2>1, <2>2, OnlyPaidBooks
<1> QED
  BY <1>1, LaborTypeOK, LaborOpenCaseFreezesJob, PTL DEF Spec, NoCompletionBookedUnderReview
----------------------------------------------------------------------------
(* The books: the job's totals, its progress and the ledger agree. *)

\* The states of an intent whose money the gateway has taken.
Captured == {"PAID", "REFUNDED", "PARTIALLY_REFUNDED"}

\* What a handler or a dispute's side effects hold on to are rows that exist.
HeldIntentsExist ==
  /\ \A i \in Intents :
       Handler("confirmReturn", i) \in inFlight => intents[i].state # "ABSENT"
  /\ \A i \in sweep.mark \cup sweep.void : intents[i].state # "ABSENT"

\* An intent is for a stage of the job's mode, one for the second half exists only
\* once the first half is paid, and a ledger row is of the stage of its intent.
StagesInOrder ==
  /\ \A i \in Intents : intents[i].state # "ABSENT" =>
       /\ intents[i].type \in SettledStages(Mode, "FULLY_PAID")
       /\ intents[i].type = "COMPLETION" => job.progress # "NONE"
  /\ \A entry \in ledger :
       /\ intents[entry.intent].state # "ABSENT"
       /\ intents[entry.intent].type = entry.type
  /\ job.progress = "FIRST_PAID" => Mode = "TWO_PAYMENT_50_50"

BooksInv == HeldIntentsExist /\ StagesInOrder /\ TotalsMatchProgress

\* Except for the creation of an intent, no step changes the checkout one belongs
\* to, or makes one appear or disappear; and one is paid for only by a checkout
\* the gateway says is paid.
Stays(i) ==
  /\ intents'[i].type = intents[i].type
  /\ intents'[i].ref = intents[i].ref
  /\ intents'[i].quote = intents[i].quote
  /\ intents'[i].state = "ABSENT" <=> intents[i].state = "ABSENT"
  /\ intents'[i].state \in Captured =>
       intents[i].state \in Captured \/ "PAID" \in checkouts[intents[i].ref].told

LEMMA IntentsStay ==
  ASSUME TypeOK, HeldIntentsExist, [Next]_vars
  PROVE  \/ \E g \in Gateways : CreatePaymentIntent(g)
         \/ \A i \in Intents : Stays(i)
<1> DEFINE Stay == \A i \in Intents : Stays(i)
<1> USE DEF Stays
<1>0. intents \in [Intents -> IntentRows]
  BY DEF TypeOK
<1>1. ASSUME NEW S, NEW state \in IntentStates \ {"ABSENT"}, SetIntentState(S, state),
             \A i \in S \cap Intents :
               /\ intents[i].state # "ABSENT"
               /\ state \in Captured =>
                    intents[i].state \in Captured \/ "PAID" \in checkouts[intents[i].ref].told
      PROVE  Stay
  BY <1>0, <1>1 DEF SetIntentState, IntentRows
<1>2. CASE UNCHANGED intents
  BY <1>2
<1>3. ASSUME NEW r \in Refs, WebhookPaid(r) PROVE Stay
  BY <1>1, <1>2, <1>3 DEF WebhookPaid, IntentByReference, IntentStates
<1>4. ASSUME NEW r \in Refs, NEW s \in {"FAILED", "CANCELLED"}, UnpaidNotification(r, s)
      PROVE  Stay
  BY <1>1, <1>4 DEF UnpaidNotification, IntentByReference, IntentStates, Captured
<1>5. ASSUME NEW i \in Intents,
             MarkProcessing(i) \/ MarkIntentDisputed(i) \/ VoidCompletionIntent(i)
      PROVE  Stay
  <2>1. intents[i].state # "ABSENT"
    BY <1>5 DEF MarkProcessing, MarkIntentDisputed, VoidCompletionIntent, End,
                HeldIntentsExist
  <2>2. PICK state \in {"PROCESSING", "DISPUTED", "CANCELLED"} : SetIntentState({i}, state)
    BY <1>5 DEF MarkProcessing, MarkIntentDisputed, VoidCompletionIntent
  <2> QED
    BY <1>1, <2>1, <2>2 DEF IntentStates, Captured
<1>6. CASE MarkLaborIntentRefunded
  BY <1>1, <1>6 DEF MarkLaborIntentRefunded, IntentStates, Captured
<1>7. CASE GatewayRefundFirst
  BY <1>0, <1>7 DEF GatewayRefundFirst, RefundableIntents, IntentRows
<1> HIDE DEF Stays
<1>8. CASE CheckoutNext
  BY <1>2, <1>3, <1>4, <1>5, <1>8
     DEF CheckoutNext, GatewayDecides, WebhookIntentNotFound, PayfastNotPaid,
         PaystackChargeFailed, ApplyChargeFailed, PaymentReturn
<1>9. CASE LifecycleNext
  BY <1>2, <1>6, <1>9
     DEF LifecycleNext, AcceptProposedPrice, SnapshotPaymentMode, RequestMarkComplete,
         MarkComplete, OpenObligation, RequestConfirmation, ConfirmJobCompletion,
         DeadlinePasses, SystemCompleteJobAfterDeadline, RequestCancellation, CancelJob
<1>10. CASE DisputeNext
  BY <1>2, <1>5, <1>7, <1>10
     DEF DisputeNext, RequestDispute, OpenDispute, SweepSnapshot, ReleaseFunds,
         OpenAdminObligation, ResolveWithRefund, ReturnProvider, CloseCase
<1>11. CASE HandlerDies \/ SweepDies \/ UNCHANGED vars
  BY <1>2, <1>11 DEF HandlerDies, SweepDies, vars
<1> QED
  BY <1>8, <1>9, <1>10, <1>11 DEF Next

\* Only the return from a checkout starts a handler that will mark an intent as
\* processing.
LEMMA OnlyReturnsConfirm ==
  ASSUME [Next]_vars, NEW i \in Intents, Handler("confirmReturn", i) \in inFlight'
  PROVE  Handler("confirmReturn", i) \in inFlight \/ PaymentReturn(i)
<1> DEFINE h == Handler("confirmReturn", i)
<1>1. ASSUME NEW op \in {"chargeFailed", "markComplete", "oblige", "obligeAdmin", "confirm",
                         "cancel", "markRefunded", "forceSnapshot", "openDispute",
                         "reopenDispute", "refund"}, NEW arg
      PROVE  Handler(op, arg) # h
  BY <1>1 DEF Handler
<1> HIDE DEF h
<1>2. ASSUME NEW j \in Intents, PaymentReturn(j) PROVE h \in inFlight \/ PaymentReturn(i)
  <2>1. h \in inFlight \/ h = Handler("confirmReturn", j)
    BY <1>2 DEF PaymentReturn, Begin, h
  <2>2. h = Handler("confirmReturn", j) => i = j
    BY DEF Handler, h
  <2> QED
    BY <1>2, <2>1, <2>2
<1>3. CASE CheckoutNext
  BY <1>1, <1>2, <1>3
     DEF h, CheckoutNext, CreatePaymentIntent, GatewayDecides, WebhookIntentNotFound,
         WebhookPaid, PayfastNotPaid, PaystackChargeFailed, ApplyChargeFailed,
         MarkProcessing, Begin, End
<1>4. CASE LifecycleNext
  BY <1>1, <1>4
     DEF h, LifecycleNext, AcceptProposedPrice, SnapshotPaymentMode, RequestMarkComplete,
         MarkComplete, OpenObligation, RequestConfirmation, ConfirmJobCompletion,
         DeadlinePasses, SystemCompleteJobAfterDeadline, RequestCancellation, CancelJob,
         MarkLaborIntentRefunded, Begin, End
<1>5. CASE DisputeNext
  BY <1>1, <1>5
     DEF h, DisputeNext, RequestDispute, OpenDispute, SweepSnapshot, MarkIntentDisputed,
         VoidCompletionIntent, ReleaseFunds, OpenAdminObligation, GatewayRefundFirst,
         ResolveWithRefund, ReturnProvider, CloseCase, Begin, End
<1>6. CASE HandlerDies \/ SweepDies \/ UNCHANGED vars
  BY <1>6 DEF h, HandlerDies, SweepDies, vars
<1> QED
  BY <1>3, <1>4, <1>5, <1>6 DEF Next, h

\* What the side effects of a dispute still have to do only shrinks, but for the
\* snapshot, which takes the rows that exist.
LEMMA SweepOfPresent ==
  ASSUME TypeOK, HeldIntentsExist, [Next]_vars, NEW i \in sweep'.mark \cup sweep'.void
  PROVE  i \in Intents /\ intents[i].state # "ABSENT"
<1>0. /\ \A j \in sweep.mark \cup sweep.void : j \in Intents /\ intents[j].state # "ABSENT"
      /\ sweep \in [snapshot : BOOLEAN, mark : SUBSET Intents, void : SUBSET Intents]
  BY DEF TypeOK, HeldIntentsExist
<1>1. CASE UNCHANGED sweep
  BY <1>0, <1>1
<1>2. ASSUME NEW j \in Intents, MarkIntentDisputed(j) \/ VoidCompletionIntent(j)
      PROVE  i \in sweep.mark \cup sweep.void
  BY <1>0, <1>2 DEF MarkIntentDisputed, VoidCompletionIntent
<1>3. CASE SweepSnapshot
  BY <1>3 DEF SweepSnapshot
<1>4. ASSUME sweep'.mark = {}, sweep'.void = {} PROVE FALSE
  BY <1>4
<1>5. ASSUME NEW op, OpenDispute(op) PROVE FALSE
  BY <1>4, <1>5 DEF OpenDispute, NoSweep
<1>6. CASE SweepDies
  BY <1>4, <1>6 DEF SweepDies, NoSweep
<1>7. CASE CheckoutNext
  BY <1>1, <1>7
     DEF CheckoutNext, CreatePaymentIntent, GatewayDecides, WebhookIntentNotFound,
         WebhookPaid, PayfastNotPaid, UnpaidNotification, PaystackChargeFailed,
         ApplyChargeFailed, PaymentReturn, MarkProcessing
<1>8. CASE LifecycleNext
  BY <1>1, <1>8
     DEF LifecycleNext, AcceptProposedPrice, SnapshotPaymentMode, RequestMarkComplete,
         MarkComplete, OpenObligation, RequestConfirmation, ConfirmJobCompletion,
         DeadlinePasses, SystemCompleteJobAfterDeadline, RequestCancellation, CancelJob,
         MarkLaborIntentRefunded
<1>9. CASE DisputeNext
  BY <1>0, <1>1, <1>2, <1>3, <1>5, <1>9
     DEF DisputeNext, RequestDispute, ReleaseFunds, OpenAdminObligation,
         GatewayRefundFirst, ResolveWithRefund, ReturnProvider, CloseCase
<1>10. CASE HandlerDies \/ UNCHANGED vars
  BY <1>1, <1>10 DEF HandlerDies, vars
<1> QED
  BY <1>6, <1>7, <1>8, <1>9, <1>10 DEF Next

LEMMA NextKeepsHeldIntents ==
  ASSUME TypeOK, HeldIntentsExist, [Next]_vars PROVE HeldIntentsExist'
<1>1. ASSUME NEW i \in Intents, intents[i].state # "ABSENT"
      PROVE  intents'[i].state # "ABSENT"
  <2>1. ASSUME NEW g \in Gateways, CreatePaymentIntent(g)
        PROVE  intents'[i].state # "ABSENT"
    BY <1>1, <2>1 DEF CreatePaymentIntent, TypeOK
  <2> QED
    BY <1>1, <2>1, IntentsStay DEF Stays
<1>2. ASSUME NEW i \in Intents, Handler("confirmReturn", i) \in inFlight'
      PROVE  intents[i].state # "ABSENT"
  BY <1>2, OnlyReturnsConfirm DEF HeldIntentsExist, PaymentReturn
<1>3. \A i \in sweep'.mark \cup sweep'.void : i \in Intents /\ intents[i].state # "ABSENT"
  BY SweepOfPresent
<1> QED
  BY <1>1, <1>2, <1>3 DEF HeldIntentsExist

\* The stage a settlement books is the next one of the mode, and not booked yet.
LEMMA SettlementIsNextStage ==
  ASSUME TypeOK, StagesInOrder, NEW i \in Intents, intents[i].state # "ABSENT",
         ~AlreadySettled(intents[i].type)
  PROVE  LET type == intents[i].type
         IN  /\ type \in PaymentTypes
             /\ type \notin SettledStages(Mode, job.progress)
             /\ SettledStages(Mode, ProgressAfter(type))
                  = SettledStages(Mode, job.progress) \cup {type}
             /\ ProgressAfter(type) \in PaymentProgress \ {job.progress, "NONE"}
             /\ ProgressAfter(type) = "FIRST_PAID" => Mode = "TWO_PAYMENT_50_50"
<1> DEFINE type == intents[i].type
<1>1. /\ type \in SettledStages(Mode, "FULLY_PAID")
      /\ type = "COMPLETION" => job.progress # "NONE"
      /\ job.progress = "FIRST_PAID" => Mode = "TWO_PAYMENT_50_50"
      /\ job.progress \in PaymentProgress
      /\ type \in PaymentTypes
  BY DEF StagesInOrder, TypeOK, JobRows, IntentRows
<1>2. IF type \in CompletionTypes
      THEN job.progress # "FULLY_PAID" ELSE job.progress = "NONE"
  BY DEF AlreadySettled, LaborPaid
<1> HIDE DEF type
<1>3. \A progress \in PaymentProgress :
        SettledStages(Mode, progress)
          = IF progress = "NONE" THEN {}
            ELSE IF progress = "FIRST_PAID" THEN {"DEPOSIT"}
            ELSE IF Mode = "TWO_PAYMENT_50_50" THEN {"DEPOSIT", "COMPLETION"}
            ELSE IF Mode = "SINGLE_PAYMENT_UPFRONT" THEN {"FULL_UPFRONT"}
            ELSE {"FULL_COMPLETION"}
  BY DEF SettledStages, PaymentProgress
<1>4. ProgressAfter(type) = IF type = "DEPOSIT" THEN "FIRST_PAID" ELSE "FULLY_PAID"
  BY DEF ProgressAfter
<1>5. /\ "FIRST_PAID" \in PaymentProgress /\ "FULLY_PAID" \in PaymentProgress
      /\ "NONE" \in PaymentProgress
      /\ ProgressAfter(type) \in PaymentProgress
  BY DEF PaymentProgress, ProgressAfter
<1>6. CASE type \notin CompletionTypes
  <2>1. /\ job.progress = "NONE"
        /\ \/ type = "DEPOSIT" /\ Mode = "TWO_PAYMENT_50_50"
           \/ type = "FULL_UPFRONT" /\ Mode = "SINGLE_PAYMENT_UPFRONT"
    <3>1. Mode = "TWO_PAYMENT_50_50" => type = "DEPOSIT"
      BY <1>1, <1>3, <1>5, <1>6 DEF CompletionTypes
    <3>2. Mode = "SINGLE_PAYMENT_UPFRONT" => type = "FULL_UPFRONT"
      BY <1>1, <1>3, <1>5, <1>6
    <3>3. Mode # "SINGLE_PAYMENT_ON_COMPLETION"
      BY <1>1, <1>3, <1>5, <1>6 DEF CompletionTypes
    <3> QED
      BY <1>2, <1>6, <3>1, <3>2, <3>3, ModeAssumption DEF PaymentModes
  <2> QED
    BY <1>1, <1>3, <1>4, <1>5, <2>1 DEF type
<1>7. CASE type \in CompletionTypes
  <2>1. \/ /\ type = "COMPLETION" /\ Mode = "TWO_PAYMENT_50_50"
           /\ job.progress = "FIRST_PAID"
        \/ /\ type = "FULL_COMPLETION" /\ Mode = "SINGLE_PAYMENT_ON_COMPLETION"
           /\ job.progress = "NONE"
    <3>1. Mode # "SINGLE_PAYMENT_UPFRONT"
      BY <1>1, <1>3, <1>5, <1>7 DEF CompletionTypes
    <3>2. Mode = "TWO_PAYMENT_50_50" => type = "COMPLETION"
      BY <1>1, <1>3, <1>5, <1>7 DEF CompletionTypes
    <3>3. Mode = "SINGLE_PAYMENT_ON_COMPLETION" => type = "FULL_COMPLETION"
      BY <1>1, <1>3, <1>5, <1>7
    <3> QED
      BY <1>1, <1>2, <1>7, <3>1, <3>2, <3>3, ModeAssumption
         DEF PaymentModes, PaymentProgress
  <2> QED
    BY <1>1, <1>3, <1>4, <1>5, <2>1 DEF type
<1> QED
  BY <1>6, <1>7

\* What a webhook that books a payment does to the books.
LEMMA WebhookPaidBooks ==
  ASSUME TypeOK, BooksInv, NEW r \in Refs, WebhookPaid(r)
  PROVE  \/ /\ UNCHANGED ledger
            /\ job'.progress = job.progress
            /\ job'.credited = job.credited
         \/ \E i \in Intents :
              LET type == intents[i].type
                  entry == [intent |-> i, type |-> type, ref |-> intents[i].ref,
                            quote |-> intents[i].quote]
              IN  /\ intents[i].state # "ABSENT"
                  /\ ~AlreadySettled(type)
                  /\ job'.progress = ProgressAfter(type)
                  /\ job'.credited = [job.credited EXCEPT ![type] = @ + 1]
                  /\ ledger' = ledger \cup {entry}
<1>1. PICK i \in IntentByReference(r) :
        \/ UNCHANGED <<job, ledger>>
        \/ /\ ~AlreadySettled(intents[i].type)
           /\ job' = JobAfterPayment(intents[i].type)
           /\ ledger' = LedgerAfterPayment(i)
  BY DEF WebhookPaid, Settle
<1>2. i \in Intents /\ intents[i].state # "ABSENT"
  BY DEF IntentByReference
<1>3. CASE UNCHANGED <<job, ledger>>
  BY <1>3
<1>4. CASE /\ ~AlreadySettled(intents[i].type)
           /\ job' = JobAfterPayment(intents[i].type)
           /\ ledger' = LedgerAfterPayment(i)
  <2>1. intents[i].type \notin {entry.type : entry \in ledger}
    BY <1>2, <1>4, SettlementIsNextStage DEF BooksInv, TotalsMatchProgress
  <2>2. ~\E entry \in ledger : entry.intent = i
    BY <2>1 DEF BooksInv, StagesInOrder
  <2>3. /\ job'.progress = ProgressAfter(intents[i].type)
        /\ job'.credited = [job.credited EXCEPT ![intents[i].type] = @ + 1]
    BY <1>4 DEF JobAfterPayment, TypeOK, JobRows
  <2> QED
    BY <1>2, <1>4, <2>2, <2>3 DEF LedgerAfterPayment
<1> QED
  BY <1>1, <1>3, <1>4

LEMMA NextKeepsTotals ==
  ASSUME TypeOK, BooksInv, [Next]_vars PROVE TotalsMatchProgress'
<1>1. CASE /\ UNCHANGED ledger
           /\ job'.progress = job.progress
           /\ job'.credited = job.credited
  BY <1>1 DEF BooksInv, TotalsMatchProgress
<1>2. ASSUME NEW i \in Intents, NEW type, NEW entry,
             type = intents[i].type, entry.type = type,
             intents[i].state # "ABSENT", ~AlreadySettled(type),
             job'.progress = ProgressAfter(type),
             job'.credited = [job.credited EXCEPT ![type] = @ + 1],
             ledger' = ledger \cup {entry}
      PROVE  TotalsMatchProgress'
  <2> DEFINE before == SettledStages(Mode, job.progress)
             after == SettledStages(Mode, job'.progress)
  <2>1. type \in PaymentTypes /\ type \notin before /\ after = before \cup {type}
    BY <1>2, SettlementIsNextStage DEF BooksInv
  <2> HIDE DEF before, after
  <2>2. /\ \A t \in PaymentTypes : job.credited[t] = IF t \in before THEN 1 ELSE 0
        /\ {e.type : e \in ledger} = before
        /\ \A e, f \in ledger : e.type = f.type => e = f
    BY DEF BooksInv, TotalsMatchProgress, before
  <2>3. \A t \in PaymentTypes : job'.credited[t] = IF t \in after THEN 1 ELSE 0
    BY <1>2, <2>1, <2>2 DEF TypeOK, JobRows
  <2>4. {e.type : e \in ledger'} = after
    BY <1>2, <2>1, <2>2
  <2>5. \A e, f \in ledger' : e.type = f.type => e = f
    BY <1>2, <2>1, <2>2
  <2> QED
    BY <2>3, <2>4, <2>5 DEF TotalsMatchProgress, after
<1> QED
  BY <1>1, <1>2, OnlyPaidBooks, WebhookPaidBooks

LEMMA NextKeepsStages ==
  ASSUME TypeOK, TypeOK', BooksInv, [Next]_vars PROVE StagesInOrder'
<1> USE DEF BooksInv
<1>1. ASSUME NEW g \in Gateways, CreatePaymentIntent(g) PROVE StagesInOrder'
  <2>1. PICK i \in IntentToUse(NextLaborPayment) :
          intents' = [intents EXCEPT ![i] =
                        [state |-> "PENDING", type |-> NextLaborPayment,
                         ref |-> minted + 1, quote |-> job.quote]]
    BY <1>1 DEF CreatePaymentIntent
  <2>2. i \in Intents
        /\ (intents[i].state = "ABSENT" \/ intents[i].type = NextLaborPayment)
    BY DEF IntentToUse, ReusableIntents, IntentsOfType
  <2>3. /\ NextLaborPayment \in SettledStages(Mode, "FULLY_PAID")
        /\ NextLaborPayment = "COMPLETION" => job.progress # "NONE"
    BY <1>1 DEF CreatePaymentIntent, NextLaborPayment, ResolveNextLaborPaymentType,
                SettledStages, NoPayment
  <2>4. UNCHANGED <<job, ledger>>
    BY <1>1 DEF CreatePaymentIntent
  <2>5. \A j \in Intents :
          IF j = i THEN intents'[j].state = "PENDING" /\ intents'[j].type = NextLaborPayment
                   ELSE intents'[j] = intents[j]
    BY <2>1, <2>2 DEF TypeOK
  <2>6. \A entry \in ledger : entry.intent \in Intents
    BY DEF TypeOK, LedgerRows
  <2> QED
    BY <2>2, <2>3, <2>4, <2>5, <2>6 DEF StagesInOrder
<1>2. ASSUME \A i \in Intents : Stays(i) PROVE StagesInOrder'
  <2> DEFINE
        Booked ==
          /\ \/ job'.progress = job.progress
             \/ /\ job'.progress # "NONE"
                /\ job'.progress = "FIRST_PAID" => Mode = "TWO_PAYMENT_50_50"
          /\ \A entry \in ledger' \ ledger :
               /\ intents[entry.intent].state # "ABSENT"
               /\ intents[entry.intent].type = entry.type
  <2>1. Booked
    <3>1. CASE UNCHANGED ledger /\ job'.progress = job.progress
      BY <3>1
    <3>2. ASSUME NEW i \in Intents, NEW type, NEW entry,
                 type = intents[i].type, entry.type = type, entry.intent = i,
                 intents[i].state # "ABSENT", ~AlreadySettled(type),
                 job'.progress = ProgressAfter(type), ledger' = ledger \cup {entry}
          PROVE  Booked
      BY <3>2, SettlementIsNextStage DEF BooksInv
    <3> QED
      BY <3>1, <3>2, OnlyPaidBooks, WebhookPaidBooks
  <2>2. \A entry \in ledger' : entry.intent \in Intents
    BY DEF TypeOK, LedgerRows
  <2> QED
    BY <1>2, <2>1, <2>2 DEF StagesInOrder, Stays
<1> QED
  BY <1>1, <1>2, IntentsStay

\* However often webhooks are repeated, intents reused and payments made twice,
\* the totals, the progress and the ledger tell the same story; it takes that
\* intents belong to stages of the mode, in their order (StagesInOrder).
THEOREM LaborBooksInv == Spec => []BooksInv
<1>1. Init => BooksInv
  BY DEF Init, BooksInv, HeldIntentsExist, StagesInOrder, TotalsMatchProgress,
         SettledStages, NoSweep
<1>2. TypeOK /\ TypeOK' /\ BooksInv /\ [Next]_vars => BooksInv'
  BY NextKeepsHeldIntents, NextKeepsTotals, NextKeepsStages DEF BooksInv
<1> QED
  BY <1>1, <1>2, LaborTypeOK, PTL DEF Spec

\* The job's totals count exactly the stages its progress says are paid, once each.
THEOREM LaborTotalsMatchProgress == Spec => []TotalsMatchProgress
<1>1. BooksInv => TotalsMatchProgress
  BY DEF BooksInv
<1> QED
  BY <1>1, LaborBooksInv, PTL

\* The system implements PaymentSchedule: the stages of the mode are booked in
\* their order, each once.
THEOREM LaborImplementsSchedule == Spec => ScheduleSpec
<1> DEFINE booked == {entry.type : entry \in ledger}
<1>1. Init => Schedule!Init
  BY DEF Init, Schedule!Init
<1>2. TypeOK /\ BooksInv /\ [Next]_vars => [Schedule!Book]_booked
  <2> SUFFICES ASSUME TypeOK, BooksInv, [Next]_vars PROVE [Schedule!Book]_booked
    OBVIOUS
  <2>1. CASE UNCHANGED ledger
    BY <2>1
  <2>2. ASSUME NEW i \in Intents, NEW type, NEW entry,
               type = intents[i].type, entry.type = type,
               intents[i].state # "ABSENT", ~AlreadySettled(type),
               ledger' = ledger \cup {entry}
        PROVE  Schedule!Book
    <3>1. /\ type \in PaymentTypes \ SettledStages(Mode, job.progress)
          /\ SettledStages(Mode, ProgressAfter(type))
               = SettledStages(Mode, job.progress) \cup {type}
          /\ ProgressAfter(type) \in PaymentProgress \ {job.progress}
      BY <2>2, SettlementIsNextStage DEF BooksInv
    <3>2. booked = SettledStages(Mode, job.progress) /\ booked' = booked \cup {type}
      BY <2>2 DEF BooksInv, TotalsMatchProgress
    <3>3. job.progress \in PaymentProgress
      BY DEF TypeOK, JobRows
    <3>4. booked' = SettledStages(Mode, ProgressAfter(type))
      BY <3>1, <3>2
    <3> HIDE DEF booked
    <3>5. \E t \in PaymentTypes \ booked : booked' = booked \cup {t}
      BY <3>1, <3>2
    <3>6. \E now, next \in PaymentProgress :
            /\ now # next
            /\ booked = SettledStages(Mode, now)
            /\ booked' = SettledStages(Mode, next)
            /\ \E t \in PaymentTypes \ booked : booked' = booked \cup {t}
      BY <3>1, <3>2, <3>3, <3>4, <3>5
    <3>7. /\ Schedule!PaymentProgress = PaymentProgress
          /\ Schedule!PaymentTypes = PaymentTypes
      BY DEF Schedule!PaymentProgress, PaymentProgress, Schedule!PaymentTypes, PaymentTypes
    <3>8. \A progress : Schedule!SettledStages(Mode, progress) = SettledStages(Mode, progress)
      BY DEF Schedule!SettledStages, SettledStages
    <3> QED
      BY <3>6, <3>7, <3>8 DEF Schedule!Book, booked
  <2> QED
    BY <2>1, <2>2, OnlyPaidBooks, WebhookPaidBooks
<1> QED
  BY <1>1, <1>2, LaborTypeOK, LaborBooksInv, PTL DEF Spec, ScheduleSpec, Schedule!Spec

----------------------------------------------------------------------------
(* Completion: no path to COMPLETED leaves money owed. *)

\* Under the modes that are paid before the end, whatever asks for completion,
\* or puts it under review, finds the first payment made.
AskedAfterPayment ==
  /\ Mode # "SINGLE_PAYMENT_ON_COMPLETION"
  /\ \/ job.override = "AWAITING_CONFIRMATION"
     \/ dispute.status = "OPEN"
     \/ \E op \in {"markComplete", "openDispute", "reopenDispute"} :
          Handler(op, 0) \in inFlight
  => LaborPaid

\* Each way of showing a job as completed, and each confirmation under way, has
\* everything paid behind it.
DoneIsPaid ==
  \/ job.status = "COMPLETED"
  \/ job.confirmed
  \/ job.override = "COMPLETED"
  \/ Handler("confirm", 0) \in inFlight
  => job.progress = "FULLY_PAID"

CompletionInv == AskedAfterPayment /\ DoneIsPaid

\* A payment once booked is never taken off the job's progress.
LEMMA ProgressIsKept ==
  ASSUME TypeOK, BooksInv, [Next]_vars
  PROVE  /\ job.progress = "FULLY_PAID" => job'.progress = "FULLY_PAID"
         /\ job.progress # "NONE" => job'.progress # "NONE"
<1>1. ASSUME NEW i \in Intents, ~AlreadySettled(intents[i].type),
             intents[i].state # "ABSENT", job'.progress = ProgressAfter(intents[i].type)
      PROVE  job.progress # "FULLY_PAID" /\ job'.progress # "NONE"
  <2>1. job'.progress # "NONE"
    BY <1>1, SettlementIsNextStage DEF BooksInv
  <2>2. job.progress # "FULLY_PAID"
    BY <1>1 DEF AlreadySettled, LaborPaid
  <2> QED
    BY <2>1, <2>2
<1>2. CASE job'.progress = job.progress
  BY <1>2
<1> QED
  BY <1>1, <1>2, OnlyPaidBooks, WebhookPaidBooks

\* Where the handlers that matter here come from.
LEMMA WhoBegins ==
  ASSUME [Next]_vars,
         NEW op \in {"confirm", "markComplete", "openDispute", "reopenDispute"},
         Handler(op, 0) \in inFlight', Handler(op, 0) \notin inFlight
  PROVE  \/ op = "confirm" /\ RequestConfirmation
         \/ op = "markComplete" /\ RequestMarkComplete
         \/ op \in {"openDispute", "reopenDispute"} /\ RequestDispute
<1> DEFINE h == Handler(op, 0)
<1>1. \A o, arg : o # op => Handler(o, arg) # h
  BY DEF Handler
<1> HIDE DEF h
<1>2. ASSUME NEW o, NEW arg, o # op, inFlight' \subseteq inFlight \cup {Handler(o, arg)}
      PROVE  FALSE
  BY <1>1, <1>2 DEF h
<1>3. ASSUME inFlight' \subseteq inFlight PROVE FALSE
  BY <1>3
<1>4. ~CheckoutNext
  BY <1>2, <1>3
     DEF CheckoutNext, CreatePaymentIntent, GatewayDecides, WebhookIntentNotFound,
         WebhookPaid, PayfastNotPaid, PaystackChargeFailed, ApplyChargeFailed,
         PaymentReturn, MarkProcessing, Begin, End
<1>5. ASSUME LifecycleNext
      PROVE  \/ RequestConfirmation /\ op = "confirm"
             \/ RequestMarkComplete /\ op = "markComplete"
  <2>1. CASE RequestConfirmation
    <3>1. inFlight' \subseteq inFlight \cup {Handler("confirm", 0)}
      BY <2>1 DEF RequestConfirmation, Begin
    <3>2. op = "confirm"
      BY <1>2, <3>1
    <3> QED
      BY <2>1, <3>2
  <2>2. CASE RequestMarkComplete
    BY <1>2, <2>2 DEF RequestMarkComplete, Begin
  <2>3. ~RequestCancellation /\ ~CancelJob
    BY <1>2 DEF RequestCancellation, CancelJob, Begin
  <2>4. ~AcceptProposedPrice
    BY <1>2, <1>3 DEF AcceptProposedPrice, Begin
  <2>5. ~MarkComplete
    <3>1. MarkComplete => inFlight' \subseteq inFlight \cup {Handler("oblige", 0)}
      BY DEF MarkComplete
    <3> QED
      BY <1>2, <3>1
  <2> QED
    BY <1>3, <1>5, <2>1, <2>2, <2>3, <2>4, <2>5
       DEF LifecycleNext, SnapshotPaymentMode, OpenObligation, ConfirmJobCompletion,
           DeadlinePasses, SystemCompleteJobAfterDeadline, MarkLaborIntentRefunded, End
<1>6. ASSUME DisputeNext
      PROVE  RequestDispute /\ op \in {"openDispute", "reopenDispute"}
  <2>1. CASE RequestDispute
    BY <1>2, <2>1 DEF RequestDispute, Begin
  <2>2. ~ReleaseFunds /\ ~GatewayRefundFirst
    BY <1>2, <1>3 DEF ReleaseFunds, GatewayRefundFirst, Begin
  <2> QED
    BY <1>3, <1>6, <2>1, <2>2
       DEF DisputeNext, OpenDispute, SweepSnapshot, MarkIntentDisputed,
           VoidCompletionIntent, OpenAdminObligation, ResolveWithRefund, ReturnProvider,
           CloseCase, End
<1>7. ~HandlerDies /\ ~SweepDies /\ ~UNCHANGED vars
  BY <1>3 DEF HandlerDies, SweepDies, vars
<1> QED
  BY <1>4, <1>5, <1>6, <1>7 DEF Next

\* A confirmation is asked for only when everything is paid.
LEMMA ConfirmationIsPaid ==
  ASSUME TypeOK, BooksInv, CompletionInv, RequestConfirmation
  PROVE  job.progress = "FULLY_PAID"
<1>1. job.progress \in PaymentProgress
  BY DEF TypeOK, JobRows
<1>2. job.progress = "FIRST_PAID" => Mode = "TWO_PAYMENT_50_50"
  BY DEF BooksInv, StagesInOrder
<1>3. CASE FrontendStatus = "COMPLETED"
  BY <1>3 DEF FrontendStatus, CompletionInv, DoneIsPaid
<1>4. CASE job.override = "AWAITING_CONFIRMATION"
  <2>1. Mode # "SINGLE_PAYMENT_ON_COMPLETION" => job.progress # "NONE"
    BY <1>4 DEF CompletionInv, AskedAfterPayment, LaborPaid
  <2>2. NextLaborPayment \notin CompletionTypes
    BY DEF RequestConfirmation
  <2>3. ~(Mode = "TWO_PAYMENT_50_50" /\ job.progress = "FIRST_PAID")
    BY <1>4, <2>2 DEF NextLaborPayment, ResolveNextLaborPaymentType, AwaitingCompletion,
                      CompletionTypes
  <2>4. ~(Mode = "SINGLE_PAYMENT_ON_COMPLETION" /\ job.progress = "NONE")
    BY <1>4, <2>2 DEF NextLaborPayment, ResolveNextLaborPaymentType, AwaitingCompletion,
                      CompletionTypes
  <2> QED
    BY <1>1, <1>2, <2>1, <2>3, <2>4 DEF PaymentProgress
<1> QED
  BY <1>3, <1>4 DEF RequestConfirmation, FrontendStatus

LEMMA NextKeepsDone ==
  ASSUME TypeOK, BooksInv, CompletionInv, [Next]_vars PROVE DoneIsPaid'
<1>0. job \in JobRows /\ (job.progress = "FULLY_PAID" => job'.progress = "FULLY_PAID")
  BY ProgressIsKept DEF TypeOK
<1>1. Handler("confirm", 0) \in inFlight' => job'.progress = "FULLY_PAID"
  <2>1. CASE Handler("confirm", 0) \in inFlight
    BY <1>0, <2>1 DEF CompletionInv, DoneIsPaid
  <2>2. CASE RequestConfirmation
    BY <1>0, <2>2, ConfirmationIsPaid
  <2> QED
    BY <2>1, <2>2, WhoBegins
<1>2. ASSUME job'.status = "COMPLETED" => job.status = "COMPLETED",
             job'.confirmed => job.confirmed,
             job'.override = "COMPLETED" => job.override = "COMPLETED"
      PROVE  DoneIsPaid'
  BY <1>0, <1>1, <1>2 DEF CompletionInv, DoneIsPaid
<1>3. CASE UNCHANGED job
  BY <1>2, <1>3
<1>4. ASSUME NEW r \in Refs, WebhookPaid(r) PROVE DoneIsPaid'
  <2>1. PICK i \in Intents :
          UNCHANGED job \/ job' = JobAfterPayment(intents[i].type)
    BY <1>4 DEF WebhookPaid, Settle, IntentByReference
  <2>2. CASE intents[i].type \in CompletionTypes /\ job' = JobAfterPayment(intents[i].type)
    <3>1. job'.progress = "FULLY_PAID"
      BY <1>0, <2>2 DEF JobAfterPayment, JobRows, ProgressAfter, CompletionTypes
    <3> QED
      BY <3>1 DEF DoneIsPaid
  <2>3. CASE intents[i].type \notin CompletionTypes /\ job' = JobAfterPayment(intents[i].type)
    <3>1. /\ job'.status = "COMPLETED" => job.status = "COMPLETED"
          /\ job'.confirmed = job.confirmed
          /\ job'.override = "SERVICE_PAID"
      BY <1>0, <2>3 DEF JobAfterPayment, JobRows
    <3> QED
      BY <1>2, <3>1
  <2> QED
    BY <1>3, <2>1, <2>2, <2>3
<1>5. CASE CheckoutNext
  BY <1>3, <1>4, <1>5
     DEF CheckoutNext, CreatePaymentIntent, GatewayDecides, WebhookIntentNotFound,
         PayfastNotPaid, UnpaidNotification, PaystackChargeFailed, ApplyChargeFailed,
         PaymentReturn, MarkProcessing
<1>6. CASE AcceptProposedPrice \/ SnapshotPaymentMode \/ DeadlinePasses \/ CancelJob
  BY <1>0, <1>2, <1>6
     DEF JobRows, AcceptProposedPrice, SnapshotPaymentMode, DeadlinePasses, CancelJob
<1>7. CASE MarkComplete
  <2>1. /\ job'.status = job.status /\ job'.confirmed = job.confirmed
        /\ job'.override = "COMPLETED" => job.override = "COMPLETED"
    BY <1>0, <1>7 DEF JobRows, MarkComplete
  <2> QED
    BY <1>2, <2>1
<1>8. CASE ConfirmJobCompletion
  <2>1. job.progress = "FULLY_PAID"
    BY <1>8 DEF ConfirmJobCompletion, End, CompletionInv, DoneIsPaid
  <2> QED
    BY <1>0, <2>1 DEF DoneIsPaid
<1>9. CASE SystemCompleteJobAfterDeadline
  BY <1>0, <1>9 DEF SystemCompleteJobAfterDeadline, DoneIsPaid
<1>10. CASE LifecycleNext
  BY <1>3, <1>6, <1>7, <1>8, <1>9, <1>10
     DEF LifecycleNext, RequestMarkComplete, OpenObligation, RequestConfirmation,
         RequestCancellation, MarkLaborIntentRefunded
<1>11. ASSUME NEW op, OpenDispute(op) PROVE DoneIsPaid'
  BY <1>0, <1>2, <1>11 DEF OpenDispute, JobRows
<1>12. CASE ReleaseFunds \/ ResolveWithRefund \/ ReturnProvider \/ CloseCase
  BY <1>0, <1>2, <1>12 DEF JobRows, ReleaseFunds, ResolveWithRefund, ReturnProvider, CloseCase
<1>13. CASE DisputeNext
  BY <1>3, <1>11, <1>12, <1>13
     DEF DisputeNext, RequestDispute, SweepSnapshot, MarkIntentDisputed,
         VoidCompletionIntent, OpenAdminObligation, GatewayRefundFirst
<1>14. CASE HandlerDies \/ SweepDies \/ UNCHANGED vars
  BY <1>3, <1>14 DEF HandlerDies, SweepDies, vars
<1> QED
  BY <1>5, <1>10, <1>13, <1>14 DEF Next

LEMMA NextKeepsAsked ==
  ASSUME TypeOK, BooksInv, CompletionInv, [Next]_vars PROVE AskedAfterPayment'
<1> SUFFICES ASSUME Mode # "SINGLE_PAYMENT_ON_COMPLETION" PROVE AskedAfterPayment'
  BY DEF AskedAfterPayment
<1>0. job \in JobRows /\ (LaborPaid => LaborPaid')
  BY ProgressIsKept DEF TypeOK, LaborPaid
<1>1. ASSUME LaborPaid PROVE AskedAfterPayment'
  BY <1>0, <1>1 DEF AskedAfterPayment
<1>2. ASSUME ~LaborPaid PROVE AskedAfterPayment'
  <2>1. /\ job.override # "AWAITING_CONFIRMATION"
        /\ dispute.status # "OPEN"
        /\ \A op \in {"markComplete", "openDispute", "reopenDispute"} :
             Handler(op, 0) \notin inFlight
    BY <1>2 DEF CompletionInv, AskedAfterPayment
  <2>2. ASSUME NEW op \in {"markComplete", "openDispute", "reopenDispute"}
        PROVE  Handler(op, 0) \notin inFlight'
    <3>1. ~RequestMarkComplete
      BY <1>2 DEF RequestMarkComplete
    <3>2. ~RequestDispute
      BY <1>2, <2>1 DEF RequestDispute, MayReject, MayCancelIntoReview, FrontendStatus
    <3> QED
      BY <2>1, <3>1, <3>2, WhoBegins
  <2>3. ~MarkComplete /\ \A op \in {"openDispute", "reopenDispute"} : ~OpenDispute(op)
    BY <2>1 DEF MarkComplete, OpenDispute, End
  <2>4. ~ReleaseFunds /\ ~ResolveWithRefund /\ ~ReturnProvider /\ ~CloseCase
    BY <2>1 DEF ReleaseFunds, ResolveWithRefund, ReturnProvider, CloseCase
  <2>5. dispute'.status # "OPEN"
    <3>1. UNCHANGED dispute
      BY <2>3, <2>4
         DEF Next, CheckoutNext, LifecycleNext, DisputeNext, CreatePaymentIntent,
             GatewayDecides, WebhookIntentNotFound, WebhookPaid, PayfastNotPaid,
             UnpaidNotification, PaystackChargeFailed, ApplyChargeFailed, PaymentReturn,
             MarkProcessing, AcceptProposedPrice, SnapshotPaymentMode, RequestMarkComplete,
             OpenObligation, RequestConfirmation, ConfirmJobCompletion, DeadlinePasses,
             SystemCompleteJobAfterDeadline, RequestCancellation, CancelJob,
             MarkLaborIntentRefunded, RequestDispute, SweepSnapshot, MarkIntentDisputed,
             VoidCompletionIntent, OpenAdminObligation, GatewayRefundFirst, HandlerDies,
             SweepDies, vars
    <3> QED
      BY <2>1, <3>1
  <2>6. job'.override # "AWAITING_CONFIRMATION"
    <3>1. CASE UNCHANGED job
      BY <2>1, <3>1
    <3>2. ASSUME NEW type, job' = JobAfterPayment(type)
          PROVE  job'.override # "AWAITING_CONFIRMATION"
      BY <1>0, <3>2 DEF JobAfterPayment, JobRows
    <3>3. CASE CheckoutNext
      BY <3>1, <3>2, <3>3
         DEF CheckoutNext, CreatePaymentIntent, GatewayDecides, WebhookIntentNotFound,
             WebhookPaid, Settle, PayfastNotPaid, UnpaidNotification, PaystackChargeFailed,
             ApplyChargeFailed, PaymentReturn, MarkProcessing
    <3>4. CASE \/ AcceptProposedPrice \/ SnapshotPaymentMode \/ ConfirmJobCompletion
               \/ DeadlinePasses \/ SystemCompleteJobAfterDeadline \/ CancelJob
      BY <1>0, <2>1, <3>4
         DEF JobRows, AcceptProposedPrice, SnapshotPaymentMode, ConfirmJobCompletion,
             DeadlinePasses, SystemCompleteJobAfterDeadline, CancelJob
    <3>5. CASE LifecycleNext
      BY <2>3, <3>1, <3>4, <3>5
         DEF LifecycleNext, RequestMarkComplete, OpenObligation, RequestConfirmation,
             RequestCancellation, MarkLaborIntentRefunded
    <3>6. CASE DisputeNext
      BY <2>3, <2>4, <3>1, <3>6
         DEF DisputeNext, RequestDispute, SweepSnapshot, MarkIntentDisputed,
             VoidCompletionIntent, OpenAdminObligation, GatewayRefundFirst
    <3>7. CASE HandlerDies \/ SweepDies \/ UNCHANGED vars
      BY <3>1, <3>7 DEF HandlerDies, SweepDies, vars
    <3> QED
      BY <3>3, <3>5, <3>6, <3>7 DEF Next
  <2> QED
    BY <2>2, <2>5, <2>6 DEF AskedAfterPayment
<1> QED
  BY <1>1, <1>2

\* No path to COMPLETED - payment, confirmation or deadline - leaves money owed,
\* although a confirmation is decided on what was read before its transaction.
THEOREM LaborCompletedIsFullyPaid == Spec => []CompletedIsFullyPaid
<1>1. Init => CompletionInv
  BY DEF Init, CompletionInv, AskedAfterPayment, DoneIsPaid
<1>2. TypeOK /\ BooksInv /\ CompletionInv /\ [Next]_vars => CompletionInv'
  BY NextKeepsDone, NextKeepsAsked DEF CompletionInv
<1>3. CompletionInv => CompletedIsFullyPaid
  BY DEF CompletionInv, DoneIsPaid, CompletedIsFullyPaid
<1> QED
  BY <1>1, <1>2, <1>3, LaborTypeOK, LaborBooksInv, PTL DEF Spec

----------------------------------------------------------------------------
(* Capture: nothing is booked that the gateway did not take. *)

\* Every intent, and every ledger row, is of the stage and price of the checkout
\* its reference was minted for; BookedWasCaptured says which of them were paid.
CheckoutsMatch ==
  /\ \A i \in Intents : intents[i].state # "ABSENT" =>
       /\ intents[i].ref \in 1..minted
       /\ checkouts[intents[i].ref].type = intents[i].type
       /\ checkouts[intents[i].ref].quote = intents[i].quote
  /\ \A entry \in ledger : entry.ref \in 1..minted

CaptureInv == CheckoutsMatch /\ BookedWasCaptured

\* A minted reference keeps its stage and price, and what the gateway has decided.
LEMMA CheckoutsStay ==
  ASSUME TypeOK, [Next]_vars, NEW r \in 1..minted
  PROVE  /\ r \in 1..minted' /\ r \in Refs
         /\ checkouts'[r].type = checkouts[r].type
         /\ checkouts'[r].quote = checkouts[r].quote
         /\ checkouts[r].told \subseteq checkouts'[r].told
<1>0. /\ minted \in {0} \cup Refs /\ r \in Refs /\ r \in Int /\ r <= minted
      /\ minted \in Int
      /\ checkouts \in [Refs -> Checkouts]
  BY BoundsAssumption DEF TypeOK, Refs
<1>1. CASE UNCHANGED <<minted, checkouts>>
  BY <1>0, <1>1
<1>2. ASSUME NEW g, CreatePaymentIntent(g)
      PROVE  /\ minted' = minted + 1
             /\ checkouts'[r] = checkouts[r]
  BY <1>0, <1>2 DEF CreatePaymentIntent
<1>3. ASSUME NEW q \in Refs, NEW s, GatewayDecides(q, s)
      PROVE  /\ minted' = minted
             /\ checkouts'[r].type = checkouts[r].type
             /\ checkouts'[r].quote = checkouts[r].quote
             /\ checkouts[r].told \subseteq checkouts'[r].told
  BY <1>0, <1>3 DEF GatewayDecides, Checkouts
<1>4. \/ UNCHANGED <<minted, checkouts>>
      \/ \E g \in Gateways : CreatePaymentIntent(g)
      \/ \E q \in Refs, s \in NotificationStates : GatewayDecides(q, s)
  BY DEF Next, CheckoutNext, LifecycleNext, DisputeNext, WebhookIntentNotFound, WebhookPaid,
         PayfastNotPaid, UnpaidNotification, PaystackChargeFailed, ApplyChargeFailed,
         PaymentReturn, MarkProcessing, AcceptProposedPrice, SnapshotPaymentMode,
         RequestMarkComplete, MarkComplete, OpenObligation, RequestConfirmation,
         ConfirmJobCompletion, DeadlinePasses, SystemCompleteJobAfterDeadline,
         RequestCancellation, CancelJob, MarkLaborIntentRefunded, RequestDispute,
         OpenDispute, SweepSnapshot, MarkIntentDisputed, VoidCompletionIntent,
         ReleaseFunds, OpenAdminObligation, GatewayRefundFirst, ResolveWithRefund,
         ReturnProvider, CloseCase, HandlerDies, SweepDies, vars
<1> QED
  BY <1>0, <1>1, <1>2, <1>3, <1>4

\* A settlement books the checkout of its intent, at the price the intent has.
LEMMA NextKeepsLedgerCaptured ==
  ASSUME TypeOK, TypeOK', BooksInv, CaptureInv, [Next]_vars
  PROVE  \A entry \in ledger' :
           /\ entry.ref \in 1..minted'
           /\ entry.ref \in Refs
           /\ "PAID" \in checkouts'[entry.ref].told
           /\ checkouts'[entry.ref].type = entry.type
           /\ checkouts'[entry.ref].quote = entry.quote
<1> SUFFICES ASSUME NEW entry \in ledger'
             PROVE  /\ entry.ref \in 1..minted
                    /\ "PAID" \in checkouts[entry.ref].told
                    /\ checkouts[entry.ref].type = entry.type
                    /\ checkouts[entry.ref].quote = entry.quote
  BY CheckoutsStay
<1>1. CASE entry \in ledger
  BY <1>1 DEF CaptureInv, CheckoutsMatch, BookedWasCaptured
<1>2. CASE entry \notin ledger
  <2>1. PICK r \in Refs : WebhookPaid(r)
    BY <1>2, OnlyPaidBooks
  <2>2. PICK i \in IntentByReference(r) : Settle(i)
    BY <1>2, <2>1 DEF WebhookPaid
  <2>3. entry = [intent |-> i, type |-> intents[i].type, ref |-> intents[i].ref,
                 quote |-> intents[i].quote]
    BY <1>2, <2>2 DEF Settle, LedgerAfterPayment
  <2>4. i \in Intents /\ intents[i].state # "ABSENT" /\ intents[i].ref = r
    BY DEF IntentByReference
  <2>5. "PAID" \in checkouts[r].told
    BY <2>1 DEF WebhookPaid
  <2> QED
    BY <2>3, <2>4, <2>5 DEF CaptureInv, CheckoutsMatch
<1> QED
  BY <1>1, <1>2

LEMMA NextKeepsIntentsCaptured ==
  ASSUME TypeOK, BooksInv, CaptureInv, [Next]_vars, NEW i \in Intents,
         intents'[i].state # "ABSENT"
  PROVE  /\ intents'[i].ref \in 1..minted'
         /\ checkouts'[intents'[i].ref].type = intents'[i].type
         /\ checkouts'[intents'[i].ref].quote = intents'[i].quote
         /\ intents'[i].state \in Captured => "PAID" \in checkouts'[intents'[i].ref].told
<1> DEFINE Kept ==
      /\ intents'[i].ref \in 1..minted'
      /\ checkouts'[intents'[i].ref].type = intents'[i].type
      /\ checkouts'[intents'[i].ref].quote = intents'[i].quote
      /\ intents'[i].state \in Captured => "PAID" \in checkouts'[intents'[i].ref].told
<1>1. ASSUME Stays(i) PROVE Kept
  <2>1. /\ intents[i].ref \in 1..minted
        /\ checkouts[intents[i].ref].type = intents[i].type
        /\ checkouts[intents[i].ref].quote = intents[i].quote
        /\ intents[i].state \in Captured => "PAID" \in checkouts[intents[i].ref].told
    BY <1>1 DEF CaptureInv, CheckoutsMatch, BookedWasCaptured, Captured, Stays
  <2> QED
    BY <1>1, <2>1, CheckoutsStay DEF Stays
<1>2. ASSUME NEW g \in Gateways, CreatePaymentIntent(g) PROVE Kept
  <2>0. /\ minted \in Int /\ minted >= 0 /\ minted + 1 \in Refs
        /\ checkouts \in [Refs -> Checkouts]
        /\ intents \in [Intents -> IntentRows]
    BY <1>2, BoundsAssumption DEF CreatePaymentIntent, TypeOK, Refs
  <2>1. PICK j \in Intents :
          intents' = [intents EXCEPT ![j] =
                        [state |-> "PENDING", type |-> NextLaborPayment,
                         ref |-> minted + 1, quote |-> job.quote]]
    BY <1>2 DEF CreatePaymentIntent, IntentToUse, ReusableIntents, IntentsOfType
  <2>2. CASE i = j
    <3>1. /\ checkouts'[minted + 1].type = NextLaborPayment
          /\ checkouts'[minted + 1].quote = job.quote
          /\ minted' = minted + 1
      BY <1>2, <2>0 DEF CreatePaymentIntent
    <3>2. /\ intents'[i].ref = minted + 1 /\ intents'[i].type = NextLaborPayment
          /\ intents'[i].quote = job.quote /\ intents'[i].state = "PENDING"
      BY <2>0, <2>1, <2>2
    <3> QED
      BY <2>0, <3>1, <3>2 DEF Captured
  <2>3. CASE i # j
    <3>1. intents'[i] = intents[i]
      BY <2>0, <2>1, <2>3
    <3> QED
      BY <1>1, <3>1 DEF Stays
  <2> QED
    BY <2>2, <2>3
<1> QED
  BY <1>1, <1>2, IntentsStay DEF BooksInv

\* Nothing is booked, and no intent is paid or refunded, that the gateway did not
\* take: a late report about a reference an intent no longer has books nothing.
THEOREM LaborBookedWasCaptured == Spec => []BookedWasCaptured
<1>1. Init => CaptureInv
  BY DEF Init, CaptureInv, CheckoutsMatch, BookedWasCaptured
<1>2. TypeOK /\ TypeOK' /\ BooksInv /\ CaptureInv /\ [Next]_vars => CaptureInv'
  <2> SUFFICES ASSUME TypeOK, TypeOK', BooksInv, CaptureInv, [Next]_vars
               PROVE  CaptureInv'
    OBVIOUS
  <2>1. CheckoutsMatch'
    BY NextKeepsLedgerCaptured, NextKeepsIntentsCaptured DEF CheckoutsMatch
  <2>2. BookedWasCaptured'
    <3>1. \A i \in Intents : intents'[i].state \in Captured =>
            "PAID" \in checkouts'[intents'[i].ref].told
      BY NextKeepsIntentsCaptured DEF Captured
    <3> QED
      BY <3>1, NextKeepsLedgerCaptured DEF BookedWasCaptured, Captured
  <2> QED
    BY <2>1, <2>2 DEF CaptureInv
<1>3. CaptureInv => BookedWasCaptured
  BY DEF CaptureInv
<1> QED
  BY <1>1, <1>2, <1>3, LaborTypeOK, LaborBooksInv, PTL DEF Spec
==============================================================================
