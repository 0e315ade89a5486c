----------------------------- MODULE PaymentMode -----------------------------
(***************************************************************************)
(* The payment schedule of a labor job: the three payment modes a category *)
(* may have, the labor payments each mode asks for, and which of them is   *)
(* due at a given stage of the job.                                        *)
(*                                                                         *)
(* src/elofix-backend/src/services/payments/paymentMode.service.js and the *)
(* schedule half of settlement.service.js.                                 *)
(***************************************************************************)

PaymentModes ==
  {"TWO_PAYMENT_50_50", "SINGLE_PAYMENT_UPFRONT", "SINGLE_PAYMENT_ON_COMPLETION"}

PaymentTypes == {"DEPOSIT", "COMPLETION", "FULL_UPFRONT", "FULL_COMPLETION"}

\* The payments that finish the job; the dispute and obligation code treats
\* exactly these two as "completion-stage".
CompletionTypes == {"COMPLETION", "FULL_COMPLETION"}

PaymentProgress == {"NONE", "FIRST_PAID", "FULLY_PAID"}

\* The code's null: nothing is due.
NoPayment == "NO_PAYMENT"

\* meta.statusOverride values that mean the provider has asked for completion.
\* Only the first of the three is ever written by the handlers modelled here.
AwaitingCompletion ==
  {"AWAITING_CONFIRMATION", "COMPLETION_PAYMENT_REQUIRED", "COMPLETION_REQUESTED"}

\* Which labor payment is due next, NoPayment when none is.
ResolveNextLaborPaymentType(mode, progress, override) ==
  CASE mode = "TWO_PAYMENT_50_50" /\ progress = "NONE" -> "DEPOSIT"
    [] /\ mode = "TWO_PAYMENT_50_50"
       /\ progress = "FIRST_PAID"
       /\ override \in AwaitingCompletion -> "COMPLETION"
    [] mode = "SINGLE_PAYMENT_UPFRONT" /\ progress = "NONE" -> "FULL_UPFRONT"
    [] /\ mode = "SINGLE_PAYMENT_ON_COMPLETION"
       /\ progress = "NONE"
       /\ override \in AwaitingCompletion -> "FULL_COMPLETION"
    [] OTHER -> NoPayment

\* (mutant: a completion payment writes the job's status into its progress)
ProgressAfterAsStatus(type) == IF type = "DEPOSIT" THEN "FIRST_PAID" ELSE "COMPLETED"

\* job.paymentProgress after a payment of this type is settled.
ProgressAfter(type) == IF type = "DEPOSIT" THEN "FIRST_PAID" ELSE "FULLY_PAID"

\* The payments that must have been settled for a job to show this progress:
\* the reference the ledger and the job's totals are compared with.
SettledStages(mode, progress) ==
  CASE progress = "NONE" -> {}
    [] progress = "FIRST_PAID" -> {"DEPOSIT"}
    [] OTHER -> CASE mode = "TWO_PAYMENT_50_50" -> {"DEPOSIT", "COMPLETION"}
                  [] mode = "SINGLE_PAYMENT_UPFRONT" -> {"FULL_UPFRONT"}
                  [] OTHER -> {"FULL_COMPLETION"}
==============================================================================
