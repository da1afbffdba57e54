---------------------------- MODULE RefundPolicy ----------------------------
(***************************************************************************)
(* How the money of one lesson is divided when the lesson does not simply  *)
(* take place: services/refunds.py and the price split of create_booking.  *)
(* Amounts are cents; times are ticks of the model's clock.                *)
(***************************************************************************)
EXTENDS Integers

CONSTANTS
  Amount,            \* price of one lesson, Payment.amount_cents
  Commission,        \* platform share, int(Amount * PLATFORM_COMMISSION_RATE)
  FullRefundWindow,  \* FULL_REFUND_THRESHOLD_HOURS
  NoRefundWindow     \* NO_REFUND_THRESHOLD_HOURS

ASSUME PriceAssumption ==
  /\ Amount \in Nat
  /\ Commission \in 0..Amount      \* the rate is between 0 and 1

ASSUME WindowAssumption ==
  /\ FullRefundWindow \in Nat
  /\ NoRefundWindow \in 0..FullRefundWindow

-----------------------------------------------------------------------------
(* A division of Amount: what goes back to the parent, what the teacher is *)
(* still owed and what the platform keeps.                                 *)
Division == [refund: Nat, teacher: Nat, commission: Nat]

FullRefund == [refund |-> Amount, teacher |-> 0, commission |-> 0]

HalfEach ==       \* slip: the odd cent is lost
  LET half == Amount \div 2
  IN  [refund |-> half, teacher |-> half, commission |-> 0]

HalfRefund ==
  LET half == Amount \div 2
  IN  [refund |-> half, teacher |-> Amount - half, commission |-> 0]

(* The division agreed at booking time is kept. *)
NoRefund(teacher, commission) ==
  [refund |-> 0, teacher |-> teacher, commission |-> commission]

CancellationOutcome(role, start, at, teacher, commission) ==
  CASE role = "teacher" -> FullRefund
    [] role = "parent" /\ start - at > FullRefundWindow -> FullRefund
    [] role = "parent" /\ start - at > NoRefundWindow
                       /\ start - at <= FullRefundWindow -> HalfRefund
    [] role = "parent" /\ start - at <= NoRefundWindow -> NoRefund(teacher, commission)

NoShowKeepsShare(role, teacher, commission) ==   \* slip: a refund leaves the shares as they were
  IF role = "teacher" THEN NoRefund(teacher, commission)
  ELSE [refund |-> Amount, teacher |-> teacher, commission |-> commission]

NoShowOutcome(role, teacher, commission) ==
  IF role = "teacher" THEN NoRefund(teacher, commission) ELSE FullRefund

PaymentStatusAfterRefund(refundCents) ==
  IF refundCents <= 0 THEN "complete"
  ELSE IF refundCents >= Amount THEN "refunded"
  ELSE "partially_refunded"

=============================================================================
