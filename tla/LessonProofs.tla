---------------------------- MODULE LessonProofs ----------------------------
(***************************************************************************)
(* What holds of every lesson, for every price, commission, refund window, *)
(* length of series, set of slots and clock: the types of its rows, the    *)
(* safety of its money, which is safe in part whatever its actors do, and  *)
(* in part as long as the admin works from a current page, and what no     *)
(* step ever does.                                                         *)
(***************************************************************************)
EXTENDS LessonProperties, TLAPS

USE DEF past   \* no more than a name for the two history variables

-----------------------------------------------------------------------------
(* The refund policy divides the whole price and nothing but the price.    *)

(* Half a price is an amount of cents between nought and the price. *)
LEMMA HalfAmount == Amount \div 2 \in 0..Amount
  BY PriceAssumption

(* compute_cancellation_outcome: whichever window applies, refund, teacher's *)
(* share and commission are cents and add up to the price.                   *)
LEMMA CancellationDivides ==
  ASSUME NEW role \in Users, NEW start \in Nat, NEW at \in Nat,
         NEW teacher \in Nat, NEW commission \in Nat
  PROVE  LET out == CancellationOutcome(role, start, at, teacher, commission)
         IN  /\ out \in Division
             /\ teacher + commission = Amount =>
                  out.refund + out.teacher + out.commission = Amount
<1> DEFINE out == CancellationOutcome(role, start, at, teacher, commission)
<1>1. /\ FullRefund \in Division
      /\ FullRefund.refund + FullRefund.teacher + FullRefund.commission = Amount
  BY PriceAssumption DEF FullRefund, Division
<1>2. /\ HalfRefund \in Division
      /\ HalfRefund.refund + HalfRefund.teacher + HalfRefund.commission = Amount
  BY PriceAssumption, HalfAmount DEF HalfRefund, Division
<1>3. /\ NoRefund(teacher, commission) \in Division
      /\ NoRefund(teacher, commission).refund = 0
      /\ NoRefund(teacher, commission).teacher = teacher
      /\ NoRefund(teacher, commission).commission = commission
  BY DEF NoRefund, Division
<1>4. out \in {FullRefund, HalfRefund, NoRefund(teacher, commission)}
  BY WindowAssumption DEF CancellationOutcome, Users
<1> QED
  BY <1>1, <1>2, <1>3, <1>4

(* compute_no_show_outcome divides the price in the same way. *)
LEMMA NoShowDivides ==
  ASSUME NEW role \in Users, NEW teacher \in Nat, NEW commission \in Nat
  PROVE  LET out == NoShowOutcome(role, teacher, commission)
         IN  /\ out \in Division
             /\ teacher + commission = Amount =>
                  out.refund + out.teacher + out.commission = Amount
             /\ out.refund = 0 => out.teacher = IF role = "teacher" THEN teacher ELSE 0
  BY PriceAssumption DEF NoShowOutcome, NoRefund, FullRefund, Division

(* A payment that is refunded is still a payment that was made. *)
LEMMA RefundedPaymentIsPaid ==
  \A cents : PaymentStatusAfterRefund(cents) \in PaidOutcome
  BY DEF PaymentStatusAfterRefund, PaidOutcome

-----------------------------------------------------------------------------
(* The values the rows can hold.                                           *)

(* Before the first checkout every column holds its empty value. *)
LEMMA TypeInit == Init => TypeOK
  BY PriceAssumption, SeriesAssumption
  DEF Init, TypeOK, Booking, Payout, Refund, Absent, NoPayout, NoRefundRow, NoHold,
      BookingStatuses, PaymentStatuses, PayoutStatuses, RefundStatuses, DisputeStatuses,
      LedgerRow, Users, Outcomes

(* The moment a lesson is held, started or ended is a natural number. *)
LEMMA LessonFacts ==
  ASSUME TypeOK, NEW w \in Lesson
  PROVE  /\ Root \in Lesson
         /\ booking[w] \in Booking
         /\ payout[w] \in Payout
         /\ refund[w] \in Refund
         /\ payment[w] \in PaymentStatuses
         /\ dispute[w] \in DisputeStatuses
  BY SeriesAssumption DEF TypeOK, Root, Lesson

(* A handler that cancels confirmed lessons writes proper rows. *)
LEMMA CancelTypes ==
  ASSUME TypeOK, NEW S \in SUBSET Lesson, NEW role \in Users, CancelConfirmed(S, role)
  PROVE  /\ booking' \in [Lesson -> Booking]
         /\ payout' \in [Lesson -> Payout]
         /\ refund' \in [Lesson -> Refund]
<1>1. \A w \in Lesson : Divided(w, role) \in Division
  BY CancellationDivides DEF Divided, TypeOK, Booking
<1>2. booking' \in [Lesson -> Booking]
  <2>1. ASSUME NEW w \in Lesson PROVE booking'[w] \in Booking
    <3> DEFINE teacher == Divided(w, role).teacher
               commission == Divided(w, role).commission
    <3>1. booking[w] \in Booking
      BY DEF TypeOK
    <3>2. teacher \in Nat /\ commission \in Nat
      BY <1>1 DEF Division
    <3>3. booking'[w] \in {booking[w],
                         [booking[w] EXCEPT !.status = "cancelled", !.hold = NoHold],
                         [booking[w] EXCEPT !.status = "cancelled", !.hold = NoHold,
                                            !.teacher = teacher, !.commission = commission]}
      BY DEF CancelConfirmed
    <3>4. [booking[w] EXCEPT !.status = "cancelled", !.hold = NoHold] \in Booking
      BY <3>1 DEF Booking, BookingStatuses
    <3>5. [booking[w] EXCEPT !.status = "cancelled", !.hold = NoHold,
                             !.teacher = teacher, !.commission = commission] \in Booking
      <4> HIDE DEF teacher, commission
      <4>1. ASSUME NEW b \in Booking
            PROVE  [b EXCEPT !.teacher = teacher, !.commission = commission] \in Booking
        BY <3>2 DEF Booking
      <4> QED
        BY <3>4, <4>1
    <3> QED
      BY <3>1, <3>3, <3>4, <3>5
  <2> QED
    BY <2>1 DEF CancelConfirmed
<1>3. payout' \in [Lesson -> Payout]
  BY <1>1 DEF CancelConfirmed, TypeOK, Division, Payout, PayoutStatuses
<1>4. refund' \in [Lesson -> Refund]
  BY <1>1 DEF CancelConfirmed, TypeOK, Division, Refund, RefundStatuses
<1> QED
  BY <1>2, <1>3, <1>4

(* Every handler, job and notice leaves proper rows. *)
LEMMA TypeStep == TypeOK /\ [Next]_vars => TypeOK'
<1> SUFFICES ASSUME TypeOK, [Next]_vars PROVE TypeOK'
  OBVIOUS
<1> USE DEF TypeOK, outer
<1>1. ASSUME NEW start \in Slots, CreateBooking(start) PROVE TypeOK'
  <2>1. ASSUME NEW v \in Lesson PROVE booking'[v] \in Booking
    BY <1>1, PriceAssumption, SeriesAssumption, TimingAssumption
    DEF CreateBooking, Booking, BookingStatuses
  <2>2. ASSUME NEW v \in Lesson PROVE payment'[v] \in PaymentStatuses
    BY <1>1
    DEF CreateBooking, PaymentStatuses
  <2> QED
    BY <1>1, <2>1, <2>2 DEF CreateBooking
<1>2. ASSUME NEW outcome \in Outcomes, GatewayOutcome(outcome) PROVE TypeOK'
  BY <1>2 DEF GatewayOutcome, rows
<1>3. CASE ItnComplete
  <2>1. ASSUME NEW v \in Lesson PROVE booking'[v] \in Booking
    <3>1. booking'[v] \in {booking[v], [booking[v] EXCEPT !.status = "expired", !.hold = NoHold]}
      BY <1>3 DEF ItnComplete
    <3> QED
      BY <3>1 DEF NoHold, Booking, BookingStatuses
  <2>2. ASSUME NEW v \in Lesson PROVE payment'[v] \in PaymentStatuses
    BY <1>3 DEF ItnComplete, PaymentStatuses
  <2> QED
    BY <1>3, <2>1, <2>2 DEF ItnComplete, Outcomes
<1>24. CASE ConfirmPaid
  <2>1. ASSUME NEW v \in Lesson PROVE booking'[v] \in Booking
    <3>1. /\ v * Week \in Nat
          /\ booking[v] \in Booking
          /\ booking[Root] \in Booking
      BY LessonFacts, SeriesAssumption DEF Lesson
    <3>2. SpawnedBooking(v) \in Booking
      <4> DEFINE start == booking[Root].start + v * Week
      <4>1. SpawnedBooking(v) = [booking[Root] EXCEPT !.status = "confirmed", !.hold = NoHold,
                                                      !.start = start]
        BY DEF SpawnedBooking
      <4>2. start \in Nat
        BY <3>1 DEF Booking
      <4> HIDE DEF start
      <4> QED
        BY <3>1, <4>1, <4>2 DEF NoHold, Booking, BookingStatuses
    <3>3. booking'[v] \in {booking[v], SpawnedBooking(v)}
      BY <1>24 DEF ConfirmPaid
    <3> QED
      BY <3>1, <3>2, <3>3
  <2>2. ASSUME NEW v \in Lesson PROVE payment'[v] \in PaymentStatuses
    BY <1>24 DEF ConfirmPaid, PaidOutcome, PaymentStatuses
  <2> QED
    BY <1>24, <2>1, <2>2 DEF ConfirmPaid, Outcomes
<1>4. ASSUME NEW outcome \in Outcomes, ItnFailed(outcome) PROVE TypeOK'
  <2>1. ASSUME NEW v \in Lesson PROVE booking'[v] \in Booking
    <3>1. booking'[v] \in {booking[v], [booking[v] EXCEPT !.status = "expired", !.hold = NoHold]}
      BY <1>4 DEF ItnFailed
    <3> QED
      BY <3>1 DEF NoHold, Booking, BookingStatuses
  <2>2. ASSUME NEW v \in Lesson PROVE payment'[v] \in PaymentStatuses
    BY <1>4
    DEF ItnFailed, FailedPayment, PaymentStatuses
  <2> QED
    BY <1>4, <2>1, <2>2 DEF ItnFailed, Outcomes
<1>5. CASE ExpireHold
  <2>1. ASSUME NEW v \in Lesson PROVE booking'[v] \in Booking
    BY <1>5
    DEF ExpireHold, NoHold, Booking, BookingStatuses
  <2>2. ASSUME NEW v \in Lesson PROVE payment'[v] \in PaymentStatuses
    BY <1>5
    DEF ExpireHold, PaymentStatuses
  <2> QED
    BY <1>5, <2>1, <2>2 DEF ExpireHold
<1>6. ASSUME NEW w \in Lesson, NEW role \in Users, NEW start \in Slots,
             Reschedule(w, role, start)
      PROVE TypeOK'
  BY <1>6, SeriesAssumption DEF Reschedule, Booking
<1>7. ASSUME NEW w \in Lesson, NEW role \in Users \cup {"admin"}, CancelBooking(w, role)
      PROVE TypeOK'
  <2>1. CASE booking[w].status = "pending_payment"
    <3>1. ASSUME NEW v \in Lesson PROVE booking'[v] \in Booking
      <4>1. booking'[v] \in {booking[v],
                            [booking[v] EXCEPT !.status = "cancelled", !.hold = NoHold]}
        BY <1>7, <2>1 DEF CancelBooking
      <4> QED
        BY <4>1 DEF NoHold, Booking, BookingStatuses
    <3>2. ASSUME NEW v \in Lesson PROVE payment'[v] \in PaymentStatuses
      BY <1>7, <2>1 DEF CancelBooking, PaymentStatuses
    <3> QED
      BY <1>7, <2>1, <3>1, <3>2 DEF CancelBooking
  <2>2. CASE booking[w].status = "confirmed" /\ CancelConfirmed({w}, role) /\ role \in Users
    BY <1>7, <2>2, CancelTypes DEF CancelBooking
  <2> QED
    BY <1>7, <2>1, <2>2 DEF CancelBooking
<1>8. ASSUME NEW role \in Users, CancelSeries(role) PROVE TypeOK'
  BY <1>8, CancelTypes DEF CancelSeries
<1>9. CASE StartDueLessons
  <2>1. ASSUME NEW v \in Lesson PROVE booking'[v] \in Booking
    BY <1>9
    DEF StartDueLessons, Booking, BookingStatuses
  <2> QED
    BY <1>9, <2>1 DEF StartDueLessons
<1>10. CASE AutoCompleteLessons
  <2>1. ASSUME NEW v \in Lesson PROVE booking'[v] \in Booking
    BY <1>10
    DEF AutoCompleteLessons, Booking, BookingStatuses
  <2>2. ASSUME NEW v \in Lesson PROVE payout'[v] \in Payout
    BY <1>10
    DEF AutoCompleteLessons, QueuePayouts, Booking, Payout, PayoutStatuses
  <2> QED
    BY <1>10, <2>1, <2>2 DEF AutoCompleteLessons, QueuePayouts
<1>11. CASE ProcessWeeklyPayouts
  <2>1. ASSUME NEW v \in Lesson PROVE payout'[v] \in Payout
    BY <1>11
    DEF ProcessWeeklyPayouts, QueuePayouts, Booking, Payout, PayoutStatuses
  <2> QED
    BY <1>11, <2>1 DEF ProcessWeeklyPayouts, QueuePayouts
<1>12. ASSUME NEW w \in Lesson, CompleteBooking(w) PROVE TypeOK'
  BY <1>12 DEF CompleteBooking, Booking, BookingStatuses
<1>13. ASSUME NEW w \in Lesson, NEW role \in Users, ReportNoShow(w, role) PROVE TypeOK'
  <2> DEFINE out == NoShowOutcome(role, booking[w].teacher, booking[w].commission)
  <2>1. out \in Division
    BY NoShowDivides DEF Booking
  <2>2. ASSUME NEW v \in Lesson PROVE booking'[v] \in Booking
    <3> DEFINE missing == IF role = "parent" THEN "no_show_teacher" ELSE "no_show_parent"
    <3>1. \/ booking' = [booking EXCEPT ![w] = [@ EXCEPT !.status = missing]]
          \/ booking' = [booking EXCEPT ![w] = [@ EXCEPT !.status = missing,
                                                        !.teacher = out.teacher,
                                                        !.commission = out.commission]]
      BY <1>13, Zenon DEF ReportNoShow
    <3>2. booking \in [Lesson -> Booking] /\ missing \in BookingStatuses
      BY DEF BookingStatuses
    <3>3. out.teacher \in Nat /\ out.commission \in Nat
      BY <2>1 DEF Division
    <3> HIDE DEF missing, out
    <3>4. ASSUME NEW b \in Booking
          PROVE  /\ [b EXCEPT !.status = missing] \in Booking
                 /\ [b EXCEPT !.status = missing, !.teacher = out.teacher,
                              !.commission = out.commission] \in Booking
      BY ONLY <3>2, <3>3, b \in Booking DEF Booking
    <3> QED
      BY ONLY <3>1, <3>2, <3>4, w \in Lesson, v \in Lesson
  <2>3. ASSUME NEW v \in Lesson PROVE payout'[v] \in Payout
    <3>1. payout'[v] \in {payout[v], Stopped(payout[v]),
                         [status |-> "pending", cents |-> out.teacher]}
      BY <1>13 DEF ReportNoShow
    <3>2. payout[v] \in Payout /\ Stopped(payout[v]) \in Payout
      BY DEF Stopped, Payout, PayoutStatuses
    <3>3. [status |-> "pending", cents |-> out.teacher] \in Payout
      BY <2>1 DEF Division, Payout, PayoutStatuses
    <3> QED
      BY <3>1, <3>2, <3>3
  <2>4. ASSUME NEW v \in Lesson PROVE refund'[v] \in Refund
    <3>1. refund'[v] \in {refund[v], [status |-> "pending", cents |-> out.refund]}
      BY <1>13 DEF ReportNoShow
    <3>2. [status |-> "pending", cents |-> out.refund] \in Refund
      BY <2>1 DEF Division, Refund, RefundStatuses
    <3> QED
      BY <3>1, <3>2
  <2> QED
    BY <1>13, <2>2, <2>3, <2>4 DEF ReportNoShow
<1>14. ASSUME NEW w \in Lesson, CreateReview(w) PROVE TypeOK'
  BY <1>14 DEF CreateReview, Booking, BookingStatuses
<1>15. ASSUME NEW w \in Lesson, NEW role \in Users \cup {"admin"}, RaiseDispute(w, role)
       PROVE TypeOK'
  <2>1. ASSUME NEW v \in Lesson PROVE booking'[v] \in Booking
    BY <1>15
    DEF RaiseDispute, Booking, BookingStatuses
  <2>2. ASSUME NEW v \in Lesson PROVE payout'[v] \in Payout
    BY <1>15
    DEF RaiseDispute, Stopped, Payout, PayoutStatuses
  <2> QED
    BY <1>15, <2>1, <2>2 DEF RaiseDispute, DisputeStatuses
<1>16. ASSUME NEW w \in Lesson, ResolveCompleted(w) PROVE TypeOK'
  <2>1. ASSUME NEW v \in Lesson PROVE booking'[v] \in Booking
    BY <1>16
    DEF ResolveCompleted, Booking, BookingStatuses
  <2>2. ASSUME NEW v \in Lesson PROVE payout'[v] \in Payout
    <3>1. payout'[v] \in {payout[v], [payout[v] EXCEPT !.status = "pending"],
                         [status |-> "pending", cents |-> booking[w].teacher]}
      BY <1>16 DEF ResolveCompleted
    <3>2. booking[w].teacher \in Nat
      BY DEF Booking
    <3> QED
      BY <3>1, <3>2 DEF Payout, PayoutStatuses
  <2> QED
    BY <1>16, <2>1, <2>2 DEF ResolveCompleted, DisputeStatuses
<1>17. ASSUME NEW w \in Lesson, ResolveRefunded(w) PROVE TypeOK'
  <2>1. ASSUME NEW v \in Lesson PROVE booking'[v] \in Booking
    BY <1>17
    DEF ResolveRefunded, Booking, BookingStatuses
  <2>2. ASSUME NEW v \in Lesson PROVE payout'[v] \in Payout
    BY <1>17
    DEF ResolveRefunded, Payout, PayoutStatuses
  <2>3. ASSUME NEW v \in Lesson PROVE refund'[v] \in Refund
    BY <1>17, PriceAssumption
    DEF ResolveRefunded, Refund, RefundStatuses
  <2>4. ASSUME NEW v \in Lesson PROVE ledger'[v] \in LedgerRow
    BY <1>17 DEF ResolveRefunded, LedgerRow
  <2> QED
    BY <1>17, <2>1, <2>2, <2>3, <2>4 DEF ResolveRefunded, DisputeStatuses
<1>18. CASE LoadAdminPage
  BY <1>18 DEF LoadAdminPage, rows, Payout, Refund
<1>19. ASSUME NEW w \in Lesson, NEW to \in {"processing", "paid", "failed"}, UpdatePayout(w, to)
       PROVE TypeOK'
  <2>1. ASSUME NEW v \in Lesson PROVE payout'[v] \in Payout
    BY <1>19
    DEF UpdatePayout, Payout, PayoutStatuses
  <2>2. ASSUME NEW v \in Lesson PROVE page'[v] \in [payout : PayoutStatuses, refund : RefundStatuses]
    BY <1>19
    DEF UpdatePayout, PayoutStatuses
  <2>3. ASSUME NEW v \in Lesson PROVE ledger'[v] \in LedgerRow
    BY <1>19
    DEF UpdatePayout, Payout, LedgerRow
  <2> QED
    BY <1>19, <2>1, <2>2, <2>3 DEF UpdatePayout
<1>20. ASSUME NEW w \in Lesson, NEW to \in {"processing", "refunded", "failed"},
              UpdateRefund(w, to)
       PROVE TypeOK'
  <2>1. ASSUME NEW v \in Lesson PROVE refund'[v] \in Refund
    BY <1>20
    DEF UpdateRefund, Refund, RefundStatuses
  <2>2. ASSUME NEW v \in Lesson PROVE payment'[v] \in PaymentStatuses
    BY <1>20, RefundedPaymentIsPaid
    DEF UpdateRefund, PaidOutcome, PaymentStatuses
  <2>3. ASSUME NEW v \in Lesson PROVE page'[v] \in [payout : PayoutStatuses, refund : RefundStatuses]
    BY <1>20
    DEF UpdateRefund, RefundStatuses
  <2>4. ASSUME NEW v \in Lesson PROVE ledger'[v] \in LedgerRow
    <3> DEFINE sent == IF to = "refunded" /\ refund[w].status # "refunded"
                       THEN ledger[w].refunded + refund[w].cents ELSE ledger[w].refunded
    <3>1. ledger' = [ledger EXCEPT ![w].refunded = sent]
      BY <1>20, Zenon DEF UpdateRefund
    <3>2. ledger[w] \in LedgerRow /\ ledger[v] \in LedgerRow /\ refund[w].cents \in Nat
      BY DEF Refund
    <3>3. sent \in Nat
      BY <3>2 DEF LedgerRow
    <3> HIDE DEF sent
    <3> QED
      BY <3>1, <3>2, <3>3 DEF LedgerRow
  <2> QED
    BY <1>20, <2>1, <2>2, <2>3, <2>4 DEF UpdateRefund
<1>21. ASSUME NEW role \in Users, RequestAccountDeletion(role) PROVE TypeOK'
  <2>1. ASSUME NEW v \in Lesson PROVE booking'[v] \in Booking
    BY <1>21
    DEF RequestAccountDeletion, NoHold, Booking, BookingStatuses
  <2>2. ASSUME NEW v \in Lesson PROVE payment'[v] \in PaymentStatuses
    BY <1>21
    DEF RequestAccountDeletion, PaymentStatuses
  <2>3. ASSUME NEW v \in Lesson PROVE payout'[v] \in Payout
    BY <1>21
    DEF RequestAccountDeletion, Payout, PayoutStatuses
  <2>4. ASSUME NEW v \in Lesson PROVE refund'[v] \in Refund
    BY <1>21, PriceAssumption
    DEF RequestAccountDeletion, Refund, RefundStatuses
  <2> QED
    BY <1>21, <2>1, <2>2, <2>3, <2>4 DEF RequestAccountDeletion
<1>22. CASE Tick
  BY <1>22 DEF Tick, rows
<1>23. CASE UNCHANGED vars
  BY <1>23 DEF vars, rows
<1>25. CASE VerifyTeacher
  BY <1>25 DEF VerifyTeacher, rows
<1> QED
  BY <1>1, <1>2, <1>3, <1>4, <1>5, <1>6, <1>7, <1>8, <1>9, <1>10, <1>11, <1>12, <1>13,
     <1>14, <1>15, <1>16, <1>17, <1>18, <1>19, <1>20, <1>21, <1>22, <1>23, <1>24, <1>25
  DEF Next, Jobs, Gateway, Participants, Admin

(* For every value of the constants the rows hold only what their columns *)
(* allow.                                                                 *)
THEOREM TypeCorrect == Spec => []TypeOK
  BY TypeInit, TypeStep, PTL DEF Spec


-----------------------------------------------------------------------------
(* The inductive invariant, lesson by lesson.                              *)

(* Until the lesson ends, is cancelled or is disputed no money row exists. *)
Untouched(w) ==
  booking[w].status \in {"absent", "pending_payment", "expired", "confirmed", "in_progress"} =>
    /\ payout[w].status = "none"
    /\ refund[w].status = "none"
    /\ dispute[w] = "none"

(* A row that does not exist carries no cents. *)
EmptyRows(w) ==
  /\ payout[w].status = "none" => payout[w].cents = 0
  /\ refund[w].status = "none" => refund[w].cents = 0

SplitAt(w) ==
  booking[w].status # "absent" =>
    refund[w].cents + booking[w].teacher + booking[w].commission = Amount

(* The payout row holds the teacher's share, unless an admin has taken the *)
(* share away again.                                                       *)
ShareDue(w) ==
  payout[w].status # "none" /\ dispute[w] # "refunded" =>
    payout[w].cents = booking[w].teacher

DisputeAt(w) ==
  /\ booking[w].status = "disputed" <=> dispute[w] = "open"
  /\ dispute[w] = "refunded" => booking[w].status = "cancelled"
  /\ AdminPageFresh /\ dispute[w] \in {"open", "refunded"} =>
       payout[w].status \in {"none", "failed"}

(* Rows and live lessons stem from a payment PayFast has taken. *)
PaidAt(w) ==
  /\ booking[w].status \notin {"absent", "pending_payment", "expired", "cancelled"}
       => payment[w] \in PaidOutcome
  /\ booking[w].status \in {"absent", "pending_payment", "expired"}
       => payment[w] \notin PaidOutcome
  /\ payout[w].status # "none" \/ refund[w].status # "none" => payment[w] \in PaidOutcome
  /\ payment[w] \in PaidOutcome => "COMPLETE" \in notices

SentAt(w) ==
  AdminPageFresh =>
    ledger[w].paid = IF payout[w].status = "paid" THEN payout[w].cents ELSE 0

(* What went back to the parent is the refund row marked refunded, and at   *)
(* most one price more when a dispute has queued a sent refund once more.   *)
Returned(w) == IF refund[w].status = "refunded" THEN refund[w].cents ELSE 0
RefundedAt(w) ==
  AdminPageFresh =>
    \/ ledger[w].requeued = FALSE /\ ledger[w].refunded = Returned(w)
    \/ /\ ledger[w].requeued /\ dispute[w] = "refunded"
       /\ ledger[w].refunded <= Amount + Returned(w)

LessonInv(w) ==
  /\ Untouched(w)
  /\ EmptyRows(w)
  /\ SplitAt(w)
  /\ ShareDue(w)
  /\ DisputeAt(w)
  /\ PaidAt(w)
  /\ SentAt(w)
  /\ RefundedAt(w)

(* The admin page shows no row that does not exist. *)
PageTells ==
  \A w \in Lesson :
    /\ page[w].payout # "none" => payout[w].status # "none"
    /\ page[w].refund # "none" => refund[w].status # "none"

(* Only the root is ever waiting for its payment. *)
RootPays == \A w \in Lesson \ {Root} : booking[w].status # "pending_payment"

(* The notice that awaits its video room will confirm a root that nobody    *)
(* has paid for, disputed or moved money for since it was read.             *)
Waiting == {"pending_payment", "expired", "cancelled"}
NoticeInv ==
  opening # NoCall =>
    /\ "COMPLETE" \in notices
    /\ booking[Root].status \in Waiting
    /\ payment[Root] \notin PaidOutcome
    /\ dispute[Root] = "none"

MoneyInv ==
  /\ TypeOK
  /\ \A w \in Lesson : LessonInv(w)
  /\ SeriesAllOrNothing
  /\ RootPays
  /\ PageTells
  /\ NoticeInv

-----------------------------------------------------------------------------
(* Before the first checkout there is nothing to lose. *)
LEMMA MoneyInit == Init => MoneyInv
<1> SUFFICES ASSUME Init PROVE MoneyInv
  OBVIOUS
<1>1. ASSUME NEW w \in Lesson PROVE LessonInv(w)
  BY DEF Init, LessonInv, Untouched, EmptyRows, SplitAt, ShareDue, DisputeAt, PaidAt, SentAt,
         RefundedAt, Returned, Absent, NoPayout, NoRefundRow, PaidOutcome
<1>2. SeriesAllOrNothing /\ RootPays
  BY SeriesAssumption
  DEF Init, SeriesAllOrNothing, RootPays, Absent, PaidOutcome, Root, Lesson
<1>3. PageTells /\ NoticeInv
  BY DEF Init, PageTells, NoticeInv
<1> QED
  BY <1>1, <1>2, <1>3, TypeInit DEF MoneyInv

(* The cents of a row are natural numbers, and the root is a lesson. *)
LEMMA Fields ==
  ASSUME TypeOK, NEW v \in Lesson
  PROVE  /\ Root \in Lesson
         /\ booking[v].teacher \in Nat
         /\ booking[v].commission \in Nat
         /\ payout[v].cents \in Nat
         /\ refund[v].cents \in Nat
  BY LessonFacts DEF Booking, Payout, Refund

(* A step that leaves the rows of a lesson alone leaves its invariant alone. *)
LEMMA Frame ==
  ASSUME TypeOK, NEW v \in Lesson, LessonInv(v),
         booking'[v] = booking[v], payment'[v] = payment[v], payout'[v] = payout[v],
         refund'[v] = refund[v], dispute'[v] = dispute[v],
         ledger'[v] = ledger[v], notices \subseteq notices'
  PROVE  LessonInv(v)'
  BY DEF LessonInv, Untouched, EmptyRows, SplitAt, ShareDue, DisputeAt, PaidAt, SentAt,
         RefundedAt, Returned

-----------------------------------------------------------------------------
(* The checkout and its payment.                                           *)

(* create_booking divides the price of the root and touches nothing else. *)
LEMMA CreateKeeps ==
  ASSUME MoneyInv, NEW start \in Slots, CreateBooking(start), NEW v \in Lesson
  PROVE  LessonInv(v)'
<1>1. CASE v # Root
  BY <1>1, Frame DEF MoneyInv, CreateBooking, outer
<1>2. CASE v = Root
  <2>1. /\ booking'[v].status = "pending_payment"
        /\ booking'[v].teacher = Amount - Commission
        /\ booking'[v].commission = Commission
        /\ payment'[v] = "pending"
    BY <1>2, LessonFacts DEF CreateBooking, MoneyInv, TypeOK
  <2>2. /\ payout' = payout /\ refund' = refund /\ dispute' = dispute
        /\ ledger' = ledger /\ booking[v].status = "absent"
    BY <1>2 DEF CreateBooking
  <2> QED
    BY <2>1, <2>2, PriceAssumption
    DEF MoneyInv, LessonInv, Untouched, EmptyRows, SplitAt, ShareDue, DisputeAt, PaidAt,
        SentAt, RefundedAt, Returned, PaidOutcome
<1> QED
  BY <1>1, <1>2

(* payfast_itn expires a root whose hold has lapsed.                        *)
LEMMA CompleteKeeps ==
  ASSUME MoneyInv, ItnComplete, NEW v \in Lesson
  PROVE  LessonInv(v)'
<1>1. CASE booking'[v] = booking[v] /\ payment'[v] = payment[v]
  BY <1>1, Frame DEF MoneyInv, ItnComplete
<1>2. CASE /\ AwaitsPayment
           /\ v = Root
           /\ booking'[v] = [booking[v] EXCEPT !.status = "expired", !.hold = NoHold]
           /\ payment'[v] = "cancelled"
  BY <1>2
  DEF ItnComplete, AwaitsPayment, MoneyInv, TypeOK, LessonInv, Untouched, EmptyRows, SplitAt,
      ShareDue, DisputeAt, PaidAt, SentAt, RefundedAt, Returned, PaidOutcome, Booking
<1> QED
  BY <1>1, <1>2 DEF ItnComplete, MoneyInv, TypeOK

(* It confirms the whole series with the division of the root, also a root *)
(* that was expired or cancelled while it waited for the video room.       *)
LEMMA ConfirmKeeps ==
  ASSUME MoneyInv, ConfirmPaid, NEW v \in Lesson
  PROVE  LessonInv(v)'
<1>1. /\ booking'[v] = SpawnedBooking(v)
      /\ payment'[v] = "complete"
      /\ UNCHANGED <<notices, payout, refund, dispute, ledger>>
  BY DEF ConfirmPaid, PaidLessons, Lesson
<1>2. /\ booking'[v].status = "confirmed"
      /\ booking'[v].teacher = booking[Root].teacher
      /\ booking'[v].commission = booking[Root].commission
  BY <1>1, LessonFacts DEF SpawnedBooking, MoneyInv, Booking
<1>3. /\ booking[Root].status \in Waiting
      /\ payment[Root] \notin PaidOutcome
      /\ dispute[Root] = "none"
      /\ "COMPLETE" \in notices
  BY DEF MoneyInv, NoticeInv, ConfirmPaid
<1>4. booking[v].status = "absent" \/ v = Root
  BY <1>3 DEF MoneyInv, SeriesAllOrNothing
<1>5. /\ payout[v].status = "none" /\ payout[v].cents = 0
      /\ refund[v].status = "none" /\ refund[v].cents = 0
      /\ dispute[v] = "none"
  BY <1>3, <1>4 DEF MoneyInv, LessonInv, Untouched, EmptyRows, PaidAt
<1>6. booking[Root].teacher + booking[Root].commission = Amount
  <2>1. refund[Root].cents = 0 /\ booking[Root].status # "absent"
    BY <1>3, Fields DEF Waiting, MoneyInv, LessonInv, EmptyRows, PaidAt
  <2> QED
    BY <2>1, Fields DEF MoneyInv, LessonInv, SplitAt
<1> QED
  BY <1>1, <1>2, <1>3, <1>5, <1>6, Fields
  DEF MoneyInv, LessonInv, Untouched, EmptyRows, SplitAt, ShareDue, DisputeAt,
      PaidAt, SentAt, RefundedAt, Returned, PaidOutcome

(* A failed or abandoned payment expires the root. *)
LEMMA FailedKeeps ==
  ASSUME MoneyInv, NEW outcome \in Outcomes, ItnFailed(outcome), NEW v \in Lesson
  PROVE  LessonInv(v)'
<1>1. CASE booking'[v] = booking[v] /\ payment'[v] = payment[v]
  BY <1>1, Frame DEF MoneyInv, ItnFailed
<1>2. CASE /\ booking[v].status = "pending_payment"
           /\ booking'[v] = [booking[v] EXCEPT !.status = "expired", !.hold = NoHold]
           /\ payment'[v] = FailedPayment(outcome)
  BY <1>2
  DEF ItnFailed, FailedPayment, MoneyInv, TypeOK, LessonInv, Untouched, EmptyRows, SplitAt,
      ShareDue, DisputeAt, PaidAt, SentAt, RefundedAt, Returned, PaidOutcome, Booking
<1> QED
  BY <1>1, <1>2 DEF ItnFailed, AwaitsPayment, MoneyInv, TypeOK

(* So does a hold that runs out. *)
LEMMA ExpireKeeps ==
  ASSUME MoneyInv, ExpireHold, NEW v \in Lesson
  PROVE  LessonInv(v)'
<1>1. CASE v # Root
  BY <1>1, Frame DEF MoneyInv, ExpireHold, outer
<1>2. CASE v = Root
  <2>1. /\ booking[v].status = "pending_payment"
        /\ booking'[v] = [booking[v] EXCEPT !.status = "expired", !.hold = NoHold]
        /\ payment'[v] = IF payment[v] = "pending" THEN "cancelled" ELSE payment[v]
    BY <1>2 DEF ExpireHold, AwaitsPayment, MoneyInv, TypeOK
  <2> QED
    BY <2>1
    DEF ExpireHold, outer, MoneyInv, TypeOK, LessonInv, Untouched, EmptyRows, SplitAt,
        ShareDue, DisputeAt, PaidAt, SentAt, RefundedAt, Returned, PaidOutcome, Booking
<1> QED
  BY <1>1, <1>2

-----------------------------------------------------------------------------
(* Cancellations.                                                          *)

(* The policy divides the price of every cancelled lesson anew. *)
LEMMA CancelKeeps ==
  ASSUME MoneyInv, NEW S \in SUBSET Lesson, NEW role \in Users, CancelConfirmed(S, role),
         \A w \in S : booking[w].status = "confirmed",
         UNCHANGED <<payment, dispute, ledger, notices>>, NEW v \in Lesson
  PROVE  LessonInv(v)'
<1> DEFINE out == Divided(v, role)
<1>1. CASE v \notin S
  BY <1>1, Frame DEF MoneyInv, CancelConfirmed
<1>2. CASE v \in S /\ payment[v] # "complete"
  <2>1. /\ booking'[v] = [booking[v] EXCEPT !.status = "cancelled", !.hold = NoHold]
        /\ refund'[v] = refund[v]
        /\ payout'[v] = payout[v]
    BY <1>2 DEF CancelConfirmed
  <2>2. /\ booking'[v].status = "cancelled"
        /\ booking'[v].teacher = booking[v].teacher
        /\ booking'[v].commission = booking[v].commission
    BY <2>1, LessonFacts DEF MoneyInv, Booking
  <2> QED
    BY <1>2, <2>1, <2>2
    DEF MoneyInv, LessonInv, Untouched, EmptyRows, SplitAt, ShareDue, DisputeAt,
        PaidAt, SentAt, RefundedAt, Returned, PaidOutcome
<1>3. CASE v \in S /\ payment[v] = "complete"
  <2>1. /\ booking[v].status = "confirmed"
        /\ payout[v].status = "none" /\ payout[v].cents = 0
        /\ refund[v].status = "none" /\ refund[v].cents = 0
        /\ dispute[v] = "none"
    BY <1>3 DEF MoneyInv, LessonInv, Untouched, EmptyRows
  <2>2. booking[v].teacher + booking[v].commission = Amount
    BY <2>1, Fields DEF MoneyInv, LessonInv, SplitAt
  <2>3. out \in Division /\ out.refund + out.teacher + out.commission = Amount
    <3>1. /\ now \in Nat /\ booking[v].start \in Nat
          /\ booking[v].teacher \in Nat /\ booking[v].commission \in Nat
      BY LessonFacts DEF MoneyInv, TypeOK, Booking
    <3> QED
      BY <2>2, <3>1, CancellationDivides DEF Divided
  <2>4. booking'[v] = [booking[v] EXCEPT !.status = "cancelled", !.hold = NoHold,
                                         !.teacher = out.teacher, !.commission = out.commission]
    BY <1>3 DEF CancelConfirmed
  <2>5. /\ booking'[v].status = "cancelled"
        /\ booking'[v].teacher = out.teacher
        /\ booking'[v].commission = out.commission
    BY <2>4, LessonFacts DEF MoneyInv, Booking
  <2>6. /\ refund'[v] = IF out.refund > 0
                        THEN [status |-> "pending", cents |-> out.refund] ELSE refund[v]
        /\ payout'[v] = IF out.teacher > 0
                        THEN [status |-> "pending", cents |-> out.teacher] ELSE payout[v]
    BY <1>3, <2>1 DEF CancelConfirmed
  <2>7. out.refund \in Nat /\ out.teacher \in Nat /\ out.commission \in Nat
    BY <2>3 DEF Division
  <2> HIDE DEF out
  <2> QED
    BY <1>3, <2>1, <2>3, <2>5, <2>6, <2>7
    DEF MoneyInv, LessonInv, Untouched, EmptyRows, SplitAt, ShareDue, DisputeAt,
        PaidAt, SentAt, RefundedAt, Returned, PaidOutcome
<1> QED
  BY <1>1, <1>2, <1>3

(* Cancelling an unpaid checkout writes no money row. *)
LEMMA CancelBookingKeeps ==
  ASSUME MoneyInv, NEW w \in Lesson, NEW role \in Users \cup {"admin"},
         CancelBooking(w, role), NEW v \in Lesson
  PROVE  LessonInv(v)'
<1>1. CASE booking[w].status = "confirmed"
  BY <1>1, CancelKeeps DEF CancelBooking, outer
<1>2. CASE booking[w].status = "pending_payment" /\ v # w
  BY <1>2, Frame DEF CancelBooking, MoneyInv, TypeOK, outer
<1>3. CASE booking[w].status = "pending_payment" /\ v = w
  <2>1. /\ booking'[v] = [booking[v] EXCEPT !.status = "cancelled", !.hold = NoHold]
        /\ payment'[v] = "cancelled"
    BY <1>3 DEF CancelBooking, MoneyInv, TypeOK
  <2>2. /\ booking'[v].status = "cancelled"
        /\ booking'[v].teacher = booking[v].teacher
        /\ booking'[v].commission = booking[v].commission
    BY <2>1, LessonFacts DEF MoneyInv, Booking
  <2> QED
    BY <1>3, <2>1, <2>2
    DEF CancelBooking, outer, MoneyInv, LessonInv, Untouched, EmptyRows, SplitAt, ShareDue, DisputeAt,
        PaidAt, SentAt, RefundedAt, Returned, PaidOutcome
<1> QED
  BY <1>1, <1>2, <1>3 DEF CancelBooking

(* Closing an account refunds the whole price of the lessons ahead. *)
LEMMA DeletionKeeps ==
  ASSUME MoneyInv, NEW role \in Users, RequestAccountDeletion(role), NEW v \in Lesson
  PROVE  LessonInv(v)'
<1>1. CASE v \notin FutureLessons
  BY <1>1, Frame DEF RequestAccountDeletion, PaidFutureLessons, MoneyInv
<1>2. CASE v \in PaidFutureLessons
  <2>1. /\ booking[v].status = "confirmed"
        /\ payout[v].status = "none" /\ payout[v].cents = 0
        /\ refund[v].status = "none" /\ dispute[v] = "none"
    BY <1>2 DEF PaidFutureLessons, FutureLessons, MoneyInv, LessonInv, Untouched, EmptyRows
  <2>2. /\ booking'[v] = [booking[v] EXCEPT !.status = "cancelled", !.hold = NoHold,
                                            !.teacher = 0, !.commission = 0]
        /\ payment'[v] = payment[v]
        /\ payout'[v] = payout[v]
        /\ refund'[v] = [status |-> "pending", cents |-> Amount]
    BY <1>2, <2>1 DEF RequestAccountDeletion, PaidFutureLessons
  <2>3. booking'[v].status = "cancelled" /\ booking'[v].teacher = 0 /\ booking'[v].commission = 0
    BY <2>2, LessonFacts DEF MoneyInv, Booking
  <2>4. UNCHANGED <<notices, dispute, ledger>>
    BY DEF RequestAccountDeletion
  <2> QED
    BY <2>1, <2>2, <2>3, <2>4, PriceAssumption
    DEF MoneyInv, LessonInv, Untouched, EmptyRows, SplitAt, ShareDue, DisputeAt,
        PaidAt, SentAt, RefundedAt, Returned, PaidOutcome
<1>3. CASE v \in FutureLessons \ PaidFutureLessons
  <2>1. booking[v].status = "pending_payment"
    BY <1>3 DEF PaidFutureLessons, FutureLessons
  <2>2. /\ booking'[v] = [booking[v] EXCEPT !.status = "cancelled", !.hold = NoHold]
        /\ payment'[v] = "cancelled"
        /\ payout'[v] = payout[v]
        /\ refund'[v] = refund[v]
    BY <1>3 DEF RequestAccountDeletion
  <2>3. /\ booking'[v].status = "cancelled"
        /\ booking'[v].teacher = booking[v].teacher
        /\ booking'[v].commission = booking[v].commission
    BY <2>2, LessonFacts DEF MoneyInv, Booking
  <2>4. UNCHANGED <<notices, dispute, ledger>>
    BY DEF RequestAccountDeletion
  <2> QED
    BY <2>1, <2>2, <2>3, <2>4
    DEF MoneyInv, LessonInv, Untouched, EmptyRows, SplitAt, ShareDue, DisputeAt,
        PaidAt, SentAt, RefundedAt, Returned, PaidOutcome
<1> QED
  BY <1>1, <1>2, <1>3

-----------------------------------------------------------------------------
(* The lesson itself.                                                      *)

(* A step that only moves the status of a live or finished lesson along,    *)
(* and never to a disputed one, keeps its money as it is.                   *)
LEMMA StatusStep ==
  ASSUME MoneyInv, NEW v \in Lesson,
         booking[v].status \in {"confirmed", "in_progress", "completed"},
         booking'[v].status \in {"confirmed", "in_progress", "completed", "reviewed"},
         booking'[v].status \in {"confirmed", "in_progress"} => booking[v].status = "confirmed",
         booking'[v].teacher = booking[v].teacher,
         booking'[v].commission = booking[v].commission,
         UNCHANGED <<payment, payout, refund, dispute, ledger, notices>>
  PROVE  LessonInv(v)'
  BY DEF MoneyInv, LessonInv, Untouched, EmptyRows, SplitAt, ShareDue, DisputeAt,
        PaidAt, SentAt, RefundedAt, Returned, PaidOutcome

(* A job that queues the payout of a paid, undisputed lesson queues its share. *)
LEMMA PayoutStep ==
  ASSUME MoneyInv, NEW v \in Lesson,
         payment[v] = "complete",
         payout[v].status = "none",
         booking[v].status \in {"confirmed", "in_progress", "completed", "reviewed"},
         booking'[v].status \in {"completed", "reviewed"},
         booking'[v].teacher = booking[v].teacher,
         booking'[v].commission = booking[v].commission,
         payout'[v] = [status |-> "pending", cents |-> booking[v].teacher],
         UNCHANGED <<payment, refund, dispute, ledger, notices>>
  PROVE  LessonInv(v)'
  BY DEF MoneyInv, LessonInv, Untouched, EmptyRows, SplitAt, ShareDue, DisputeAt,
        PaidAt, SentAt, RefundedAt, Returned, PaidOutcome

(* Moving a lesson in time, starting it, completing or reviewing it. *)
LEMMA ProgressKeeps ==
  ASSUME MoneyInv, NEW v \in Lesson,
         \/ \E w \in Lesson, role \in Users, start \in Slots : Reschedule(w, role, start)
         \/ StartDueLessons
         \/ \E w \in Lesson : CompleteBooking(w) \/ CreateReview(w)
  PROVE  LessonInv(v)'
<1> USE LessonFacts
<1>1. ASSUME NEW w \in Lesson, NEW role \in Users, NEW start \in Slots,
             Reschedule(w, role, start)
      PROVE LessonInv(v)'
  <2>1. booking'[v] \in {booking[v], [booking[v] EXCEPT !.start = start]}
    BY <1>1 DEF Reschedule, MoneyInv, TypeOK
  <2>2. CASE v = w
    <3>1. booking[v].status = "confirmed"
      BY <1>1, <2>2 DEF Reschedule
    <3> QED
      BY <1>1, <2>1, <3>1, StatusStep DEF Reschedule, outer, MoneyInv, Booking
  <2>3. CASE v # w
    BY <1>1, <2>3, Frame DEF Reschedule, outer, MoneyInv, TypeOK
  <2> QED
    BY <2>2, <2>3
<1>2. CASE StartDueLessons
  <2>1. CASE booking'[v] = booking[v]
    BY <1>2, <2>1, Frame DEF StartDueLessons, outer, MoneyInv
  <2>2. CASE /\ booking[v].status = "confirmed"
             /\ booking'[v] = [booking[v] EXCEPT !.status = "in_progress"]
    BY <1>2, <2>2, StatusStep DEF StartDueLessons, outer, MoneyInv, Booking
  <2> QED
    BY <1>2, <2>1, <2>2 DEF StartDueLessons
<1>3. ASSUME NEW w \in Lesson, CompleteBooking(w) PROVE LessonInv(v)'
  <2>1. CASE v # w
    BY <1>3, <2>1, Frame DEF CompleteBooking, outer, MoneyInv, TypeOK
  <2>2. CASE v = w
    <3>1. /\ booking[v].status \in {"confirmed", "in_progress"}
          /\ booking'[v] = [booking[v] EXCEPT !.status = "completed"]
      BY <1>3, <2>2 DEF CompleteBooking, Live, MoneyInv, TypeOK
    <3> QED
      BY <1>3, <3>1, StatusStep DEF CompleteBooking, outer, MoneyInv, Booking
  <2> QED
    BY <2>1, <2>2
<1>4. ASSUME NEW w \in Lesson, CreateReview(w) PROVE LessonInv(v)'
  <2>1. CASE v # w
    BY <1>4, <2>1, Frame DEF CreateReview, outer, MoneyInv, TypeOK
  <2>2. CASE v = w
    <3>1. /\ booking[v].status = "completed"
          /\ booking'[v] = [booking[v] EXCEPT !.status = "reviewed"]
      BY <1>4, <2>2 DEF CreateReview, Reviewable, MoneyInv, TypeOK
    <3> QED
      BY <1>4, <3>1, StatusStep DEF CreateReview, outer, MoneyInv, Booking
  <2> QED
    BY <2>1, <2>2
<1> QED
  BY <1>1, <1>2, <1>3, <1>4

(* The two payout jobs. *)
LEMMA PayoutJobsKeep ==
  ASSUME MoneyInv, AutoCompleteLessons \/ ProcessWeeklyPayouts, NEW v \in Lesson
  PROVE  LessonInv(v)'
<1>1. CASE AutoCompleteLessons
  <2>1. CASE v \notin Elapsed
    BY <1>1, <2>1, Frame DEF AutoCompleteLessons, QueuePayouts, outer, MoneyInv
  <2>2. CASE v \in Elapsed
    <3>1. /\ payment[v] = "complete"
          /\ payout[v].status = "none"
          /\ booking[v].status \in {"confirmed", "in_progress"}
      BY <2>2 DEF Elapsed, Unpaid, Live
    <3>2. /\ booking'[v] = [booking[v] EXCEPT !.status = "completed"]
          /\ payout'[v] = [status |-> "pending", cents |-> booking[v].teacher]
      BY <1>1, <2>2 DEF AutoCompleteLessons, QueuePayouts
    <3>3. /\ booking'[v].status = "completed"
          /\ booking'[v].teacher = booking[v].teacher
          /\ booking'[v].commission = booking[v].commission
      BY <3>2, LessonFacts DEF MoneyInv, Booking
    <3> QED
      BY <1>1, <3>1, <3>2, <3>3, PayoutStep DEF AutoCompleteLessons, outer
  <2> QED
    BY <2>1, <2>2
<1>2. CASE ProcessWeeklyPayouts
  <2>1. CASE v \notin Earned
    BY <1>2, <2>1, Frame DEF ProcessWeeklyPayouts, QueuePayouts, outer, MoneyInv
  <2>2. CASE v \in Earned
    <3>1. /\ payment[v] = "complete"
          /\ payout[v].status = "none"
          /\ booking[v].status \in {"completed", "reviewed"}
      BY <2>2 DEF Earned, Unpaid
    <3>2. /\ booking' = booking
          /\ payout'[v] = [status |-> "pending", cents |-> booking[v].teacher]
      BY <1>2, <2>2 DEF ProcessWeeklyPayouts, QueuePayouts
    <3> QED
      BY <1>2, <3>1, <3>2, PayoutStep DEF ProcessWeeklyPayouts, outer
  <2> QED
    BY <2>1, <2>2
<1> QED
  BY <1>1, <1>2

(* A report that a side missed the lesson refunds all of it or none. *)
LEMMA NoShowKeeps ==
  ASSUME MoneyInv, NEW w \in Lesson, NEW role \in Users, ReportNoShow(w, role),
         NEW v \in Lesson
  PROVE  LessonInv(v)'
<1> DEFINE out == NoShowOutcome(role, booking[v].teacher, booking[v].commission)
<1> DEFINE missing == IF role = "parent" THEN "no_show_teacher" ELSE "no_show_parent"
<1>1. CASE v # w
  BY <1>1, Frame DEF ReportNoShow, outer, MoneyInv, TypeOK
<1>2. CASE v = w
  <2>1. /\ booking[v].status \in {"confirmed", "in_progress"}
        /\ payout[v].status = "none" /\ payout[v].cents = 0
        /\ refund[v].status = "none" /\ refund[v].cents = 0
        /\ dispute[v] = "none"
        /\ UNCHANGED <<payment, dispute, ledger, notices>>
    BY <1>2 DEF ReportNoShow, outer, Live, MoneyInv, LessonInv, Untouched, EmptyRows
  <2>2. booking[v].teacher + booking[v].commission = Amount
    BY <2>1, Fields DEF MoneyInv, LessonInv, SplitAt
  <2>3. CASE payment[v] # "complete"
    <3>1. booking'[v] = [booking[v] EXCEPT !.status = missing]
      BY <1>2, <2>3 DEF ReportNoShow, MoneyInv, TypeOK
    <3>2. /\ booking'[v].status \in {"no_show_teacher", "no_show_parent"}
          /\ booking'[v].teacher = booking[v].teacher
          /\ booking'[v].commission = booking[v].commission
      BY <3>1, LessonFacts DEF MoneyInv, Booking
    <3>3. UNCHANGED <<payout, refund>>
      BY <1>2, <2>3 DEF ReportNoShow
    <3> QED
      BY <2>1, <3>2, <3>3
      DEF MoneyInv, LessonInv, Untouched, EmptyRows, SplitAt, ShareDue, DisputeAt,
        PaidAt, SentAt, RefundedAt, Returned, PaidOutcome
  <2>4. CASE payment[v] = "complete"
    <3>1. /\ out.refund \in Nat /\ out.teacher \in Nat /\ out.commission \in Nat
          /\ out.refund + out.teacher + out.commission = Amount
      BY <2>2, Fields, NoShowDivides DEF MoneyInv, Division
    <3>2. booking'[v] = [booking[v] EXCEPT !.status = missing, !.teacher = out.teacher,
                                           !.commission = out.commission]
      BY <1>2, <2>4 DEF ReportNoShow, MoneyInv, TypeOK
    <3>3. /\ booking'[v].status \in {"no_show_teacher", "no_show_parent"}
          /\ booking'[v].teacher = out.teacher
          /\ booking'[v].commission = out.commission
      BY <3>2, LessonFacts DEF MoneyInv, Booking
    <3>4. refund'[v] = IF out.refund > 0
                      THEN [status |-> "pending", cents |-> out.refund] ELSE refund[v]
      BY <1>2, <2>4 DEF ReportNoShow, MoneyInv, TypeOK
    <3>5. payout'[v] = IF out.refund > 0
                      THEN payout[v] ELSE [status |-> "pending", cents |-> out.teacher]
      BY <1>2, <2>1, <2>4 DEF ReportNoShow, Stopped, MoneyInv, TypeOK
    <3> HIDE DEF out
    <3> QED
      BY <2>1, <2>4, <3>1, <3>3, <3>4, <3>5
      DEF MoneyInv, LessonInv, Untouched, EmptyRows, SplitAt, ShareDue, DisputeAt,
        PaidAt, SentAt, RefundedAt, Returned, PaidOutcome
  <2> QED
    BY <2>3, <2>4
<1> QED
  BY <1>1, <1>2

-----------------------------------------------------------------------------
(* Disputes and the admin's transfers.                                     *)

(* Raising a dispute stops the payout that has not been made. *)
LEMMA RaiseKeeps ==
  ASSUME MoneyInv, NEW w \in Lesson, NEW role, RaiseDispute(w, role), NEW v \in Lesson
  PROVE  LessonInv(v)'
<1>1. CASE v # w
  BY <1>1, Frame DEF RaiseDispute, outer, MoneyInv, TypeOK
<1>2. CASE v = w
  <2>1. /\ booking[v].status \notin
             {"absent", "pending_payment", "cancelled", "expired", "disputed"}
        /\ dispute[v] = "none"
        /\ payout[v].status # "paid"
        /\ UNCHANGED <<payment, refund, ledger, notices>>
    BY <1>2 DEF RaiseDispute, Disputable, outer
  <2>2. /\ booking'[v] = [booking[v] EXCEPT !.status = "disputed"]
        /\ payout'[v] = Stopped(payout[v])
        /\ dispute'[v] = "open"
    BY <1>2 DEF RaiseDispute, MoneyInv, TypeOK
  <2>3. /\ booking'[v].status = "disputed"
        /\ booking'[v].teacher = booking[v].teacher
        /\ booking'[v].commission = booking[v].commission
    BY <2>2, LessonFacts DEF MoneyInv, Booking
  <2>4. /\ payout'[v].cents = payout[v].cents
        /\ payout'[v].status \in {"none", "failed"}
        /\ payout'[v].status = "none" <=> payout[v].status = "none"
    BY <2>1, <2>2, LessonFacts DEF MoneyInv, Stopped, Payout, PayoutStatuses
  <2> QED
    BY <2>1, <2>2, <2>3, <2>4
    DEF MoneyInv, LessonInv, Untouched, EmptyRows, SplitAt, ShareDue, DisputeAt,
        PaidAt, SentAt, RefundedAt, Returned, PaidOutcome
<1> QED
  BY <1>1, <1>2

(* Resolving it as completed queues the share once more. *)
LEMMA ResolveCompletedKeeps ==
  ASSUME MoneyInv, NEW w \in Lesson, ResolveCompleted(w), NEW v \in Lesson
  PROVE  LessonInv(v)'
<1>1. CASE v # w
  BY <1>1, Frame DEF ResolveCompleted, outer, MoneyInv, TypeOK
<1>2. CASE v = w
  <2>1. /\ booking[v].status = "disputed"
        /\ dispute[v] = "open" /\ dispute'[v] = "completed"
        /\ AdminPageFresh => payout[v].status \in {"none", "failed"}
        /\ UNCHANGED <<payment, refund, ledger, notices>>
    BY <1>2 DEF ResolveCompleted, outer, MoneyInv, TypeOK, LessonInv, DisputeAt
  <2>2. /\ booking'[v] = [booking[v] EXCEPT !.status = "completed"]
        /\ \/ payout'[v] = payout[v]
           \/ /\ payout[v].status = "failed"
              /\ payout'[v] = [payout[v] EXCEPT !.status = "pending"]
           \/ payout'[v] = [status |-> "pending", cents |-> booking[v].teacher]
    BY <1>2, LessonFacts DEF ResolveCompleted, MoneyInv, TypeOK
  <2>3. /\ booking'[v].status = "completed"
        /\ booking'[v].teacher = booking[v].teacher
        /\ booking'[v].commission = booking[v].commission
    BY <2>2, LessonFacts DEF MoneyInv, Booking
  <2>4. \/ payout'[v] = payout[v]
        \/ payout[v].status # "none" /\ payout'[v].status = "pending"
                                     /\ payout'[v].cents = payout[v].cents
        \/ payout'[v].status = "pending" /\ payout'[v].cents = booking[v].teacher
    BY <2>1, <2>2, LessonFacts DEF MoneyInv, Payout
  <2> QED
    BY <2>1, <2>3, <2>4
    DEF MoneyInv, LessonInv, Untouched, EmptyRows, SplitAt, ShareDue, DisputeAt,
        PaidAt, SentAt, RefundedAt, Returned, PaidOutcome
<1> QED
  BY <1>1, <1>2

(* Resolving it as refunded takes the shares away and returns the price. *)
LEMMA ResolveRefundedKeeps ==
  ASSUME MoneyInv, NEW w \in Lesson, ResolveRefunded(w), NEW v \in Lesson
  PROVE  LessonInv(v)'
<1>1. CASE v # w
  BY <1>1, Frame DEF ResolveRefunded, outer, MoneyInv, TypeOK
<1>2. CASE v = w
  <2>1. /\ booking[v].status = "disputed"
        /\ dispute[v] = "open" /\ dispute'[v] = "refunded"
        /\ AdminPageFresh => payout[v].status \in {"none", "failed"}
        /\ UNCHANGED <<payment, notices>>
    BY <1>2 DEF ResolveRefunded, outer, MoneyInv, LessonInv, DisputeAt, TypeOK
  <2>5. /\ ledger'[v].paid = ledger[v].paid
        /\ ledger'[v].refunded = ledger[v].refunded
        /\ ledger'[v].requeued = (refund[v].status = "refunded")
    BY <1>2 DEF ResolveRefunded, MoneyInv, TypeOK, LedgerRow
  <2>2. /\ booking'[v] = [booking[v] EXCEPT !.status = "cancelled", !.teacher = 0,
                                            !.commission = 0]
        /\ refund'[v] = [status |-> "pending", cents |-> Amount]
    BY <1>2 DEF ResolveRefunded, MoneyInv, TypeOK
  <2>3. booking'[v].status = "cancelled" /\ booking'[v].teacher = 0 /\ booking'[v].commission = 0
    BY <2>2, LessonFacts DEF MoneyInv, Booking
  <2>4. /\ payout'[v].cents = payout[v].cents
        /\ payout'[v].status = IF payout[v].status \in {"none", "paid"}
                               THEN payout[v].status ELSE "failed"
    BY <1>2, LessonFacts DEF ResolveRefunded, MoneyInv, TypeOK, Payout
  <2>6. RefundedAt(v)'
    <3>1. refund[v].cents \in Nat /\ refund[v].cents <= Amount
      BY <2>1, Fields DEF MoneyInv, LessonInv, SplitAt
    <3>2. AdminPageFresh => ledger[v].refunded = Returned(v)
      BY <2>1 DEF MoneyInv, LessonInv, RefundedAt
    <3>3. Returned(v)' = 0
      BY <2>2 DEF Returned
    <3>4. CASE refund[v].status = "refunded"
      <4>1. ledger'[v].requeued
        BY <2>5, <3>4
      <4>2. AdminPageFresh => ledger'[v].refunded <= Amount + Returned(v)'
        BY <2>5, <3>1, <3>2, <3>3, <3>4, PriceAssumption DEF Returned
      <4> QED
        BY <2>1, <4>1, <4>2 DEF RefundedAt
    <3>5. CASE refund[v].status # "refunded"
      BY <2>1, <2>5, <3>2, <3>3, <3>5 DEF RefundedAt, Returned
    <3> QED
      BY <3>4, <3>5
  <2> QED
    BY <2>1, <2>2, <2>3, <2>4, <2>5, <2>6, PriceAssumption
    DEF MoneyInv, LessonInv, Untouched, EmptyRows, SplitAt, ShareDue, DisputeAt,
        PaidAt, SentAt, PaidOutcome
<1> QED
  BY <1>1, <1>2

(* An admin who sees the current row pays out a row once, and none that a *)
(* dispute has stopped; one who does not still acts on a row that exists. *)
LEMMA UpdatePayoutKeeps ==
  ASSUME MoneyInv, NEW w \in Lesson, NEW to, UpdatePayout(w, to), NEW v \in Lesson
  PROVE  LessonInv(v)'
<1>1. CASE v # w
  BY <1>1, Frame DEF UpdatePayout, outer, MoneyInv, TypeOK
<1>2. CASE v = w
  <2>1. /\ payout[v].status # "none"
        /\ AdminPageFresh => payout[v].status \in {"pending", "processing"}
        /\ to \in {"processing", "paid", "failed"}
        /\ UNCHANGED <<booking, payment, refund, dispute, notices>>
    BY <1>2 DEF UpdatePayout, ShownPayout, Offered, outer, MoneyInv, PageTells
  <2>2. payout'[v] = [payout[v] EXCEPT !.status = to]
    BY <1>2 DEF UpdatePayout, MoneyInv, TypeOK
  <2>3. payout'[v].status = to /\ payout'[v].cents = payout[v].cents
    BY <2>2, LessonFacts DEF MoneyInv, Payout
  <2>4. AdminPageFresh =>
          ledger'[v].paid = IF to = "paid" THEN ledger[v].paid + payout[v].cents
                                           ELSE ledger[v].paid
    BY <1>2, <2>1 DEF UpdatePayout, MoneyInv, TypeOK, LedgerRow
  <2>5. payout[v].cents \in Nat
    BY Fields DEF MoneyInv
  <2>6. /\ ledger'[v].refunded = ledger[v].refunded
        /\ ledger'[v].requeued = ledger[v].requeued
    BY <1>2 DEF UpdatePayout, MoneyInv, TypeOK, LedgerRow
  <2>7. RefundedAt(v)'
    BY <2>1, <2>6 DEF MoneyInv, LessonInv, RefundedAt, Returned
  <2> QED
    BY <2>1, <2>3, <2>4, <2>5, <2>7
    DEF MoneyInv, LessonInv, Untouched, EmptyRows, SplitAt, ShareDue, DisputeAt,
        PaidAt, SentAt, PaidOutcome
<1> QED
  BY <1>1, <1>2

(* So with refunds: a payment that is refunded, wholly or in part, was made. *)
LEMMA UpdateRefundKeeps ==
  ASSUME MoneyInv, NEW w \in Lesson,
         NEW to \in {"processing", "refunded", "failed"}, UpdateRefund(w, to), NEW v \in Lesson
  PROVE  LessonInv(v)'
<1>1. CASE v # w
  <2>1. ledger'[v] = ledger[v]
    BY <1>1 DEF UpdateRefund, MoneyInv, TypeOK
  <2> QED
    BY <1>1, <2>1, Frame DEF UpdateRefund, outer, MoneyInv, TypeOK
<1>2. CASE v = w
  <2>1. /\ refund[v].status # "none"
        /\ UNCHANGED <<booking, payout, dispute, notices>>
    BY <1>2 DEF UpdateRefund, ShownRefund, Offered, outer, MoneyInv, PageTells
  <2>2. refund'[v] = [refund[v] EXCEPT !.status = to]
    BY <1>2 DEF UpdateRefund, MoneyInv, TypeOK
  <2>3. refund'[v].status = to /\ refund'[v].cents = refund[v].cents
    BY <2>2, LessonFacts DEF MoneyInv, Refund
  <2>4. payment'[v] \in PaidOutcome
    <3>1. payment[v] \in PaidOutcome
      BY <2>1 DEF MoneyInv, LessonInv, PaidAt
    <3> QED
      BY <1>2, <3>1, RefundedPaymentIsPaid DEF UpdateRefund, MoneyInv, TypeOK, PaidOutcome
  <2>5. /\ ledger'[v].paid = ledger[v].paid
        /\ ledger'[v].requeued = ledger[v].requeued
        /\ ledger'[v].refunded = IF to = "refunded" /\ refund[v].status # "refunded"
                                 THEN ledger[v].refunded + refund[v].cents
                                 ELSE ledger[v].refunded
    BY <1>2 DEF UpdateRefund, MoneyInv, TypeOK, LedgerRow
  <2>6. RefundedAt(v)'
    <3>1. AdminPageFresh => refund[v].status # "refunded"
      BY <1>2 DEF UpdateRefund, ShownRefund, Offered
    <3>2. refund[v].cents \in Nat /\ ledger[v].refunded \in Nat
      BY Fields DEF MoneyInv, TypeOK, LedgerRow
    <3> QED
      BY <2>1, <2>3, <2>5, <3>1, <3>2, PriceAssumption
      DEF MoneyInv, LessonInv, RefundedAt, Returned
  <2> QED
    BY <2>1, <2>3, <2>4, <2>5, <2>6
    DEF MoneyInv, LessonInv, Untouched, EmptyRows, SplitAt, ShareDue, DisputeAt,
        PaidAt, SentAt
<1> QED
  BY <1>1, <1>2

-----------------------------------------------------------------------------
(* The series.                                                             *)

(* What keeps a later lesson in step with the payment of the root: the      *)
(* lesson neither appears nor disappears, the payment stays on its side.    *)
InStep(w) ==
  /\ booking'[w].status = "absent" <=> booking[w].status = "absent"
  /\ booking'[w].status # "pending_payment"
  /\ payment'[Root] \in PaidOutcome <=> payment[Root] \in PaidOutcome

(* Only the payment of the root makes later lessons appear. *)
LEMMA SeriesStep ==
  ASSUME MoneyInv, [Next]_vars, NEW w \in Lesson \ {Root}
  PROVE  \/ InStep(w)
         \/ payment'[Root] \in PaidOutcome /\ booking'[w].status = "confirmed"
<1> USE LessonFacts DEF MoneyInv, TypeOK, InStep, outer
<1>0. /\ booking[w].status # "pending_payment"
      /\ booking[Root].status \in {"absent", "pending_payment"} => payment[Root] \notin PaidOutcome
  BY DEF RootPays, LessonInv, PaidAt
<1>1. ASSUME NEW start \in Slots, CreateBooking(start) PROVE InStep(w)
  BY <1>0, <1>1 DEF CreateBooking, PaidOutcome
<1>2. ASSUME NEW outcome \in Outcomes, GatewayOutcome(outcome) PROVE InStep(w)
  BY <1>0, <1>2 DEF GatewayOutcome, rows
<1>3. CASE ItnComplete
  BY <1>0, <1>3 DEF ItnComplete, AwaitsPayment, PaidOutcome
<1>22. CASE ConfirmPaid
  <2>1. booking'[w] = SpawnedBooking(w) /\ payment'[Root] = "complete"
    BY <1>22 DEF ConfirmPaid, PaidLessons, Lesson
  <2> QED
    BY <2>1 DEF SpawnedBooking, PaidOutcome, Booking
<1>4. ASSUME NEW outcome \in Outcomes, ItnFailed(outcome) PROVE InStep(w)
  BY <1>0, <1>4 DEF ItnFailed, FailedPayment, AwaitsPayment, PaidOutcome
<1>5. CASE ExpireHold
  BY <1>0, <1>5 DEF ExpireHold, AwaitsPayment, PaidOutcome
<1>6. ASSUME NEW v \in Lesson, NEW role \in Users, NEW start \in Slots,
             Reschedule(v, role, start)
      PROVE InStep(w)
  BY <1>0, <1>6 DEF Reschedule, Booking
<1>7. ASSUME NEW S \in SUBSET Lesson, NEW role \in Users, CancelConfirmed(S, role),
             payment' = payment, \A v \in S : booking[v].status = "confirmed"
      PROVE InStep(w)
  <2>1. booking'[w].status = IF w \in S THEN "cancelled" ELSE booking[w].status
    BY <1>7 DEF CancelConfirmed, Booking
  <2> QED
    BY <1>0, <1>7, <2>1
<1>8. ASSUME NEW v \in Lesson, NEW role \in Users \cup {"admin"}, CancelBooking(v, role)
      PROVE InStep(w)
  <2>1. CASE booking[v].status = "confirmed"
    BY <1>7, <1>8, <2>1 DEF CancelBooking
  <2>2. CASE booking[v].status = "pending_payment"
    <3>1. v = Root
      BY <2>2 DEF RootPays
    <3> QED
      BY <1>0, <1>8, <2>2, <3>1 DEF CancelBooking, PaidOutcome
  <2> QED
    BY <1>8, <2>1, <2>2 DEF CancelBooking
<1>9. ASSUME NEW role \in Users, CancelSeries(role) PROVE InStep(w)
  BY <1>7, <1>9 DEF CancelSeries
<1>10. CASE StartDueLessons
  BY <1>0, <1>10 DEF StartDueLessons, Booking
<1>11. CASE AutoCompleteLessons
  BY <1>0, <1>11 DEF AutoCompleteLessons, Elapsed, Unpaid, Live, Booking
<1>12. CASE ProcessWeeklyPayouts
  BY <1>0, <1>12 DEF ProcessWeeklyPayouts
<1>13. ASSUME NEW v \in Lesson, CompleteBooking(v) PROVE InStep(w)
  BY <1>0, <1>13 DEF CompleteBooking, Live, Booking
<1>14. ASSUME NEW v \in Lesson, NEW role \in Users, ReportNoShow(v, role) PROVE InStep(w)
  <2>1. /\ booking[v].status \in {"confirmed", "in_progress"}
        /\ payment' = payment
    BY <1>14 DEF ReportNoShow, Live
  <2>2. booking'[v].status \in {"no_show_teacher", "no_show_parent"}
    <3> DEFINE missing == IF role = "parent" THEN "no_show_teacher" ELSE "no_show_parent"
    <3> DEFINE out == NoShowOutcome(role, booking[v].teacher, booking[v].commission)
    <3>1. booking'[v] \in {[booking[v] EXCEPT !.status = missing],
                          [booking[v] EXCEPT !.status = missing, !.teacher = out.teacher,
                                             !.commission = out.commission]}
      BY <1>14 DEF ReportNoShow
    <3> QED
      BY <3>1 DEF Booking
  <2>3. v # w => booking'[w] = booking[w]
    BY <1>14 DEF ReportNoShow
  <2> QED
    BY <1>0, <2>1, <2>2, <2>3
<1>15. ASSUME NEW v \in Lesson, CreateReview(v) PROVE InStep(w)
  BY <1>0, <1>15 DEF CreateReview, Reviewable, Booking
<1>16. ASSUME NEW v \in Lesson, NEW role \in Users \cup {"admin"}, RaiseDispute(v, role)
       PROVE InStep(w)
  BY <1>0, <1>16 DEF RaiseDispute, Disputable, Booking
<1>17. ASSUME NEW v \in Lesson, ResolveCompleted(v) \/ ResolveRefunded(v) PROVE InStep(w)
  <2>1. booking[v].status = "disputed" /\ payment' = payment
    BY <1>17 DEF ResolveCompleted, ResolveRefunded, LessonInv, DisputeAt
  <2>2. booking'[v].status \in {"completed", "cancelled"}
    <3>1. booking'[v] \in {[booking[v] EXCEPT !.status = "completed"],
                          [booking[v] EXCEPT !.status = "cancelled", !.teacher = 0,
                                             !.commission = 0]}
      BY <1>17 DEF ResolveCompleted, ResolveRefunded
    <3> QED
      BY <3>1 DEF Booking
  <2>3. v # w => booking'[w] = booking[w]
    BY <1>17 DEF ResolveCompleted, ResolveRefunded
  <2> QED
    BY <1>0, <2>1, <2>2, <2>3
<1>18. ASSUME NEW v \in Lesson, NEW to, UpdatePayout(v, to) PROVE InStep(w)
  BY <1>0, <1>18 DEF UpdatePayout
<1>19. ASSUME NEW v \in Lesson, NEW to \in {"processing", "refunded", "failed"},
              UpdateRefund(v, to)
       PROVE InStep(w)
  <2>1. payment[v] \in PaidOutcome
    BY <1>19 DEF UpdateRefund, ShownRefund, Offered, LessonInv, PaidAt, PageTells
  <2>2. payment'[v] \in PaidOutcome
    BY <1>19, <2>1, RefundedPaymentIsPaid DEF UpdateRefund, PaidOutcome
  <2>3. v # Root => payment'[Root] = payment[Root]
    BY <1>19 DEF UpdateRefund
  <2> QED
    BY <1>0, <1>19, <2>1, <2>2, <2>3 DEF UpdateRefund
<1>20. ASSUME NEW role \in Users, RequestAccountDeletion(role) PROVE InStep(w)
  <2>1. booking'[w].status = IF w \in FutureLessons THEN "cancelled" ELSE booking[w].status
    BY <1>20 DEF RequestAccountDeletion, PaidFutureLessons, Booking
  <2>2. payment'[Root] = IF Root \in FutureLessons \ PaidFutureLessons
                         THEN "cancelled" ELSE payment[Root]
    BY <1>20 DEF RequestAccountDeletion
  <2> QED
    BY <1>0, <2>1, <2>2 DEF FutureLessons, PaidFutureLessons, PaidOutcome
<1>21. CASE Tick \/ LoadAdminPage \/ VerifyTeacher \/ UNCHANGED vars
  BY <1>0, <1>21 DEF Tick, LoadAdminPage, VerifyTeacher, vars, rows
<1> QED
  BY <1>1, <1>2, <1>3, <1>4, <1>5, <1>6, <1>8, <1>9, <1>10, <1>11, <1>12, <1>13, <1>14,
     <1>15, <1>16, <1>17, <1>18, <1>19, <1>20, <1>21, <1>22
  DEF Next, Jobs, Gateway, Participants, Admin

-----------------------------------------------------------------------------
(* The admin page.                                                         *)

(* No handler deletes a payout or a refund.                                *)
LEMMA RowsStay ==
  ASSUME TypeOK, [Next]_vars, NEW w \in Lesson
  PROVE  /\ payout[w].status # "none" => payout'[w].status # "none"
         /\ refund[w].status # "none" => refund'[w].status # "none"
<1> DEFINE Kept == /\ payout[w].status # "none" => payout'[w].status # "none"
                   /\ refund[w].status # "none" => refund'[w].status # "none"
<1> USE LessonFacts DEF TypeOK, Payout, Refund
<1>1. CASE payout' = payout /\ refund' = refund
  BY <1>1
<1>2. ASSUME NEW S \in SUBSET Lesson, NEW role \in Users, CancelConfirmed(S, role) PROVE Kept
  BY <1>2 DEF CancelConfirmed, Stopped
<1>3. ASSUME NEW S \in SUBSET Lesson, QueuePayouts(S), refund' = refund PROVE Kept
  BY <1>3 DEF QueuePayouts
<1>4. CASE AutoCompleteLessons
  BY <1>3, <1>4 DEF AutoCompleteLessons, Elapsed, Unpaid
<1>5. CASE ProcessWeeklyPayouts
  BY <1>3, <1>5 DEF ProcessWeeklyPayouts, Earned, Unpaid
<1>6. ASSUME NEW v \in Lesson, NEW role \in Users \cup {"admin"}, CancelBooking(v, role)
      PROVE Kept
  BY <1>1, <1>2, <1>6 DEF CancelBooking
<1>7. ASSUME NEW role \in Users, CancelSeries(role) PROVE Kept
  BY <1>2, <1>7 DEF CancelSeries
<1>8. ASSUME NEW v \in Lesson, NEW role \in Users, ReportNoShow(v, role) PROVE Kept
  <2> DEFINE out == NoShowOutcome(role, booking[v].teacher, booking[v].commission)
  <2>1. payout'[w] \in {payout[w], Stopped(payout[w]), [status |-> "pending", cents |-> out.teacher]}
    BY <1>8 DEF ReportNoShow
  <2>2. refund'[w] \in {refund[w], [status |-> "pending", cents |-> out.refund]}
    BY <1>8 DEF ReportNoShow
  <2> HIDE DEF out
  <2>3. payout[w].status # "none" => payout'[w].status # "none"
    BY <2>1 DEF Stopped
  <2>4. refund[w].status # "none" => refund'[w].status # "none"
    BY <2>2
  <2> QED
    BY <2>3, <2>4
<1>9. ASSUME NEW v \in Lesson, NEW role, RaiseDispute(v, role) PROVE Kept
  BY <1>9 DEF RaiseDispute, Stopped
<1>10. ASSUME NEW v \in Lesson, ResolveCompleted(v) \/ ResolveRefunded(v) PROVE Kept
  <2>1. refund'[w] \in {refund[w], [status |-> "pending", cents |-> Amount]}
    BY <1>10 DEF ResolveCompleted, ResolveRefunded
  <2>2. payout'[w] \in {payout[w], [status |-> "pending", cents |-> booking[v].teacher],
                        [payout[w] EXCEPT !.status = "pending"],
                        [payout[w] EXCEPT !.status = IF @ \in {"none", "paid"} THEN @ ELSE "failed"]}
    BY <1>10 DEF ResolveCompleted, ResolveRefunded
  <2>3. payout[w].status # "none" => payout'[w].status # "none"
    BY <2>2
  <2> QED
    BY <2>1, <2>3
<1>11. ASSUME NEW v \in Lesson, NEW to \in {"processing", "paid", "failed"}, UpdatePayout(v, to)
       PROVE Kept
  BY <1>11 DEF UpdatePayout
<1>12. ASSUME NEW v \in Lesson, NEW to \in {"processing", "refunded", "failed"},
              UpdateRefund(v, to)
       PROVE Kept
  BY <1>12 DEF UpdateRefund
<1>13. ASSUME NEW role \in Users, RequestAccountDeletion(role) PROVE Kept
  BY <1>13 DEF RequestAccountDeletion
<1> QED
  BY <1>1, <1>4, <1>5, <1>6, <1>7, <1>8, <1>9, <1>10, <1>11, <1>12, <1>13
  DEF Next, Jobs, Gateway, Participants, Admin, CreateBooking, GatewayOutcome, ItnComplete,
      ConfirmPaid, ItnFailed, ExpireHold, Reschedule, StartDueLessons, CompleteBooking, CreateReview,
      LoadAdminPage, VerifyTeacher, Tick, rows, vars

(* What the page shows was there when it was loaded, and stays there.      *)
LEMMA PageStep == ASSUME MoneyInv, [Next]_vars PROVE PageTells'
<1> SUFFICES ASSUME NEW w \in Lesson
             PROVE  /\ page'[w].payout # "none" => payout'[w].status # "none"
                    /\ page'[w].refund # "none" => refund'[w].status # "none"
  BY DEF PageTells
<1> USE DEF MoneyInv, TypeOK
<1>1. /\ page[w].payout # "none" => payout'[w].status # "none"
      /\ page[w].refund # "none" => refund'[w].status # "none"
  BY RowsStay DEF PageTells
<1>2. CASE page' = page
  BY <1>1, <1>2
<1>3. CASE LoadAdminPage
  BY <1>3 DEF LoadAdminPage, rows
<1>4. ASSUME NEW v \in Lesson, NEW to \in {"processing", "paid", "failed"}, UpdatePayout(v, to)
      PROVE  /\ page'[w].payout # "none" => payout'[w].status # "none"
             /\ page'[w].refund # "none" => refund'[w].status # "none"
  <2>1. page'[w].refund = page[w].refund
    BY <1>4 DEF UpdatePayout
  <2>2. page'[w].payout = page[w].payout \/ payout'[w].status = to
    BY <1>4, LessonFacts DEF UpdatePayout, Payout
  <2> QED
    BY <1>1, <2>1, <2>2
<1>5. ASSUME NEW v \in Lesson, NEW to \in {"processing", "refunded", "failed"},
             UpdateRefund(v, to)
      PROVE  /\ page'[w].payout # "none" => payout'[w].status # "none"
             /\ page'[w].refund # "none" => refund'[w].status # "none"
  <2>1. page'[w].payout = page[w].payout
    BY <1>5 DEF UpdateRefund
  <2>2. page'[w].refund = page[w].refund \/ refund'[w].status = to
    BY <1>5, LessonFacts DEF UpdateRefund, Refund
  <2> QED
    BY <1>1, <2>1, <2>2
<1> QED
  BY <1>2, <1>3, <1>4, <1>5
  DEF Next, Jobs, Gateway, Participants, Admin, CreateBooking, GatewayOutcome, ItnComplete,
      ConfirmPaid, ItnFailed, ExpireHold, Reschedule, CancelBooking, CancelSeries, CancelConfirmed,
      StartDueLessons, AutoCompleteLessons, ProcessWeeklyPayouts, CompleteBooking,
      ReportNoShow, CreateReview, RaiseDispute, ResolveCompleted, ResolveRefunded,
      RequestAccountDeletion, VerifyTeacher, Tick, outer, rows, vars

-----------------------------------------------------------------------------
(* The notice that awaits its video room.                                  *)

(* What it read can only have been expired or cancelled when it commits.   *)
LEMMA NoticeStep == ASSUME MoneyInv, [Next]_vars PROVE NoticeInv'
<1> DEFINE Waits == /\ booking'[Root].status \in Waiting
                    /\ payment'[Root] \notin PaidOutcome
                    /\ dispute'[Root] = "none"
<1> USE DEF MoneyInv, TypeOK, outer
<1>r. Root \in Lesson
  BY SeriesAssumption DEF Root, Lesson
<1>0. AwaitsPayment => payment[Root] \notin PaidOutcome /\ dispute[Root] = "none"
  <2>1. LessonInv(Root)
    BY SeriesAssumption DEF Root, Lesson
  <2> QED
    BY <2>1 DEF AwaitsPayment, LessonInv, PaidAt, Untouched
<1>1. CASE ItnComplete
  <2>1. dispute' = dispute /\ notices' = notices /\ "COMPLETE" \in notices
    BY <1>1 DEF ItnComplete
  <2>2. CASE UNCHANGED <<booking, payment, opening>>
    BY <2>1, <2>2 DEF NoticeInv
  <2>3. CASE UNCHANGED <<booking, payment>> /\ AwaitsPayment
    BY <1>0, <2>1, <2>3 DEF NoticeInv, AwaitsPayment, Waiting
  <2>4. CASE /\ AwaitsPayment
             /\ booking' = [booking EXCEPT ![Root] = [@ EXCEPT !.status = "expired", !.hold = NoHold]]
             /\ payment' = [payment EXCEPT ![Root] = "cancelled"]
    <3>1. booking'[Root].status = "expired" /\ payment'[Root] = "cancelled"
      BY <1>r, <2>4, LessonFacts DEF Booking
    <3> QED
      BY <1>0, <2>1, <2>4, <3>1 DEF NoticeInv, Waiting, PaidOutcome
  <2> QED
    BY <1>1, <2>2, <2>3, <2>4 DEF ItnComplete
<1>2. CASE ConfirmPaid
  BY <1>2 DEF ConfirmPaid, NoticeInv
<1>3. ASSUME opening' = opening, notices \subseteq notices', opening # NoCall => Waits
      PROVE  NoticeInv'
  BY <1>3 DEF NoticeInv
<1> SUFFICES ASSUME ~ItnComplete, ~ConfirmPaid
             PROVE  /\ opening' = opening /\ notices \subseteq notices'
                    /\ opening # NoCall => Waits
  BY <1>1, <1>2, <1>3, SMTT(40)
<1>4. opening' = opening /\ notices \subseteq notices'
  BY DEF Next, Jobs, Gateway, Participants, Admin, CreateBooking, GatewayOutcome, ItnFailed,
         ExpireHold, Reschedule, CancelBooking, CancelSeries, StartDueLessons,
         AutoCompleteLessons, ProcessWeeklyPayouts, CompleteBooking, ReportNoShow, CreateReview,
         RaiseDispute, ResolveCompleted, ResolveRefunded, LoadAdminPage, UpdatePayout,
         UpdateRefund, VerifyTeacher, RequestAccountDeletion, Tick, vars
<1> SUFFICES ASSUME opening # NoCall PROVE Waits
  BY <1>4
<1>5. /\ booking[Root].status \in Waiting
      /\ payment[Root] \notin PaidOutcome
      /\ dispute[Root] = "none"
      /\ Root \in Lesson /\ booking[Root] \in Booking
  BY <1>r, LessonFacts DEF NoticeInv
<1>6. CASE /\ booking'[Root] = booking[Root] /\ payment'[Root] = payment[Root]
           /\ dispute'[Root] = dispute[Root]
  BY <1>5, <1>6
<1>7. ASSUME NEW status \in {"expired", "cancelled"},
             booking'[Root] = [booking[Root] EXCEPT !.status = status, !.hold = NoHold],
             payment'[Root] \in {"pending", "failed", "cancelled", payment[Root]},
             dispute' = dispute
      PROVE  Waits
  BY <1>5, <1>7 DEF Booking, Waiting, PaidOutcome
<1>8. ASSUME NEW outcome \in Outcomes, ItnFailed(outcome) PROVE Waits
  BY <1>5, <1>6, <1>7, <1>8 DEF ItnFailed, FailedPayment
<1>20. CASE ExpireHold
  BY <1>5, <1>7, <1>20 DEF ExpireHold
<1>9. ASSUME NEW w \in Lesson, NEW role \in Users \cup {"admin"}, CancelBooking(w, role)
      PROVE  Waits
  <2>1. CASE booking[w].status = "confirmed" /\ CancelConfirmed({w}, role)
    <3>1. w # Root
      BY <1>5, <2>1 DEF Waiting
    <3> QED
      BY <1>5, <1>6, <1>9, <2>1, <3>1 DEF CancelBooking, CancelConfirmed
  <2>2. CASE /\ booking[w].status = "pending_payment"
             /\ booking' = [booking EXCEPT ![w] = [@ EXCEPT !.status = "cancelled", !.hold = NoHold]]
             /\ payment' = [payment EXCEPT ![w] = "cancelled"]
    BY <1>5, <1>6, <1>7, <1>9, <2>2 DEF CancelBooking
  <2> QED
    BY <1>9, <2>1, <2>2 DEF CancelBooking
<1>10. ASSUME NEW role \in Users, RequestAccountDeletion(role) PROVE Waits
  <2>1. Root \notin PaidFutureLessons
    BY <1>5 DEF PaidFutureLessons, Waiting
  <2> QED
    BY <1>5, <1>6, <1>7, <1>10, <2>1 DEF RequestAccountDeletion
<1>11. ASSUME NEW w \in Lesson, NEW to, UpdateRefund(w, to) PROVE Waits
  <2>1. w # Root
    BY <1>5, <1>11 DEF UpdateRefund, ShownRefund, Offered, LessonInv, PaidAt, PageTells
  <2> QED
    BY <1>5, <1>11, <2>1 DEF UpdateRefund
<1>12. ASSUME NEW w \in Lesson, ResolveCompleted(w) \/ ResolveRefunded(w) PROVE Waits
  <2>1. w # Root
    BY <1>5, <1>12 DEF ResolveCompleted, ResolveRefunded
  <2> QED
    BY <1>5, <1>12, <2>1 DEF ResolveCompleted, ResolveRefunded
<1>13. ASSUME NEW role \in Users, CancelSeries(role) PROVE Waits
  BY <1>5, <1>13 DEF CancelSeries, CancelConfirmed, Waiting
<1>14. ASSUME NEW w \in Lesson, NEW role \in Users, ReportNoShow(w, role) PROVE Waits
  <2>1. w # Root
    BY <1>5, <1>14 DEF ReportNoShow, Live, Waiting
  <2> QED
    BY <1>5, <1>14, <2>1 DEF ReportNoShow
<1>15. ASSUME NEW w \in Lesson, NEW role \in Users \cup {"admin"}, RaiseDispute(w, role)
       PROVE  Waits
  <2>1. w # Root
    BY <1>5, <1>15 DEF RaiseDispute, Disputable, Waiting
  <2> QED
    BY <1>5, <1>15, <2>1 DEF RaiseDispute
<1>16. ASSUME NEW start \in Slots, CreateBooking(start) PROVE Waits
  BY <1>5, <1>16 DEF CreateBooking, Waiting
<1>17. CASE StartDueLessons \/ AutoCompleteLessons
  BY <1>5, <1>17 DEF StartDueLessons, AutoCompleteLessons, Elapsed, Unpaid, Live, Waiting
<1>18. ASSUME NEW w \in Lesson, CompleteBooking(w) \/ CreateReview(w) PROVE Waits
  <2>1. w # Root
    BY <1>5, <1>18 DEF CompleteBooking, CreateReview, Reviewable, Live, Waiting
  <2> QED
    BY <1>5, <1>18, <2>1 DEF CompleteBooking, CreateReview
<1>19. ASSUME NEW w \in Lesson, NEW role \in Users, NEW start \in Slots,
              Reschedule(w, role, start)
       PROVE  Waits
  <2>1. w # Root
    BY <1>5, <1>19 DEF Reschedule, Waiting
  <2> QED
    BY <1>5, <1>19, <2>1 DEF Reschedule
<1> QED
  BY <1>6, <1>8, <1>9, <1>10, <1>11, <1>12, <1>13, <1>14, <1>15, <1>16, <1>17, <1>18, <1>19, <1>20
  DEF Next, Jobs, Gateway, Participants, Admin, GatewayOutcome, ProcessWeeklyPayouts,
      LoadAdminPage, UpdatePayout, VerifyTeacher, Tick, rows, vars

-----------------------------------------------------------------------------
(* Every step keeps the money safe. *)
LEMMA MoneyStep == ASSUME MoneyInv, [Next]_vars PROVE MoneyInv'
<1>1. TypeOK'
  BY TypeStep DEF MoneyInv
<1>2. ASSUME NEW v \in Lesson PROVE LessonInv(v)'
  <2>1. ASSUME NEW outcome \in Outcomes, GatewayOutcome(outcome) PROVE LessonInv(v)'
    BY <2>1, Frame DEF GatewayOutcome, rows, MoneyInv
  <2>2. ASSUME NEW role \in Users, CancelSeries(role) PROVE LessonInv(v)'
    BY <2>2, CancelKeeps DEF CancelSeries, outer
  <2>3. CASE Tick \/ LoadAdminPage \/ VerifyTeacher \/ UNCHANGED vars
    BY <2>3, Frame DEF Tick, LoadAdminPage, VerifyTeacher, vars, rows, outer, MoneyInv
  <2>4. CASE Jobs
    BY <2>4, ExpireKeeps, ProgressKeeps, PayoutJobsKeep DEF Jobs
  <2>5. CASE Gateway
    BY <2>1, <2>5, CompleteKeeps, ConfirmKeeps, FailedKeeps DEF Gateway
  <2>6. CASE Participants
    BY <2>2, <2>6, CreateKeeps, DeletionKeeps, CancelBookingKeeps, RaiseKeeps, NoShowKeeps,
       ProgressKeeps
    DEF Participants
  <2>7. CASE Admin
    BY <2>3, <2>7, ResolveCompletedKeeps, ResolveRefundedKeeps, UpdatePayoutKeeps,
       UpdateRefundKeeps
    DEF Admin
  <2> QED
    BY <2>3, <2>4, <2>5, <2>6, <2>7 DEF Next
<1>3. ASSUME NEW w \in Lesson \ {Root}
      PROVE  /\ booking'[w].status = "absent" <=> payment'[Root] \notin PaidOutcome
             /\ booking'[w].status # "pending_payment"
  BY SeriesStep DEF InStep, MoneyInv, SeriesAllOrNothing
<1>4. PageTells' /\ NoticeInv'
  BY PageStep, NoticeStep
<1> QED
  BY <1>1, <1>2, <1>3, <1>4 DEF MoneyInv, SeriesAllOrNothing, RootPays

(* The invariant says what LessonProperties asks. *)
LEMMA MoneyImplies ==
  MoneyInv => /\ SplitExact /\ MoneyInFirst /\ DisputeFreezesLesson /\ SeriesAllOrNothing
              /\ AdminPageFresh => EscrowHeld /\ SentWithinAmount /\ TeacherPaidOnce
<1> SUFFICES ASSUME MoneyInv
             PROVE  /\ SplitExact /\ MoneyInFirst /\ DisputeFreezesLesson /\ SeriesAllOrNothing
                    /\ AdminPageFresh => EscrowHeld /\ SentWithinAmount /\ TeacherPaidOnce
  OBVIOUS
<1>1. DisputeFreezesLesson /\ (AdminPageFresh => EscrowHeld)
  BY DEF MoneyInv, LessonInv, DisputeAt, EscrowHeld, DisputeFreezesLesson
<1>2. SplitExact
  BY DEF MoneyInv, LessonInv, SplitAt, SplitExact
<1>3. AdminPageFresh => SentWithinAmount
  <2> SUFFICES ASSUME AdminPageFresh, NEW w \in Lesson
               PROVE  ledger[w].refunded + ledger[w].paid + Queued(refund[w]) + Queued(payout[w])
                        <= IF ledger[w].requeued THEN 2 * Amount ELSE Amount
    BY DEF SentWithinAmount
  <2>1. /\ LessonInv(w) /\ Amount \in Nat
        /\ ledger[w].refunded \in Nat /\ ledger[w].requeued \in BOOLEAN
    BY PriceAssumption DEF MoneyInv, TypeOK, LedgerRow
  <2>2. /\ ledger[w].paid + Queued(payout[w]) \in Nat
        /\ ledger[w].paid + Queued(payout[w]) <= payout[w].cents
        /\ dispute[w] = "refunded" => ledger[w].paid + Queued(payout[w]) = 0
    BY <2>1, Fields DEF MoneyInv, LessonInv, EmptyRows, DisputeAt, SentAt, Queued
  <2>3. /\ Returned(w) + Queued(refund[w]) \in Nat
        /\ Returned(w) + Queued(refund[w]) <= refund[w].cents
        /\ Queued(refund[w]) \in Nat /\ Returned(w) \in Nat
    BY Fields DEF MoneyInv, Returned, Queued
  <2>4. refund[w].cents + payout[w].cents <= Amount \/ dispute[w] = "refunded"
    BY <2>1, Fields DEF MoneyInv, LessonInv, Untouched, EmptyRows, SplitAt, ShareDue
  <2>5. refund[w].cents <= Amount
    BY <2>1, Fields DEF MoneyInv, LessonInv, Untouched, EmptyRows, SplitAt
  <2>8. Queued(payout[w]) \in Nat /\ ledger[w].paid \in Nat
    BY Fields DEF MoneyInv, TypeOK, LedgerRow, Queued
  <2>9. dispute[w] # "refunded" => payout[w].cents + refund[w].cents <= Amount
    BY <2>4, Fields DEF MoneyInv
  <2>10. refund[w].cents \in Nat /\ payout[w].cents \in Nat
    BY Fields DEF MoneyInv
  <2>6. CASE ledger[w].requeued = FALSE /\ ledger[w].refunded = Returned(w)
    BY <2>1, <2>2, <2>3, <2>5, <2>6, <2>8, <2>9, <2>10
  <2>7. CASE dispute[w] = "refunded" /\ ledger[w].refunded <= Amount + Returned(w)
               /\ ledger[w].requeued
    BY <2>1, <2>2, <2>3, <2>5, <2>7, <2>8, <2>10
  <2> QED
    BY <2>1, <2>6, <2>7 DEF LessonInv, RefundedAt
<1>4. AdminPageFresh => TeacherPaidOnce
  BY DEF MoneyInv, LessonInv, SentAt, TeacherPaidOnce
<1>5. MoneyInFirst
  <2> SUFFICES ASSUME NEW w \in Lesson,
                      booking[w].status \in Live \/ Moving(payout[w]) \/ Moving(refund[w])
               PROVE  "COMPLETE" \in notices
    BY DEF MoneyInFirst
  <2>1. booking[w].status \in Live => payment[w] \in PaidOutcome
    BY DEF MoneyInv, LessonInv, PaidAt, Live
  <2>2. Moving(payout[w]) \/ Moving(refund[w]) => payment[w] \in PaidOutcome
    BY DEF MoneyInv, LessonInv, PaidAt, Moving
  <2> QED
    BY <2>1, <2>2 DEF MoneyInv, LessonInv, PaidAt
<1> QED
  BY <1>1, <1>2, <1>3, <1>4, <1>5 DEF MoneyInv

(* For every price, commission, refund window, series and clock the         *)
(* invariant holds, whatever the admin page shows.                          *)
THEOREM MoneySafe == Spec => []MoneyInv
<1>1. Init => MoneyInv
  BY MoneyInit
<1>2. MoneyInv /\ [Next]_vars => MoneyInv'
  BY MoneyStep
<1> QED
  BY <1>1, <1>2, PTL DEF Spec

(* The price of a lesson is divided exactly, at every moment. *)
THEOREM SplitIsExact == Spec => []SplitExact
  BY MoneySafe, MoneyImplies, PTL

(* Nothing happens and nothing is sent before PayFast took the money. *)
THEOREM MoneyComesFirst == Spec => []MoneyInFirst
  BY MoneySafe, MoneyImplies, PTL

(* A disputed lesson and its open dispute come and go together. *)
THEOREM DisputesFreezeLessons == Spec => []DisputeFreezesLesson
  BY MoneySafe, MoneyImplies, PTL

(* The later lessons of a series exist exactly when the root was paid. *)
THEOREM SeriesIsAllOrNothing == Spec => []SeriesAllOrNothing
  BY MoneySafe, MoneyImplies, PTL

(* A dispute holds the payout of its lesson until it is resolved, provided  *)
(* the admin acts on current rows: section 5 of the README shows the need.   *)
THEOREM EscrowIsHeld == ASSUME AdminPageFresh PROVE Spec => []EscrowHeld
  BY MoneySafe, MoneyImplies, PTL

(* What was sent and what is queued for a lesson never exceeds its price,   *)
(* twice the price once a dispute has queued a sent refund again, provided  *)
(* the admin acts on current rows.                                          *)
THEOREM SentStaysWithinAmount == ASSUME AdminPageFresh PROVE Spec => []SentWithinAmount
  BY MoneySafe, MoneyImplies, PTL

(* A teacher's share is transferred at most once, provided the admin acts   *)
(* on current rows.                                                         *)
THEOREM TeacherIsPaidOnce == ASSUME AdminPageFresh PROVE Spec => []TeacherPaidOnce
  BY MoneySafe, MoneyImplies, PTL


-----------------------------------------------------------------------------
(* What a step may never do.                                               *)

(* A hold ends before the lesson it holds begins, with time to open a room:  *)
(* create_booking asks for a start at least LeadTime away, and a hold is     *)
(* shorter than that.                                                        *)
HoldEndsFirst ==
  AwaitsPayment =>
    booking[Root].hold \in Nat /\ booking[Root].hold + RoomTime <= booking[Root].start

(* So the room is open, or given up, before the lesson begins.             *)
RoomInTime ==
  opening # NoCall =>
    now <= opening + RoomTime /\ opening + RoomTime < booking[Root].start

(* A closed teacher is listed only if an admin listed the profile again.   *)
ListedIsOpen == listed => "teacher" \in active \/ "closing" \in overruled

(* A lesson that takes part in none of the moves below.                    *)
Stays(w) ==
  /\ booking'[w].status = booking[w].status
  /\ booking'[w].start = booking[w].start
  /\ booking'[w].hold = booking[w].hold

(* A lesson leaves what it was for a status that holds no future moment.   *)
Leaves(w) ==
  /\ booking[w].status \notin Buried
  /\ booking'[w].status \notin {"absent", "pending_payment", "confirmed"}
  /\ booking'[w].start = booking[w].start

(* A lesson is checked out, with a hold that ends before it starts.        *)
IsCheckedOut(w) ==
  /\ "parent" \in active /\ listed /\ active' = active
  /\ booking[w].status = "absent" /\ booking'[w].status = "pending_payment"
  /\ booking'[w].hold \in Nat /\ booking'[w].hold + RoomTime <= booking'[w].start
  /\ opening' = opening

(* The lessons of a paid series are confirmed when the room is open, and    *)
(* a root that was buried meanwhile is dug out.                             *)
IsPaid(w) ==
  /\ opening # NoCall /\ opening' = NoCall
  /\ w = Root \/ booking[w].status = "absent"
  /\ booking'[w].status = "confirmed"
  /\ booking'[w].start >= booking[Root].start
  /\ now' = now /\ active' = active
  /\ AwaitsPayment \/ "burial" \in overruled'

(* A confirmed lesson moves from one future start to another.              *)
IsMoved(w) ==
  /\ booking[w].status = "confirmed" /\ booking'[w].status = "confirmed"
  /\ now < booking[w].start
  /\ active' = active

Moves(w) == Stays(w) \/ Leaves(w) \/ IsCheckedOut(w) \/ IsPaid(w) \/ IsMoved(w)

(* A lesson that is moved, confirmed or checked out is one that awaits it: *)
(* no handler touches an expired or cancelled one.                         *)
LEMMA LessonMoves ==
  ASSUME MoneyInv, [Next]_vars, NEW w \in Lesson
  PROVE  Moves(w)
<1> USE LessonFacts DEF MoneyInv, TypeOK, Moves, outer
<1>1. ASSUME NEW start \in Slots, CreateBooking(start) PROVE Moves(w)
  <2>1. CASE w # Root
    BY <1>1, <2>1 DEF CreateBooking, Stays
  <2>2. CASE w = Root
    <3>1. /\ booking'[w].status = "pending_payment"
          /\ booking'[w].hold = now + HoldTime
          /\ booking'[w].start = start
      BY <1>1, <2>2 DEF CreateBooking
    <3> QED
      BY <1>1, <2>2, <3>1, SeriesAssumption, TimingAssumption
      DEF CreateBooking, Bookable, IsCheckedOut
  <2> QED
    BY <2>1, <2>2
<1>2. CASE UNCHANGED booking
  BY <1>2 DEF Stays
<1>3. CASE ItnComplete
  <2>1. CASE booking'[w] = booking[w]
    BY <2>1 DEF Stays
  <2>2. CASE w = Root /\ AwaitsPayment
             /\ booking' = [booking EXCEPT ![Root] = [@ EXCEPT !.status = "expired", !.hold = NoHold]]
    <3>1. booking'[w].status = "expired" /\ booking'[w].start = booking[w].start
      BY <2>2 DEF Booking
    <3> QED
      BY <2>2, <3>1 DEF Leaves, AwaitsPayment, Buried
  <2> QED
    BY <1>3, <2>1, <2>2 DEF ItnComplete
<1>18. CASE ConfirmPaid
  <2>1. booking'[w] = SpawnedBooking(w)
    BY <1>18 DEF ConfirmPaid, PaidLessons, Lesson
  <2>2. booking'[w].status = "confirmed" /\ booking'[w].start = booking[Root].start + w * Week
    BY <2>1 DEF SpawnedBooking, Booking
  <2>3. booking[Root].start + w * Week >= booking[Root].start
    <3>1. w * Week \in Nat
      BY SeriesAssumption DEF Lesson
    <3>2. booking[Root].start \in Nat
      BY LessonFacts DEF Booking
    <3> QED
      BY <3>1, <3>2
  <2>4. w = Root \/ booking[w].status = "absent"
    BY <1>18 DEF ConfirmPaid, NoticeInv, SeriesAllOrNothing
  <2>5. AwaitsPayment \/ "burial" \in overruled'
    BY <1>18 DEF ConfirmPaid
  <2>6. booking'[w].start >= booking[Root].start
    BY <2>2, <2>3
  <2> QED
    BY <1>18, <2>2, <2>4, <2>5, <2>6 DEF ConfirmPaid, IsPaid
<1>4. ASSUME NEW outcome \in Outcomes, ItnFailed(outcome) PROVE Moves(w)
  <2>1. CASE booking'[w] = booking[w]
    BY <2>1 DEF Stays
  <2>2. CASE w = Root /\ AwaitsPayment
             /\ booking' = [booking EXCEPT ![Root] = [@ EXCEPT !.status = "expired", !.hold = NoHold]]
    <3>1. booking'[w].status = "expired" /\ booking'[w].start = booking[w].start
      BY <2>2 DEF Booking
    <3> QED
      BY <2>2, <3>1 DEF Leaves, AwaitsPayment, Buried
  <2> QED
    BY <1>4, <2>1, <2>2 DEF ItnFailed
<1>5. CASE ExpireHold
  BY <1>5 DEF ExpireHold, AwaitsPayment, Stays, Leaves, Buried, Booking
<1>6. ASSUME NEW v \in Lesson, NEW role \in Users, NEW start \in Slots, Reschedule(v, role, start)
      PROVE Moves(w)
  BY <1>6 DEF Reschedule, Stays, IsMoved, Booking
<1>7. ASSUME NEW S \in SUBSET Lesson, NEW role \in Users, CancelConfirmed(S, role),
             \A v \in S : booking[v].status = "confirmed"
      PROVE Moves(w)
  <2>1. CASE w \in S
    BY <1>7, <2>1 DEF CancelConfirmed, Leaves, Buried, Booking
  <2>2. CASE w \notin S
    BY <1>7, <2>2 DEF CancelConfirmed, Stays
  <2> QED
    BY <2>1, <2>2
<1>8. ASSUME NEW v \in Lesson, NEW role \in Users \cup {"admin"}, CancelBooking(v, role)
      PROVE Moves(w)
  <2>1. CASE booking[v].status = "confirmed"
    BY <1>7, <1>8, <2>1 DEF CancelBooking
  <2>2. CASE booking[v].status = "pending_payment"
    <3>1. booking' = [booking EXCEPT ![v] = [@ EXCEPT !.status = "cancelled", !.hold = NoHold]]
      BY <1>8, <2>2 DEF CancelBooking
    <3>2. CASE v # w
      BY <3>1, <3>2 DEF Stays
    <3>3. CASE v = w
      <4>1. booking'[w].status = "cancelled" /\ booking'[w].start = booking[w].start
        BY <3>1, <3>3 DEF Booking
      <4> QED
        BY <2>2, <3>3, <4>1 DEF Leaves, Buried
    <3> QED
      BY <3>2, <3>3
  <2> QED
    BY <1>8, <2>1, <2>2 DEF CancelBooking
<1>9. ASSUME NEW role \in Users, CancelSeries(role) PROVE Moves(w)
  BY <1>7, <1>9 DEF CancelSeries
<1>10. CASE StartDueLessons
  BY <1>10 DEF StartDueLessons, Stays, Leaves, Buried, Booking
<1>11. CASE AutoCompleteLessons
  BY <1>11 DEF AutoCompleteLessons, Elapsed, Unpaid, Live, Stays, Leaves, Buried, Booking
<1>12. ASSUME NEW v \in Lesson, CompleteBooking(v) PROVE Moves(w)
  BY <1>12 DEF CompleteBooking, Live, Stays, Leaves, Buried, Booking
<1>13. ASSUME NEW v \in Lesson, NEW role \in Users, ReportNoShow(v, role) PROVE Moves(w)
  <2>1. CASE v # w
    BY <1>13, <2>1 DEF ReportNoShow, Stays
  <2>2. CASE v = w
    <3> DEFINE missing == IF role = "parent" THEN "no_show_teacher" ELSE "no_show_parent"
               out == NoShowOutcome(role, booking[v].teacher, booking[v].commission)
    <3>1. booking'[v] \in {[booking[v] EXCEPT !.status = missing],
                          [booking[v] EXCEPT !.status = missing, !.teacher = out.teacher,
                                             !.commission = out.commission]}
      BY <1>13 DEF ReportNoShow
    <3>2. /\ booking'[v].status \in {"no_show_teacher", "no_show_parent"}
          /\ booking'[v].start = booking[v].start
      BY <3>1 DEF Booking
    <3> QED
      BY <1>13, <2>2, <3>2 DEF ReportNoShow, Live, Leaves, Buried
  <2> QED
    BY <2>1, <2>2
<1>14. ASSUME NEW v \in Lesson, CreateReview(v) PROVE Moves(w)
  BY <1>14 DEF CreateReview, Reviewable, Stays, Leaves, Buried, Booking
<1>15. ASSUME NEW v \in Lesson, NEW role \in Users \cup {"admin"}, RaiseDispute(v, role)
       PROVE Moves(w)
  BY <1>15 DEF RaiseDispute, Disputable, Stays, Leaves, Buried, Booking
<1>16. ASSUME NEW v \in Lesson, ResolveCompleted(v) \/ ResolveRefunded(v) PROVE Moves(w)
  <2>1. CASE v # w
    BY <1>16, <2>1 DEF ResolveCompleted, ResolveRefunded, Stays
  <2>2. CASE v = w
    <3>1. booking[v].status = "disputed"
      BY <1>16 DEF ResolveCompleted, ResolveRefunded, LessonInv, DisputeAt
    <3>2. booking'[v] \in {[booking[v] EXCEPT !.status = "completed"],
                          [booking[v] EXCEPT !.status = "cancelled", !.teacher = 0,
                                             !.commission = 0]}
      BY <1>16 DEF ResolveCompleted, ResolveRefunded
    <3>3. booking'[v].status \in {"completed", "cancelled"} /\ booking'[v].start = booking[v].start
      BY <3>2 DEF Booking
    <3> QED
      BY <2>2, <3>1, <3>3 DEF Leaves, Buried
  <2> QED
    BY <2>1, <2>2
<1>17. ASSUME NEW role \in Users, RequestAccountDeletion(role) PROVE Moves(w)
  <2>1. CASE w \in FutureLessons
    <3>1. booking'[w].status = "cancelled" /\ booking'[w].start = booking[w].start
      BY <1>17, <2>1 DEF RequestAccountDeletion, PaidFutureLessons, Booking
    <3> QED
      BY <2>1, <3>1 DEF FutureLessons, Leaves, Buried
  <2>2. CASE w \notin FutureLessons
    BY <1>17, <2>2 DEF RequestAccountDeletion, PaidFutureLessons, Stays
  <2> QED
    BY <2>1, <2>2
<1> QED
  BY <1>1, <1>2, <1>3, <1>4, <1>5, <1>6, <1>8, <1>9, <1>10, <1>11, <1>12, <1>13, <1>14,
     <1>15, <1>16, <1>17, <1>18
  DEF Next, Jobs, Gateway, Participants, Admin, GatewayOutcome, ProcessWeeklyPayouts,
      LoadAdminPage, UpdatePayout, UpdateRefund, VerifyTeacher, Tick, rows, vars

(* Time and closed accounts do not come back, whoever closes one cancels    *)
(* every lesson to come, and what was overruled once stays on record.       *)
LEMMA ClockAndAccounts ==
  ASSUME TypeOK, [Next]_vars
  PROVE  /\ now' \in Nat /\ now' >= now
         /\ active' # active => FutureLessons' = {}
         /\ overruled \subseteq overruled'
         /\ ListedIsOpen => ListedIsOpen'
         /\ \/ opening' = NoCall
            \/ opening' = opening /\ now' = now
            \/ /\ opening' = opening /\ now' = now + 1
               /\ opening # NoCall => now < opening + RoomTime
            \/ /\ opening' = now /\ now' = now /\ booking' = booking
               /\ AwaitsPayment /\ ~HoldLapsed
<1> USE LessonFacts DEF TypeOK, outer, ListedIsOpen
<1>1. CASE Tick
  BY <1>1 DEF Tick
<1>2. ASSUME NEW role \in Users, RequestAccountDeletion(role)
      PROVE  /\ now' = now /\ FutureLessons' = {} /\ opening' = opening
             /\ overruled' = overruled
             /\ ListedIsOpen => ListedIsOpen'
  <2>1. ASSUME NEW w \in Lesson
        PROVE  /\ w \in FutureLessons => booking'[w].status = "cancelled"
               /\ w \notin FutureLessons => booking'[w] = booking[w]
    BY <1>2 DEF RequestAccountDeletion, PaidFutureLessons, Booking
  <2>2. now' = now /\ opening' = opening /\ overruled' = overruled
    BY <1>2 DEF RequestAccountDeletion
  <2>3. ListedIsOpen => ListedIsOpen'
    BY <1>2 DEF RequestAccountDeletion
  <2> QED
    BY <2>1, <2>2, <2>3 DEF FutureLessons
<1>3. CASE UNCHANGED <<now, active, listed, overruled, opening>>
  BY <1>3
<1>5. CASE ItnComplete
  BY <1>5 DEF ItnComplete
<1>6. CASE ConfirmPaid
  BY <1>6 DEF ConfirmPaid
<1>7. CASE VerifyTeacher
  BY <1>7 DEF VerifyTeacher
<1>4. \/ Tick \/ ItnComplete \/ ConfirmPaid \/ VerifyTeacher
      \/ \E role \in Users : RequestAccountDeletion(role)
      \/ UNCHANGED <<now, active, listed, overruled, opening>>
  <2>1. CASE Jobs
    BY <2>1 DEF Jobs, ExpireHold, StartDueLessons, AutoCompleteLessons, ProcessWeeklyPayouts
  <2>2. CASE Gateway
    BY <2>2 DEF Gateway, GatewayOutcome, ItnFailed
  <2>3. CASE Participants
    BY <2>3
    DEF Participants, CreateBooking, Reschedule, CancelBooking, CancelSeries, CompleteBooking,
        ReportNoShow, CreateReview, RaiseDispute
  <2>4. CASE Admin
    BY <2>4
    DEF Admin, LoadAdminPage, ResolveCompleted, ResolveRefunded, UpdatePayout, UpdateRefund
  <2>5. CASE UNCHANGED vars
    BY <2>5 DEF vars
  <2> QED
    BY <2>1, <2>2, <2>3, <2>4, <2>5 DEF Next
<1> QED
  BY <1>1, <1>2, <1>3, <1>4, <1>5, <1>6, <1>7

(* What the properties about time need to know.                            *)
HistoryInv ==
  /\ MoneyInv
  /\ HoldEndsFirst
  /\ RoomInTime
  /\ ListedIsOpen
  /\ ClosedAccountHasNoFuture

LEMMA HistoryInit == Init => HistoryInv
<1> SUFFICES ASSUME Init PROVE HistoryInv
  OBVIOUS
<1>1. \A w \in Lesson : booking[w].status = "absent"
  BY DEF Init, Absent
<1>2. Root \in Lesson
  BY SeriesAssumption DEF Root, Lesson
<1> QED
  BY <1>1, <1>2, MoneyInit
  DEF Init, HistoryInv, HoldEndsFirst, RoomInTime, ListedIsOpen, ClosedAccountHasNoFuture,
      FutureLessons, AwaitsPayment, Users

LEMMA HistoryStep == ASSUME HistoryInv, [Next]_vars PROVE HistoryInv'
<1> USE DEF HistoryInv
<1>1. MoneyInv'
  BY MoneyStep
<1>2. \A w \in Lesson : Moves(w)
  BY LessonMoves
<1>3. Root \in Lesson
  BY SeriesAssumption DEF Root, Lesson
<1>4. HoldEndsFirst'
  BY <1>2, <1>3
  DEF HoldEndsFirst, AwaitsPayment, Moves, Stays, Leaves, IsCheckedOut, IsPaid, IsMoved
<1>5. /\ now \in Nat /\ now' \in Nat /\ now <= now' /\ RoomTime \in Nat
      /\ opening \in Nat \cup {NoCall}
      /\ booking[Root].start \in Nat /\ booking'[Root].start \in Nat
  BY <1>1, <1>3, TimingAssumption, ClockAndAccounts DEF MoneyInv, TypeOK, Booking
<1>6. RoomInTime'
  <2>1. CASE opening' = NoCall
    BY <2>1 DEF RoomInTime
  <2>2. CASE /\ opening' = now /\ now' = now /\ booking' = booking
             /\ AwaitsPayment /\ ~HoldLapsed
    BY <1>5, <2>2 DEF RoomInTime, HoldEndsFirst, HoldLapsed
  <2>3. CASE /\ opening' = opening /\ opening # NoCall
             /\ now' = now \/ (now' = now + 1 /\ now < opening + RoomTime)
    <3>1. booking[Root].status \in Waiting
      BY <2>3 DEF MoneyInv, NoticeInv
    <3>2. booking'[Root].start = booking[Root].start
      BY <1>2, <1>3, <2>3, <3>1
      DEF Moves, Stays, Leaves, IsCheckedOut, IsPaid, IsMoved, Waiting
    <3> QED
      BY <1>5, <2>3, <3>2 DEF RoomInTime, NoCall
  <2> QED
    BY <2>1, <2>2, <2>3, ClockAndAccounts DEF MoneyInv
<1>7. ListedIsOpen'
  BY ClockAndAccounts DEF MoneyInv
<1>8. ClosedAccountHasNoFuture'
  <2> SUFFICES ASSUME NEW w \in Lesson, w \in FutureLessons', "burial" \notin overruled'
               PROVE  ("parent" \in active /\ ("teacher" \in active \/ "closing" \in overruled))'
    BY DEF ClosedAccountHasNoFuture, FutureLessons
  <2>1. active' = active /\ overruled \subseteq overruled'
    BY ClockAndAccounts DEF MoneyInv
  <2>2. FutureLessons # {} =>
          ("parent" \in active /\ ("teacher" \in active \/ "closing" \in overruled))'
    BY <2>1 DEF ClosedAccountHasNoFuture
  <2>3. /\ booking'[w].status \in {"pending_payment", "confirmed"}
        /\ booking'[w].start > now'
        /\ booking[w].start \in Nat
        /\ booking'[w].start \in Nat
    BY <1>1 DEF FutureLessons, MoneyInv, TypeOK, Booking
  <2>4. CASE Stays(w)
    BY <1>5, <2>2, <2>3, <2>4 DEF Stays, FutureLessons
  <2>5. CASE IsPaid(w)
    <3>1. Root \in FutureLessons
      BY <1>3, <1>5, <2>5 DEF IsPaid, RoomInTime, NoCall, AwaitsPayment, FutureLessons
    <3> QED
      BY <2>2, <3>1
  <2>6. CASE IsMoved(w)
    BY <2>2, <2>6 DEF IsMoved, FutureLessons
  <2>7. CASE IsCheckedOut(w)
    BY <2>1, <2>7 DEF IsCheckedOut, ListedIsOpen
  <2> QED
    BY <1>2, <2>3, <2>4, <2>5, <2>6, <2>7 DEF Moves, Leaves
<1> QED
  BY <1>1, <1>4, <1>6, <1>7, <1>8

(* The invariant holds for every checkout.                                 *)
LEMMA HistorySafe == Spec => []HistoryInv
  BY HistoryInit, HistoryStep, PTL DEF Spec

(* After an account is closed no lesson of its owner lies ahead, but for    *)
(* the two handlers on record that undo a closing.                          *)
THEOREM ClosedAccountsHaveNoFuture == Spec => []ClosedAccountHasNoFuture
  BY HistorySafe, PTL DEF HistoryInv

(* Nothing but a notice that read the checkout before it was buried revives *)
(* an expired or cancelled lesson.                                          *)
THEOREM BuriedStaysBuried == Spec => BuriedForGood
<1>1. MoneyInv /\ [Next]_vars =>
        [\A w \in Lesson : booking[w].status \in Buried =>
           \/ booking'[w].status = booking[w].status
           \/ w = Root /\ opening # NoCall /\ opening' = NoCall]_vars
  BY LessonMoves
  DEF Moves, Stays, Leaves, IsCheckedOut, IsPaid, IsMoved, Buried
<1> QED
  BY <1>1, MoneySafe, PTL DEF Spec, BuriedForGood

(* A lesson is confirmed only while it lies ahead.                         *)
THEOREM ConfirmedLiesAhead == Spec => ConfirmedAhead
<1>1. HistoryInv /\ [Next]_vars =>
        [\A w \in Lesson :
           booking[w].status # "confirmed" /\ booking'[w].status = "confirmed"
             => booking'[w].start > now]_vars
  <2> SUFFICES ASSUME HistoryInv, [Next]_vars, NEW w \in Lesson,
                      booking[w].status # "confirmed", booking'[w].status = "confirmed"
               PROVE  booking'[w].start > now
    OBVIOUS
  <2>1. IsPaid(w)
    BY LessonMoves DEF HistoryInv, Moves, Stays, Leaves, IsCheckedOut, IsMoved
  <2>2. MoneyInv' /\ Root \in Lesson
    BY MoneyStep, LessonFacts DEF HistoryInv, MoneyInv
  <2>3. /\ now \in Nat /\ opening \in Nat \cup {NoCall} /\ RoomTime \in Nat
        /\ booking[Root].start \in Nat /\ booking'[w].start \in Nat
    BY <2>2, TimingAssumption DEF HistoryInv, MoneyInv, TypeOK, Booking
  <2> QED
    BY <2>1, <2>3 DEF HistoryInv, RoomInTime, NoCall, IsPaid
<1> QED
  BY <1>1, HistorySafe, PTL DEF Spec, ConfirmedAhead

-----------------------------------------------------------------------------
(* What a payment to the teacher settles.                                  *)

Settled(w) ==
  /\ payout'[w] = payout[w]
  /\ dispute'[w] = dispute[w]
  /\ refund'[w].cents = refund[w].cents

(* No handler gets past the payout already made.                           *)
LEMMA PaidStep ==
  ASSUME AdminPageFresh, MoneyInv, [Next]_vars, NEW w \in Lesson, payout[w].status = "paid"
  PROVE  Settled(w)
<1> USE LessonFacts DEF MoneyInv, TypeOK, Settled, outer
<1>1. /\ booking[w].status \notin {"absent", "pending_payment", "expired", "confirmed",
                                   "in_progress", "disputed"}
      /\ dispute[w] # "open"
  BY DEF LessonInv, Untouched, DisputeAt
<1>2. CASE UNCHANGED <<payout, dispute, refund>>
  BY <1>2
<1>3. ASSUME NEW S \in SUBSET Lesson, NEW role \in Users, CancelConfirmed(S, role),
             \A v \in S : booking[v].status = "confirmed", dispute' = dispute
      PROVE Settled(w)
  BY <1>1, <1>3 DEF CancelConfirmed
<1>4. ASSUME NEW v \in Lesson, NEW role \in Users \cup {"admin"}, CancelBooking(v, role)
      PROVE Settled(w)
  <2>1. CASE booking[v].status = "confirmed"
    BY <1>3, <1>4, <2>1 DEF CancelBooking
  <2>2. CASE booking[v].status # "confirmed"
    BY <1>4, <2>2 DEF CancelBooking
  <2> QED
    BY <2>1, <2>2
<1>5. ASSUME NEW role \in Users, CancelSeries(role) PROVE Settled(w)
  BY <1>3, <1>5 DEF CancelSeries
<1>6. CASE AutoCompleteLessons \/ ProcessWeeklyPayouts
  BY <1>6 DEF AutoCompleteLessons, ProcessWeeklyPayouts, QueuePayouts, Elapsed, Earned, Unpaid
<1>7. ASSUME NEW v \in Lesson, NEW role \in Users, ReportNoShow(v, role) PROVE Settled(w)
  <2>1. v # w
    BY <1>1, <1>7 DEF ReportNoShow, Live
  <2> QED
    BY <1>7, <2>1 DEF ReportNoShow
<1>8. ASSUME NEW v \in Lesson, NEW role \in Users \cup {"admin"}, RaiseDispute(v, role)
      PROVE Settled(w)
  BY <1>8 DEF RaiseDispute, Disputable
<1>9. ASSUME NEW v \in Lesson, ResolveCompleted(v) \/ ResolveRefunded(v) PROVE Settled(w)
  <2>1. v # w
    BY <1>1, <1>9 DEF ResolveCompleted, ResolveRefunded
  <2> QED
    BY <1>9, <2>1 DEF ResolveCompleted, ResolveRefunded
<1>10. ASSUME NEW v \in Lesson, NEW to, UpdatePayout(v, to) PROVE Settled(w)
  BY <1>10 DEF UpdatePayout, ShownPayout, Offered
<1>11. ASSUME NEW v \in Lesson, NEW to, UpdateRefund(v, to) PROVE Settled(w)
  BY <1>11 DEF UpdateRefund, Refund
<1>12. ASSUME NEW role \in Users, RequestAccountDeletion(role) PROVE Settled(w)
  BY <1>1, <1>12 DEF RequestAccountDeletion, PaidFutureLessons, FutureLessons
<1> QED
  BY <1>2, <1>4, <1>5, <1>6, <1>7, <1>8, <1>9, <1>10, <1>11, <1>12
  DEF Next, Jobs, Gateway, Participants, Admin, CreateBooking, GatewayOutcome, ItnComplete,
      ConfirmPaid, ItnFailed, ExpireHold, Reschedule, StartDueLessons, CompleteBooking, CreateReview,
      LoadAdminPage, VerifyTeacher, Tick, rows, vars

(* A payout made is final: the lesson is not disputed, cancelled or        *)
(* refunded afterwards, provided the admin acts on current rows.           *)
THEOREM PaidStaysPaid == ASSUME AdminPageFresh PROVE Spec => PaidIsFinal
<1>1. MoneyInv /\ [Next]_vars =>
        [\A w \in Lesson : payout[w].status = "paid" =>
           /\ payout'[w] = payout[w]
           /\ dispute'[w] = dispute[w]
           /\ refund'[w].cents = refund[w].cents]_vars
  BY PaidStep DEF Settled
<1> QED
  BY <1>1, MoneySafe, PTL DEF Spec, PaidIsFinal

=============================================================================
