-------------------------- MODULE LessonProperties --------------------------
(***************************************************************************)
(* What the booking engine owes its users, stated over the model of        *)
(* LessonLifecycle.                                                        *)
(***************************************************************************)
EXTENDS LessonLifecycle

LedgerRow == [refunded : Nat, paid : Nat, requeued : BOOLEAN]

(* Every row holds a value its column allows. *)
TypeOK ==
  /\ now \in Nat
  /\ notices \subseteq Outcomes
  /\ recorded \in Outcomes \cup {"none"}
  /\ opening \in Nat \cup {NoCall}
  /\ active \subseteq Users
  /\ listed \in BOOLEAN
  /\ booking \in [Lesson -> Booking]
  /\ payment \in [Lesson -> PaymentStatuses]
  /\ payout \in [Lesson -> Payout]
  /\ refund \in [Lesson -> Refund]
  /\ dispute \in [Lesson -> DisputeStatuses]
  /\ reviews \subseteq Lesson
  /\ page \in [Lesson -> [payout : PayoutStatuses, refund : RefundStatuses]]
  /\ ledger \in [Lesson -> LedgerRow]
  /\ overruled \subseteq {"burial", "closing"}

-----------------------------------------------------------------------------
(* Safety of the money.                                                    *)

Moving(row) == row.status \in {"pending", "processing", "paid", "refunded"}
Queued(row) == IF row.status \in {"pending", "processing"} THEN row.cents ELSE 0

(* While a dispute is open no payout of the lesson is queued, under way or *)
(* paid: raise_booking_dispute stops it and only resolve_dispute reopens it.*)
EscrowHeld ==
  \A w \in Lesson : dispute[w] = "open" => payout[w].status \in {"none", "failed"}

(* At every moment of a lesson's life the refund row, the teacher's share   *)
(* and the commission add up to the price: no handler divides a price that  *)
(* another one has already divided.                                         *)
SplitExact ==
  \A w \in Lesson : booking[w].status # "absent" =>
    refund[w].cents + booking[w].teacher + booking[w].commission = Amount

(* What has been sent to parent and teacher together with what is queued to *)
(* be sent never exceeds what the parent paid.  Once it may: a dispute over *)
(* a lesson whose refund has already been sent, resolved as refunded,       *)
(* queues the price a second time, and never a third.                       *)
SentWithinAmount ==
  \A w \in Lesson :
    ledger[w].refunded + ledger[w].paid + Queued(refund[w]) + Queued(payout[w])
      <= IF ledger[w].requeued THEN 2 * Amount ELSE Amount

(* What the admin has transferred to the teacher is the payout row marked   *)
(* paid, so no share is transferred twice whatever disputes come between.   *)
TeacherPaidOnce ==
  \A w \in Lesson :
    ledger[w].paid = IF payout[w].status = "paid" THEN payout[w].cents ELSE 0

(* No lesson is live and no money leaves before PayFast took the money.     *)
MoneyInFirst ==
  \A w \in Lesson :
    booking[w].status \in Live \/ Moving(payout[w]) \/ Moving(refund[w])
      => "COMPLETE" \in notices

(* A series is paid as a whole: the later lessons exist exactly when the    *)
(* root has left the unpaid part of its life through a payment.             *)
SeriesAllOrNothing ==
  \A w \in Lesson \ {Root} : booking[w].status = "absent" <=> payment[Root] \notin PaidOutcome

(* A disputed lesson has an open dispute and an open dispute freezes its    *)
(* lesson: no job, review, cancellation or no-show report moves it.         *)
DisputeFreezesLesson ==
  \A w \in Lesson : booking[w].status = "disputed" <=> dispute[w] = "open"

(* Nobody waits for the owner of a closed account: no lesson that lies      *)
(* ahead is pending or confirmed, now or later.  Two handlers can undo a    *)
(* closing: a payment notice that had read the checkout before it, and an   *)
(* admin who lists the closed teacher's profile again, which create_booking *)
(* takes for an open one.                                                   *)
ClosedAccountHasNoFuture ==
  FutureLessons # {} =>
    \/ "burial" \in overruled
    \/ "parent" \in active /\ ("teacher" \in active \/ "closing" \in overruled)

-----------------------------------------------------------------------------
(* What a step may never do.                                               *)

(* An expired or cancelled booking keeps its slot free for good: no later   *)
(* notice, job, report or admin decision brings it back.  Only the notice   *)
(* that read the unpaid booking earlier and still awaits its video room     *)
(* writes over a cancellation or an expiry committed meanwhile.             *)
Buried == {"expired", "cancelled"}
BuriedForGood ==
  [][\A w \in Lesson : booking[w].status \in Buried =>
       \/ booking'[w].status = booking[w].status
       \/ w = Root /\ opening # NoCall /\ opening' = NoCall]_vars

(* Once a payout is paid it stays paid and the lesson can no longer be      *)
(* disputed, cancelled or refunded.                                         *)
PaidIsFinal ==
  [][\A w \in Lesson : payout[w].status = "paid" =>
       /\ payout'[w] = payout[w]
       /\ dispute'[w] = dispute[w]
       /\ refund'[w].cents = refund[w].cents]_vars

(* A lesson is confirmed only while it still lies ahead: the hold ends      *)
(* before the start, with time to spare for the video room, because it is   *)
(* shorter than the lead time.                                              *)
ConfirmedAhead ==
  [][\A w \in Lesson :
       booking[w].status # "confirmed" /\ booking'[w].status = "confirmed"
         => booking'[w].start > now]_vars

-----------------------------------------------------------------------------
(* What the scheduled jobs bring about.                                    *)

(* A checkout that is never paid does not keep its slot: the sweep expires  *)
(* it.                                                                      *)
HoldsLapse == booking[Root].status = "pending_payment" ~> booking[Root].status # "pending_payment"

(* A confirmed lesson does not stay live for ever even if neither side says *)
(* anything: auto_complete_lessons closes it.                               *)
LessonsSettle == \A w \in Lesson : booking[w].status \in Live ~> booking[w].status \notin Live

(* A completed lesson nobody disputes and nobody refunds gets a payout, also *)
(* when the teacher completed it by hand, which queues none.                *)
TeachersGetPaid ==
  \A w \in Lesson :
    booking[w].status \in {"completed", "reviewed"} ~>
      \/ payout[w].status # "none"
      \/ dispute[w] # "none"
=============================================================================
