--------------------------- MODULE LessonLifecycle ---------------------------
(***************************************************************************)
(* One checkout of the booking engine and everything that can happen to    *)
(* its lessons and their money: a single lesson, or a prepaid weekly       *)
(* series whose later lessons are created when the root is paid.           *)
(*                                                                         *)
(* Each HTTP handler and each Celery task is one action: get_db commits    *)
(* once, when the handler returns.  Only the payment notice is two, what   *)
(* it reads and what it commits: between them it waits for another         *)
(* service to open the video room.  Other handlers that overlap are the    *)
(* subject of HandlerRaces, slots and their Redis holds of SlotHolds.      *)
(***************************************************************************)
EXTENDS RefundPolicy

CONSTANTS
  RecurringWeeks,  \* lessons in the checkout, 1 for a single lesson
  Week,            \* ticks between two lessons of a series
  Slots,           \* start times a request may ask for
  Duration,        \* length of a lesson
  HoldTime,        \* BOOKING_HOLD_MINUTES
  LeadTime,        \* BOOKING_MIN_LEAD_MINUTES
  Grace,           \* BOOKING_NO_SHOW_GRACE_MINUTES
  RoomTime,        \* ticks create_room may take before it gives up
  MaxTime,         \* bound of the clock
  AdminPageFresh   \* TRUE: the admin page always shows the current rows

ASSUME SeriesAssumption ==
  /\ RecurringWeeks \in Nat \ {0}
  /\ Week \in Nat
  /\ Slots \subseteq Nat
  /\ MaxTime \in Nat
  /\ AdminPageFresh \in BOOLEAN

ASSUME TimingAssumption ==
  /\ Duration \in Nat \ {0}
  /\ HoldTime \in Nat \ {0}
  /\ LeadTime \in Nat
  /\ RoomTime \in Nat
  /\ HoldTime + RoomTime <= LeadTime   \* 15 minutes, ten seconds and 60 minutes
  /\ Grace \in Nat

VARIABLES
  now,       \* the clock every process reads
  notices,   \* payment outcomes PayFast has reached, each redelivered at will
  recorded,  \* payment_status in the root payment's gateway_metadata
  opening,   \* when the notice that now awaits its video room read the booking
  active,    \* the two users whose account is active
  listed,    \* the teacher is verified and listed
  booking,   \* bookings rows
  payment,   \* payments.status
  payout,    \* payouts rows
  refund,    \* refunds rows
  dispute,   \* "none", "open" or the resolution of the disputes row
  reviews,   \* lessons that have a reviews row
  page,      \* payout and refund statuses the admin page was last loaded with
  ledger,    \* history: cents the admin sent, and refunds queued once more, per lesson
  overruled  \* history: earlier decisions a later handler has undone

rows  == <<booking, payment, payout, refund, dispute, reviews>>
outer == <<notices, recorded, opening, active, listed>>
past  == <<ledger, overruled>>
vars  == <<now, outer, rows, page, past>>

-----------------------------------------------------------------------------
Root   == 0
Lesson == 0..(RecurringWeeks - 1)
Users  == {"parent", "teacher"}
NoHold == -1
NoCall == -1

Outcomes         == {"COMPLETE", "FAILED", "CANCELLED"}
LiveOrDisputed   == {"confirmed", "in_progress", "disputed"}   \* slip: a dispute stays live
Live             == {"confirmed", "in_progress"}
PaidOutcome      == {"complete", "refunded", "partially_refunded"}
PayoutStatuses   == {"none", "pending", "processing", "paid", "failed"}
RefundStatuses   == {"none", "pending", "processing", "refunded", "failed"}
BookingStatuses  == {"absent", "pending_payment", "confirmed", "in_progress",
                     "completed", "reviewed", "expired", "cancelled",
                     "no_show_parent", "no_show_teacher", "disputed"}
PaymentStatuses  == {"none", "pending", "failed", "cancelled"} \cup PaidOutcome
DisputeStatuses  == {"none", "open", "completed", "refunded"}

Booking == [status: BookingStatuses, start: Nat, hold: Nat \cup {NoHold},
            teacher: Nat, commission: Nat]
Payout  == [status: PayoutStatuses, cents: Nat]
Refund  == [status: RefundStatuses, cents: Nat]

Absent   == [status |-> "absent", start |-> 0, hold |-> NoHold,
             teacher |-> 0, commission |-> 0]
NoPayout == [status |-> "none", cents |-> 0]
NoRefundRow == [status |-> "none", cents |-> 0]

End(w) == booking[w].start + Duration

(* Bookings that still occupy a future moment, _future_bookings_owned_by_user. *)
FutureLessons ==
  {w \in Lesson : /\ booking[w].status \in {"pending_payment", "confirmed"}
                  /\ booking[w].start > now}

AwaitsPayment == booking[Root].status = "pending_payment"
HoldNeverLapses == FALSE   \* slip: the expiry is not compared with the clock
HoldLapsed    == booking[Root].hold <= now

(* A payout row that may still be sent is stopped, any other is left alone. *)
StoppedIfPending(row) ==    \* slip: a payout under way is overlooked
  IF row.status = "pending" THEN [row EXCEPT !.status = "failed"] ELSE row
Stopped(row) == IF row.status \in {"pending", "processing"}
                THEN [row EXCEPT !.status = "failed"] ELSE row

-----------------------------------------------------------------------------
Init ==
  /\ now = 0
  /\ notices = {}
  /\ recorded = "none"
  /\ opening = NoCall
  /\ active = Users
  /\ listed = TRUE
  /\ booking = [w \in Lesson |-> Absent]
  /\ payment = [w \in Lesson |-> "none"]
  /\ payout = [w \in Lesson |-> NoPayout]
  /\ refund = [w \in Lesson |-> NoRefundRow]
  /\ dispute = [w \in Lesson |-> "none"]
  /\ reviews = {}
  /\ page = [w \in Lesson |-> [payout |-> "none", refund |-> "none"]]
  /\ ledger = [w \in Lesson |-> [refunded |-> 0, paid |-> 0, requeued |-> FALSE]]
  /\ overruled = {}

-----------------------------------------------------------------------------
OpenToParents == "parent" \in active   \* slip: the teacher's listing is not looked at

(* The caller's account is active; of the teacher only the profile counts. *)
Bookable == "parent" \in active /\ listed

(* The parent checks out a future slot; the slot itself is the subject of   *)
(* SlotHolds.                                                               *)
CreateBooking(start) ==
  /\ Bookable
  /\ booking[Root].status = "absent"
  /\ start >= now + LeadTime
  /\ booking' = [booking EXCEPT ![Root] =
                   [status |-> "pending_payment", start |-> start,
                    hold |-> now + HoldTime,
                    teacher |-> Amount - Commission, commission |-> Commission]]
  /\ payment' = [payment EXCEPT ![Root] = "pending"]
  /\ UNCHANGED <<now, outer, payout, refund, dispute, reviews, page, past>>

(* PayFast: a checkout may fail or be abandoned and be submitted again; once *)
(* the money is taken no other outcome follows.                              *)
GatewayOutcome(outcome) ==
  /\ booking[Root].status # "absent"
  /\ "COMPLETE" \notin notices
  /\ notices' = notices \cup {outcome}
  /\ UNCHANGED <<now, recorded, opening, active, listed, rows, page, past>>

AllButLastLesson == 0..(RecurringWeeks - 2)   \* slip: the loop over the weeks stops one short

(* The lessons of weeks 1, 2, ... are inserted already confirmed and paid. *)
PaidLessons == 0..(RecurringWeeks - 1)

SpawnedBooking(w) ==
  [booking[Root] EXCEPT !.status = "confirmed", !.hold = NoHold, !.start = @ + w * Week]

(* The notice reads the booking.  One that still awaits its payment within *)
(* the hold is confirmed, once the video room is open; of the notices that *)
(* find it so the model follows one at a time.                             *)
ItnComplete ==
  /\ "COMPLETE" \in notices
  /\ \/ /\ ~AwaitsPayment                                    \* "ok" or "ignored"
        /\ recorded' = "COMPLETE"
        /\ UNCHANGED <<booking, payment, opening>>
     \/ /\ AwaitsPayment
        /\ HoldLapsed
        /\ recorded' = "COMPLETE"
        /\ booking' = [booking EXCEPT ![Root] = [@ EXCEPT !.status = "expired", !.hold = NoHold]]
        /\ payment' = [payment EXCEPT ![Root] = "cancelled"]
        /\ UNCHANGED opening
     \/ /\ AwaitsPayment
        /\ ~HoldLapsed
        /\ opening = NoCall
        /\ opening' = now                                     \* awaits create_room
        /\ UNCHANGED <<recorded, booking, payment>>
  /\ UNCHANGED <<now, notices, active, listed, payout, refund, dispute, reviews, page, past>>

(* The room is open, or create_room gave up: the notice writes what it      *)
(* decided on when it read, whatever was committed meanwhile.               *)
ConfirmPaid ==
  /\ opening # NoCall
  /\ opening' = NoCall
  /\ recorded' = "COMPLETE"
  /\ booking' = [w \in Lesson |->
       IF w \in PaidLessons THEN SpawnedBooking(w) ELSE booking[w]]
  /\ payment' = [w \in Lesson |->
       IF w \in PaidLessons THEN "complete" ELSE payment[w]]
  /\ overruled' = IF AwaitsPayment THEN overruled ELSE overruled \cup {"burial"}
  /\ UNCHANGED <<now, notices, active, listed, payout, refund, dispute, reviews, page, ledger>>

FailedPaymentRaw(outcome) == outcome   \* slip: the notice's spelling is stored

(* payment_status.lower() *)
FailedPayment(outcome) == IF outcome = "FAILED" THEN "failed" ELSE "cancelled"

ItnFailed(outcome) ==
  /\ outcome \in notices \ {"COMPLETE"}
  /\ recorded' = outcome
  /\ \/ /\ ~AwaitsPayment
        /\ UNCHANGED <<booking, payment>>
     \/ /\ AwaitsPayment
        /\ booking' = [booking EXCEPT ![Root] = [@ EXCEPT !.status = "expired", !.hold = NoHold]]
        /\ payment' = [payment EXCEPT ![Root] = FailedPayment(outcome)]
  /\ UNCHANGED <<now, notices, opening, active, listed, payout, refund, dispute, reviews,
                 page, past>>

(* expire_pending_booking_hold, queued by the checkout and by the sweep. *)
ExpireHold ==
  /\ AwaitsPayment
  /\ booking[Root].hold # NoHold
  /\ HoldLapsed
  /\ booking' = [booking EXCEPT ![Root] = [@ EXCEPT !.status = "expired", !.hold = NoHold]]
  /\ payment' = [payment EXCEPT ![Root] = IF @ = "pending" THEN "cancelled" ELSE @]
  /\ UNCHANGED <<now, outer, payout, refund, dispute, reviews, page, past>>

Reschedule(w, role, start) ==
  /\ role \in active
  /\ booking[w].status = "confirmed"
  /\ now < booking[w].start
  /\ start # booking[w].start
  /\ start >= now + LeadTime
  /\ booking' = [booking EXCEPT ![w].start = start]
  /\ UNCHANGED <<now, outer, payment, payout, refund, dispute, reviews, page, past>>

-----------------------------------------------------------------------------
(* _apply_confirmed_booking_cancellation on every lesson of the set S: the *)
(* policy divides the price and queues the refund and the payout it calls  *)
(* for.                                                                    *)
Divided(w, role) ==
  CancellationOutcome(role, booking[w].start, now, booking[w].teacher, booking[w].commission)

CancelConfirmed(S, role) ==
  LET settled == {w \in S : payment[w] = "complete"}
      out(w)  == Divided(w, role)
  IN  /\ booking' = [w \in Lesson |->
           IF w \in settled
           THEN [booking[w] EXCEPT !.status = "cancelled", !.hold = NoHold,
                                   !.teacher = out(w).teacher,
                                   !.commission = out(w).commission]
           ELSE IF w \in S
           THEN [booking[w] EXCEPT !.status = "cancelled", !.hold = NoHold]
           ELSE booking[w]]
      /\ refund' = [w \in Lesson |->
           IF w \in settled /\ out(w).refund > 0
           THEN [status |-> "pending", cents |-> out(w).refund] ELSE refund[w]]
      /\ payout' = [w \in Lesson |->
           IF w \in settled /\ out(w).teacher > 0 /\ payout[w].status = "none"
           THEN [status |-> "pending", cents |-> out(w).teacher] ELSE payout[w]]

(* An admin may only cancel an unpaid checkout: the policy has no outcome *)
(* for that role and the request is rolled back.                          *)
CancelBooking(w, role) ==
  /\ role \in active \cup {"admin"}
  /\ \/ /\ booking[w].status = "pending_payment"
        /\ booking' = [booking EXCEPT ![w] = [@ EXCEPT !.status = "cancelled", !.hold = NoHold]]
        /\ payment' = [payment EXCEPT ![w] = "cancelled"]
        /\ UNCHANGED <<refund, payout>>
     \/ /\ booking[w].status = "confirmed"
        /\ role \in Users
        /\ CancelConfirmed({w}, role)
        /\ UNCHANGED payment
  /\ UNCHANGED <<now, outer, dispute, reviews, page, past>>

CancelSeries(role) ==
  LET siblings == {w \in Lesson : /\ booking[w].status = "confirmed"
                                  /\ booking[w].start > now}
  IN  /\ RecurringWeeks > 1
      /\ role \in active
      /\ siblings # {}
      /\ CancelConfirmed(siblings, role)
      /\ UNCHANGED <<now, outer, payment, dispute, reviews, page, past>>

-----------------------------------------------------------------------------
(* start_due_lessons, every minute. *)
StartDueLessons ==
  LET due == {w \in Lesson : /\ booking[w].status = "confirmed"
                             /\ payment[w] = "complete"
                             /\ booking[w].start <= now
                             /\ End(w) > now}
  IN  /\ due # {}
      /\ booking' = [w \in Lesson |->
           IF w \in due THEN [booking[w] EXCEPT !.status = "in_progress"] ELSE booking[w]]
      /\ UNCHANGED <<now, outer, payment, payout, refund, dispute, reviews, page, past>>

(* The rows both payout jobs select: a paid lesson in one of the given *)
(* statuses that has no payout yet.                                    *)
Unpaid(statuses) ==
  {w \in Lesson : /\ booking[w].status \in statuses
                  /\ payment[w] = "complete"
                  /\ payout[w].status = "none"}

QueuePayouts(S) ==
  payout' = [w \in Lesson |->
    IF w \in S THEN [status |-> "pending", cents |-> booking[w].teacher] ELSE payout[w]]

(* auto_complete_lessons, every fifteen minutes. *)
ElapsedInProgress ==          \* slip: lessons no sweep marked as started are forgotten
  {w \in Unpaid({"in_progress"}) : End(w) <= now}
Elapsed == {w \in Unpaid(Live) : End(w) <= now}

AutoCompleteLessons ==
  /\ Elapsed # {}
  /\ booking' = [w \in Lesson |->
       IF w \in Elapsed THEN [booking[w] EXCEPT !.status = "completed"] ELSE booking[w]]
  /\ QueuePayouts(Elapsed)
  /\ UNCHANGED <<now, outer, payment, refund, dispute, reviews, page, past>>

(* process_weekly_payouts takes what auto_complete_lessons did not: lessons *)
(* the teacher completed by hand and disputes resolved as completed.        *)
EarnedUnreviewed == Unpaid({"completed"})   \* slip: a review hides the lesson from the job
Earned == Unpaid({"completed", "reviewed"})

ProcessWeeklyPayouts ==
  /\ Earned # {}
  /\ QueuePayouts(Earned)
  /\ UNCHANGED <<now, outer, booking, payment, refund, dispute, reviews, page, past>>

CompleteBooking(w) ==
  /\ "teacher" \in active
  /\ booking[w].status \in Live
  /\ now >= booking[w].start
  /\ booking' = [booking EXCEPT ![w].status = "completed"]
  /\ UNCHANGED <<now, outer, payment, payout, refund, dispute, reviews, page, past>>

(* The reporter says the other side missed the lesson. *)
ReportNoShow(w, role) ==
  LET missing == IF role = "parent" THEN "no_show_teacher" ELSE "no_show_parent"
      out     == NoShowOutcome(role, booking[w].teacher, booking[w].commission)
  IN  /\ role \in active
      /\ booking[w].status \in Live
      /\ now >= booking[w].start + Grace
      /\ \/ /\ payment[w] # "complete"
            /\ booking' = [booking EXCEPT ![w].status = missing]
            /\ UNCHANGED <<refund, payout>>
         \/ /\ payment[w] = "complete"
            /\ booking' = [booking EXCEPT ![w] =
                 [@ EXCEPT !.status = missing, !.teacher = out.teacher,
                           !.commission = out.commission]]
            /\ refund' = [refund EXCEPT ![w] =
                 IF out.refund > 0 THEN [status |-> "pending", cents |-> out.refund] ELSE @]
            /\ payout' = [payout EXCEPT ![w] =
                 IF out.refund > 0 THEN Stopped(@)
                 ELSE IF @.status = "none"
                 THEN [status |-> "pending", cents |-> out.teacher] ELSE @]
      /\ UNCHANGED <<now, outer, payment, dispute, reviews, page, past>>

Reviewable(w) == booking[w].status = "completed" /\ w \notin reviews

CreateReview(w) ==
  /\ "parent" \in active
  /\ Reviewable(w)
  /\ reviews' = reviews \cup {w}
  /\ booking' = [booking EXCEPT ![w].status = "reviewed"]
  /\ UNCHANGED <<now, outer, payment, payout, refund, dispute, page, past>>

-----------------------------------------------------------------------------
DisputableIfPaid(w) ==       \* slip: the payout already made is not looked at
  /\ booking[w].status \notin
       {"absent", "pending_payment", "cancelled", "expired", "disputed"}
  /\ dispute[w] = "none"
  /\ now >= booking[w].start

DisputableIfCancelled(w) ==  \* slip: a cancelled lesson is not excluded
  /\ booking[w].status \notin {"absent", "pending_payment", "expired", "disputed"}
  /\ dispute[w] = "none"
  /\ now >= booking[w].start
  /\ payout[w].status # "paid"

Disputable(w) ==
  /\ booking[w].status \notin
       {"absent", "pending_payment", "cancelled", "expired", "disputed"}
  /\ dispute[w] = "none"
  /\ now >= booking[w].start
  /\ payout[w].status # "paid"

RaiseDispute(w, role) ==
  /\ role \in active \cup {"admin"}
  /\ Disputable(w)
  /\ payout' = [payout EXCEPT ![w] = Stopped(@)]
  /\ dispute' = [dispute EXCEPT ![w] = "open"]
  /\ booking' = [booking EXCEPT ![w].status = "disputed"]
  /\ UNCHANGED <<now, outer, payment, refund, reviews, page, past>>

ResolveCompleted(w) ==
  /\ dispute[w] = "open"
  /\ dispute' = [dispute EXCEPT ![w] = "completed"]
  /\ booking' = [booking EXCEPT ![w].status = "completed"]
  /\ payout' = [payout EXCEPT ![w] =
       IF @.status = "none" /\ booking[w].teacher > 0
       THEN [status |-> "pending", cents |-> booking[w].teacher]
       ELSE IF @.status = "failed" THEN [@ EXCEPT !.status = "pending"]
       ELSE @]
  /\ UNCHANGED <<now, outer, payment, refund, reviews, page, past>>

ResolveRefunded(w) ==
  /\ dispute[w] = "open"
  /\ dispute' = [dispute EXCEPT ![w] = "refunded"]
  /\ booking' = [booking EXCEPT ![w] =
       [@ EXCEPT !.status = "cancelled", !.teacher = 0, !.commission = 0]]
  /\ payout' = [payout EXCEPT ![w].status = IF @ \in {"none", "paid"} THEN @ ELSE "failed"]
  /\ refund' = [refund EXCEPT ![w] = [status |-> "pending", cents |-> Amount]]
  /\ ledger' = [ledger EXCEPT ![w].requeued = (refund[w].status = "refunded")]
  /\ UNCHANGED <<now, outer, payment, reviews, page, overruled>>

-----------------------------------------------------------------------------
(* The admin page offers the buttons of the row it shows; the server takes *)
(* the new status whatever the row says by then.                           *)
ShownPayout(w) == IF AdminPageFresh THEN payout[w].status ELSE page[w].payout
ShownRefund(w) == IF AdminPageFresh THEN refund[w].status ELSE page[w].refund

OfferedAgain(shown, done) ==  \* slip: a settled row keeps its buttons
  CASE shown = "pending" -> {"processing"}
    [] shown \in {"processing", "paid"} -> {done, "failed"}
    [] OTHER -> {}

Offered(shown, done) ==
  CASE shown = "pending"    -> {"processing"}
    [] shown = "processing" -> {done, "failed"}
    [] OTHER                -> {}

LoadAdminPage ==
  /\ ~AdminPageFresh
  /\ page' = [w \in Lesson |-> [payout |-> payout[w].status, refund |-> refund[w].status]]
  /\ UNCHANGED <<now, outer, rows, past>>

UpdatePayout(w, to) ==
  /\ to \in Offered(ShownPayout(w), "paid")
  /\ payout' = [payout EXCEPT ![w].status = to]
  /\ ledger' = [ledger EXCEPT ![w].paid =
                  IF to = "paid" /\ payout[w].status # "paid" THEN @ + payout[w].cents ELSE @]
  /\ page' = [page EXCEPT ![w].payout = IF AdminPageFresh THEN @ ELSE to]
  /\ UNCHANGED <<now, outer, booking, payment, refund, dispute, reviews, overruled>>

UpdateRefund(w, to) ==
  /\ to \in Offered(ShownRefund(w), "refunded")
  /\ refund' = [refund EXCEPT ![w].status = to]
  /\ payment' = [payment EXCEPT ![w] =
                   CASE to = "refunded"   -> PaymentStatusAfterRefund(refund[w].cents)
                     [] to = "failed"     -> "complete"
                     [] to = "processing" -> @]
  /\ ledger' = [ledger EXCEPT ![w].refunded =
                  IF to = "refunded" /\ refund[w].status # "refunded"
                  THEN @ + refund[w].cents ELSE @]
  /\ page' = [page EXCEPT ![w].refund = IF AdminPageFresh THEN @ ELSE to]
  /\ UNCHANGED <<now, outer, booking, payout, dispute, reviews, overruled>>

(* verify_teacher lists or unlists the profile, also one whose account is *)
(* closed; TeacherVerification has its conditions.  Only create_booking   *)
(* reads the listing, so it is followed until the checkout.               *)
VerifyTeacher ==
  /\ booking[Root].status = "absent"
  /\ listed' \in BOOLEAN
  /\ overruled' = IF listed' /\ ~listed /\ "teacher" \notin active
                  THEN overruled \cup {"closing"} ELSE overruled
  /\ UNCHANGED <<now, notices, recorded, opening, active, rows, page, ledger>>

AllFutureLessons == FutureLessons   \* slip: an unpaid checkout is refunded too
PaidFutureLessons == {w \in FutureLessons : booking[w].status = "confirmed"}

(* A user closes the account: every future lesson is cancelled, a paid one *)
(* with a full refund whatever the hour.                                   *)
RequestAccountDeletion(role) ==
  LET paid == PaidFutureLessons
  IN  /\ role \in active
      /\ active' = active \ {role}
      /\ listed' = (listed /\ role # "teacher")
      /\ booking' = [w \in Lesson |->
           IF w \in paid
           THEN [booking[w] EXCEPT !.status = "cancelled", !.hold = NoHold,
                                   !.teacher = 0, !.commission = 0]
           ELSE IF w \in FutureLessons
           THEN [booking[w] EXCEPT !.status = "cancelled", !.hold = NoHold]
           ELSE booking[w]]
      /\ payment' = [w \in Lesson |->
           IF w \in FutureLessons \ paid THEN "cancelled" ELSE payment[w]]
      /\ payout' = [w \in Lesson |->
           IF w \in paid /\ payout[w].status \notin {"none", "paid"}
           THEN [payout[w] EXCEPT !.status = "failed"] ELSE payout[w]]
      /\ refund' = [w \in Lesson |->
           IF w \in paid THEN [status |-> "pending", cents |-> Amount] ELSE refund[w]]
      /\ UNCHANGED <<now, notices, recorded, opening, dispute, reviews, page, past>>

(* create_room answers or gives up within RoomTime, so its notice is not *)
(* left waiting longer.                                                  *)
Tick ==
  /\ now < MaxTime
  /\ opening # NoCall => now < opening + RoomTime
  /\ now' = now + 1
  /\ UNCHANGED <<outer, rows, page, past>>

-----------------------------------------------------------------------------
Jobs == ExpireHold \/ StartDueLessons \/ AutoCompleteLessons \/ ProcessWeeklyPayouts

Gateway ==
  \/ \E outcome \in Outcomes : GatewayOutcome(outcome) \/ ItnFailed(outcome)
  \/ ItnComplete
  \/ ConfirmPaid

Participants ==
  \/ \E start \in Slots : CreateBooking(start)
  \/ \E role \in Users : CancelSeries(role) \/ RequestAccountDeletion(role)
  \/ \E w \in Lesson, role \in Users \cup {"admin"} :
       \/ CancelBooking(w, role)
       \/ RaiseDispute(w, role)
  \/ \E w \in Lesson, role \in Users :
       \/ ReportNoShow(w, role)
       \/ \E start \in Slots : Reschedule(w, role, start)
  \/ \E w \in Lesson : CompleteBooking(w) \/ CreateReview(w)

Admin ==
  \/ LoadAdminPage
  \/ VerifyTeacher
  \/ \E w \in Lesson : \/ ResolveCompleted(w)
                       \/ ResolveRefunded(w)
                       \/ \E to \in {"processing", "paid", "failed"} : UpdatePayout(w, to)
                       \/ \E to \in {"processing", "refunded", "failed"} : UpdateRefund(w, to)

Next == Jobs \/ Gateway \/ Participants \/ Admin \/ Tick

Spec == Init /\ [][Next]_vars

(* Celery beat queues the four jobs for ever, a call to open a room ends,  *)
(* and time goes on; no user, no admin and no notice of PayFast is obliged *)
(* to do anything.                                                         *)
FairSpec ==
  /\ Spec
  /\ WF_vars(Tick)
  /\ WF_vars(ConfirmPaid)
  /\ WF_vars(ExpireHold)
  /\ WF_vars(StartDueLessons)
  /\ WF_vars(AutoCompleteLessons)
  /\ WF_vars(ProcessWeeklyPayouts)

=============================================================================
