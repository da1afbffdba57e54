---------------------------- MODULE HandlerRaces ----------------------------
(***************************************************************************)
(* Handlers and jobs that overlap on one booking.  Each reads the rows,    *)
(* decides, and commits later; rows are read without locks, and only the   *)
(* columns a handler changed are written, computed from what it has read.  *)
(* LessonLifecycle has the same handlers as single steps; here the money   *)
(* is rows that exist or not, and a lesson is followed to its payout.      *)
(***************************************************************************)
EXTENDS Naturals

CONSTANT Handler   \* requests and jobs that may be under way at once

VARIABLES
  booking,   \* bookings.status
  payment,   \* payments.status
  refund,    \* the payment has a refunds row (payment_id is unique)
  payouts,   \* its payouts rows (payment_id is not unique)
  children,  \* bookings rows of the second week of the series
  clock,     \* "held", "lapsed", "begun", "ended"
  work       \* what each handler is about to commit

rows == <<booking, payment, refund, payouts, children>>
vars == <<rows, clock, work>>

Idle  == [busy |-> FALSE]
Quiet == \A h \in Handler : work[h] = Idle

(* A handler that writes nothing but the given columns.                    *)
Nothing == [busy |-> TRUE, booking |-> "same", payment |-> "same",
            refund |-> FALSE, payout |-> FALSE, children |-> FALSE]

Init ==
  /\ booking = "pending_payment"
  /\ payment = "pending"
  /\ refund = FALSE
  /\ payouts = 0
  /\ children = 0
  /\ clock = "held"
  /\ work = [h \in Handler |-> Idle]

(* Handler h has read the rows and will commit the writes.                 *)
Decides(h, writes) ==
  /\ work[h] = Idle
  /\ work' = [work EXCEPT ![h] = writes]
  /\ UNCHANGED <<rows, clock>>

-----------------------------------------------------------------------------
(* payfast_itn; the notice of a paid root creates the later lessons.       *)
NoticeComplete(h) ==
  /\ booking = "pending_payment"
  /\ Decides(h, IF clock = "held"
                THEN [Nothing EXCEPT !.booking = "confirmed", !.payment = "complete", !.children = TRUE]
                ELSE [Nothing EXCEPT !.booking = "expired", !.payment = "cancelled"])

(* Mutant: a failed notice writes the payment alone.                       *)
NoticeFailedPayment(h) ==
  /\ booking = "pending_payment"
  /\ Decides(h, [Nothing EXCEPT !.payment = "failed"])

NoticeFailed(h) ==
  /\ booking = "pending_payment"
  /\ Decides(h, [Nothing EXCEPT !.booking = "expired", !.payment = "failed"])

(* cancel_booking: the policy refunds all, half or nothing of what was     *)
(* paid, and pays the teacher the rest, unless there is a payout.          *)
Cancel(h) ==
  \/ /\ booking = "pending_payment"
     /\ Decides(h, [Nothing EXCEPT !.booking = "cancelled", !.payment = "cancelled"])
  \/ /\ booking = "confirmed"
     /\ \E back, share \in BOOLEAN :
          /\ payment = "complete" => back \/ share
          /\ Decides(h, [Nothing EXCEPT !.booking = "cancelled",
                                        !.refund = back /\ payment = "complete",
                                        !.payout = share /\ payment = "complete" /\ payouts = 0])

(* request_account_deletion, for a lesson that is still to come.           *)
Close(h) ==
  /\ clock \in {"held", "lapsed"}
  /\ \/ /\ booking = "pending_payment"
        /\ Decides(h, [Nothing EXCEPT !.booking = "cancelled", !.payment = "cancelled"])
     \/ /\ booking = "confirmed"
        /\ Decides(h, [Nothing EXCEPT !.booking = "cancelled", !.refund = TRUE])

(* Mutant: the sweep looks for holds that have not lapsed.                 *)
ExpireEarly(h) ==
  /\ booking = "pending_payment" /\ clock = "held"
  /\ Decides(h, [Nothing EXCEPT !.booking = "expired",
                                !.payment = IF payment = "pending" THEN "cancelled" ELSE "same"])

(* expire_pending_booking_hold                                             *)
Expire(h) ==
  /\ booking = "pending_payment" /\ clock # "held"
  /\ Decides(h, [Nothing EXCEPT !.booking = "expired",
                                !.payment = IF payment = "pending" THEN "cancelled" ELSE "same"])

(* start_due_lessons                                                       *)
Start(h) ==
  /\ booking = "confirmed" /\ payment = "complete" /\ clock = "begun"
  /\ Decides(h, [Nothing EXCEPT !.booking = "in_progress"])

(* complete_booking, by the teacher; it queues no payout.                  *)
Complete(h) ==
  /\ booking \in {"confirmed", "in_progress"} /\ clock \in {"begun", "ended"}
  /\ Decides(h, [Nothing EXCEPT !.booking = "completed"])

(* auto_complete_lessons                                                   *)
AutoComplete(h) ==
  /\ booking \in {"confirmed", "in_progress"} /\ payment = "complete" /\ payouts = 0
  /\ clock = "ended"
  /\ Decides(h, [Nothing EXCEPT !.booking = "completed", !.payout = TRUE])

(* process_weekly_payouts                                                  *)
WeeklyPayouts(h) ==
  /\ booking = "completed" /\ payment = "complete" /\ payouts = 0
  /\ Decides(h, [Nothing EXCEPT !.payout = TRUE])

-----------------------------------------------------------------------------
(* A second refunds row for the payment is refused, and all with it.       *)
Commit(h) ==
  /\ work[h] # Idle
  /\ work' = [work EXCEPT ![h] = Idle]
  /\ LET writes == work[h] IN
       IF writes.refund /\ refund
       THEN UNCHANGED rows
       ELSE /\ booking' = IF writes.booking = "same" THEN booking ELSE writes.booking
            /\ payment' = IF writes.payment = "same" THEN payment ELSE writes.payment
            /\ refund' = (refund \/ writes.refund)
            /\ payouts' = payouts + IF writes.payout THEN 1 ELSE 0
            /\ children' = children + IF writes.children THEN 1 ELSE 0
  /\ UNCHANGED clock

Die(h) ==
  /\ work[h] # Idle
  /\ work' = [work EXCEPT ![h] = Idle]
  /\ UNCHANGED <<rows, clock>>

(* Holds lapse, lessons begin and end whatever is under way; but no        *)
(* handler lasts from the hold to the lesson, 45 minutes at least.         *)
Tick ==
  /\ \/ clock = "held" /\ clock' = "lapsed"
     \/ clock = "lapsed" /\ Quiet /\ clock' = "begun"
     \/ clock = "begun" /\ clock' = "ended"
  /\ UNCHANGED <<rows, work>>

Next ==
  \/ \E h \in Handler :
       \/ NoticeComplete(h) \/ NoticeFailed(h) \/ Cancel(h) \/ Close(h) \/ Expire(h)
       \/ Start(h) \/ Complete(h) \/ AutoComplete(h) \/ WeeklyPayouts(h)
       \/ Commit(h) \/ Die(h)
  \/ Tick

(* Time passes; the sweep, which beat queues every minute, finds what has  *)
(* lapsed, and not every handler dies.                                     *)
Fairness == WF_vars(Tick) /\ \A h \in Handler : SF_vars(Expire(h)) /\ SF_vars(Commit(h))

Spec == Init /\ [][Next]_vars /\ Fairness

-----------------------------------------------------------------------------
(* However notices, cancellations, closing and the sweep overlap, a lesson *)
(* is live or taught only if its payment row is complete: the columns that *)
(* belong together are written together (payfast_itn, cancel_booking,      *)
(* expire_pending_booking_hold).                                           *)
LiveIsPaid == booking \in {"confirmed", "in_progress", "completed"} => payment = "complete"

(* An unpaid checkout ends, whatever overlaps: no handler that read it     *)
(* pending writes it back (tasks/lessons.py:16, 83).                       *)
UnpaidEnds == booking = "pending_payment" ~> booking # "pending_payment"

(* The payouts of a lesson are one row, whichever handlers and jobs        *)
(* overlap: its payment has one payout or none (models/payment.py:32,      *)
(* tasks/payouts.py:13).                                                   *)
OnePayout == payouts <= 1
=============================================================================
