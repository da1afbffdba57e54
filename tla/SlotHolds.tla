------------------------------ MODULE SlotHolds ------------------------------
(***************************************************************************)
(* Who gets a teacher's time: the bookings rows, the Redis keys that hold  *)
(* slots, and the handlers that read one and write the other.              *)
(*                                                                         *)
(* create_booking and reschedule_booking look at the rows, then set the    *)
(* keys, then commit; what runs in between is up to Overlap.  Setting the  *)
(* keys is one step, as AcquireImplementsLock of SlotAcquireProofs allows. *)
(* The clock stands still while such a handler runs: it takes milliseconds.*)
(***************************************************************************)
EXTENDS SlotTimes

CONSTANTS
  Checkout,   \* checkouts for one teacher
  Weeks,      \* Weeks[c]: recurring_weeks of the checkout, 1 for a single lesson
  Duration,   \* Duration[c]: duration_minutes
  Starts,     \* Starts[c]: the starts its owner may ask for
  Movers,     \* checkouts whose lessons are rescheduled
  Windows,    \* the teacher's active availability slots
  Blocked,    \* the teacher's blocked dates
  HoldTime,   \* BOOKING_HOLD_MINUTES
  LeadTime,   \* BOOKING_MIN_LEAD_MINUTES
  SearchDays, \* days: how far ahead the search for slots looks
  ClockStep, MaxTime,   \* bounds of the clock
  Overlap     \* TRUE: other requests run between the steps of a handler

ASSUME ClockAssumption ==
  /\ HoldTime \in Nat \ {0} /\ LeadTime \in Nat /\ HoldTime <= LeadTime
  /\ SearchDays \in Nat \ {0}
  /\ ClockStep \in Nat \ {0} /\ MaxTime \in Nat
  /\ Overlap \in BOOLEAN

ASSUME CheckoutAssumption ==
  /\ Weeks \in [Checkout -> Nat \ {0}]
  /\ Duration \in [Checkout -> Nat] /\ \A c \in Checkout : IsDurationSupported(Duration[c])
  /\ Starts \in [Checkout -> SUBSET Nat]

(* The schema takes any time of day, on the half hour or not.              *)
ASSUME WindowAssumption ==
  \A w \in Windows : /\ w.day \in 0..6
                     /\ w.from \in 0..(DayMinutes - 1) /\ w.to \in 0..(DayMinutes - 1)

VARIABLES
  now,      \* the clock, in minutes
  booking,  \* bookings rows
  holds,    \* Redis: the moment each key's TTL ends, 0 when it is not set
  handler,  \* the create or reschedule request of each checkout
  listed,   \* the teacher is verified and listed
  deprived  \* history: later lessons that lost a key while their series awaited payment

vars == <<now, booking, holds, handler, listed, deprived>>

Lesson   == UNION {{c} \X (0..(Weeks[c] - 1)) : c \in Checkout}
Owner(l) == l[1]
Root(c)  == <<c, 0>>

Statuses == {"absent", "pending_payment", "confirmed", "expired", "cancelled"}
Absent   == [status |-> "absent", start |-> 0, duration |-> 0, expires |-> 0]
Idle     == [at |-> "idle", lesson |-> <<>>, start |-> 0]

OnlyTheFirst(c, start) == LockKeys(start, Duration[c])   \* slip: no key for the later weeks
(* The keys of a whole checkout whose first lesson is at start.            *)
HoldKeys(c, start) == SlotLockKeys(OccurrenceStarts(start, Weeks[c]), Duration[c])

Key == UNION {UNION {HoldKeys(c, start) : start \in Starts[c]} : c \in Checkout}

Quiet == \A c \in Checkout : handler[c] = Idle
Undisturbed == Overlap \/ Quiet

Lapsed(c) == booking[Root(c)].expires <= now

Backwards(root, k) == root.start - k * WeekMinutes   \* slip: the weeks are subtracted
LaterStart(root, k) == root.start + k * WeekMinutes

Freed(keys) == [k \in Key |-> IF k \in keys THEN 0 ELSE holds[k]]

(* The lessons of other series that still await their payment, one of whose *)
(* keys is among these.  The first lesson has a row and needs no key.       *)
Losers(c, keys) ==
  {l \in Lesson : /\ Owner(l) # c /\ l[2] # 0
                  /\ booking[Root(Owner(l))].status = "pending_payment" /\ ~Lapsed(Owner(l))
                  /\ keys \cap LockKeys(LaterStart(booking[Root(Owner(l))], l[2]),
                                        Duration[Owner(l)]) # {}}

(* release_slot_hold deletes keys by their names, whoever has set them.     *)
Release(c, keys) ==
  /\ holds' = Freed(keys)
  /\ deprived' = deprived \cup Losers(c, keys)

-----------------------------------------------------------------------------
Init ==
  /\ now = 0
  /\ booking = [l \in Lesson |-> Absent]
  /\ holds = [k \in Key |-> 0]
  /\ handler = [c \in Checkout |-> Idle]
  /\ listed = TRUE
  /\ deprived = {}

(* The checks both handlers make before they ask for the keys.             *)
Bookable(starts, duration) ==
  /\ \A start \in starts : /\ start >= now + LeadTime
                           /\ IsWithinWeeklyAvailability(Windows, start, duration)
  /\ ~TouchBlockedDates(starts, Blocked)

TakenAtTheRoot(starts, duration, others) ==   \* slip: the query looks at the first lesson only
  LET root == CHOOSE start \in starts : \A s \in starts : start <= s
  IN  SlotConflicts(BookingConflicts(others, root, root, now), {root}, duration)
Taken(starts, duration, others) ==
  \E first, last \in starts :
    /\ \A start \in starts : first <= start /\ start <= last
    /\ SlotConflicts(BookingConflicts(others, first, last, now), starts, duration)

(* create_booking up to its query of the rows.                             *)
CheckSlot(c, start) ==
  LET starts == OccurrenceStarts(start, Weeks[c])
  IN  /\ Undisturbed
      /\ handler[c] = Idle
      /\ booking[Root(c)].status = "absent"
      /\ listed
      /\ Bookable(starts, Duration[c])
      /\ ~Taken(starts, Duration[c], {booking[l] : l \in Lesson})
      /\ handler' = [handler EXCEPT ![c] = [at |-> "creating", lesson |-> Root(c), start |-> start]]
      /\ UNCHANGED <<now, booking, holds, listed, deprived>>

(* reschedule_booking up to its query, which leaves the lesson itself out; *)
(* the teacher need not be listed for a move.                              *)
CheckMove(l, start) ==
  LET c == Owner(l)
  IN  /\ Undisturbed
      /\ handler[c] = Idle
      /\ booking[l].status = "confirmed"
      /\ now < booking[l].start
      /\ start # booking[l].start
      /\ Bookable({start}, Duration[c])
      /\ ~Taken({start}, Duration[c], {booking[m] : m \in Lesson \ {l}})
      /\ handler' = [handler EXCEPT ![c] = [at |-> "moving", lesson |-> l, start |-> start]]
      /\ UNCHANGED <<now, booking, holds, listed, deprived>>

Asked(c) == IF handler[c].at = "creating" THEN HoldKeys(c, handler[c].start)
                                          ELSE LockKeys(handler[c].start, Duration[c])

AnyKeys(keys) == TRUE   \* slip: SET without NX
FreeKeys(keys) == \A k \in keys : holds[k] = 0

AcquireHold(c) ==
  /\ handler[c].at \in {"creating", "moving"}
  /\ FreeKeys(Asked(c))
  /\ holds' = [k \in Key |-> IF k \in Asked(c) THEN now + HoldTime ELSE holds[k]]
  /\ handler' = [handler EXCEPT ![c].at = IF @ = "creating" THEN "create" ELSE "move"]
  /\ UNCHANGED <<now, booking, listed, deprived>>

(* 409: some key is taken.                                                 *)
HoldRefused(c) ==
  /\ handler[c].at \in {"creating", "moving"}
  /\ ~FreeKeys(Asked(c))
  /\ handler' = [handler EXCEPT ![c] = Idle]
  /\ UNCHANGED <<now, booking, holds, listed, deprived>>

CommitCreate(c) ==
  /\ handler[c].at = "create"
  /\ booking' = [booking EXCEPT ![Root(c)] =
                   [status |-> "pending_payment", start |-> handler[c].start,
                    duration |-> Duration[c], expires |-> now + HoldTime]]
  /\ handler' = [handler EXCEPT ![c] = Idle]
  /\ UNCHANGED <<now, holds, listed, deprived>>

CommitMove(c) ==
  /\ handler[c].at = "move"
  /\ booking' = [booking EXCEPT ![handler[c].lesson].start = handler[c].start]
  /\ handler' = [handler EXCEPT ![c].at = "moved"]
  /\ UNCHANGED <<now, holds, listed, deprived>>

HandBack(c) ==
  /\ Release(c, LockKeys(handler[c].start, Duration[c]))
  /\ handler' = [handler EXCEPT ![c] = Idle]
  /\ UNCHANGED <<now, booking, listed>>

(* A move gives its keys back at once: the row itself now blocks the time. *)
ReleaseMove(c) == handler[c].at = "moved" /\ HandBack(c)

(* The transaction fails: rollback and release.                            *)
FailCommit(c) ==
  \/ handler[c].at = "move" /\ HandBack(c)
  \/ /\ handler[c].at = "create"
     /\ Release(c, HoldKeys(c, handler[c].start))
     /\ handler' = [handler EXCEPT ![c] = Idle]
     /\ UNCHANGED <<now, booking, listed>>

(* The server process dies: the transaction is lost, the keys stay.        *)
Die(c) ==
  /\ handler[c] # Idle
  /\ handler' = [handler EXCEPT ![c] = Idle]
  /\ UNCHANGED <<now, booking, holds, listed, deprived>>

-----------------------------------------------------------------------------
(* get_teacher_bookable_slots walks through the windows of the days ahead  *)
(* on its own, with one query for all of them.                             *)
Cutoff == now + LeadTime

SearchDates == Date(Cutoff)..(Date(Cutoff) + SearchDays - 1)

Candidates(duration) ==
  UNION {{start \in {date * DayMinutes + w.from + k * SLOT_STEP_MINUTES : k \in 0..47} :
            w.day = Weekday(date) /\ start + duration <= date * DayMinutes + w.to} :
         date \in SearchDates, w \in Windows}

EndOfTheDays(weeks) ==   \* slip: the query ends before the later weeks
  (Date(Cutoff) + SearchDays + 1) * DayMinutes - 1
SearchEnd(weeks) == (Date(Cutoff) + SearchDays + (weeks - 1) * 7 + 1) * DayMinutes - 1

(* The starts offered to a checkout, or for the move of an ignored lesson; *)
(* a teacher who is not verified and listed offers none.                   *)
Offers(weeks, duration, ignored) ==
  LET conflicts == BookingConflicts({booking[l] : l \in Lesson \ ignored},
                                    Cutoff, SearchEnd(weeks), now)
      Free(start) ==
        LET starts == OccurrenceStarts(start, weeks)
        IN  /\ listed
            /\ start >= Cutoff
            /\ \A l \in ignored : booking[l].start # start
            /\ ~TouchBlockedDates(starts, Blocked)
            /\ ~SlotConflicts(conflicts, starts, duration)
            /\ FreeKeys(SlotLockKeys(starts, duration) \cap Key)
  IN  {start \in Candidates(duration) : Free(start)}

-----------------------------------------------------------------------------
(* PayFast answers no sooner than the tick after the checkout: the parent  *)
(* is redirected there and pays by hand.                                   *)
AtPayFast(c) ==
  /\ booking[Root(c)].status = "pending_payment"
  /\ booking[Root(c)].expires < now + HoldTime

(* A COMPLETE notice in time confirms the lesson, creates the later ones   *)
(* and releases the keys of all.                                           *)
ItnComplete(c) ==
  LET root == booking[Root(c)]
  IN  /\ Undisturbed
      /\ AtPayFast(c) /\ ~Lapsed(c)
      /\ booking' = [l \in Lesson |->
           IF Owner(l) # c THEN booking[l]
           ELSE [status |-> "confirmed", start |-> LaterStart(root, l[2]),
                 duration |-> root.duration, expires |-> 0]]
      /\ Release(c, HoldKeys(c, root.start))
      /\ UNCHANGED <<now, handler, listed>>

End(c, status) ==
  /\ booking' = [booking EXCEPT ![Root(c)] = [@ EXCEPT !.status = status, !.expires = 0]]
  /\ Release(c, HoldKeys(c, booking[Root(c)].start))
  /\ UNCHANGED <<now, handler, listed>>

(* A COMPLETE notice that comes too late, or the sweep of lapsed holds.    *)
ExpireHold(c) ==
  /\ Undisturbed
  /\ booking[Root(c)].status = "pending_payment"
  /\ Lapsed(c)
  /\ End(c, "expired")

(* A FAILED or CANCELLED notice; the notices of one checkout come in turn. *)
ItnFailed(c) == Undisturbed /\ AtPayFast(c) /\ End(c, "expired")

(* cancel_booking deletes the keys of as many weeks as the checkout had,   *)
(* counted from the cancelled lesson, whoever set them.                    *)
CancelBooking(l) ==
  /\ Undisturbed
  /\ booking[l].status \in {"pending_payment", "confirmed"}
  /\ booking' = [booking EXCEPT ![l] = [@ EXCEPT !.status = "cancelled", !.expires = 0]]
  /\ Release(Owner(l), HoldKeys(Owner(l), booking[l].start))
  /\ UNCHANGED <<now, handler, listed>>

(* Confirmed lessons of a series have no keys of their own to give back.   *)
CancelSeries(c) ==
  LET siblings == {l \in Lesson : /\ Owner(l) = c
                                  /\ booking[l].status = "confirmed"
                                  /\ booking[l].start > now}
  IN  /\ Undisturbed
      /\ Weeks[c] > 1
      /\ siblings # {}
      /\ booking' = [l \in Lesson |-> IF l \in siblings THEN [booking[l] EXCEPT !.status = "cancelled"]
                                                        ELSE booking[l]]
      /\ UNCHANGED <<now, holds, handler, listed, deprived>>

(* verify_teacher, a new document or the closing of the account lists the   *)
(* teacher or takes the listing away: TeacherVerification says when.        *)
ChangeListing ==
  /\ Undisturbed
  /\ listed' = ~listed
  /\ UNCHANGED <<now, booking, holds, handler, deprived>>

Tick ==
  /\ Quiet
  /\ now + ClockStep <= MaxTime
  /\ now' = now + ClockStep
  /\ holds' = [k \in Key |-> IF holds[k] > now' THEN holds[k] ELSE 0]
  /\ UNCHANGED <<booking, handler, listed, deprived>>

Next ==
  \/ \E c \in Checkout :
       \/ \E start \in Starts[c] : CheckSlot(c, start)
       \/ AcquireHold(c) \/ HoldRefused(c) \/ CommitCreate(c) \/ FailCommit(c) \/ Die(c)
       \/ CommitMove(c) \/ ReleaseMove(c)
       \/ ItnComplete(c) \/ ItnFailed(c) \/ ExpireHold(c) \/ CancelSeries(c)
  \/ \E l \in Lesson : \/ CancelBooking(l)
                       \/ /\ Owner(l) \in Movers
                          /\ \E start \in Starts[Owner(l)] : CheckMove(l, start)
  \/ ChangeListing
  \/ Tick

Spec == Init /\ [][Next]_vars

-----------------------------------------------------------------------------
TypeOK ==
  /\ now \in Nat
  /\ booking \in [Lesson -> [status: Statuses, start: Nat, duration: Nat, expires: Nat]]
  /\ holds \in [Key -> Nat]
  /\ handler \in [Checkout -> [at: {"idle", "creating", "moving", "create", "move", "moved"},
                               lesson: Lesson \cup {<<>>}, start: Nat]]
  /\ listed \in BOOLEAN
  /\ deprived \subseteq Lesson

(* No two bookings that block time overlap: nobody checks out, pays for or *)
(* moves a lesson into time that is another's.                             *)
NoDoubleBooking ==
  \A l, m \in Lesson :
    l # m /\ BlocksTime(booking[l], now) /\ BlocksTime(booking[m], now)
      => ~BookingsOverlap(booking[l].start, booking[l].duration,
                          booking[m].start, booking[m].duration)

(* While a checkout waits for its payment the whole series is kept for it: *)
(* the weeks that have no rows yet are free of other bookings, until a key *)
(* of theirs is deleted.  A sweep, a cancellation or a notice that comes   *)
(* after the keys of its own booking have lapsed can delete, by the same   *)
(* names, those another checkout has set since (lessons.py:66, bookings.py *)
(* :911); the weeks this befalls are the deprived ones.                    *)
LaterWeeksStayFree ==
  \A c \in Checkout :
    booking[Root(c)].status = "pending_payment" /\ ~Lapsed(c) =>
      \A week, l \in Lesson \ deprived :
        Owner(week) = c /\ Owner(l) # c /\ BlocksTime(booking[l], now) =>
          ~BookingsOverlap(LaterStart(booking[Root(c)], week[2]), Duration[c],
                           booking[l].start, booking[l].duration)

(* The search and the two handlers agree, though each has its own checks    *)
(* (get_teacher_bookable_slots).  A start on the half hour that is offered  *)
(* to a checkout, or for a move, would get its keys if asked for.  A start  *)
(* that would get them is offered, unless the teacher is not listed, which  *)
(* stops no move, or every window around it begins off the half hour: the   *)
(* search walks from there in half hours, past what the handlers take.      *)
Accepted(starts, duration, ignored) ==
  /\ Bookable(starts, duration)
  /\ ~Taken(starts, duration, {booking[l] : l \in Lesson \ ignored})
  /\ FreeKeys(SlotLockKeys(starts, duration) \cap Key)

OnTheGrid == {w \in Windows : IsSlotAligned(w.from)}

OffersAreAccepted ==
  \A c \in Checkout :
    LET weekly(start) == OccurrenceStarts(start, Weeks[c])
        offers == Offers(Weeks[c], Duration[c], {})
    IN  /\ \A start \in offers : IsSlotAligned(start) =>
             listed /\ Accepted(weekly(start), Duration[c], {})
        /\ \A start \in Starts[c] :
             /\ listed /\ Date(start) \in SearchDates
             /\ IsWithinWeeklyAvailability(OnTheGrid, start, Duration[c])
             /\ Accepted(weekly(start), Duration[c], {})
             => start \in offers
        /\ \A l \in Lesson : Owner(l) = c /\ booking[l].status = "confirmed" =>
             LET moves == Offers(1, Duration[c], {l})
             IN  /\ \A start \in moves : IsSlotAligned(start) =>
                      start # booking[l].start /\ Accepted({start}, Duration[c], {l})
                 /\ \A start \in Starts[c] :
                      /\ listed /\ Date(start) \in SearchDates /\ start # booking[l].start
                      /\ IsWithinWeeklyAvailability(OnTheGrid, start, Duration[c])
                      /\ Accepted({start}, Duration[c], {l})
                      => start \in moves

(* "Slot temporarily held for 15 minutes": as long as a checkout may still *)
(* be paid, all its keys are set.                                          *)
HeldForItsTime ==
  \A c \in Checkout :
    booking[Root(c)].status = "pending_payment" /\ ~Lapsed(c) =>
      \A k \in HoldKeys(c, booking[Root(c)].start) : holds[k] > now

(* The rows that block time make up a calendar without overlaps, whose     *)
(* lessons enter, leave and move only as TeacherCalendar allows; a week    *)
(* that was deprived of its keys is not promised a place in it.            *)
Entries ==
  {[lesson |-> l, start |-> booking[l].start, duration |-> booking[l].duration] :
     l \in {m \in Lesson \ deprived : BlocksTime(booking[m], now)}}
Calendar == INSTANCE TeacherCalendar WITH calendar <- Entries
KeepsCalendar == Calendar!Spec
=============================================================================
