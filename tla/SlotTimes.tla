------------------------------ MODULE SlotTimes ------------------------------
(***************************************************************************)
(* Times, overlap and lock keys of lessons: services/scheduling.py.  A     *)
(* moment is a number of minutes, local to the teachers' one time zone,    *)
(* from the midnight that begins a Monday.                                 *)
(***************************************************************************)
EXTENDS Integers

SLOT_STEP_MINUTES == 30
MAX_BOOKING_DURATION_MINUTES == 180
DayMinutes  == 1440
WeekMinutes == 10080

Date(moment)      == moment \div DayMinutes
TimeOfDay(moment) == moment % DayMinutes
Weekday(date)     == date % 7

IsDurationSupported(duration) ==
  /\ duration \in SLOT_STEP_MINUTES..MAX_BOOKING_DURATION_MINUTES
  /\ duration % SLOT_STEP_MINUTES = 0

IsSlotAligned(start) == start % SLOT_STEP_MINUTES = 0

(* The starts of a checkout of so many weekly lessons. *)
OccurrenceStarts(start, weeks) == {start + k * WeekMinutes : k \in 0..(weeks - 1)}

LockKeysOneShort(start, duration) ==   \* slip: the last segment is not locked
  {start + SLOT_STEP_MINUTES * segment : segment \in 0..(duration \div SLOT_STEP_MINUTES - 2)}

(* One key per half hour of a lesson, named by its moment. *)
LockKeys(start, duration) ==
  {start + SLOT_STEP_MINUTES * segment : segment \in 0..(duration \div SLOT_STEP_MINUTES - 1)}

SlotLockKeys(starts, duration) == UNION {LockKeys(start, duration) : start \in starts}

OverlapAtStart(first, firstDuration, second, secondDuration) ==   \* slip: only equal starts clash
  first = second

BookingsOverlap(first, firstDuration, second, secondDuration) ==
  /\ first < second + secondDuration
  /\ second < first + firstDuration

-----------------------------------------------------------------------------
WindowFromTheStart(start, first, last) ==   \* slip: lessons that began earlier are missed
  start >= first /\ start < last + MAX_BOOKING_DURATION_MINUTES

(* The bookings that get_teacher_booking_conflicts finds around the moments *)
(* from first to last.                                                      *)
InQueryWindow(start, first, last) ==
  /\ start >= first - MAX_BOOKING_DURATION_MINUTES
  /\ start < last + MAX_BOOKING_DURATION_MINUTES

ActiveStatuses == {"confirmed", "in_progress", "completed", "reviewed"}

BlocksTime(booking, now) ==
  \/ booking.status \in ActiveStatuses
  \/ booking.status = "pending_payment" /\ booking.expires > now

BookingConflicts(bookings, first, last, now) ==
  {b \in bookings : InQueryWindow(b.start, first, last) /\ BlocksTime(b, now)}

SlotConflicts(conflicts, starts, duration) ==
  \E b \in conflicts, start \in starts :
    BookingsOverlap(start, duration, b.start, b.duration)

-----------------------------------------------------------------------------
(* A window [day, from, to] of the weekly timetable holds the lesson.      *)
IsWithinWeeklyAvailability(windows, start, duration) ==
  /\ IsDurationSupported(duration)
  /\ IsSlotAligned(start)
  /\ Date(start + duration) = Date(start)
  /\ \E w \in windows : /\ w.day = Weekday(Date(start))
                        /\ w.from <= TimeOfDay(start)
                        /\ TimeOfDay(start + duration) <= w.to

TouchBlockedDates(starts, blocked) == \E start \in starts : Date(start) \in blocked

=============================================================================
