--------------------------- MODULE TeacherCalendar ---------------------------
(***************************************************************************)
(* What the slot machinery promises a teacher: a calendar of lessons, none *)
(* of which overlap.  Lessons enter it together and only into free time,   *)
(* leave it, or move one at a time to free time.                           *)
(***************************************************************************)
EXTENDS SlotTimes

VARIABLE calendar   \* a set of entries [lesson, start, duration]

Clash(e, f) == e # f /\ BookingsOverlap(e.start, e.duration, f.start, f.duration)

FitIn(entries) == \A e \in entries, f \in calendar' : ~Clash(e, f)

Init == calendar = {}

Enter == calendar \subseteq calendar' /\ FitIn(calendar' \ calendar)

Leave == calendar' \subseteq calendar

Move ==
  \E old \in calendar, new \in calendar' :
    /\ new.lesson = old.lesson
    /\ calendar' = (calendar \ {old}) \cup {new}
    /\ FitIn({new})

Next == Enter \/ Leave \/ Move

Spec == Init /\ [][Next]_calendar

NoClash == \A e, f \in calendar : ~Clash(e, f)
=============================================================================
