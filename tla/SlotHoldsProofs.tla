--------------------------- MODULE SlotHoldsProofs ---------------------------
(***************************************************************************)
(* Why locking half hours keeps lessons apart, why looking three hours     *)
(* around finds every lesson in the way, and what follows for a teacher's  *)
(* time when rows, keys and handlers come together.                        *)
(***************************************************************************)
EXTENDS SlotHolds, TLAPS

-----------------------------------------------------------------------------
(* A supported duration is a whole number of half hours, at least one. *)
LEMMA DurationInSteps ==
  ASSUME NEW duration \in Int, IsDurationSupported(duration)
  PROVE  /\ duration \div SLOT_STEP_MINUTES \in 1..6
         /\ duration = SLOT_STEP_MINUTES * (duration \div SLOT_STEP_MINUTES)
  BY DEF IsDurationSupported, SLOT_STEP_MINUTES, MAX_BOOKING_DURATION_MINUTES

(* An aligned start is a whole number of half hours. *)
LEMMA StartInSteps ==
  ASSUME NEW start \in Int, IsSlotAligned(start)
  PROVE  /\ start \div SLOT_STEP_MINUTES \in Int
         /\ start = SLOT_STEP_MINUTES * (start \div SLOT_STEP_MINUTES)
  BY DEF IsSlotAligned, SLOT_STEP_MINUTES

(* Two lessons create_booking or reschedule_booking could accept overlap    *)
(* exactly when they share a Redis key: an atomic acquisition of all keys   *)
(* of a lesson therefore excludes every overlapping one, and no other.      *)
THEOREM OverlapIsSharedKey ==
  ASSUME NEW s \in Int, NEW t \in Int, NEW d \in Int, NEW e \in Int,
         IsSlotAligned(s), IsSlotAligned(t), IsDurationSupported(d), IsDurationSupported(e)
  PROVE  BookingsOverlap(s, d, t, e) <=> LockKeys(s, d) \cap LockKeys(t, e) # {}
<1> DEFINE a == s \div SLOT_STEP_MINUTES
           b == t \div SLOT_STEP_MINUTES
           m == d \div SLOT_STEP_MINUTES
           n == e \div SLOT_STEP_MINUTES
<1>1. a \in Int /\ b \in Int /\ s = SLOT_STEP_MINUTES * a /\ t = SLOT_STEP_MINUTES * b
  BY StartInSteps
<1>2. m \in 1..6 /\ n \in 1..6 /\ d = SLOT_STEP_MINUTES * m /\ e = SLOT_STEP_MINUTES * n
  BY DurationInSteps
<1>3. BookingsOverlap(s, d, t, e) <=> a < b + n /\ b < a + m
  <2> HIDE DEF a, b, m, n
  <2> QED
    BY <1>1, <1>2 DEF BookingsOverlap, SLOT_STEP_MINUTES
<1>4. LockKeys(s, d) = {s + SLOT_STEP_MINUTES * i : i \in 0..(m - 1)}
  BY DEF LockKeys
<1>5. LockKeys(t, e) = {t + SLOT_STEP_MINUTES * j : j \in 0..(n - 1)}
  BY DEF LockKeys
<1> HIDE DEF a, b, m, n
<1>6. ASSUME a < b + n, b < a + m PROVE LockKeys(s, d) \cap LockKeys(t, e) # {}
  <2>1. CASE a >= b
    <3>1. 0 \in 0..(m - 1) /\ a - b \in 0..(n - 1)
      BY <1>1, <1>2, <1>6, <2>1
    <3>2. s + SLOT_STEP_MINUTES * 0 = t + SLOT_STEP_MINUTES * (a - b)
      BY <1>1 DEF SLOT_STEP_MINUTES
    <3> QED
      BY <1>4, <1>5, <3>1, <3>2
  <2>2. CASE a < b
    <3>1. b - a \in 0..(m - 1) /\ 0 \in 0..(n - 1)
      BY <1>1, <1>2, <1>6, <2>2
    <3>2. s + SLOT_STEP_MINUTES * (b - a) = t + SLOT_STEP_MINUTES * 0
      BY <1>1 DEF SLOT_STEP_MINUTES
    <3> QED
      BY <1>4, <1>5, <3>1, <3>2
  <2> QED
    BY <1>1, <2>1, <2>2
<1>7. ASSUME NEW k \in LockKeys(s, d) \cap LockKeys(t, e) PROVE a < b + n /\ b < a + m
  <2>1. PICK i \in 0..(m - 1) : k = s + SLOT_STEP_MINUTES * i
    BY <1>4
  <2>2. PICK j \in 0..(n - 1) : k = t + SLOT_STEP_MINUTES * j
    BY <1>5
  <2>3. a + i = b + j
    BY <1>1, <1>2, <2>1, <2>2 DEF SLOT_STEP_MINUTES
  <2> QED
    BY <1>1, <1>2, <2>3
<1> QED
  BY <1>3, <1>6, <1>7

(* get_teacher_booking_conflicts misses nobody: whatever lesson overlaps an *)
(* occurrence between first and last starts inside the window it queries,   *)
(* because no lesson is longer than three hours.                            *)
THEOREM WindowCatchesEveryOverlap ==
  ASSUME NEW first \in Int, NEW last \in Int, NEW start \in first..last,
         NEW other \in Int, NEW d \in Int, NEW e \in Int,
         IsDurationSupported(d), IsDurationSupported(e),
         BookingsOverlap(start, d, other, e)
  PROVE  InQueryWindow(other, first, last)
  BY DEF IsDurationSupported, BookingsOverlap, InQueryWindow, MAX_BOOKING_DURATION_MINUTES,
         SLOT_STEP_MINUTES

(* The lessons of a series never overlap each other. *)
THEOREM WeeksKeepApart ==
  ASSUME NEW start \in Int, NEW j \in Int, NEW k \in Int, j # k, NEW d \in Int,
         IsDurationSupported(d)
  PROVE  ~BookingsOverlap(start + j * WeekMinutes, d, start + k * WeekMinutes, d)
  BY DEF IsDurationSupported, BookingsOverlap, WeekMinutes, MAX_BOOKING_DURATION_MINUTES,
         SLOT_STEP_MINUTES

-----------------------------------------------------------------------------
(* Lessons, occurrences and keys.                                          *)
LEMMA LessonParts ==
  /\ \A l \in Lesson : /\ Owner(l) \in Checkout /\ l[2] \in 0..(Weeks[Owner(l)] - 1)
                       /\ l = <<Owner(l), l[2]>>
  /\ \A c \in Checkout : Root(c) \in Lesson /\ Owner(Root(c)) = c
<1>1. \A c \in Checkout : Weeks[c] \in Nat /\ Weeks[c] # 0
  BY CheckoutAssumption
<1> QED
  BY <1>1 DEF Lesson, Owner, Root

LEMMA CheckoutParts ==
  ASSUME NEW c \in Checkout
  PROVE  /\ Weeks[c] \in Nat \ {0} /\ Duration[c] \in Nat /\ IsDurationSupported(Duration[c])
         /\ Starts[c] \subseteq Nat
  BY CheckoutAssumption

LEMMA OccurrencesAreMoments ==
  ASSUME NEW start \in Nat, NEW weeks \in Nat \ {0}
  PROVE  /\ start \in OccurrenceStarts(start, weeks)
         /\ OccurrenceStarts(start, weeks) \subseteq Nat
         /\ \A s \in OccurrenceStarts(start, weeks) : s >= start /\ s <= start + (weeks - 1) * WeekMinutes
         /\ start + (weeks - 1) * WeekMinutes \in OccurrenceStarts(start, weeks)
         /\ IsSlotAligned(start) => \A s \in OccurrenceStarts(start, weeks) : IsSlotAligned(s)
<1>1. 0 \in 0..(weeks - 1) /\ weeks - 1 \in 0..(weeks - 1)
  OBVIOUS
<1>2. ASSUME NEW k \in 0..(weeks - 1)
      PROVE  /\ start + k * WeekMinutes \in Nat /\ start + k * WeekMinutes >= start
             /\ start + k * WeekMinutes <= start + (weeks - 1) * WeekMinutes
             /\ IsSlotAligned(start) => IsSlotAligned(start + k * WeekMinutes)
  BY DEF WeekMinutes, IsSlotAligned, SLOT_STEP_MINUTES
<1>3. start + 0 * WeekMinutes = start
  BY DEF WeekMinutes
<1> QED
  BY <1>1, <1>2, <1>3 DEF OccurrenceStarts

-----------------------------------------------------------------------------
(* What holds of every row and every request, whoever runs in between.     *)
Row     == [status: Statuses, start: Nat, duration: Nat, expires: Nat]
Request == [at: {"idle", "creating", "moving", "create", "move", "moved"},
            lesson: Lesson \cup {<<>>}, start: Nat]

RequestShape(c, r) ==
  r.at # "idle" =>
    /\ r.start \in Starts[c] /\ IsSlotAligned(r.start)
    /\ r.lesson \in Lesson /\ Owner(r.lesson) = c
    /\ r.at \in {"creating", "create"} => r.lesson = Root(c)

RowShape(l, b) ==
  b.status # "absent" => b.duration = Duration[Owner(l)] /\ IsSlotAligned(b.start)

Shape == /\ TypeOK
         /\ \A c \in Checkout : RequestShape(c, handler[c])
         /\ \A l \in Lesson : RowShape(l, booking[l])

(* The listing and the history take part in no row, key or request.        *)
History == listed \in BOOLEAN /\ deprived \subseteq Lesson

LEMMA Typed ==
  /\ TypeOK => /\ now \in Nat /\ booking \in [Lesson -> Row] /\ holds \in [Key -> Nat]
               /\ handler \in [Checkout -> Request] /\ History
  /\ now \in Nat /\ booking \in [Lesson -> Row] /\ holds \in [Key -> Nat]
       /\ handler \in [Checkout -> Request] /\ History => TypeOK
  BY DEF TypeOK, Row, Request, History

(* Only later weeks are ever deprived, and what is deprived stays so.      *)
LEMMA HistoryGoesOn ==
  ASSUME TypeOK, [Next]_vars
  PROVE  History' /\ deprived \subseteq deprived' /\ \A l \in deprived' : l \in deprived \/ l[2] # 0
<1> DEFINE Kept == deprived' = deprived /\ listed' = listed
           Lost == listed' = listed /\ \E c, keys : deprived' = deprived \cup Losers(c, keys)
<1>1. \A c, keys : Release(c, keys) => deprived' = deprived \cup Losers(c, keys)
  BY DEF Release
<1>2. CASE UNCHANGED vars
  BY <1>2 DEF vars, TypeOK, History
<1>3. ASSUME NEW c \in Checkout,
             \/ \E start \in Starts[c] : CheckSlot(c, start)
             \/ AcquireHold(c) \/ HoldRefused(c) \/ CommitCreate(c) \/ Die(c)
             \/ CommitMove(c) \/ CancelSeries(c)
      PROVE  Kept
  BY <1>3 DEF CheckSlot, AcquireHold, HoldRefused, CommitCreate, Die, CommitMove, CancelSeries
<1>4. ASSUME NEW l \in Lesson, NEW start \in Starts[Owner(l)], CheckMove(l, start)
      PROVE  Kept
  BY <1>4 DEF CheckMove
<1>5. ASSUME NEW c \in Checkout,
             ReleaseMove(c) \/ FailCommit(c) \/ ItnComplete(c) \/ ItnFailed(c) \/ ExpireHold(c)
      PROVE  Lost
  BY <1>1, <1>5, Zenon DEF ReleaseMove, FailCommit, HandBack, ItnComplete, ItnFailed, ExpireHold, End
<1>6. ASSUME NEW l \in Lesson, CancelBooking(l) PROVE Lost
  BY <1>1, <1>6, Zenon DEF CancelBooking
<1>7. CASE ChangeListing
  BY <1>7 DEF ChangeListing, TypeOK, History
<1>8. CASE Tick
  BY <1>8 DEF Tick, TypeOK, History
<1>9. CASE Kept
  BY <1>9 DEF TypeOK, History
<1>10. CASE Lost
  <2>1. PICK c, keys : deprived' = deprived \cup Losers(c, keys)
    BY <1>10
  <2>2. \A l \in Losers(c, keys) : l \in Lesson /\ l[2] # 0
    BY DEF Losers
  <2> QED
    BY <1>10, <2>1, <2>2 DEF TypeOK, History
<1> HIDE DEF Kept, Lost
<1> QED
  BY <1>2, <1>3, <1>4, <1>5, <1>6, <1>7, <1>8, <1>9, <1>10 DEF Next

LEMMA RowFields ==
  ASSUME TypeOK, NEW l \in Lesson
  PROVE  /\ booking[l] \in Row /\ booking[l].status \in Statuses /\ booking[l].start \in Nat
         /\ booking[l].duration \in Nat /\ booking[l].expires \in Nat
<1>1. booking[l] \in Row
  BY Typed
<1> QED
  BY <1>1 DEF Row

LEMMA RequestFields ==
  ASSUME TypeOK, NEW c \in Checkout
  PROVE  /\ handler[c] \in Request /\ handler[c].start \in Nat
         /\ handler[c].at \in {"idle", "creating", "moving", "create", "move", "moved"}
         /\ handler[c].lesson \in Lesson \cup {<<>>}
<1>1. handler[c] \in Request
  BY Typed
<1> QED
  BY <1>1 DEF Request

LEMMA RestingRequest == Idle \in Request /\ Idle.at = "idle"
  BY DEF Idle, Request

(* One request changes.                                                    *)
LEMMA RequestSet ==
  ASSUME TypeOK, NEW c \in Checkout, NEW r \in Request, handler' = [handler EXCEPT ![c] = r]
  PROVE  /\ handler' \in [Checkout -> Request]
         /\ \A d \in Checkout : handler'[d] = IF d = c THEN r ELSE handler[d]
<1>1. handler \in [Checkout -> Request]
  BY Typed
<1> HIDE DEF Request
<1> QED
  BY <1>1

(* A request goes on to its next step.                                     *)
GoesOn(r, a) == [r EXCEPT !.at = a]

LEMMA RequestGoesOn ==
  ASSUME TypeOK, NEW c \in Checkout, NEW a \in {"idle", "creating", "moving", "create", "move", "moved"}
  PROVE  /\ GoesOn(handler[c], a) \in Request /\ GoesOn(handler[c], a).at = a
         /\ GoesOn(handler[c], a).lesson = handler[c].lesson
         /\ GoesOn(handler[c], a).start = handler[c].start
         /\ [handler EXCEPT ![c].at = a] = [handler EXCEPT ![c] = GoesOn(handler[c], a)]
<1>1. handler[c] \in Request /\ handler \in [Checkout -> Request]
  BY Typed
<1>2. /\ GoesOn(handler[c], a) \in Request /\ GoesOn(handler[c], a).at = a
      /\ GoesOn(handler[c], a).lesson = handler[c].lesson
      /\ GoesOn(handler[c], a).start = handler[c].start
  BY <1>1 DEF Request, GoesOn
<1>3. [handler EXCEPT ![c].at = a] = [handler EXCEPT ![c] = GoesOn(handler[c], a)]
  BY <1>1 DEF GoesOn
<1> QED
  BY <1>2, <1>3

(* The keys asked for at a start that may be asked for are keys of Redis.  *)
LEMMA KeysOfStarts ==
  ASSUME NEW c \in Checkout, NEW start \in Starts[c]
  PROVE  HoldKeys(c, start) \subseteq Key /\ LockKeys(start, Duration[c]) \subseteq HoldKeys(c, start)
<1>1. HoldKeys(c, start) \subseteq Key
  BY DEF Key
<1>2. start \in Nat /\ Weeks[c] \in Nat \ {0}
  BY CheckoutParts
<1>3. start \in OccurrenceStarts(start, Weeks[c])
  BY <1>2, OccurrencesAreMoments
<1> QED
  BY <1>1, <1>3 DEF HoldKeys, SlotLockKeys

LEMMA FreedKeys ==
  ASSUME TypeOK, NEW keys
  PROVE  /\ Freed(keys) \in [Key -> Nat]
         /\ \A k \in Key : Freed(keys)[k] = IF k \in keys THEN 0 ELSE holds[k]
  BY DEF TypeOK, Freed

-----------------------------------------------------------------------------
(* Every step keeps rows and requests in shape.                            *)

(* A step of one request, which may set or free keys.                      *)
LEMMA RequestKeepsShape ==
  ASSUME Shape, NEW c \in Checkout, NEW r \in Request, RequestShape(c, r),
         handler' = [handler EXCEPT ![c] = r], holds' \in [Key -> Nat], UNCHANGED <<now, booking>>,
         History'
  PROVE  Shape'
<1>1. TypeOK /\ \A d \in Checkout : RequestShape(d, handler[d])
  BY DEF Shape
<1>2. /\ handler' \in [Checkout -> Request]
      /\ \A d \in Checkout : handler'[d] = IF d = c THEN r ELSE handler[d]
  BY <1>1, RequestSet
<1>3. TypeOK'
  <2>1. now' \in Nat /\ booking' \in [Lesson -> Row]
    BY <1>1, Typed
  <2> QED
    BY <1>2, <2>1 DEF TypeOK, Row, Request, History
<1>4. \A d \in Checkout : RequestShape(d, handler'[d])
  BY <1>1, <1>2
<1>5. \A l \in Lesson : RowShape(l, booking'[l])
  BY DEF Shape
<1> QED
  BY <1>3, <1>4, <1>5 DEF Shape

(* A step that changes rows and leaves requests alone.                     *)
LEMMA RowsKeepShape ==
  ASSUME Shape, booking' \in [Lesson -> Row], \A l \in Lesson : RowShape(l, booking'[l]),
         holds' \in [Key -> Nat], now' \in Nat, UNCHANGED handler, History'
  PROVE  Shape'
<1>1. TypeOK'
  BY Typed DEF Shape, TypeOK, Row, Request, History
<1> QED
  BY <1>1 DEF Shape

LEMMA ChecksKeepShape ==
  ASSUME Shape, NEW c \in Checkout, NEW start \in Starts[c], History',
         CheckSlot(c, start) \/ \E l \in Lesson : Owner(l) = c /\ CheckMove(l, start)
  PROVE  Shape'
<1>1. TypeOK /\ start \in Nat /\ Root(c) \in Lesson /\ Owner(Root(c)) = c
  BY CheckoutParts, LessonParts DEF Shape
<1>2. holds' \in [Key -> Nat] /\ UNCHANGED <<now, booking>>
  BY <1>1 DEF CheckSlot, CheckMove, TypeOK
<1>3. ASSUME NEW a \in {"creating", "moving"}, NEW l \in Lesson, Owner(l) = c,
             a = "creating" => l = Root(c), IsSlotAligned(start),
             handler' = [handler EXCEPT ![c] = [at |-> a, lesson |-> l, start |-> start]]
      PROVE  Shape'
  <2> DEFINE r == [at |-> a, lesson |-> l, start |-> start]
  <2>1. r \in Request /\ r.at = a /\ r.lesson = l /\ r.start = start
    BY <1>1 DEF Request
  <2>2. handler' = [handler EXCEPT ![c] = r]
    BY <1>3
  <2> HIDE DEF r
  <2>3. RequestShape(c, r)
    BY <1>3, <2>1 DEF RequestShape
  <2> QED
    BY <1>2, <2>1, <2>2, <2>3, RequestKeepsShape
<1>4. CASE CheckSlot(c, start)
  <2>1. start \in OccurrenceStarts(start, Weeks[c])
    BY <1>1, CheckoutParts, OccurrencesAreMoments
  <2>2. IsSlotAligned(start)
    BY <1>4, <2>1 DEF CheckSlot, Bookable, IsWithinWeeklyAvailability
  <2>3. handler' = [handler EXCEPT ![c] = [at |-> "creating", lesson |-> Root(c), start |-> start]]
    BY <1>4 DEF CheckSlot
  <2> QED
    BY <1>1, <1>3, <2>2, <2>3
<1>5. CASE \E l \in Lesson : Owner(l) = c /\ CheckMove(l, start)
  <2>1. PICK l \in Lesson : Owner(l) = c /\ CheckMove(l, start)
    BY <1>5
  <2>2. IsSlotAligned(start)
    BY <2>1 DEF CheckMove, Bookable, IsWithinWeeklyAvailability
  <2>3. handler' = [handler EXCEPT ![c] = [at |-> "moving", lesson |-> l, start |-> start]]
    BY <2>1 DEF CheckMove
  <2> QED
    BY <1>3, <2>1, <2>2, <2>3
<1> QED
  BY <1>4, <1>5

(* What a step of a request that has looked does to it.                    *)
LEMMA RequestSteps ==
  ASSUME Shape, NEW c \in Checkout,
         AcquireHold(c) \/ HoldRefused(c) \/ ReleaseMove(c) \/ FailCommit(c) \/ Die(c)
  PROVE  /\ UNCHANGED <<now, booking>>
         /\ holds' \in [Key -> Nat]
         /\ \/ handler' = [handler EXCEPT ![c] = Idle]
            \/ /\ handler[c].at # "idle"
               /\ \E a \in {"create", "move"} :
                    /\ a = "create" <=> handler[c].at = "creating"
                    /\ handler' = [handler EXCEPT ![c] = GoesOn(handler[c], a)]
<1>1. TypeOK
  BY DEF Shape
<1>2. CASE AcquireHold(c)
  <2>1. /\ handler[c].at \in {"creating", "moving"} /\ UNCHANGED <<now, booking>>
        /\ holds' = [k \in Key |-> IF k \in Asked(c) THEN now + HoldTime ELSE holds[k]]
        /\ handler' = [handler EXCEPT ![c].at = IF @ = "creating" THEN "create" ELSE "move"]
    BY <1>2 DEF AcquireHold
  <2>2. holds' \in [Key -> Nat]
    BY <1>1, <2>1, ClockAssumption DEF TypeOK
  <2> DEFINE a == IF handler[c].at = "creating" THEN "create" ELSE "move"
  <2>3. a \in {"create", "move"} /\ (a = "create" <=> handler[c].at = "creating")
    OBVIOUS
  <2>4. handler' = [handler EXCEPT ![c].at = a]
    BY <1>1, <2>1 DEF TypeOK
  <2> HIDE DEF a
  <2>5. handler' = [handler EXCEPT ![c] = GoesOn(handler[c], a)]
    <3>1. a \in {"idle", "creating", "moving", "create", "move", "moved"}
      BY <2>3
    <3> QED
      BY <1>1, <2>4, <3>1, RequestGoesOn, Zenon
  <2> QED
    BY <2>1, <2>2, <2>3, <2>5
<1>3. CASE HoldRefused(c) \/ Die(c)
  BY <1>1, <1>3 DEF HoldRefused, Die, TypeOK
<1>4. CASE ReleaseMove(c) \/ FailCommit(c)
  BY <1>1, <1>4, FreedKeys DEF ReleaseMove, FailCommit, HandBack, Release
<1> QED
  BY <1>2, <1>3, <1>4

LEMMA StepsKeepShape ==
  ASSUME Shape, NEW c \in Checkout, History',
         AcquireHold(c) \/ HoldRefused(c) \/ ReleaseMove(c) \/ FailCommit(c) \/ Die(c)
  PROVE  Shape'
<1>1. TypeOK /\ RequestShape(c, handler[c])
  BY DEF Shape
<1>2. holds' \in [Key -> Nat] /\ UNCHANGED <<now, booking>>
  BY RequestSteps
<1>3. CASE handler' = [handler EXCEPT ![c] = Idle]
  BY <1>2, <1>3, RestingRequest, RequestKeepsShape DEF RequestShape
<1>4. ASSUME handler[c].at # "idle", NEW a \in {"create", "move"}, a = "create" <=> handler[c].at = "creating",
             handler' = [handler EXCEPT ![c] = GoesOn(handler[c], a)]
      PROVE  Shape'
  <2> DEFINE r == GoesOn(handler[c], a)
  <2>1. /\ r \in Request /\ r.at = a /\ r.lesson = handler[c].lesson /\ r.start = handler[c].start
    <3>1. a \in {"idle", "creating", "moving", "create", "move", "moved"}
      BY <1>4
    <3> QED
      BY <1>1, <3>1, RequestGoesOn, Zenon
  <2>2. RequestShape(c, r)
    BY <1>1, <1>4, <2>1 DEF RequestShape
  <2> QED
    BY <1>2, <1>4, <2>1, <2>2, RequestKeepsShape
<1> QED
  BY <1>3, <1>4, RequestSteps

(* One row changes.                                                        *)
LEMMA RowSet ==
  ASSUME TypeOK, NEW l \in Lesson, NEW b \in Row, booking' = [booking EXCEPT ![l] = b]
  PROVE  /\ booking' \in [Lesson -> Row]
         /\ \A m \in Lesson : booking'[m] = IF m = l THEN b ELSE booking[m]
<1>1. booking \in [Lesson -> Row]
  BY Typed
<1> HIDE DEF Row
<1> QED
  BY <1>1

(* The commits of create_booking and reschedule_booking.                   *)
LEMMA CommitCreateRows ==
  ASSUME Shape, NEW c \in Checkout, CommitCreate(c)
  PROVE  /\ booking' \in [Lesson -> Row]
         /\ \A m \in Lesson \ {Root(c)} : booking'[m] = booking[m]
         /\ booking'[Root(c)].status = "pending_payment" /\ booking'[Root(c)].start = handler[c].start
         /\ booking'[Root(c)].duration = Duration[c] /\ booking'[Root(c)].expires = now + HoldTime
         /\ handler' \in [Checkout -> Request] /\ handler'[c] = Idle
         /\ \A d \in Checkout \ {c} : handler'[d] = handler[d]
         /\ handler[c].at = "create" /\ UNCHANGED <<now, holds, deprived>>
<1>1. TypeOK
  BY DEF Shape
<1> DEFINE b == [status |-> "pending_payment", start |-> handler[c].start,
                 duration |-> Duration[c], expires |-> now + HoldTime]
<1>2. /\ handler[c].at = "create" /\ UNCHANGED <<now, holds, deprived>>
      /\ booking' = [booking EXCEPT ![Root(c)] = b] /\ handler' = [handler EXCEPT ![c] = Idle]
  BY DEF CommitCreate
<1>3. handler[c].start \in Nat /\ Duration[c] \in Nat /\ now + HoldTime \in Nat /\ Root(c) \in Lesson
  BY <1>1, RequestFields, CheckoutParts, LessonParts, ClockAssumption DEF TypeOK
<1>4. /\ b \in Row /\ b.status = "pending_payment" /\ b.start = handler[c].start
      /\ b.duration = Duration[c] /\ b.expires = now + HoldTime
  BY <1>3 DEF Row, Statuses
<1> HIDE DEF b
<1>5. /\ booking' \in [Lesson -> Row]
      /\ \A m \in Lesson : booking'[m] = IF m = Root(c) THEN b ELSE booking[m]
  BY <1>1, <1>2, <1>3, <1>4, RowSet
<1>6. /\ handler' \in [Checkout -> Request]
      /\ \A d \in Checkout : handler'[d] = IF d = c THEN Idle ELSE handler[d]
  BY <1>1, <1>2, RestingRequest, RequestSet
<1> QED
  BY <1>2, <1>3, <1>4, <1>5, <1>6

LEMMA CommitMoveRows ==
  ASSUME Shape, NEW c \in Checkout, CommitMove(c)
  PROVE  LET l == handler[c].lesson IN
         /\ l \in Lesson /\ Owner(l) = c
         /\ booking' \in [Lesson -> Row]
         /\ \A m \in Lesson \ {l} : booking'[m] = booking[m]
         /\ booking'[l].status = booking[l].status /\ booking'[l].start = handler[c].start
         /\ booking'[l].duration = booking[l].duration /\ booking'[l].expires = booking[l].expires
         /\ handler' = [handler EXCEPT ![c] = GoesOn(handler[c], "moved")]
         /\ handler[c].at = "move" /\ UNCHANGED <<now, holds, deprived>>
<1>1. TypeOK /\ RequestShape(c, handler[c])
  BY DEF Shape
<1> DEFINE l == handler[c].lesson
           b == [booking[l] EXCEPT !.start = handler[c].start]
<1>2. /\ handler[c].at = "move" /\ UNCHANGED <<now, holds, deprived>>
      /\ booking' = [booking EXCEPT ![l].start = handler[c].start]
      /\ handler' = [handler EXCEPT ![c].at = "moved"]
  BY DEF CommitMove
<1>3. l \in Lesson /\ Owner(l) = c /\ handler[c].start \in Nat
  BY <1>1, <1>2, RequestFields DEF RequestShape
<1>4. booking[l] \in Row
  BY <1>1, <1>3, RowFields
<1>5. /\ b \in Row /\ b.status = booking[l].status /\ b.start = handler[c].start
      /\ b.duration = booking[l].duration /\ b.expires = booking[l].expires
  <2> HIDE DEF l
  <2> QED
    BY <1>3, <1>4 DEF Row
<1>6. booking' = [booking EXCEPT ![l] = b]
  BY <1>1, <1>2 DEF TypeOK
<1>7. handler' = [handler EXCEPT ![c] = GoesOn(handler[c], "moved")]
  <2>1. "moved" \in {"idle", "creating", "moving", "create", "move", "moved"}
    OBVIOUS
  <2> QED
    BY <1>1, <1>2, <2>1, RequestGoesOn, Zenon
<1> HIDE DEF b, l
<1>8. /\ booking' \in [Lesson -> Row]
      /\ \A m \in Lesson : booking'[m] = IF m = l THEN b ELSE booking[m]
  BY <1>1, <1>3, <1>5, <1>6, RowSet
<1> QED
  BY <1>2, <1>3, <1>5, <1>7, <1>8 DEF l

LEMMA CommitsKeepShape ==
  ASSUME Shape, NEW c \in Checkout, CommitCreate(c) \/ CommitMove(c), History'
  PROVE  Shape'
<1>1. TypeOK /\ RequestShape(c, handler[c]) /\ (\A l \in Lesson : RowShape(l, booking[l]))
      /\ (\A d \in Checkout : RequestShape(d, handler[d]))
  BY DEF Shape
<1>2. CASE CommitCreate(c)
  <2>1. Owner(Root(c)) = c
    BY LessonParts
  <2>2. \A l \in Lesson : RowShape(l, booking'[l])
    BY <1>1, <1>2, <2>1, CommitCreateRows DEF RowShape, RequestShape
  <2>3. \A d \in Checkout : RequestShape(d, handler'[d])
    BY <1>1, <1>2, CommitCreateRows, RestingRequest DEF RequestShape
  <2>4. TypeOK'
    BY <1>1, <1>2, CommitCreateRows DEF TypeOK, Row, Request, History
  <2> QED
    BY <2>2, <2>3, <2>4 DEF Shape
<1>3. CASE CommitMove(c)
  <2> DEFINE l == handler[c].lesson
             r == GoesOn(handler[c], "moved")
  <2>1. "moved" \in {"idle", "creating", "moving", "create", "move", "moved"}
    OBVIOUS
  <2>2. r \in Request /\ r.at = "moved" /\ r.lesson = l /\ r.start = handler[c].start
    BY <1>1, <2>1, RequestGoesOn, Zenon
  <2>3. handler' = [handler EXCEPT ![c] = r]
    BY <1>3, CommitMoveRows
  <2> HIDE DEF r
  <2>4. /\ handler' \in [Checkout -> Request]
        /\ \A d \in Checkout : handler'[d] = IF d = c THEN r ELSE handler[d]
    BY <1>1, <2>2, <2>3, RequestSet
  <2>5. \A d \in Checkout : RequestShape(d, handler'[d])
    BY <1>1, <1>3, <2>2, <2>4, CommitMoveRows DEF RequestShape
  <2>6. \A m \in Lesson : RowShape(m, booking'[m])
    <3> SUFFICES ASSUME NEW m \in Lesson PROVE RowShape(m, booking'[m])
      OBVIOUS
    <3>1. CASE m = l
      BY <1>1, <1>3, <3>1, CommitMoveRows DEF RowShape, RequestShape
    <3>2. CASE m # l
      BY <1>1, <1>3, <3>2, CommitMoveRows
    <3> QED
      BY <3>1, <3>2
  <2>7. TypeOK'
    BY <1>1, <1>3, <2>4, CommitMoveRows DEF TypeOK, Row, Request, History
  <2> QED
    BY <2>5, <2>6, <2>7 DEF Shape
<1> QED
  BY <1>2, <1>3

(* A payment in time confirms the lessons of its checkout.                 *)
LEMMA ItnCompleteRows ==
  ASSUME Shape, NEW c \in Checkout, ItnComplete(c)
  PROVE  /\ booking' \in [Lesson -> Row]
         /\ \A l \in Lesson : Owner(l) # c => booking'[l] = booking[l]
         /\ \A l \in Lesson : Owner(l) = c =>
              /\ booking'[l].status = "confirmed" /\ booking'[l].expires = 0
              /\ booking'[l].start = booking[Root(c)].start + l[2] * WeekMinutes
              /\ booking'[l].duration = booking[Root(c)].duration
         /\ holds' \in [Key -> Nat] /\ holds' = Freed(HoldKeys(c, booking[Root(c)].start))
         /\ booking[Root(c)].status = "pending_payment" /\ booking[Root(c)].expires > now
         /\ booking[Root(c)].expires < now + HoldTime
         /\ UNCHANGED <<now, handler>>
<1>1. TypeOK /\ now \in Nat
  BY DEF Shape, TypeOK
<1> DEFINE root == booking[Root(c)]
           b(l) == [status |-> "confirmed", start |-> LaterStart(root, l[2]),
                    duration |-> root.duration, expires |-> 0]
<1>2. root.start \in Nat /\ root.duration \in Nat /\ root.expires \in Nat
  BY <1>1, LessonParts, RowFields
<1>3. ASSUME NEW l \in Lesson, Owner(l) = c
      PROVE  /\ b(l) \in Row /\ b(l).status = "confirmed" /\ b(l).expires = 0
             /\ b(l).start = root.start + l[2] * WeekMinutes /\ b(l).duration = root.duration
  <2>1. l[2] \in Nat
    BY LessonParts, CheckoutParts
  <2>2. root.start + l[2] * WeekMinutes \in Nat
    BY <1>2, <2>1 DEF WeekMinutes
  <2> HIDE DEF root
  <2> QED
    BY <1>2, <2>2 DEF Row, Statuses, LaterStart
<1>4. booking' = [l \in Lesson |-> IF Owner(l) # c THEN booking[l] ELSE b(l)]
  BY DEF ItnComplete
<1>5. /\ AtPayFast(c) /\ ~Lapsed(c) /\ UNCHANGED <<now, handler>>
      /\ holds' = Freed(HoldKeys(c, root.start))
  BY DEF ItnComplete, Release
<1>6. /\ root.status = "pending_payment" /\ root.expires < now + HoldTime /\ root.expires > now
  BY <1>1, <1>2, <1>5 DEF AtPayFast, Lapsed
<1>7. holds' \in [Key -> Nat]
  BY <1>1, <1>5, FreedKeys
<1> HIDE DEF b
<1>8. \A l \in Lesson : booking[l] \in Row
  BY <1>1, RowFields
<1>9. booking' \in [Lesson -> Row]
  <2> HIDE DEF root
  <2> QED
    BY <1>3, <1>4, <1>8
<1>10. \A l \in Lesson : booking'[l] = IF Owner(l) # c THEN booking[l] ELSE b(l)
  BY <1>4
<1> QED
  BY <1>3, <1>5, <1>6, <1>7, <1>9, <1>10

(* Expiry and cancellation end lessons that were pending or confirmed, and *)
(* move none.                                                              *)
Ended(l) ==
  /\ booking[l].status \in {"pending_payment", "confirmed"}
  /\ booking'[l].status \in {"expired", "cancelled"}
  /\ booking'[l].start = booking[l].start /\ booking'[l].duration = booking[l].duration

LEMMA RowEnds ==
  ASSUME Shape, NEW l \in Lesson, booking[l].status \in {"pending_payment", "confirmed"},
         NEW status \in {"expired", "cancelled"},
         booking' = [booking EXCEPT ![l] = [@ EXCEPT !.status = status, !.expires = 0]]
  PROVE  /\ booking' \in [Lesson -> Row] /\ Ended(l)
         /\ \A m \in Lesson \ {l} : booking'[m] = booking[m]
<1>1. TypeOK
  BY DEF Shape
<1> DEFINE b == [booking[l] EXCEPT !.status = status, !.expires = 0]
<1>2. booking[l] \in Row
  BY <1>1, RowFields
<1>3. b \in Row /\ b.status = status /\ b.start = booking[l].start /\ b.duration = booking[l].duration
  BY <1>2 DEF Row, Statuses
<1>4. booking' = [booking EXCEPT ![l] = b]
  OBVIOUS
<1> HIDE DEF b
<1>5. /\ booking' \in [Lesson -> Row]
      /\ \A m \in Lesson : booking'[m] = IF m = l THEN b ELSE booking[m]
  BY <1>1, <1>3, <1>4, RowSet
<1> QED
  BY <1>3, <1>5 DEF Ended

LEMMA EndingRows ==
  ASSUME Shape,
         \/ \E c \in Checkout : ItnFailed(c) \/ ExpireHold(c) \/ CancelSeries(c)
         \/ \E l \in Lesson : CancelBooking(l)
  PROVE  /\ booking' \in [Lesson -> Row] /\ holds' \in [Key -> Nat]
         /\ UNCHANGED <<now, handler>>
         /\ \A l \in Lesson : booking'[l] = booking[l] \/ Ended(l)
<1>1. TypeOK
  BY DEF Shape
<1>2. ASSUME NEW c \in Checkout, NEW status \in {"expired", "cancelled"}, End(c, status),
             booking[Root(c)].status = "pending_payment"
      PROVE  /\ booking' \in [Lesson -> Row] /\ holds' \in [Key -> Nat]
             /\ UNCHANGED <<now, handler>>
             /\ \A l \in Lesson : booking'[l] = booking[l] \/ Ended(l)
  <2>1. Root(c) \in Lesson
    BY LessonParts
  <2>2. /\ booking' \in [Lesson -> Row] /\ Ended(Root(c))
        /\ \A m \in Lesson \ {Root(c)} : booking'[m] = booking[m]
    BY <1>2, <2>1, RowEnds DEF End
  <2>3. holds' \in [Key -> Nat] /\ UNCHANGED <<now, handler>>
    BY <1>1, <1>2, FreedKeys DEF End, Release
  <2> QED
    BY <2>2, <2>3
<1>3. ASSUME NEW c \in Checkout, ItnFailed(c) \/ ExpireHold(c)
      PROVE  End(c, "expired") /\ booking[Root(c)].status = "pending_payment"
  BY <1>3 DEF ItnFailed, ExpireHold, AtPayFast
<1>4. ASSUME NEW l \in Lesson, CancelBooking(l)
      PROVE  /\ booking' \in [Lesson -> Row] /\ holds' \in [Key -> Nat]
             /\ UNCHANGED <<now, handler>>
             /\ \A m \in Lesson : booking'[m] = booking[m] \/ Ended(m)
  <2>1. /\ booking' \in [Lesson -> Row] /\ Ended(l)
        /\ \A m \in Lesson \ {l} : booking'[m] = booking[m]
    BY <1>4, RowEnds DEF CancelBooking
  <2>2. holds' \in [Key -> Nat] /\ UNCHANGED <<now, handler>>
    BY <1>1, <1>4, FreedKeys DEF CancelBooking, Release
  <2> QED
    BY <2>1, <2>2
<1>5. ASSUME NEW c \in Checkout, CancelSeries(c)
      PROVE  /\ booking' \in [Lesson -> Row] /\ holds' \in [Key -> Nat]
             /\ UNCHANGED <<now, handler>>
             /\ \A m \in Lesson : booking'[m] = booking[m] \/ Ended(m)
  <2> DEFINE siblings == {l \in Lesson : /\ Owner(l) = c
                                        /\ booking[l].status = "confirmed"
                                        /\ booking[l].start > now}
             b(l) == [booking[l] EXCEPT !.status = "cancelled"]
  <2>1. /\ booking' = [l \in Lesson |-> IF l \in siblings THEN b(l) ELSE booking[l]]
        /\ UNCHANGED <<now, holds, handler>>
    BY <1>5 DEF CancelSeries
  <2>2. ASSUME NEW l \in Lesson
        PROVE  /\ booking[l] \in Row /\ b(l) \in Row /\ b(l).status = "cancelled"
               /\ b(l).start = booking[l].start /\ b(l).duration = booking[l].duration
    <3>1. booking[l] \in Row
      BY <1>1, RowFields
    <3> QED
      BY <3>1 DEF Row, Statuses
  <2>3. \A l \in siblings : booking[l].status = "confirmed"
    OBVIOUS
  <2> HIDE DEF siblings, b
  <2>4. booking' \in [Lesson -> Row]
    BY <2>1, <2>2
  <2>5. \A l \in Lesson : booking'[l] = IF l \in siblings THEN b(l) ELSE booking[l]
    BY <2>1
  <2>6. holds' \in [Key -> Nat] /\ UNCHANGED <<now, handler>>
    BY <1>1, <2>1 DEF TypeOK
  <2> QED
    BY <2>2, <2>3, <2>4, <2>5, <2>6 DEF Ended
<1> QED
  BY <1>2, <1>3, <1>4, <1>5

LEMMA TickRows ==
  ASSUME Shape, Tick
  PROVE  /\ Quiet /\ now' \in Nat /\ now' > now /\ now' <= MaxTime /\ holds' \in [Key -> Nat]
         /\ \A k \in Key : holds'[k] = IF holds[k] > now' THEN holds[k] ELSE 0
         /\ UNCHANGED <<booking, handler>>
<1>1. TypeOK
  BY DEF Shape
<1>2. /\ Quiet /\ now + ClockStep <= MaxTime /\ now' = now + ClockStep
      /\ holds' = [k \in Key |-> IF holds[k] > now' THEN holds[k] ELSE 0]
      /\ UNCHANGED <<booking, handler>>
  BY DEF Tick
<1>3. now' \in Nat /\ now' > now
  BY <1>1, <1>2, ClockAssumption DEF TypeOK
<1> QED
  BY <1>1, <1>2, <1>3 DEF TypeOK

LEMMA ListingRows ==
  ASSUME ChangeListing PROVE UNCHANGED <<now, booking, holds, handler, deprived>>
  BY DEF ChangeListing

LEMMA ShapeInit == Init => Shape
<1> SUFFICES ASSUME Init PROVE Shape
  OBVIOUS
<1>1. Absent \in Row /\ Absent.status = "absent"
  BY DEF Absent, Row, Statuses
<1>2. TypeOK
  BY <1>1, RestingRequest DEF Init, TypeOK, Row, Request
<1> QED
  BY <1>1, <1>2, RestingRequest DEF Init, Shape, RequestShape, RowShape

LEMMA ShapeNext == Shape /\ [Next]_vars => Shape'
<1> SUFFICES ASSUME Shape, [Next]_vars PROVE Shape'
  OBVIOUS
<1>1. TypeOK /\ \A l \in Lesson : RowShape(l, booking[l])
  BY DEF Shape
<1>0. History'
  BY <1>1, HistoryGoesOn
<1>2. CASE UNCHANGED vars
  BY <1>2 DEF Shape, TypeOK, vars
<1>3. ASSUME NEW c \in Checkout, \E start \in Starts[c] : CheckSlot(c, start)
      PROVE  Shape'
  BY <1>0, <1>3, ChecksKeepShape
<1>4. ASSUME NEW l \in Lesson, NEW start \in Starts[Owner(l)], CheckMove(l, start)
      PROVE  Shape'
  BY <1>0, <1>4, LessonParts, ChecksKeepShape
<1>5. ASSUME NEW c \in Checkout,
             \/ AcquireHold(c) \/ HoldRefused(c) \/ ReleaseMove(c) \/ FailCommit(c) \/ Die(c)
             \/ CommitCreate(c) \/ CommitMove(c)
      PROVE  Shape'
  BY <1>0, <1>5, StepsKeepShape, CommitsKeepShape
<1>6. ASSUME NEW c \in Checkout, ItnComplete(c)
      PROVE  Shape'
  <2>1. /\ booking[Root(c)].duration = Duration[c] /\ IsSlotAligned(booking[Root(c)].start)
        /\ booking[Root(c)].start \in Nat
    BY <1>1, <1>6, ItnCompleteRows, LessonParts, RowFields DEF RowShape
  <2>2. ASSUME NEW l \in Lesson PROVE RowShape(l, booking'[l])
    <3>1. CASE Owner(l) = c
      <4>1. l[2] \in Nat
        BY LessonParts, CheckoutParts
      <4>2. IsSlotAligned(booking[Root(c)].start + l[2] * WeekMinutes)
        BY <2>1, <4>1 DEF IsSlotAligned, SLOT_STEP_MINUTES, WeekMinutes
      <4> QED
        BY <1>6, <2>1, <3>1, <4>2, ItnCompleteRows DEF RowShape
    <3>2. CASE Owner(l) # c
      BY <1>1, <1>6, <3>2, ItnCompleteRows
    <3> QED
      BY <3>1, <3>2
  <2> QED
    BY <1>0, <1>1, <1>6, <2>2, ItnCompleteRows, RowsKeepShape DEF TypeOK
<1>7. ASSUME \/ \E c \in Checkout : ItnFailed(c) \/ ExpireHold(c) \/ CancelSeries(c)
             \/ \E l \in Lesson : CancelBooking(l)
      PROVE  Shape'
  <2>1. /\ booking' \in [Lesson -> Row] /\ holds' \in [Key -> Nat] /\ UNCHANGED <<now, handler>>
        /\ \A l \in Lesson : booking'[l] = booking[l] \/ Ended(l)
    BY <1>7, EndingRows
  <2>2. ASSUME NEW l \in Lesson PROVE RowShape(l, booking'[l])
    BY <1>1, <2>1 DEF RowShape, Ended
  <2> QED
    BY <1>0, <1>1, <2>1, <2>2, RowsKeepShape DEF TypeOK
<1>8. CASE Tick
  BY <1>0, <1>1, <1>8, TickRows, RowsKeepShape DEF TypeOK, Row, Request
<1>9. CASE ChangeListing
  BY <1>0, <1>1, <1>9, ListingRows, RowsKeepShape DEF TypeOK, Row, Request, Shape
<1> QED
  BY <1>2, <1>3, <1>4, <1>5, <1>6, <1>7, <1>8, <1>9 DEF Next

LEMMA ShapeAlways == Spec => []Shape
  BY ShapeInit, ShapeNext, PTL DEF Spec

(* Rows, keys and requests keep their types, however requests overlap.     *)
THEOREM RowsAndKeysAreTyped == Spec => []TypeOK
<1>1. Shape => TypeOK
  BY DEF Shape
<1> QED
  BY <1>1, ShapeAlways, PTL

-----------------------------------------------------------------------------
(* What the queries of the rows find.                                      *)

(* Some of these lessons block time that is asked for.                     *)
Clashes(lessons, starts, duration) ==
  \E l \in lessons, s \in starts :
    /\ BlocksTime(booking[l], now)
    /\ BookingsOverlap(s, duration, booking[l].start, booking[l].duration)

LEMMA BlockingRows ==
  ASSUME Shape, NEW l \in Lesson, BlocksTime(booking[l], now)
  PROVE  /\ booking[l].start \in Nat /\ booking[l].duration \in Nat
         /\ IsDurationSupported(booking[l].duration) /\ IsSlotAligned(booking[l].start)
         /\ booking[l].duration = Duration[Owner(l)]
<1>1. booking[l].status # "absent"
  BY DEF BlocksTime, ActiveStatuses
<1> QED
  BY <1>1, RowFields, LessonParts, CheckoutParts DEF Shape, RowShape

LEMMA ConflictsMean ==
  ASSUME Shape, NEW L \in SUBSET Lesson, NEW first \in Int, NEW last \in Int,
         NEW starts \in SUBSET (first..last), NEW d \in Nat, IsDurationSupported(d)
  PROVE  SlotConflicts(BookingConflicts({booking[l] : l \in L}, first, last, now), starts, d)
           <=> Clashes(L, starts, d)
<1>1. ASSUME NEW l \in L, NEW s \in starts, BlocksTime(booking[l], now),
             BookingsOverlap(s, d, booking[l].start, booking[l].duration)
      PROVE  InQueryWindow(booking[l].start, first, last)
  <2>1. /\ booking[l].start \in Int /\ booking[l].duration \in Int
        /\ IsDurationSupported(booking[l].duration)
    BY <1>1, BlockingRows
  <2>2. s \in first..last /\ d \in Int
    OBVIOUS
  <2> QED
    BY <1>1, <2>1, <2>2, WindowCatchesEveryOverlap
<1> QED
  BY <1>1 DEF SlotConflicts, BookingConflicts, Clashes

LEMMA TakenMeans ==
  ASSUME Shape, NEW L \in SUBSET Lesson, NEW start \in Nat, NEW weeks \in Nat \ {0},
         NEW d \in Nat, IsDurationSupported(d)
  PROVE  Taken(OccurrenceStarts(start, weeks), d, {booking[l] : l \in L})
           <=> Clashes(L, OccurrenceStarts(start, weeks), d)
<1> DEFINE starts == OccurrenceStarts(start, weeks)
           last == start + (weeks - 1) * WeekMinutes
<1>1. /\ start \in starts /\ last \in starts /\ starts \subseteq Nat
      /\ \A s \in starts : start <= s /\ s <= last
  BY OccurrencesAreMoments
<1> HIDE DEF starts, last
<1>2. last \in Int /\ start \in Int /\ starts \in SUBSET (start..last)
  BY <1>1
<1>3. Clashes(L, starts, d) => Taken(starts, d, {booking[l] : l \in L})
  BY <1>1, <1>2, ConflictsMean DEF Taken
<1>4. ASSUME Taken(starts, d, {booking[l] : l \in L}) PROVE Clashes(L, starts, d)
  BY <1>4 DEF Taken, SlotConflicts, BookingConflicts, Clashes
<1> QED
  BY <1>3, <1>4 DEF starts

LEMMA OneOccurrence == ASSUME NEW start \in Nat PROVE OccurrenceStarts(start, 1) = {start}
<1>1. 0..(1 - 1) = {0} /\ start + 0 * WeekMinutes = start
  BY DEF WeekMinutes
<1> QED
  BY <1>1 DEF OccurrenceStarts

-----------------------------------------------------------------------------
(* Days and windows.                                                       *)
LEMMA DaysAndTimes ==
  ASSUME NEW m \in Nat
  PROVE  /\ Date(m) \in Nat /\ TimeOfDay(m) \in 0..(DayMinutes - 1)
         /\ m = Date(m) * DayMinutes + TimeOfDay(m)
  BY DEF Date, TimeOfDay, DayMinutes

LEMMA DayOf ==
  ASSUME NEW day \in Nat, NEW time \in 0..(DayMinutes - 1)
  PROVE  Date(day * DayMinutes + time) = day /\ TimeOfDay(day * DayMinutes + time) = time
  BY DEF Date, TimeOfDay, DayMinutes

LEMMA WeekLater ==
  ASSUME NEW m \in Nat, NEW k \in Nat
  PROVE  /\ Date(m + k * WeekMinutes) = Date(m) + 7 * k
         /\ TimeOfDay(m + k * WeekMinutes) = TimeOfDay(m)
         /\ Weekday(Date(m + k * WeekMinutes)) = Weekday(Date(m))
<1>1. Date(m) \in Nat /\ TimeOfDay(m) \in 0..(DayMinutes - 1) /\ m = Date(m) * DayMinutes + TimeOfDay(m)
  BY DaysAndTimes
<1>2. m + k * WeekMinutes = (Date(m) + 7 * k) * DayMinutes + TimeOfDay(m) /\ Date(m) + 7 * k \in Nat
  <2> DEFINE day == Date(m)
             time == TimeOfDay(m)
  <2>1. day \in Nat /\ time \in Nat /\ m = day * 1440 + time
    BY <1>1 DEF DayMinutes
  <2> HIDE DEF day, time
  <2>2. m + k * 10080 = (day + 7 * k) * 1440 + time /\ day + 7 * k \in Nat
    BY <2>1
  <2> QED
    BY <2>2 DEF WeekMinutes, DayMinutes, day, time
<1>3. Date(m + k * WeekMinutes) = Date(m) + 7 * k /\ TimeOfDay(m + k * WeekMinutes) = TimeOfDay(m)
  BY <1>1, <1>2, DayOf
<1>4. (Date(m) + 7 * k) % 7 = Date(m) % 7
  BY <1>1
<1> QED
  BY <1>3, <1>4 DEF Weekday

(* What is available in one week is available in every week.               *)
LEMMA AvailableEveryWeek ==
  ASSUME NEW windows, NEW start \in Nat, NEW k \in Nat, NEW d \in Nat
  PROVE  IsWithinWeeklyAvailability(windows, start + k * WeekMinutes, d)
           <=> IsWithinWeeklyAvailability(windows, start, d)
<1> DEFINE later == start + k * WeekMinutes
<1>1. /\ Date(later) = Date(start) + 7 * k /\ TimeOfDay(later) = TimeOfDay(start)
      /\ Weekday(Date(later)) = Weekday(Date(start))
  BY WeekLater
<1>2. /\ Date((start + d) + k * WeekMinutes) = Date(start + d) + 7 * k
      /\ TimeOfDay((start + d) + k * WeekMinutes) = TimeOfDay(start + d)
  <2>1. start + d \in Nat
    OBVIOUS
  <2> QED
    BY <2>1, WeekLater
<1>3. later + d = (start + d) + k * WeekMinutes
  BY DEF WeekMinutes
<1>4. IsSlotAligned(later) <=> IsSlotAligned(start)
  BY DEF IsSlotAligned, SLOT_STEP_MINUTES, WeekMinutes
<1>5. Date(start) \in Nat /\ Date(start + d) \in Nat
  BY DaysAndTimes
<1> HIDE DEF later
<1>6. Date(later + d) = Date(later) <=> Date(start + d) = Date(start)
  BY <1>1, <1>2, <1>3, <1>5
<1>7. TimeOfDay(later + d) = TimeOfDay(start + d)
  BY <1>2, <1>3
<1> QED
  BY <1>1, <1>4, <1>6, <1>7 DEF IsWithinWeeklyAvailability, later

-----------------------------------------------------------------------------
(* The search for slots and the checks of the handlers.                    *)
LEMMA DaysOfSearch ==
  ASSUME TypeOK
  PROVE  Cutoff \in Nat /\ SearchDates \subseteq Nat
<1>1. Cutoff \in Nat
  BY ClockAssumption DEF TypeOK, Cutoff
<1>2. Date(Cutoff) \in Nat
  BY <1>1, DaysAndTimes
<1> QED
  BY <1>1, <1>2, ClockAssumption DEF SearchDates

LEMMA WhatIsACandidate ==
  ASSUME NEW start, NEW d
  PROVE  start \in Candidates(d) <=>
           \E date \in SearchDates, w \in Windows, k \in 0..47 :
             /\ start = date * DayMinutes + w.from + k * SLOT_STEP_MINUTES
             /\ w.day = Weekday(date) /\ start + d <= date * DayMinutes + w.to
<1> DEFINE Places(date, w) == {date * DayMinutes + w.from + k * SLOT_STEP_MINUTES : k \in 0..47}
           Found(date, w) ==
             {s \in Places(date, w) : w.day = Weekday(date) /\ s + d <= date * DayMinutes + w.to}
<1>1. Candidates(d) = UNION {Found(date, w) : date \in SearchDates, w \in Windows}
  BY DEF Candidates
<1>2. ASSUME NEW date, NEW w
      PROVE  start \in Found(date, w) <=>
               \E k \in 0..47 : /\ start = date * DayMinutes + w.from + k * SLOT_STEP_MINUTES
                               /\ w.day = Weekday(date) /\ start + d <= date * DayMinutes + w.to
  BY Zenon
<1> HIDE DEF Found, Places
<1>3. start \in Candidates(d) <=> \E date \in SearchDates, w \in Windows : start \in Found(date, w)
  BY <1>1
<1> QED
  BY <1>2, <1>3, Zenon

(* The walk through the windows finds starts on the days that are searched, *)
(* and those on the half hour are within weekly availability.               *)
LEMMA CandidatesAreAvailable ==
  ASSUME TypeOK, NEW d \in Nat, IsDurationSupported(d), NEW start \in Candidates(d)
  PROVE  /\ start \in Nat /\ Date(start) \in SearchDates
         /\ IsSlotAligned(start) => IsWithinWeeklyAvailability(Windows, start, d)
<1>1. PICK date \in SearchDates, w \in Windows, k \in 0..47 :
        /\ start = date * DayMinutes + w.from + k * SLOT_STEP_MINUTES
        /\ w.day = Weekday(date) /\ start + d <= date * DayMinutes + w.to
  BY WhatIsACandidate
<1>2. date \in Nat /\ w.from \in 0..1439 /\ w.to \in 0..1439
  BY DaysOfSearch, WindowAssumption DEF DayMinutes
<1> DEFINE time == w.from + k * SLOT_STEP_MINUTES
<1>3. time \in Nat /\ start = date * DayMinutes + time /\ time + d <= w.to /\ w.from <= time
  <2> DEFINE from == w.from
             to == w.to
  <2>1. /\ from \in 0..1439 /\ to \in 0..1439
        /\ start = date * 1440 + from + k * 30 /\ start + d <= date * 1440 + to
    BY <1>1, <1>2 DEF SLOT_STEP_MINUTES, DayMinutes
  <2>2. time = from + k * 30
    BY DEF SLOT_STEP_MINUTES
  <2> HIDE DEF from, to, time
  <2>3. /\ time \in Nat /\ start = date * 1440 + time /\ time + d <= to /\ from <= time
    BY <1>2, <2>1, <2>2
  <2> QED
    BY <2>3 DEF DayMinutes, to, from
<1> HIDE DEF time
<1>4. time \in 0..(DayMinutes - 1) /\ time + d \in 0..(DayMinutes - 1)
  <2> DEFINE to == w.to
  <2>1. to \in 0..1439 /\ time + d <= to
    BY <1>2, <1>3
  <2> HIDE DEF to
  <2>2. time \in Nat
    BY <1>3
  <2> QED
    BY <2>1, <2>2, SMTT(20) DEF DayMinutes
<1>5. Date(start) = date /\ TimeOfDay(start) = time
  BY <1>2, <1>3, <1>4, DayOf
<1>6. start + d = date * DayMinutes + (time + d)
  BY <1>2, <1>3 DEF DayMinutes
<1>7. Date(start + d) = date /\ TimeOfDay(start + d) = time + d
  BY <1>2, <1>4, <1>6, DayOf
<1>8. start \in Nat
  BY <1>2, <1>3 DEF DayMinutes
<1> QED
  BY <1>1, <1>3, <1>5, <1>7, <1>8 DEF IsWithinWeeklyAvailability

(* From a window on the half hour the walk reaches every start within it.   *)
LEMMA AvailableIsCandidate ==
  ASSUME TypeOK, NEW d \in Nat, NEW start \in Nat, Date(start) \in SearchDates,
         IsWithinWeeklyAvailability(OnTheGrid, start, d)
  PROVE  start \in Candidates(d)
<1>1. PICK w \in OnTheGrid : /\ w.day = Weekday(Date(start))
                             /\ w.from <= TimeOfDay(start)
                             /\ TimeOfDay(start + d) <= w.to
  BY DEF IsWithinWeeklyAvailability
<1>2. w \in Windows /\ w.from \in 0..1439 /\ w.to \in 0..1439 /\ IsSlotAligned(w.from)
  BY WindowAssumption DEF DayMinutes, OnTheGrid
<1> DEFINE date == Date(start)
           time == TimeOfDay(start)
           end == TimeOfDay(start + d)
           k == (time - w.from) \div SLOT_STEP_MINUTES
<1>3. date \in Nat /\ time \in 0..1439 /\ start = date * DayMinutes + time
  BY DaysAndTimes DEF DayMinutes
<1>4. start + d = date * DayMinutes + end
  <2>1. start + d \in Nat
    OBVIOUS
  <2> QED
    BY <2>1, DaysAndTimes DEF IsWithinWeeklyAvailability
<1>5. IsSlotAligned(start)
  BY DEF IsWithinWeeklyAvailability
<1>6. k \in 0..47 /\ start = date * DayMinutes + w.from + k * SLOT_STEP_MINUTES
  <2> DEFINE from == w.from
  <2>1. /\ from \in 0..1439 /\ from % 30 = 0 /\ start % 30 = 0 /\ from <= time
        /\ start = date * 1440 + time
    <3>1. from \in 0..1439 /\ from <= time
      BY <1>1, <1>2
    <3>2. from % 30 = 0 /\ start % 30 = 0
      BY <1>2, <1>5 DEF IsSlotAligned, SLOT_STEP_MINUTES
    <3>3. start = date * 1440 + time
      BY <1>3 DEF DayMinutes
    <3> QED
      BY <3>1, <3>2, <3>3
  <2>2. k = (time - from) \div 30
    BY DEF SLOT_STEP_MINUTES
  <2> HIDE DEF date, time, k, from
  <2>3. time % 30 = 0
    <3>1. PICK i \in Int : start = 30 * i
      BY <2>1
    <3>2. time = 30 * (i - 48 * date) /\ i - 48 * date \in Int
      BY <1>3, <2>1, <3>1
    <3> QED
      BY <3>2
  <2>4. (time - from) % 30 = 0 /\ time - from \in 0..1439
    <3>1. PICK i \in Int : time = 30 * i
      BY <1>3, <2>3
    <3>2. PICK j \in Int : from = 30 * j
      BY <2>1
    <3>3. time - from = 30 * (i - j) /\ i - j \in Int /\ time - from \in 0..1439
      BY <1>3, <2>1, <3>1, <3>2
    <3> QED
      BY <3>3
  <2>5. k \in 0..47 /\ time - from = 30 * k
    BY <2>2, <2>4
  <2>6. start = date * 1440 + from + k * 30
    BY <1>3, <2>1, <2>5
  <2> QED
    BY <2>5, <2>6 DEF DayMinutes, SLOT_STEP_MINUTES, from
<1>7. start + d <= date * DayMinutes + w.to
  <2> DEFINE to == w.to
  <2>1. end <= to /\ to \in Nat /\ end \in Nat
    <3>1. start + d \in Nat
      OBVIOUS
    <3>2. end \in Nat
      <4>1. TimeOfDay(start + d) \in 0..(DayMinutes - 1)
        BY <3>1, DaysAndTimes
      <4> QED
        BY <4>1 DEF DayMinutes
    <3>3. to \in 0..1439
      BY <1>2
    <3> HIDE DEF end
    <3>4. end <= to
      BY <1>1 DEF end
    <3> QED
      BY <3>2, <3>3, <3>4, SMTT(20)
  <2> HIDE DEF date, end, to
  <2> QED
    BY <1>3, <1>4, <2>1 DEF DayMinutes, to
<1> HIDE DEF k
<1>8. date \in SearchDates /\ w.day = Weekday(date)
  BY <1>1
<1> HIDE DEF date
<1> QED
  BY <1>2, <1>6, <1>7, <1>8, WhatIsACandidate

LEMMA SearchReaches ==
  ASSUME TypeOK, NEW weeks \in Nat \ {0}, NEW start \in Nat, Date(start) \in SearchDates, start >= Cutoff
  PROVE  /\ SearchEnd(weeks) \in Int
         /\ OccurrenceStarts(start, weeks) \in SUBSET (Cutoff..SearchEnd(weeks))
<1> DEFINE first == Date(Cutoff)
           date == Date(start)
           time == TimeOfDay(start)
<1>1. Cutoff \in Nat /\ first \in Nat /\ SearchDays \in Nat
  BY DaysOfSearch, DaysAndTimes, ClockAssumption
<1>2. date \in Nat /\ time \in 0..1439 /\ start = date * 1440 + time
  BY DaysAndTimes DEF DayMinutes
<1>3. date <= first + SearchDays - 1
  BY <1>1, <1>2 DEF SearchDates
<1>4. SearchEnd(weeks) = (first + SearchDays + (weeks - 1) * 7 + 1) * 1440 - 1
  BY DEF SearchEnd, DayMinutes
<1> HIDE DEF first, date, time
<1>5. SearchEnd(weeks) \in Int /\ start + (weeks - 1) * WeekMinutes <= SearchEnd(weeks)
  BY <1>1, <1>2, <1>3, <1>4 DEF WeekMinutes
<1>6. ASSUME NEW s \in OccurrenceStarts(start, weeks)
      PROVE  s \in Cutoff..SearchEnd(weeks)
  <2>1. s \in Nat /\ s >= start /\ s <= start + (weeks - 1) * WeekMinutes
    BY OccurrencesAreMoments
  <2>2. start + (weeks - 1) * WeekMinutes \in Int
    BY DEF WeekMinutes
  <2> QED
    BY <1>1, <1>5, <2>1, <2>2
<1> QED
  BY <1>5, <1>6

(* What is left of the two checks when the queries are understood.         *)
Fits(start, weeks, d, ignored) ==
  /\ start >= Cutoff
  /\ ~TouchBlockedDates(OccurrenceStarts(start, weeks), Blocked)
  /\ ~Clashes(Lesson \ ignored, OccurrenceStarts(start, weeks), d)
  /\ FreeKeys(SlotLockKeys(OccurrenceStarts(start, weeks), d) \cap Key)

LEMMA OffersMean ==
  ASSUME Shape, NEW weeks \in Nat \ {0}, NEW d \in Nat, IsDurationSupported(d),
         NEW ignored \in SUBSET Lesson, NEW start \in Nat
  PROVE  /\ start \in Offers(weeks, d, ignored) /\ IsSlotAligned(start) =>
              /\ listed /\ IsWithinWeeklyAvailability(Windows, start, d)
              /\ \A l \in ignored : booking[l].start # start
              /\ Fits(start, weeks, d, ignored)
         /\ /\ listed /\ Date(start) \in SearchDates /\ IsWithinWeeklyAvailability(OnTheGrid, start, d)
            /\ \A l \in ignored : booking[l].start # start
            /\ Fits(start, weeks, d, ignored)
            => start \in Offers(weeks, d, ignored)
<1> DEFINE conflicts == BookingConflicts({booking[l] : l \in Lesson \ ignored},
                                         Cutoff, SearchEnd(weeks), now)
           starts == OccurrenceStarts(start, weeks)
<1>1. TypeOK
  BY DEF Shape
<1>2. start \in Offers(weeks, d, ignored) <=>
        /\ start \in Candidates(d) /\ listed /\ start >= Cutoff
        /\ \A l \in ignored : booking[l].start # start
        /\ ~TouchBlockedDates(starts, Blocked)
        /\ ~SlotConflicts(conflicts, starts, d)
        /\ FreeKeys(SlotLockKeys(starts, d) \cap Key)
  BY Zenon DEF Offers
<1>3. /\ start \in Candidates(d) => Date(start) \in SearchDates
      /\ start \in Candidates(d) /\ IsSlotAligned(start) => IsWithinWeeklyAvailability(Windows, start, d)
  BY <1>1, CandidatesAreAvailable
<1>4. Date(start) \in SearchDates /\ IsWithinWeeklyAvailability(OnTheGrid, start, d) => start \in Candidates(d)
  BY <1>1, AvailableIsCandidate
<1>5. ASSUME Date(start) \in SearchDates, start >= Cutoff
      PROVE  SlotConflicts(conflicts, starts, d) <=> Clashes(Lesson \ ignored, starts, d)
  <2>1. /\ Cutoff \in Int /\ SearchEnd(weeks) \in Int
        /\ starts \in SUBSET (Cutoff..SearchEnd(weeks))
    BY <1>1, <1>5, SearchReaches, DaysOfSearch
  <2>2. Lesson \ ignored \in SUBSET Lesson
    OBVIOUS
  <2> QED
    BY <2>1, <2>2, ConflictsMean
<1> HIDE DEF conflicts, starts
<1> QED
  BY <1>2, <1>3, <1>4, <1>5 DEF Fits, starts

LEMMA AcceptedMeans ==
  ASSUME Shape, NEW weeks \in Nat \ {0}, NEW d \in Nat, IsDurationSupported(d),
         NEW ignored \in SUBSET Lesson, NEW start \in Nat
  PROVE  Accepted(OccurrenceStarts(start, weeks), d, ignored) <=>
           /\ IsWithinWeeklyAvailability(Windows, start, d)
           /\ Fits(start, weeks, d, ignored)
<1> DEFINE starts == OccurrenceStarts(start, weeks)
<1>1. now + LeadTime = Cutoff /\ Cutoff \in Nat
  BY DaysOfSearch DEF Shape, Cutoff
<1>2. start \in starts /\ starts \subseteq Nat /\ \A s \in starts : s >= start
  BY OccurrencesAreMoments
<1>3. ASSUME NEW s \in starts
      PROVE  IsWithinWeeklyAvailability(Windows, s, d) <=> IsWithinWeeklyAvailability(Windows, start, d)
  <2>1. PICK k \in 0..(weeks - 1) : s = start + k * WeekMinutes
    BY <1>3 DEF OccurrenceStarts
  <2>2. k \in Nat
    OBVIOUS
  <2> QED
    BY <2>1, <2>2, AvailableEveryWeek
<1>4. Lesson \ ignored \in SUBSET Lesson
  OBVIOUS
<1>5. Taken(starts, d, {booking[l] : l \in Lesson \ ignored}) <=> Clashes(Lesson \ ignored, starts, d)
  BY <1>4, TakenMeans
<1> HIDE DEF starts
<1>6. (\A s \in starts : s >= now + LeadTime /\ IsWithinWeeklyAvailability(Windows, s, d))
        <=> start >= Cutoff /\ IsWithinWeeklyAvailability(Windows, start, d)
  <2>1. (\A s \in starts : s >= Cutoff) <=> start >= Cutoff
    BY <1>1, <1>2
  <2> QED
    BY <1>1, <1>2, <1>3, <2>1
<1> QED
  BY <1>5, <1>6, <1>2 DEF Accepted, Bookable, Fits, starts

(* The search and the handlers agree for any timetable, any number of weeks *)
(* and any rows and keys: what is offered on the half hour a listed teacher *)
(* can be booked for, and what the handlers would accept in a window that   *)
(* begins on the half hour is offered while the teacher is listed.  The     *)
(* walk through the windows and its one query for all the days ahead miss   *)
(* nothing and add nothing.                                                 *)
THEOREM SearchAgreesWithHandlers == Spec => []OffersAreAccepted
<1>1. Shape => OffersAreAccepted
  <2> SUFFICES ASSUME Shape, NEW c \in Checkout
               PROVE  /\ \A start \in Offers(Weeks[c], Duration[c], {}) : IsSlotAligned(start) =>
                           listed /\ Accepted(OccurrenceStarts(start, Weeks[c]), Duration[c], {})
                      /\ \A start \in Starts[c] :
                           /\ listed /\ Date(start) \in SearchDates
                           /\ IsWithinWeeklyAvailability(OnTheGrid, start, Duration[c])
                           /\ Accepted(OccurrenceStarts(start, Weeks[c]), Duration[c], {})
                           => start \in Offers(Weeks[c], Duration[c], {})
                      /\ \A l \in Lesson :
                           /\ \A start \in Offers(1, Duration[c], {l}) : IsSlotAligned(start) =>
                                start # booking[l].start /\ Accepted({start}, Duration[c], {l})
                           /\ \A start \in Starts[c] :
                                /\ listed /\ Date(start) \in SearchDates /\ start # booking[l].start
                                /\ IsWithinWeeklyAvailability(OnTheGrid, start, Duration[c])
                                /\ Accepted({start}, Duration[c], {l})
                                => start \in Offers(1, Duration[c], {l})
    BY Zenon DEF OffersAreAccepted
  <2> DEFINE d == Duration[c]
  <2>1. /\ d \in Nat /\ IsDurationSupported(d) /\ Weeks[c] \in Nat \ {0} /\ Starts[c] \subseteq Nat
        /\ 1 \in Nat \ {0} /\ TypeOK
    BY CheckoutParts DEF Shape
  <2> HIDE DEF d
  <2>2. ASSUME NEW weeks, NEW ignored, NEW start \in Offers(weeks, d, ignored) PROVE start \in Nat
    <3>1. start \in Candidates(d)
      BY Zenon DEF Offers
    <3> QED
      BY <2>1, <3>1, CandidatesAreAvailable
  <2>3. {} \in SUBSET Lesson
    OBVIOUS
  <2>4. ASSUME NEW start \in Offers(Weeks[c], d, {}), IsSlotAligned(start)
        PROVE  listed /\ Accepted(OccurrenceStarts(start, Weeks[c]), d, {})
    <3>1. start \in Nat
      BY <2>2
    <3> QED
      BY <2>1, <2>3, <2>4, <3>1, OffersMean, AcceptedMeans
  <2>5. ASSUME NEW start \in Starts[c], listed, Date(start) \in SearchDates,
               IsWithinWeeklyAvailability(OnTheGrid, start, d),
               Accepted(OccurrenceStarts(start, Weeks[c]), d, {})
        PROVE  start \in Offers(Weeks[c], d, {})
    <3>1. start \in Nat
      BY <2>1
    <3>2. Fits(start, Weeks[c], d, {})
      BY <2>1, <2>3, <2>5, <3>1, AcceptedMeans
    <3> QED
      BY <2>1, <2>3, <2>5, <3>1, <3>2, OffersMean
  <2>6. ASSUME NEW l \in Lesson, NEW start \in Offers(1, d, {l}), IsSlotAligned(start)
        PROVE  start # booking[l].start /\ Accepted({start}, d, {l})
    <3>1. start \in Nat /\ {l} \in SUBSET Lesson /\ l \in {l}
      BY <2>2
    <3>2. OccurrenceStarts(start, 1) = {start}
      BY <3>1, OneOccurrence
    <3>3. /\ IsWithinWeeklyAvailability(Windows, start, d) /\ Fits(start, 1, d, {l})
          /\ booking[l].start # start
      BY <2>1, <2>6, <3>1, OffersMean
    <3>4. Accepted(OccurrenceStarts(start, 1), d, {l})
      BY <2>1, <3>1, <3>3, AcceptedMeans
    <3> QED
      BY <3>2, <3>3, <3>4
  <2>7. ASSUME NEW l \in Lesson, NEW start \in Starts[c], listed, Date(start) \in SearchDates,
               start # booking[l].start, IsWithinWeeklyAvailability(OnTheGrid, start, d),
               Accepted({start}, d, {l})
        PROVE  start \in Offers(1, d, {l})
    <3>1. start \in Nat /\ {l} \in SUBSET Lesson /\ \A m \in {l} : booking[m].start # start
      BY <2>1, <2>7
    <3>2. OccurrenceStarts(start, 1) = {start}
      BY <3>1, OneOccurrence
    <3>3. Accepted(OccurrenceStarts(start, 1), d, {l})
      BY <2>7, <3>2
    <3>4. Fits(start, 1, d, {l})
      BY <2>1, <3>1, <3>3, AcceptedMeans
    <3> QED
      BY <2>1, <2>7, <3>1, <3>4, OffersMean
  <2> QED
    BY <2>4, <2>5, <2>6, <2>7 DEF d
<1> QED
  BY <1>1, ShapeAlways, PTL

-----------------------------------------------------------------------------
(* Requests that come in turn.  A lesson claims its time by a row that      *)
(* blocks it, or by the checkout of its series that waits to be paid; a     *)
(* week that has been deprived of a key claims nothing any more.            *)
Pending(c) == booking[Root(c)].status = "pending_payment" /\ booking[Root(c)].expires > now

Claimed(l) == l \notin deprived /\ (BlocksTime(booking[l], now) \/ Pending(Owner(l)))

Place(l) == IF Pending(Owner(l)) THEN LaterStart(booking[Root(Owner(l))], l[2])
                                 ELSE booking[l].start

InTheWay(l, start, duration) ==
  Claimed(l) /\ BookingsOverlap(start, duration, Place(l), Duration[Owner(l)])

ClaimsApart ==
  \A l, m \in Lesson : l # m /\ Claimed(l) => ~InTheWay(m, Place(l), Duration[Owner(l)])

(* The later weeks have no rows before the first is paid.                  *)
RowsInOrder ==
  \A l \in Lesson :
    /\ booking[l].status = "pending_payment" => l = Root(Owner(l))
    /\ booking[Root(Owner(l))].status \in {"absent", "pending_payment"} /\ l # Root(Owner(l))
         => booking[l].status = "absent"

OneAtATime ==
  /\ \A c \in Checkout : handler[c].at = "idle" => handler[c] = Idle
  /\ \A c, d \in Checkout : c # d /\ handler[c] # Idle => handler[d] = Idle

IsCheckout(c) == handler[c].at \in {"creating", "create"}

(* The time a request asks for, and the lesson whose row it leaves out.    *)
Times(c)   == IF IsCheckout(c) THEN OccurrenceStarts(handler[c].start, Weeks[c]) ELSE {handler[c].start}
LeftOut(c) == IF IsCheckout(c) THEN {} ELSE {handler[c].lesson}

(* What a request has seen is still so.                                    *)
Looked(c) ==
  handler[c].at \in {"creating", "moving", "create", "move"} =>
    /\ IsCheckout(c) => booking[Root(c)].status = "absent"
    /\ ~IsCheckout(c) => booking[handler[c].lesson].status = "confirmed"
    /\ ~Clashes(Lesson \ LeftOut(c), Times(c), Duration[c])

(* Once it has the keys, no claim at all is in its way.                    *)
Kept(c) ==
  handler[c].at \in {"create", "move"} =>
    \A l \in Lesson \ LeftOut(c), s \in Times(c) : ~InTheWay(l, s, Duration[c])

(* As long as a checkout may be paid, the keys of its later weeks are set,  *)
(* but for the weeks that were deprived.                                    *)
LaterWeeksHeld ==
  \A l \in Lesson \ deprived : Pending(Owner(l)) /\ l[2] # 0 =>
    \A k \in LockKeys(Place(l), Duration[Owner(l)]) :
      k \in Key /\ holds[k] >= booking[Root(Owner(l))].expires

(* So are the keys of a checkout that has yet to write its row; and no      *)
(* request runs for a checkout that waits for its payment.                  *)
HasItsKeys(c) ==
  /\ handler[c].at = "create" =>
       \A k \in HoldKeys(c, handler[c].start) : k \in Key /\ holds[k] >= now + HoldTime
  /\ handler[c].at # "idle" => booking[Root(c)].status # "pending_payment"

TurnInv ==
  /\ Shape /\ RowsInOrder /\ OneAtATime /\ ClaimsApart /\ LaterWeeksHeld
  /\ \A c \in Checkout : Looked(c) /\ Kept(c) /\ HasItsKeys(c)

LEMMA ClaimsThatMove ==
  ASSUME Shape, RowsInOrder
  PROVE  /\ \A l \in Lesson : Claimed(l) => Place(l) \in Nat
         /\ \A c \in Checkout : Pending(c) => booking[Root(c)].start \in Nat
         /\ \A l \in Lesson : Pending(Owner(l)) =>
              /\ Place(l) = booking[Root(Owner(l))].start + l[2] * WeekMinutes
              /\ l # Root(Owner(l)) => ~BlocksTime(booking[l], now)
              /\ Place(l) \in OccurrenceStarts(booking[Root(Owner(l))].start, Weeks[Owner(l)])
         /\ \A l \in Lesson : BlocksTime(booking[l], now) => Place(l) = booking[l].start
<1>1. TypeOK
  BY DEF Shape
<1>2. \A c \in Checkout : Root(c) \in Lesson /\ booking[Root(c)].start \in Nat
  BY <1>1, LessonParts, RowFields
<1>3. ASSUME NEW l \in Lesson, Pending(Owner(l))
      PROVE  /\ Place(l) = booking[Root(Owner(l))].start + l[2] * WeekMinutes
             /\ Place(l) \in Nat
             /\ l # Root(Owner(l)) => ~BlocksTime(booking[l], now)
             /\ Place(l) \in OccurrenceStarts(booking[Root(Owner(l))].start, Weeks[Owner(l)])
  <2>1. /\ l[2] \in 0..(Weeks[Owner(l)] - 1) /\ Owner(l) \in Checkout /\ l[2] \in Nat
    BY LessonParts, CheckoutParts
  <2>2. Place(l) = booking[Root(Owner(l))].start + l[2] * WeekMinutes
    BY <1>3 DEF Place, LaterStart
  <2>3. Place(l) \in Nat
    BY <1>2, <2>1, <2>2 DEF WeekMinutes
  <2>4. l # Root(Owner(l)) => booking[l].status = "absent"
    BY <1>3 DEF RowsInOrder, Pending
  <2>5. Place(l) \in OccurrenceStarts(booking[Root(Owner(l))].start, Weeks[Owner(l)])
    BY <2>1, <2>2 DEF OccurrenceStarts
  <2> QED
    BY <2>2, <2>3, <2>4, <2>5 DEF BlocksTime, ActiveStatuses
<1>4. ASSUME NEW l \in Lesson, BlocksTime(booking[l], now)
      PROVE  Place(l) = booking[l].start /\ booking[l].start \in Nat
  <2>1. booking[l].start \in Nat
    BY <1>1, RowFields
  <2>2. CASE Pending(Owner(l))
    <3>1. l = Root(Owner(l))
      BY <1>3, <1>4, <2>2
    <3>2. l[2] = 0 /\ Place(l) = booking[l].start + l[2] * WeekMinutes
      BY <1>3, <2>2, <3>1 DEF Root
    <3> QED
      BY <2>1, <3>2 DEF WeekMinutes
  <2>3. CASE ~Pending(Owner(l))
    BY <2>1, <2>3 DEF Place
  <2> QED
    BY <2>2, <2>3
<1> QED
  BY <1>2, <1>3, <1>4, LessonParts DEF Claimed

(* Claims that only fall away stay apart.                                  *)
LEMMA FewerClaims ==
  ASSUME ClaimsApart, \A l \in Lesson : Claimed(l)' => Claimed(l) /\ Place(l)' = Place(l)
  PROVE  ClaimsApart'
  BY DEF ClaimsApart, InTheWay

(* Rows that stay or end while the clock stands or goes on claim no more.  *)
LEMMA ClaimsFallAway ==
  ASSUME Shape, RowsInOrder, now' \in Nat, now' >= now, deprived \subseteq deprived',
         \A l \in Lesson : booking'[l] = booking[l] \/ Ended(l)
  PROVE  /\ \A l \in Lesson : Claimed(l)' => Claimed(l) /\ Place(l)' = Place(l)
         /\ \A c \in Checkout : Pending(c)' => Pending(c) /\ booking'[Root(c)] = booking[Root(c)]
         /\ RowsInOrder'
<1>1. TypeOK /\ now \in Nat
  BY DEF Shape, TypeOK
<1>2. \A l \in Lesson : booking[l].expires \in Nat
  BY <1>1, RowFields
<1>3. ASSUME NEW l \in Lesson, BlocksTime(booking'[l], now')
      PROVE  booking'[l] = booking[l] /\ BlocksTime(booking[l], now)
  BY <1>1, <1>2, <1>3 DEF BlocksTime, ActiveStatuses, Ended
<1>4. ASSUME NEW c \in Checkout, Pending(c)'
      PROVE  booking'[Root(c)] = booking[Root(c)] /\ Pending(c)
  BY <1>1, <1>2, <1>4, LessonParts DEF Pending, Ended
<1>5. ASSUME NEW l \in Lesson, Claimed(l)'
      PROVE  Claimed(l) /\ Place(l)' = Place(l)
  <2>0. l \notin deprived
    BY <1>5 DEF Claimed
  <2>1. Owner(l) \in Checkout
    BY LessonParts
  <2>2. CASE Pending(Owner(l))'
    BY <1>4, <2>0, <2>1, <2>2 DEF Claimed, Place
  <2>3. CASE ~Pending(Owner(l))'
    <3>1. BlocksTime(booking'[l], now')
      BY <1>5, <2>3 DEF Claimed
    <3>2. booking'[l] = booking[l] /\ BlocksTime(booking[l], now)
      BY <1>3, <3>1
    <3>3. Place(l)' = booking[l].start
      BY <2>3, <3>2 DEF Place
    <3> QED
      BY <2>0, <3>2, <3>3, ClaimsThatMove DEF Claimed
  <2> QED
    BY <2>2, <2>3
<1>6. RowsInOrder'
  <2> SUFFICES ASSUME NEW l \in Lesson
               PROVE  /\ booking'[l].status = "pending_payment" => l = Root(Owner(l))
                      /\ /\ booking'[Root(Owner(l))].status \in {"absent", "pending_payment"}
                         /\ l # Root(Owner(l))
                         => booking'[l].status = "absent"
    BY DEF RowsInOrder
  <2>1. Root(Owner(l)) \in Lesson
    BY LessonParts
  <2> QED
    BY <2>1 DEF RowsInOrder, Ended
<1> QED
  BY <1>4, <1>5, <1>6

(* While nothing runs, nothing has been looked at.                         *)
LEMMA QuietRequests ==
  ASSUME Quiet, handler' = handler
  PROVE  OneAtATime' /\ \A c \in Checkout : Looked(c)' /\ Kept(c)'
<1>1. \A c \in Checkout : handler'[c] = Idle /\ handler'[c].at = "idle"
  BY RestingRequest DEF Quiet
<1> QED
  BY <1>1 DEF OneAtATime, Looked, Kept

LEMMA RestKeepsTurn ==
  ASSUME TurnInv, handler' = handler, Quiet, deprived \subseteq deprived',
         \/ Tick \/ ChangeListing
         \/ \E c \in Checkout : ItnFailed(c) \/ ExpireHold(c) \/ CancelSeries(c)
         \/ \E l \in Lesson : CancelBooking(l)
  PROVE  RowsInOrder' /\ OneAtATime' /\ ClaimsApart' /\ \A c \in Checkout : Looked(c)' /\ Kept(c)'
<1>1. Shape /\ RowsInOrder /\ ClaimsApart /\ now \in Nat
  BY DEF TurnInv, Shape, TypeOK
<1>2. now' \in Nat /\ now' >= now /\ \A l \in Lesson : booking'[l] = booking[l] \/ Ended(l)
  <2>1. CASE ChangeListing
    BY <1>1, <2>1, ListingRows
  <2>2. CASE Tick
    BY <1>1, <2>2, TickRows
  <2>3. CASE \/ \E c \in Checkout : ItnFailed(c) \/ ExpireHold(c) \/ CancelSeries(c)
             \/ \E l \in Lesson : CancelBooking(l)
    BY <1>1, <2>3, EndingRows
  <2> QED
    BY <2>1, <2>2, <2>3
<1>3. RowsInOrder' /\ \A l \in Lesson : Claimed(l)' => Claimed(l) /\ Place(l)' = Place(l)
  BY <1>1, <1>2, ClaimsFallAway
<1> QED
  BY <1>1, <1>3, FewerClaims, QuietRequests

(* A step of a request that changes no row, while no other request runs.   *)
LEMMA AloneKeepsTurn ==
  ASSUME TurnInv, NEW c \in Checkout, \A d \in Checkout \ {c} : handler[d] = Idle,
         NEW r \in Request, handler' = [handler EXCEPT ![c] = r], r.at = "idle" => r = Idle,
         UNCHANGED <<now, booking>>, deprived \subseteq deprived', Looked(c)', Kept(c)'
  PROVE  RowsInOrder' /\ OneAtATime' /\ ClaimsApart' /\ \A d \in Checkout : Looked(d)' /\ Kept(d)'
<1>1. TypeOK
  BY DEF TurnInv, Shape
<1>2. \A d \in Checkout : handler'[d] = IF d = c THEN r ELSE handler[d]
  BY <1>1, RequestSet
<1>3. RowsInOrder' /\ ClaimsApart'
  <2>1. \A l \in Lesson : Claimed(l)' => Claimed(l) /\ Place(l)' = Place(l)
    BY DEF Claimed, Place, Pending
  <2> QED
    BY <2>1, FewerClaims DEF TurnInv, RowsInOrder
<1>4. OneAtATime'
  BY <1>2 DEF OneAtATime, TurnInv
<1>5. ASSUME NEW d \in Checkout \ {c} PROVE Looked(d)' /\ Kept(d)'
  BY <1>2, RestingRequest DEF Looked, Kept
<1> QED
  BY <1>3, <1>4, <1>5

LEMMA OthersRest ==
  ASSUME TurnInv, NEW c \in Checkout, handler[c] # Idle
  PROVE  \A d \in Checkout \ {c} : handler[d] = Idle
  BY DEF TurnInv, OneAtATime

LEMMA GivingUpKeepsTurn ==
  ASSUME TurnInv, NEW c \in Checkout, handler' = [handler EXCEPT ![c] = Idle],
         handler[c] # Idle, UNCHANGED <<now, booking>>, deprived \subseteq deprived'
  PROVE  RowsInOrder' /\ OneAtATime' /\ ClaimsApart' /\ \A d \in Checkout : Looked(d)' /\ Kept(d)'
<1>1. TypeOK
  BY DEF TurnInv, Shape
<1>2. handler'[c] = Idle
  BY <1>1, RestingRequest, RequestSet
<1>3. Looked(c)' /\ Kept(c)'
  BY <1>2, RestingRequest DEF Looked, Kept
<1> QED
  BY <1>3, OthersRest, RestingRequest, AloneKeepsTurn

LEMMA LookingKeepsTurn ==
  ASSUME TurnInv, ~Overlap, NEW c \in Checkout, NEW start \in Starts[c],
         CheckSlot(c, start) \/ \E l \in Lesson : Owner(l) = c /\ CheckMove(l, start)
  PROVE  RowsInOrder' /\ OneAtATime' /\ ClaimsApart' /\ \A d \in Checkout : Looked(d)' /\ Kept(d)'
<1>1. Shape /\ TypeOK /\ start \in Nat /\ Root(c) \in Lesson /\ Weeks[c] \in Nat \ {0}
      /\ Duration[c] \in Nat /\ IsDurationSupported(Duration[c])
  BY CheckoutParts, LessonParts DEF TurnInv, Shape
<1>2. \A d \in Checkout : handler[d] = Idle
  BY DEF CheckSlot, CheckMove, Undisturbed, Quiet
<1>3. UNCHANGED <<now, booking, deprived>>
  BY DEF CheckSlot, CheckMove
<1>4. ASSUME NEW a \in {"creating", "moving"}, NEW l \in Lesson,
             a = "creating" => l = Root(c) /\ booking[l].status = "absent",
             a = "moving" => booking[l].status = "confirmed",
             handler' = [handler EXCEPT ![c] = [at |-> a, lesson |-> l, start |-> start]],
             ~Clashes(IF a = "creating" THEN Lesson ELSE Lesson \ {l},
                      IF a = "creating" THEN OccurrenceStarts(start, Weeks[c]) ELSE {start},
                      Duration[c])
      PROVE  RowsInOrder' /\ OneAtATime' /\ ClaimsApart' /\ \A d \in Checkout : Looked(d)' /\ Kept(d)'
  <2> DEFINE r == [at |-> a, lesson |-> l, start |-> start]
  <2>1. r \in Request /\ r.at = a /\ r.lesson = l /\ r.start = start
    BY <1>1 DEF Request
  <2>2. handler' = [handler EXCEPT ![c] = r]
    BY <1>4
  <2> HIDE DEF r
  <2>3. handler'[c] = r
    BY <1>1, <2>1, <2>2, RequestSet
  <2>4. Kept(c)'
    BY <2>1, <2>3 DEF Kept
  <2>5. Looked(c)'
    <3>1. CASE a = "creating"
      <4>1. IsCheckout(c)' /\ Times(c)' = OccurrenceStarts(start, Weeks[c]) /\ LeftOut(c)' = {}
        BY <2>1, <2>3, <3>1 DEF IsCheckout, Times, LeftOut
      <4>2. ~Clashes(Lesson \ {}, OccurrenceStarts(start, Weeks[c]), Duration[c])'
        BY <1>3, <1>4, <3>1 DEF Clashes
      <4> QED
        BY <1>3, <1>4, <2>1, <2>3, <3>1, <4>1, <4>2 DEF Looked
    <3>2. CASE a = "moving"
      <4>1. ~IsCheckout(c)' /\ Times(c)' = {start} /\ LeftOut(c)' = {l}
        BY <2>1, <2>3, <3>2 DEF IsCheckout, Times, LeftOut
      <4>2. ~Clashes(Lesson \ {l}, {start}, Duration[c])'
        BY <1>3, <1>4, <3>2 DEF Clashes
      <4> QED
        BY <1>3, <1>4, <2>1, <2>3, <3>2, <4>1, <4>2 DEF Looked
    <3> QED
      BY <3>1, <3>2
  <2> QED
    BY <1>2, <1>3, <2>1, <2>2, <2>4, <2>5, AloneKeepsTurn
<1>5. CASE CheckSlot(c, start)
  <2>1. Lesson \in SUBSET Lesson
    OBVIOUS
  <2>2. ~Clashes(Lesson, OccurrenceStarts(start, Weeks[c]), Duration[c])
    BY <1>1, <1>5, <2>1, TakenMeans DEF CheckSlot
  <2>3. /\ handler' = [handler EXCEPT ![c] = [at |-> "creating", lesson |-> Root(c), start |-> start]]
        /\ booking[Root(c)].status = "absent"
    BY <1>5 DEF CheckSlot
  <2> QED
    BY <1>1, <1>4, <2>2, <2>3
<1>6. CASE \E l \in Lesson : Owner(l) = c /\ CheckMove(l, start)
  <2>1. PICK l \in Lesson : Owner(l) = c /\ CheckMove(l, start)
    BY <1>6
  <2>2. /\ handler' = [handler EXCEPT ![c] = [at |-> "moving", lesson |-> l, start |-> start]]
        /\ booking[l].status = "confirmed"
        /\ ~Taken({start}, Duration[c], {booking[m] : m \in Lesson \ {l}})
    BY <2>1 DEF CheckMove
  <2>3. Lesson \ {l} \in SUBSET Lesson /\ OccurrenceStarts(start, 1) = {start} /\ 1 \in Nat \ {0}
    BY <1>1, OneOccurrence
  <2>4. ~Clashes(Lesson \ {l}, {start}, Duration[c])
    BY <1>1, <2>2, <2>3, TakenMeans
  <2> QED
    BY <1>4, <2>2, <2>4
<1> QED
  BY <1>5, <1>6

LEMMA TimesAskedFor ==
  ASSUME Shape, NEW c \in Checkout, handler[c].at # "idle"
  PROVE  /\ handler[c].start \in Nat /\ Times(c) \subseteq Nat
         /\ \A s \in Times(c) : IsSlotAligned(s)
         /\ handler[c].at \in {"creating", "moving"} =>
              \A s \in Times(c) : LockKeys(s, Duration[c]) \subseteq Asked(c)
<1>1. handler[c].start \in Starts[c] /\ IsSlotAligned(handler[c].start)
  BY DEF Shape, RequestShape
<1>2. handler[c].start \in Nat /\ Weeks[c] \in Nat \ {0}
  BY <1>1, CheckoutParts
<1>3. Times(c) \subseteq Nat /\ \A s \in Times(c) : IsSlotAligned(s)
  BY <1>1, <1>2, OccurrencesAreMoments DEF Times
<1>4. handler[c].at \in {"creating", "moving"} =>
        \A s \in Times(c) : LockKeys(s, Duration[c]) \subseteq Asked(c)
  BY DEF Times, IsCheckout, Asked, HoldKeys, SlotLockKeys
<1> QED
  BY <1>2, <1>3, <1>4

(* A claim is in nobody's way who found its row out of the way and got its  *)
(* keys: the later weeks of a series are where the keys are needed.         *)
LEMMA KeysFindTheOtherWeeks ==
  ASSUME TurnInv, NEW c \in Checkout, handler[c].at \in {"creating", "moving"},
         FreeKeys(Asked(c)), NEW l \in Lesson \ LeftOut(c), NEW s \in Times(c)
  PROVE  ~InTheWay(l, s, Duration[c])
<1> SUFFICES ASSUME InTheWay(l, s, Duration[c]) PROVE FALSE
  OBVIOUS
<1>1. Shape /\ RowsInOrder /\ now \in Nat /\ l \in Lesson /\ Owner(l) \in Checkout
  BY LessonParts DEF TurnInv, Shape, TypeOK
<1>2. /\ s \in Nat /\ IsSlotAligned(s) /\ LockKeys(s, Duration[c]) \subseteq Asked(c)
  BY <1>1, TimesAskedFor
<1>3. Claimed(l) /\ BookingsOverlap(s, Duration[c], Place(l), Duration[Owner(l)])
  BY DEF InTheWay
<1>4. ~BlocksTime(booking[l], now)
  <2> SUFFICES ASSUME BlocksTime(booking[l], now) PROVE FALSE
    OBVIOUS
  <2>1. Place(l) = booking[l].start /\ booking[l].duration = Duration[Owner(l)]
    BY <1>1, ClaimsThatMove, BlockingRows
  <2>2. ~Clashes(Lesson \ LeftOut(c), Times(c), Duration[c])
    BY DEF TurnInv, Looked
  <2> QED
    BY <1>3, <2>1, <2>2 DEF Clashes
<1> DEFINE d == Owner(l)
           root == booking[Root(d)].start
<1>5. Pending(d) /\ l # Root(d)
  BY <1>3, <1>4 DEF Claimed, Pending, BlocksTime
<1>6. /\ root \in Nat /\ Place(l) = root + l[2] * WeekMinutes
      /\ Place(l) \in OccurrenceStarts(root, Weeks[d])
  BY <1>1, <1>5, ClaimsThatMove
<1>7. l[2] \in Nat /\ l[2] # 0
  <2>1. l[2] \in 0..(Weeks[d] - 1) /\ l = <<d, l[2]>> /\ Weeks[d] \in Nat
    BY <1>1, LessonParts, CheckoutParts
  <2> QED
    BY <1>5, <2>1 DEF Root
<1>9. IsSlotAligned(root)
  BY <1>1, <1>5, LessonParts DEF Shape, RowShape, Pending
<1>10. Place(l) \in Nat /\ IsSlotAligned(Place(l))
  BY <1>1, <1>6, <1>9, OccurrencesAreMoments, CheckoutParts
<1>11. \A k \in LockKeys(Place(l), Duration[d]) : k \in Key /\ holds[k] >= booking[Root(d)].expires
  BY <1>1, <1>3, <1>5, <1>7 DEF TurnInv, LaterWeeksHeld, Claimed
<1>12. PICK k \in LockKeys(s, Duration[c]) : k \in LockKeys(Place(l), Duration[d])
  <2>1. /\ s \in Int /\ Place(l) \in Int /\ Duration[c] \in Int /\ Duration[d] \in Int
        /\ IsDurationSupported(Duration[c]) /\ IsDurationSupported(Duration[d])
    BY <1>1, <1>2, <1>10, CheckoutParts
  <2>2. LockKeys(s, Duration[c]) \cap LockKeys(Place(l), Duration[d]) # {}
    BY <1>2, <1>3, <1>10, <2>1, OverlapIsSharedKey
  <2> QED
    BY <2>2
<1>13. holds[k] = 0
  BY <1>2, <1>12 DEF FreeKeys
<1>14. booking[Root(d)].expires \in Nat /\ booking[Root(d)].expires > now
  BY <1>1, <1>5, LessonParts, RowFields DEF Shape, Pending
<1> QED
  BY <1>1, <1>11, <1>12, <1>13, <1>14

LEMMA AcquiringKeepsTurn ==
  ASSUME TurnInv, NEW c \in Checkout, AcquireHold(c)
  PROVE  RowsInOrder' /\ OneAtATime' /\ ClaimsApart' /\ \A d \in Checkout : Looked(d)' /\ Kept(d)'
<1>1. Shape /\ TypeOK
  BY DEF TurnInv, Shape
<1>2. handler[c].at \in {"creating", "moving"} /\ FreeKeys(Asked(c)) /\ UNCHANGED <<now, booking, deprived>>
  BY DEF AcquireHold
<1> DEFINE a == IF handler[c].at = "creating" THEN "create" ELSE "move"
           r == GoesOn(handler[c], a)
<1>3. a \in {"idle", "creating", "moving", "create", "move", "moved"}
  OBVIOUS
<1>4. handler' = [handler EXCEPT ![c].at = a]
  BY <1>1 DEF AcquireHold, TypeOK
<1>5. (a = "create" <=> handler[c].at = "creating") /\ a \in {"create", "move"}
  OBVIOUS
<1> HIDE DEF a
<1>6. /\ r \in Request /\ r.at = a /\ r.lesson = handler[c].lesson /\ r.start = handler[c].start
      /\ handler' = [handler EXCEPT ![c] = r]
  BY <1>1, <1>3, <1>4, RequestGoesOn, Zenon
<1> HIDE DEF r
<1>7. handler'[c] = r
  BY <1>1, <1>6, RequestSet
<1>8. (IsCheckout(c)' <=> IsCheckout(c)) /\ Times(c)' = Times(c) /\ LeftOut(c)' = LeftOut(c)
  BY <1>2, <1>5, <1>6, <1>7 DEF IsCheckout, Times, LeftOut
<1>9. Looked(c)'
  <2>1. ~Clashes(Lesson \ LeftOut(c), Times(c), Duration[c])'
    BY <1>2, <1>8 DEF TurnInv, Looked, Clashes
  <2> QED
    BY <1>2, <1>6, <1>7, <1>8, <2>1 DEF TurnInv, Looked
<1>10. Kept(c)'
  <2>1. \A l \in Lesson \ LeftOut(c), s \in Times(c) : ~InTheWay(l, s, Duration[c])
    BY <1>2, KeysFindTheOtherWeeks
  <2>2. \A l \in Lesson \ LeftOut(c), s \in Times(c) : ~InTheWay(l, s, Duration[c])'
    BY <1>2, <2>1 DEF InTheWay, Claimed, Place, Pending
  <2> QED
    BY <1>8, <2>2 DEF Kept
<1>11. handler[c] # Idle
  BY <1>2, RestingRequest
<1> QED
  BY <1>2, <1>5, <1>6, <1>9, <1>10, <1>11, OthersRest, AloneKeepsTurn

(* Claims that come anew, if they are apart from the others.               *)
LEMMA NewClaims ==
  ASSUME ClaimsApart, NEW N \in SUBSET Lesson,
         \A l \in Lesson \ N : Claimed(l)' => Claimed(l) /\ Place(l)' = Place(l),
         \A n \in N, m \in Lesson \ N : ~InTheWay(m, Place(n)', Duration[Owner(n)]),
         \A n, m \in N : n # m =>
           ~BookingsOverlap(Place(n)', Duration[Owner(n)], Place(m)', Duration[Owner(m)])
  PROVE  ClaimsApart'
<1> SUFFICES ASSUME NEW l \in Lesson, NEW m \in Lesson, l # m, Claimed(l)', Claimed(m)'
             PROVE  ~BookingsOverlap(Place(l)', Duration[Owner(l)], Place(m)', Duration[Owner(m)])
  BY DEF ClaimsApart, InTheWay
<1>1. CASE l \in N /\ m \in N
  BY <1>1
<1>2. CASE l \in N /\ m \notin N
  BY <1>2 DEF InTheWay
<1>3. CASE l \notin N /\ m \in N
  <2>1. ~BookingsOverlap(Place(m)', Duration[Owner(m)], Place(l)', Duration[Owner(l)])
    BY <1>3 DEF InTheWay
  <2> QED
    BY <2>1 DEF BookingsOverlap
<1>4. CASE l \notin N /\ m \notin N
  BY <1>4 DEF ClaimsApart, InTheWay
<1> QED
  BY <1>1, <1>2, <1>3, <1>4

LEMMA AfterTheCommit ==
  ASSUME TurnInv, NEW c \in Checkout, handler[c] # Idle,
         NEW r \in Request, handler' = [handler EXCEPT ![c] = r],
         r.at \in {"idle", "moved"}, r.at = "idle" => r = Idle
  PROVE  OneAtATime' /\ \A d \in Checkout : Looked(d)' /\ Kept(d)'
<1>1. TypeOK
  BY DEF TurnInv, Shape
<1>2. \A d \in Checkout : handler'[d] = IF d = c THEN r ELSE Idle
  BY <1>1, RequestSet, OthersRest
<1> QED
  BY <1>2, RestingRequest DEF OneAtATime, Looked, Kept

LEMMA CreatingKeepsTurn ==
  ASSUME TurnInv, NEW c \in Checkout, CommitCreate(c)
  PROVE  RowsInOrder' /\ OneAtATime' /\ ClaimsApart' /\ \A d \in Checkout : Looked(d)' /\ Kept(d)'
<1>1. Shape /\ TypeOK /\ RowsInOrder /\ ClaimsApart /\ now \in Nat
  BY DEF TurnInv, Shape, TypeOK
<1>2. /\ \A m \in Lesson \ {Root(c)} : booking'[m] = booking[m]
      /\ booking'[Root(c)].status = "pending_payment" /\ booking'[Root(c)].start = handler[c].start
      /\ booking'[Root(c)].expires = now + HoldTime
      /\ handler[c].at = "create" /\ now' = now /\ deprived' = deprived
  BY <1>1, CommitCreateRows
<1>3. /\ IsCheckout(c) /\ LeftOut(c) = {} /\ Times(c) = OccurrenceStarts(handler[c].start, Weeks[c])
      /\ booking[Root(c)].status = "absent"
  BY <1>2 DEF IsCheckout, LeftOut, Times, TurnInv, Looked
<1>4. /\ \A l \in Lesson : Owner(l) \in Checkout /\ Root(Owner(l)) \in Lesson /\ Owner(Root(Owner(l))) = Owner(l)
      /\ Root(c) \in Lesson /\ Owner(Root(c)) = c
  BY LessonParts
<1>5. \A l \in Lesson : Owner(l) = c => booking[l].status = "absent"
  BY <1>1, <1>3 DEF RowsInOrder
<1>6. \A l \in Lesson : Owner(l) # c =>
        booking'[l] = booking[l] /\ booking'[Root(Owner(l))] = booking[Root(Owner(l))]
  BY <1>2, <1>4
<1>7. RowsInOrder'
  <2> SUFFICES ASSUME NEW l \in Lesson
               PROVE  /\ booking'[l].status = "pending_payment" => l = Root(Owner(l))
                      /\ /\ booking'[Root(Owner(l))].status \in {"absent", "pending_payment"}
                         /\ l # Root(Owner(l))
                         => booking'[l].status = "absent"
    BY DEF RowsInOrder
  <2>1. CASE Owner(l) = c
    BY <1>2, <1>5, <2>1
  <2>2. CASE Owner(l) # c
    BY <1>1, <1>6, <2>2 DEF RowsInOrder
  <2> QED
    BY <2>1, <2>2
<1> DEFINE N == {l \in Lesson : Owner(l) = c}
<1>8. Pending(c)'
  BY <1>1, <1>2, ClockAssumption DEF Pending
<1>9. ASSUME NEW l \in N
      PROVE  /\ Place(l)' = handler[c].start + l[2] * WeekMinutes /\ Place(l)' \in Times(c)
             /\ l[2] \in Int
  <2>1. Place(l)' = handler[c].start + l[2] * WeekMinutes
    BY <1>2, <1>8 DEF Place, LaterStart
  <2>2. l[2] \in 0..(Weeks[c] - 1)
    BY LessonParts
  <2> QED
    BY <1>3, <2>1, <2>2, CheckoutParts DEF OccurrenceStarts
<1>10. \A l \in Lesson \ N : Claimed(l)' => Claimed(l) /\ Place(l)' = Place(l)
  BY <1>2, <1>6 DEF Claimed, Place, Pending
<1>11. \A n \in N, m \in Lesson \ N : ~InTheWay(m, Place(n)', Duration[Owner(n)])
  BY <1>2, <1>3, <1>9 DEF TurnInv, Kept
<1>12. ASSUME NEW n \in N, NEW m \in N, n # m
       PROVE  ~BookingsOverlap(Place(n)', Duration[Owner(n)], Place(m)', Duration[Owner(m)])
  <2>1. n[2] # m[2]
    BY <1>12, LessonParts
  <2>2. handler[c].start \in Int /\ Duration[c] \in Int /\ IsDurationSupported(Duration[c])
    BY <1>1, RequestFields, CheckoutParts
  <2>3. n[2] \in Int /\ m[2] \in Int
    BY <1>9
  <2>4. ~BookingsOverlap(handler[c].start + n[2] * WeekMinutes, Duration[c],
                         handler[c].start + m[2] * WeekMinutes, Duration[c])
    BY <2>1, <2>2, <2>3, WeeksKeepApart
  <2> QED
    BY <1>9, <2>4
<1>13. ClaimsApart'
  <2> HIDE DEF N
  <2>1. N \in SUBSET Lesson
    BY DEF N
  <2> QED
    BY <1>1, <1>10, <1>11, <1>12, <2>1, NewClaims
<1>14. handler[c] # Idle /\ handler' = [handler EXCEPT ![c] = Idle]
  BY <1>2, RestingRequest DEF CommitCreate
<1> QED
  BY <1>7, <1>13, <1>14, RestingRequest, AfterTheCommit

LEMMA MovingKeepsTurn ==
  ASSUME TurnInv, NEW c \in Checkout, CommitMove(c)
  PROVE  RowsInOrder' /\ OneAtATime' /\ ClaimsApart' /\ \A d \in Checkout : Looked(d)' /\ Kept(d)'
<1>1. Shape /\ TypeOK /\ RowsInOrder /\ ClaimsApart /\ now \in Nat
  BY DEF TurnInv, Shape, TypeOK
<1>0. PICK l \in Lesson : l = handler[c].lesson
  BY <1>1, CommitMoveRows
<1>2. /\ l \in Lesson /\ Owner(l) = c
      /\ \A m \in Lesson \ {l} : booking'[m] = booking[m]
      /\ booking'[l].status = booking[l].status /\ booking'[l].start = handler[c].start
      /\ booking'[l].expires = booking[l].expires
      /\ handler' = [handler EXCEPT ![c] = GoesOn(handler[c], "moved")]
      /\ handler[c].at = "move" /\ now' = now /\ deprived' = deprived
  BY <1>0, <1>1, CommitMoveRows
<1>3. /\ LeftOut(c) = {l} /\ Times(c) = {handler[c].start} /\ booking[l].status = "confirmed"
  BY <1>0, <1>2 DEF IsCheckout, LeftOut, Times, TurnInv, Looked
<1>4. \A m \in Lesson : booking'[m].status = booking[m].status /\ booking'[m].expires = booking[m].expires
  BY <1>2
<1>5. RowsInOrder'
  BY <1>1, <1>4, LessonParts DEF RowsInOrder
<1>6. \A d \in Checkout : Pending(d)' <=> Pending(d)
  BY <1>2, <1>4, LessonParts DEF Pending
<1>7. ~Pending(c)
  BY <1>1, <1>2, <1>3 DEF Pending, RowsInOrder
<1>8. Place(l)' = handler[c].start
  BY <1>2, <1>6, <1>7 DEF Place
<1>9. ASSUME NEW m \in Lesson \ {l}
      PROVE  Claimed(m)' => Claimed(m) /\ Place(m)' = Place(m)
  <2>1. Owner(m) \in Checkout /\ Root(Owner(m)) \in Lesson /\ Owner(Root(Owner(m))) = Owner(m)
    BY LessonParts
  <2>2. booking'[m] = booking[m] /\ now' = now
    BY <1>2
  <2>3. Pending(Owner(m)) => booking'[Root(Owner(m))] = booking[Root(Owner(m))]
    BY <1>2, <1>7, <2>1
  <2> QED
    BY <1>2, <1>6, <2>1, <2>2, <2>3 DEF Claimed, Place
<1>10. \A m \in Lesson \ {l} : ~InTheWay(m, Place(l)', Duration[Owner(l)])
  BY <1>2, <1>3, <1>8 DEF TurnInv, Kept
<1>11. ClaimsApart'
  <2>1. {l} \in SUBSET Lesson
    BY <1>2
  <2>2. \A n \in {l}, m \in Lesson \ {l} : ~InTheWay(m, Place(n)', Duration[Owner(n)])
    BY <1>10
  <2>3. \A n, m \in {l} : n # m =>
           ~BookingsOverlap(Place(n)', Duration[Owner(n)], Place(m)', Duration[Owner(m)])
    OBVIOUS
  <2> QED
    BY <1>1, <1>9, <2>1, <2>2, <2>3, NewClaims
<1>12. GoesOn(handler[c], "moved") \in Request /\ GoesOn(handler[c], "moved").at = "moved"
  <2>1. "moved" \in {"idle", "creating", "moving", "create", "move", "moved"}
    OBVIOUS
  <2> QED
    BY <1>1, <2>1, RequestGoesOn, Zenon
<1>13. handler[c] # Idle
  BY <1>2, RestingRequest
<1> QED
  BY <1>2, <1>5, <1>11, <1>12, <1>13, AfterTheCommit

(* A payment turns the claims of its checkout into rows at the same times. *)
LEMMA PayingKeepsTurn ==
  ASSUME TurnInv, ~Overlap, NEW c \in Checkout, ItnComplete(c)
  PROVE  RowsInOrder' /\ OneAtATime' /\ ClaimsApart' /\ \A d \in Checkout : Looked(d)' /\ Kept(d)'
<1>1. Shape /\ RowsInOrder /\ ClaimsApart
  BY DEF TurnInv
<1>2. Quiet /\ handler' = handler /\ deprived \subseteq deprived'
  BY DEF ItnComplete, Undisturbed, Release
<1>3. /\ \A l \in Lesson : Owner(l) # c => booking'[l] = booking[l]
      /\ \A l \in Lesson : Owner(l) = c =>
           /\ booking'[l].status = "confirmed"
           /\ booking'[l].start = booking[Root(c)].start + l[2] * WeekMinutes
      /\ Pending(c) /\ now' = now
  BY <1>1, ItnCompleteRows DEF Pending
<1>4. /\ \A l \in Lesson : Owner(l) \in Checkout /\ Root(Owner(l)) \in Lesson /\ Owner(Root(Owner(l))) = Owner(l)
      /\ Root(c) \in Lesson /\ Owner(Root(c)) = c
  BY LessonParts
<1>5. RowsInOrder'
  <2> SUFFICES ASSUME NEW l \in Lesson
               PROVE  /\ booking'[l].status = "pending_payment" => l = Root(Owner(l))
                      /\ /\ booking'[Root(Owner(l))].status \in {"absent", "pending_payment"}
                         /\ l # Root(Owner(l))
                         => booking'[l].status = "absent"
    BY DEF RowsInOrder
  <2>1. CASE Owner(l) = c
    BY <1>3, <1>4, <2>1
  <2>2. CASE Owner(l) # c
    BY <1>1, <1>3, <1>4, <2>2 DEF RowsInOrder
  <2> QED
    BY <2>1, <2>2
<1>6. ASSUME NEW l \in Lesson, Claimed(l)'
      PROVE  Claimed(l) /\ Place(l)' = Place(l)
  <2>1. CASE Owner(l) = c
    <3>1. Claimed(l) /\ Place(l) = booking[Root(c)].start + l[2] * WeekMinutes
      BY <1>1, <1>2, <1>3, <1>6, <2>1, ClaimsThatMove DEF Claimed
    <3>2. ~Pending(c)'
      BY <1>3, <1>4 DEF Pending
    <3> QED
      BY <1>3, <2>1, <3>1, <3>2 DEF Place
  <2>2. CASE Owner(l) # c
    BY <1>2, <1>3, <1>4, <1>6, <2>2 DEF Claimed, Place, Pending
  <2> QED
    BY <2>1, <2>2
<1> QED
  BY <1>1, <1>2, <1>5, <1>6, FewerClaims, QuietRequests

-----------------------------------------------------------------------------
(* What becomes of the keys of the later weeks.                            *)

(* Keys that are deleted by name deprive the weeks they belong to.         *)
LEMMA ReleaseTakesNoOthers ==
  ASSUME TurnInv, NEW c \in Checkout, NEW keys, Release(c, keys), ~Pending(c)',
         \A d \in Checkout : Pending(d)' => Pending(d) /\ booking'[Root(d)] = booking[Root(d)]
  PROVE  LaterWeeksHeld'
<1>1. Shape /\ TypeOK /\ now \in Nat
  BY DEF TurnInv, Shape, TypeOK
<1> SUFFICES ASSUME NEW l \in Lesson, l \notin deprived', Pending(Owner(l))', l[2] # 0,
                    NEW k \in LockKeys(Place(l)', Duration[Owner(l)])
             PROVE  k \in Key /\ holds'[k] >= booking'[Root(Owner(l))].expires
  BY DEF LaterWeeksHeld
<1> DEFINE d == Owner(l)
<1>2. d \in Checkout /\ d # c /\ Pending(d) /\ booking'[Root(d)] = booking[Root(d)]
  BY LessonParts
<1>3. Place(l) = LaterStart(booking[Root(d)], l[2]) /\ Place(l)' = Place(l)
  BY <1>2 DEF Place
<1>4. deprived' = deprived \cup Losers(c, keys) /\ holds' = Freed(keys)
  BY DEF Release
<1>5. k \in Key /\ holds[k] >= booking[Root(d)].expires
  BY <1>2, <1>3, <1>4 DEF TurnInv, LaterWeeksHeld
<1>6. booking[Root(d)].status = "pending_payment" /\ ~Lapsed(d)
  BY <1>1, <1>2, LessonParts, RowFields DEF Pending, Lapsed
<1>7. k \notin keys
  BY <1>2, <1>3, <1>4, <1>6 DEF Losers
<1> QED
  BY <1>1, <1>2, <1>4, <1>5, <1>7, FreedKeys

(* Where the keys stay, and pending checkouts are what they were.          *)
LEMMA HeldAsBefore ==
  ASSUME TurnInv, deprived \subseteq deprived',
         \A d \in Checkout : Pending(d)' => Pending(d) /\ booking'[Root(d)] = booking[Root(d)],
         \A k \in Key : \/ holds'[k] = holds[k]
                        \/ \A d \in Checkout : Pending(d)' => ~(holds[k] >= booking[Root(d)].expires)
  PROVE  LaterWeeksHeld'
<1> SUFFICES ASSUME NEW l \in Lesson, l \notin deprived', Pending(Owner(l))', l[2] # 0,
                    NEW k \in LockKeys(Place(l)', Duration[Owner(l)])
             PROVE  k \in Key /\ holds'[k] >= booking'[Root(Owner(l))].expires
  BY DEF LaterWeeksHeld
<1> DEFINE d == Owner(l)
<1>1. d \in Checkout /\ Pending(d) /\ booking'[Root(d)] = booking[Root(d)] /\ l \notin deprived
  BY LessonParts
<1>2. Place(l)' = Place(l)
  BY <1>1 DEF Place
<1>3. k \in Key /\ holds[k] >= booking[Root(d)].expires
  BY <1>1, <1>2 DEF TurnInv, LaterWeeksHeld
<1> QED
  BY <1>1, <1>3

LEMMA QuietKeys ==
  ASSUME Quiet, handler' = handler PROVE \A c \in Checkout : HasItsKeys(c)'
  BY RestingRequest DEF Quiet, HasItsKeys

LEMMA RestKeepsKeys ==
  ASSUME TurnInv, handler' = handler, Quiet, deprived \subseteq deprived',
         \/ Tick \/ ChangeListing
         \/ \E c \in Checkout : ItnFailed(c) \/ ExpireHold(c) \/ CancelSeries(c)
         \/ \E l \in Lesson : CancelBooking(l)
  PROVE  LaterWeeksHeld' /\ \A c \in Checkout : HasItsKeys(c)'
<1>1. Shape /\ TypeOK /\ RowsInOrder /\ now \in Nat
  BY DEF TurnInv, Shape, TypeOK
<1>2. now' \in Nat /\ now' >= now /\ \A l \in Lesson : booking'[l] = booking[l] \/ Ended(l)
  <2>1. CASE ChangeListing
    BY <1>1, <2>1, ListingRows
  <2>2. CASE Tick
    BY <1>1, <2>2, TickRows
  <2>3. CASE \/ \E c \in Checkout : ItnFailed(c) \/ ExpireHold(c) \/ CancelSeries(c)
             \/ \E l \in Lesson : CancelBooking(l)
    BY <1>1, <2>3, EndingRows
  <2> QED
    BY <2>1, <2>2, <2>3
<1>3. \A d \in Checkout : Pending(d)' => Pending(d) /\ booking'[Root(d)] = booking[Root(d)]
  BY <1>1, <1>2, ClaimsFallAway
<1>4. ASSUME UNCHANGED holds PROVE LaterWeeksHeld'
  BY <1>3, <1>4, HeldAsBefore
<1>5. ASSUME Tick PROVE LaterWeeksHeld'
  <2>1. \A k \in Key : holds'[k] = IF holds[k] > now' THEN holds[k] ELSE 0
    BY <1>1, <1>5, TickRows
  <2>2. ASSUME NEW k \in Key, holds'[k] # holds[k], NEW d \in Checkout, Pending(d)'
        PROVE  ~(holds[k] >= booking[Root(d)].expires)
    <3>1. booking[Root(d)].expires \in Nat /\ holds[k] \in Nat
      BY <1>1, LessonParts, RowFields DEF TypeOK
    <3>2. booking[Root(d)].expires > now' /\ ~(holds[k] > now')
      BY <1>3, <2>1, <2>2 DEF Pending
    <3> QED
      BY <1>2, <3>1, <3>2
  <2>3. \A k \in Key : \/ holds'[k] = holds[k]
                        \/ \A d \in Checkout : Pending(d)' => ~(holds[k] >= booking[Root(d)].expires)
    BY <2>2, Zenon
  <2> QED
    BY <1>3, <2>3, HeldAsBefore, Zenon
<1>6. ASSUME NEW c \in Checkout, ItnFailed(c) \/ ExpireHold(c) PROVE LaterWeeksHeld'
  <2>1. /\ booking[Root(c)].status = "pending_payment" /\ Root(c) \in Lesson
        /\ booking' = [booking EXCEPT ![Root(c)] = [@ EXCEPT !.status = "expired", !.expires = 0]]
        /\ Release(c, HoldKeys(c, booking[Root(c)].start))
    BY <1>6, LessonParts DEF ItnFailed, ExpireHold, AtPayFast, End
  <2>2. Ended(Root(c))
    BY <1>1, <2>1, RowEnds
  <2>3. ~Pending(c)'
    BY <2>2 DEF Ended, Pending
  <2> QED
    BY <1>3, <2>1, <2>3, ReleaseTakesNoOthers
<1>7. ASSUME NEW l \in Lesson, CancelBooking(l) PROVE LaterWeeksHeld'
  <2> DEFINE c == Owner(l)
  <2>1. /\ booking[l].status \in {"pending_payment", "confirmed"} /\ c \in Checkout
        /\ booking' = [booking EXCEPT ![l] = [@ EXCEPT !.status = "cancelled", !.expires = 0]]
        /\ Release(c, HoldKeys(c, booking[l].start))
    BY <1>7, LessonParts DEF CancelBooking
  <2>2. Ended(l)
    BY <1>1, <2>1, RowEnds
  <2>3. ~Pending(c)'
    <3>1. CASE l = Root(c)
      BY <2>2, <3>1 DEF Ended, Pending
    <3>2. CASE l # Root(c)
      <4>1. ~Pending(c)
        BY <1>1, <2>1, <3>2 DEF RowsInOrder, Pending
      <4> QED
        BY <1>3, <2>1, <4>1
    <3> QED
      BY <3>1, <3>2
  <2> QED
    BY <1>3, <2>1, <2>3, ReleaseTakesNoOthers
<1>8. ASSUME NEW c \in Checkout, CancelSeries(c) PROVE LaterWeeksHeld'
  BY <1>4, <1>8 DEF CancelSeries
<1>9. ASSUME ChangeListing PROVE LaterWeeksHeld'
  <2>1. UNCHANGED holds
    BY <1>9 DEF ChangeListing
  <2> QED
    BY <1>4, <2>1
<1> QED
  BY <1>5, <1>6, <1>7, <1>8, <1>9, QuietKeys

(* A request that runs alone.                                              *)
LEMMA AloneKeepsKeys ==
  ASSUME TurnInv, NEW c \in Checkout, \A d \in Checkout \ {c} : handler[d] = Idle,
         NEW r \in Request, handler' = [handler EXCEPT ![c] = r], HasItsKeys(c)'
  PROVE  \A d \in Checkout : HasItsKeys(d)'
<1>1. TypeOK
  BY DEF TurnInv, Shape
<1>2. \A d \in Checkout : handler'[d] = IF d = c THEN r ELSE handler[d]
  BY <1>1, RequestSet
<1> QED
  BY <1>2, RestingRequest DEF HasItsKeys

LEMMA LookingKeepsKeys ==
  ASSUME TurnInv, ~Overlap, NEW c \in Checkout, NEW start \in Starts[c],
         CheckSlot(c, start) \/ \E l \in Lesson : Owner(l) = c /\ CheckMove(l, start)
  PROVE  LaterWeeksHeld' /\ \A d \in Checkout : HasItsKeys(d)'
<1>1. Shape /\ TypeOK /\ RowsInOrder /\ start \in Nat /\ Root(c) \in Lesson
  BY CheckoutParts, LessonParts DEF TurnInv, Shape
<1>2. (\A d \in Checkout : handler[d] = Idle) /\ UNCHANGED <<now, booking, holds, deprived>>
  BY DEF CheckSlot, CheckMove, Undisturbed, Quiet
<1>3. LaterWeeksHeld'
  BY <1>2, HeldAsBefore DEF Pending
<1>4. ASSUME NEW a \in {"creating", "moving"}, NEW l \in Lesson,
             handler' = [handler EXCEPT ![c] = [at |-> a, lesson |-> l, start |-> start]],
             booking[Root(c)].status # "pending_payment"
      PROVE  \A d \in Checkout : HasItsKeys(d)'
  <2> DEFINE r == [at |-> a, lesson |-> l, start |-> start]
  <2>1. r \in Request /\ r.at = a
    BY <1>1 DEF Request
  <2>2. handler' = [handler EXCEPT ![c] = r]
    BY <1>4
  <2> HIDE DEF r
  <2>3. handler'[c] = r
    BY <1>1, <2>1, <2>2, RequestSet
  <2>4. HasItsKeys(c)'
    BY <1>2, <1>4, <2>1, <2>3 DEF HasItsKeys
  <2> QED
    BY <1>2, <2>1, <2>2, <2>4, AloneKeepsKeys
<1>5. CASE CheckSlot(c, start)
  BY <1>1, <1>3, <1>4, <1>5 DEF CheckSlot
<1>6. CASE \E l \in Lesson : Owner(l) = c /\ CheckMove(l, start)
  <2>1. PICK l \in Lesson : Owner(l) = c /\ CheckMove(l, start)
    BY <1>6
  <2>2. /\ handler' = [handler EXCEPT ![c] = [at |-> "moving", lesson |-> l, start |-> start]]
        /\ booking[l].status = "confirmed"
    BY <2>1 DEF CheckMove
  <2>3. booking[Root(c)].status # "pending_payment"
    BY <1>1, <2>1, <2>2 DEF RowsInOrder
  <2> QED
    BY <1>3, <1>4, <2>2, <2>3
<1> QED
  BY <1>5, <1>6

LEMMA AcquiringKeepsKeys ==
  ASSUME TurnInv, NEW c \in Checkout, AcquireHold(c)
  PROVE  LaterWeeksHeld' /\ \A d \in Checkout : HasItsKeys(d)'
<1>1. Shape /\ TypeOK /\ now \in Nat /\ HoldTime \in Nat /\ RequestShape(c, handler[c])
  BY ClockAssumption DEF TurnInv, Shape, TypeOK
<1>2. /\ handler[c].at \in {"creating", "moving"} /\ FreeKeys(Asked(c))
      /\ holds' = [k \in Key |-> IF k \in Asked(c) THEN now + HoldTime ELSE holds[k]]
      /\ UNCHANGED <<now, booking, deprived>>
  BY DEF AcquireHold
<1> DEFINE a == IF handler[c].at = "creating" THEN "create" ELSE "move"
           r == GoesOn(handler[c], a)
<1>3. a \in {"idle", "creating", "moving", "create", "move", "moved"}
  OBVIOUS
<1>4. handler' = [handler EXCEPT ![c].at = a]
  BY <1>1 DEF AcquireHold, TypeOK
<1>5. (a = "create" <=> handler[c].at = "creating") /\ a \in {"create", "move"}
  OBVIOUS
<1> HIDE DEF a
<1>6. /\ r \in Request /\ r.at = a /\ r.start = handler[c].start
      /\ handler' = [handler EXCEPT ![c] = r]
  BY <1>1, <1>3, <1>4, RequestGoesOn, Zenon
<1> HIDE DEF r
<1>7. handler'[c] = r
  BY <1>1, <1>6, RequestSet
<1>8. LaterWeeksHeld'
  <2>1. \A d \in Checkout : Pending(d)' => Pending(d) /\ booking'[Root(d)] = booking[Root(d)]
    BY <1>2 DEF Pending
  <2>2. ASSUME NEW k \in Key, holds'[k] # holds[k], NEW d \in Checkout, Pending(d)'
        PROVE  ~(holds[k] >= booking[Root(d)].expires)
    <3>1. holds[k] = 0
      BY <1>2, <2>2 DEF FreeKeys
    <3>2. booking[Root(d)].expires \in Nat /\ booking[Root(d)].expires > now
      BY <1>1, <2>1, <2>2, LessonParts, RowFields DEF Pending
    <3> QED
      BY <1>1, <3>1, <3>2
  <2> QED
    BY <1>2, <2>1, <2>2, HeldAsBefore
<1>9. HasItsKeys(c)'
  <2>1. booking'[Root(c)].status # "pending_payment"
    BY <1>2 DEF TurnInv, HasItsKeys
  <2>2. ASSUME r.at = "create", NEW k \in HoldKeys(c, r.start)
        PROVE  k \in Key /\ holds'[k] >= now + HoldTime
    <3>1. Asked(c) = HoldKeys(c, r.start)
      BY <1>5, <1>6, <2>2 DEF Asked
    <3>2. handler[c].start \in Starts[c]
      BY <1>1, <1>2 DEF RequestShape
    <3>3. k \in Key /\ k \in Asked(c)
      BY <1>6, <2>2, <3>1, <3>2, KeysOfStarts
    <3>4. holds'[k] = now + HoldTime
      BY <1>2, <3>3
    <3> QED
      BY <1>1, <3>3, <3>4
  <2> QED
    BY <1>2, <1>7, <2>1, <2>2 DEF HasItsKeys
<1>10. handler[c] # Idle
  BY <1>2, RestingRequest
<1> QED
  BY <1>6, <1>8, <1>9, <1>10, OthersRest, AloneKeepsKeys

(* A request that ends without a row, whether it gives keys back or not.   *)
LEMMA GivingUpKeepsKeys ==
  ASSUME TurnInv, NEW c \in Checkout, HoldRefused(c) \/ ReleaseMove(c) \/ FailCommit(c) \/ Die(c)
  PROVE  LaterWeeksHeld' /\ \A d \in Checkout : HasItsKeys(d)'
<1>1. TypeOK
  BY DEF TurnInv, Shape
<1>2. handler[c] # Idle /\ handler' = [handler EXCEPT ![c] = Idle] /\ UNCHANGED <<now, booking>>
  BY RestingRequest DEF HoldRefused, ReleaseMove, FailCommit, HandBack, Die
<1>3. handler'[c] = Idle
  BY <1>1, <1>2, RestingRequest, RequestSet
<1>4. \A d \in Checkout : HasItsKeys(d)'
  <2>1. HasItsKeys(c)'
    BY <1>3, RestingRequest DEF HasItsKeys
  <2> QED
    BY <1>2, <2>1, RestingRequest, OthersRest, AloneKeepsKeys
<1>5. \A d \in Checkout : Pending(d)' => Pending(d) /\ booking'[Root(d)] = booking[Root(d)]
  BY <1>2 DEF Pending
<1>6. handler[c].at # "idle" /\ ~Pending(c)'
  BY <1>2 DEF TurnInv, OneAtATime, HasItsKeys, Pending
<1>7. ASSUME HoldRefused(c) \/ Die(c) PROVE LaterWeeksHeld'
  <2>1. deprived' = deprived /\ holds' = holds
    BY <1>7 DEF HoldRefused, Die
  <2>2. deprived \subseteq deprived' /\ \A k \in Key : holds'[k] = holds[k]
    BY <2>1
  <2> QED
    BY <1>5, <2>2, HeldAsBefore, Zenon
<1>8. ASSUME ReleaseMove(c) \/ FailCommit(c) PROVE LaterWeeksHeld'
  <2>1. PICK keys : Release(c, keys)
    BY <1>8, Zenon DEF ReleaseMove, FailCommit, HandBack
  <2> QED
    BY <1>5, <1>6, <2>1, ReleaseTakesNoOthers, Zenon
<1> QED
  BY <1>4, <1>7, <1>8

LEMMA CommittingKeepsKeys ==
  ASSUME TurnInv, NEW c \in Checkout, CommitCreate(c) \/ CommitMove(c)
  PROVE  LaterWeeksHeld' /\ \A d \in Checkout : HasItsKeys(d)'
<1>1. Shape /\ TypeOK /\ RowsInOrder /\ now \in Nat
  BY DEF TurnInv, Shape, TypeOK
<1>2. handler[c] # Idle
  BY RestingRequest DEF CommitCreate, CommitMove
<1>3. CASE CommitCreate(c)
  <2>1. /\ \A m \in Lesson \ {Root(c)} : booking'[m] = booking[m]
        /\ booking'[Root(c)].status = "pending_payment" /\ booking'[Root(c)].start = handler[c].start
        /\ booking'[Root(c)].expires = now + HoldTime
        /\ handler'[c] = Idle /\ handler' = [handler EXCEPT ![c] = Idle]
        /\ handler[c].at = "create" /\ UNCHANGED <<now, holds, deprived>>
    BY <1>1, <1>3, CommitCreateRows DEF CommitCreate
  <2>2. HasItsKeys(c)'
    BY <2>1, RestingRequest DEF HasItsKeys
  <2>3. \A k \in HoldKeys(c, handler[c].start) : k \in Key /\ holds[k] >= now + HoldTime
    BY <2>1 DEF TurnInv, HasItsKeys
  <2>4. ASSUME NEW l \in Lesson, l \notin deprived', Pending(Owner(l))', l[2] # 0,
               NEW k \in LockKeys(Place(l)', Duration[Owner(l)])
        PROVE  k \in Key /\ holds'[k] >= booking'[Root(Owner(l))].expires
    <3>0. Owner(l) \in Checkout /\ Owner(Root(c)) = c /\ Owner(Root(Owner(l))) = Owner(l)
          /\ Root(Owner(l)) \in Lesson
      BY LessonParts
    <3>1. CASE Owner(l) = c
      <4>1. Place(l)' = handler[c].start + l[2] * WeekMinutes
        BY <2>1, <2>4, <3>1 DEF Place, LaterStart
      <4>2. l[2] \in 0..(Weeks[c] - 1)
        BY <3>1, LessonParts
      <4>3. Place(l)' \in OccurrenceStarts(handler[c].start, Weeks[c])
        BY <4>1, <4>2 DEF OccurrenceStarts
      <4>4. k \in HoldKeys(c, handler[c].start)
        BY <2>4, <3>1, <4>3 DEF HoldKeys, SlotLockKeys
      <4> QED
        BY <2>1, <2>3, <3>1, <4>4
    <3>2. CASE Owner(l) # c
      <4>1. booking'[Root(Owner(l))] = booking[Root(Owner(l))] /\ now' = now /\ l \notin deprived
        BY <2>1, <2>4, <3>0, <3>2
      <4>2. Pending(Owner(l)) /\ Place(l)' = Place(l)
        BY <2>4, <4>1 DEF Pending, Place
      <4>3. k \in Key /\ holds[k] >= booking[Root(Owner(l))].expires
        BY <2>4, <4>1, <4>2 DEF TurnInv, LaterWeeksHeld
      <4> QED
        BY <2>1, <4>1, <4>3
    <3> QED
      BY <3>1, <3>2
  <2>5. LaterWeeksHeld'
    BY <2>4 DEF LaterWeeksHeld
  <2> QED
    BY <1>2, <2>1, <2>2, <2>5, RestingRequest, OthersRest, AloneKeepsKeys
<1>4. CASE CommitMove(c)
  <2>0. PICK l \in Lesson : l = handler[c].lesson
    BY <1>1, <1>4, CommitMoveRows
  <2>1. /\ Owner(l) = c
        /\ \A m \in Lesson \ {l} : booking'[m] = booking[m]
        /\ booking'[l].status = booking[l].status
        /\ handler' = [handler EXCEPT ![c] = GoesOn(handler[c], "moved")]
        /\ handler[c].at = "move" /\ UNCHANGED <<now, holds, deprived>>
    BY <1>1, <1>4, <2>0, CommitMoveRows
  <2>2. booking[Root(c)].status # "pending_payment"
    BY <2>1 DEF TurnInv, HasItsKeys
  <2>3. booking'[Root(c)].status # "pending_payment"
    BY <2>1, <2>2, LessonParts
  <2>4. \A d \in Checkout : Pending(d)' => Pending(d) /\ booking'[Root(d)] = booking[Root(d)]
    <3> SUFFICES ASSUME NEW d \in Checkout, Pending(d)'
                 PROVE  Pending(d) /\ booking'[Root(d)] = booking[Root(d)]
      OBVIOUS
    <3>1. d # c
      BY <2>3 DEF Pending
    <3>2. Root(d) \in Lesson /\ Root(d) # l
      BY <2>1, <3>1, LessonParts
    <3> QED
      BY <2>1, <3>2 DEF Pending
  <2>5. LaterWeeksHeld'
    BY <2>1, <2>4, HeldAsBefore
  <2> DEFINE r == GoesOn(handler[c], "moved")
  <2>6. r \in Request /\ r.at = "moved"
    <3>1. "moved" \in {"idle", "creating", "moving", "create", "move", "moved"}
      OBVIOUS
    <3> QED
      BY <1>1, <3>1, RequestGoesOn, Zenon
  <2>7. handler' = [handler EXCEPT ![c] = r]
    BY <2>1
  <2> HIDE DEF r
  <2>8. handler'[c] = r
    BY <1>1, <2>6, <2>7, RequestSet
  <2>9. HasItsKeys(c)'
    BY <2>3, <2>6, <2>8 DEF HasItsKeys
  <2> QED
    BY <1>2, <2>5, <2>6, <2>7, <2>9, OthersRest, AloneKeepsKeys
<1> QED
  BY <1>3, <1>4

LEMMA PayingKeepsKeys ==
  ASSUME TurnInv, ~Overlap, NEW c \in Checkout, ItnComplete(c)
  PROVE  LaterWeeksHeld' /\ \A d \in Checkout : HasItsKeys(d)'
<1>1. Shape
  BY DEF TurnInv
<1>2. /\ \A l \in Lesson : Owner(l) # c => booking'[l] = booking[l]
      /\ \A l \in Lesson : Owner(l) = c => booking'[l].status = "confirmed"
      /\ now' = now /\ handler' = handler /\ Quiet
  BY <1>1, ItnCompleteRows DEF ItnComplete, Undisturbed
<1>3. ~Pending(c)'
  BY <1>2, LessonParts DEF Pending
<1>4. \A d \in Checkout : Pending(d)' => Pending(d) /\ booking'[Root(d)] = booking[Root(d)]
  <2> SUFFICES ASSUME NEW d \in Checkout, Pending(d)'
               PROVE  Pending(d) /\ booking'[Root(d)] = booking[Root(d)]
    OBVIOUS
  <2>1. d # c /\ Root(d) \in Lesson /\ Owner(Root(d)) = d
    BY <1>3, LessonParts
  <2> QED
    BY <1>2, <2>1 DEF Pending
<1>5. \E keys : Release(c, keys)
  BY Zenon DEF ItnComplete
<1> QED
  BY <1>2, <1>3, <1>4, <1>5, QuietKeys, ReleaseTakesNoOthers

-----------------------------------------------------------------------------
LEMMA TurnInit == Init => TurnInv
<1> SUFFICES ASSUME Init PROVE TurnInv
  OBVIOUS
<1>1. /\ \A l \in Lesson : booking[l] = Absent
      /\ \A c \in Checkout : handler[c] = Idle
  BY DEF Init
<1>2. Absent.status = "absent"
  BY DEF Absent
<1>3. \A l \in Lesson : ~Claimed(l) /\ ~Pending(Owner(l))
  BY <1>1, <1>2, LessonParts DEF Claimed, Pending, BlocksTime, ActiveStatuses
<1>4. RowsInOrder /\ ClaimsApart /\ LaterWeeksHeld
  BY <1>1, <1>2, <1>3 DEF RowsInOrder, ClaimsApart, LaterWeeksHeld
<1>5. OneAtATime /\ \A c \in Checkout : Looked(c) /\ Kept(c) /\ HasItsKeys(c)
  BY <1>1, RestingRequest DEF OneAtATime, Looked, Kept, HasItsKeys
<1> QED
  BY <1>4, <1>5, ShapeInit DEF TurnInv

LEMMA TurnNext == ASSUME ~Overlap PROVE TurnInv /\ [Next]_vars => TurnInv'
<1> SUFFICES ASSUME TurnInv, [Next]_vars PROVE TurnInv'
  OBVIOUS
<1> DEFINE Turn == /\ RowsInOrder' /\ OneAtATime' /\ ClaimsApart'
                   /\ \A c \in Checkout : Looked(c)' /\ Kept(c)'
           Held == LaterWeeksHeld' /\ \A c \in Checkout : HasItsKeys(c)'
<1>1. Shape' /\ deprived \subseteq deprived'
  BY ShapeNext, HistoryGoesOn DEF TurnInv, Shape
<1>2. CASE UNCHANGED vars
  <2>1. UNCHANGED <<now, booking, holds, handler, deprived>>
    BY <1>2 DEF vars
  <2>2. RowsInOrder' /\ OneAtATime'
    BY <2>1 DEF TurnInv, RowsInOrder, OneAtATime
  <2>3. ClaimsApart' /\ LaterWeeksHeld'
    BY <2>1 DEF TurnInv, ClaimsApart, InTheWay, Claimed, Place, Pending, LaterWeeksHeld
  <2>4. ASSUME NEW c \in Checkout PROVE Looked(c)' /\ HasItsKeys(c)'
    <3>1. Looked(c) /\ HasItsKeys(c)
      BY DEF TurnInv
    <3> QED
      BY <2>1, <3>1 DEF Looked, Clashes, IsCheckout, Times, LeftOut, HasItsKeys
  <2>5. ASSUME NEW c \in Checkout PROVE Kept(c)'
    <3>1. Kept(c)
      BY DEF TurnInv
    <3> QED
      BY <2>1, <3>1 DEF Kept, InTheWay, Claimed, Place, Pending, IsCheckout, Times, LeftOut
  <2> QED
    BY <1>1, <2>2, <2>3, <2>4, <2>5 DEF TurnInv
<1>3. ASSUME NEW c \in Checkout, \E start \in Starts[c] : CheckSlot(c, start)
      PROVE  Turn /\ Held
  BY <1>3, LookingKeepsTurn, LookingKeepsKeys
<1>4. ASSUME NEW l \in Lesson, NEW start \in Starts[Owner(l)], CheckMove(l, start)
      PROVE  Turn /\ Held
  BY <1>4, LessonParts, LookingKeepsTurn, LookingKeepsKeys
<1>5. ASSUME NEW c \in Checkout, AcquireHold(c)
      PROVE  Turn /\ Held
  BY <1>5, AcquiringKeepsTurn, AcquiringKeepsKeys
<1>6. ASSUME NEW c \in Checkout, HoldRefused(c) \/ ReleaseMove(c) \/ FailCommit(c) \/ Die(c)
      PROVE  Turn /\ Held
  <2>1. handler[c] # Idle /\ handler' = [handler EXCEPT ![c] = Idle] /\ UNCHANGED <<now, booking>>
    BY <1>6, RestingRequest DEF HoldRefused, ReleaseMove, FailCommit, HandBack, Die
  <2> QED
    BY <1>1, <1>6, <2>1, GivingUpKeepsTurn, GivingUpKeepsKeys
<1>7. ASSUME NEW c \in Checkout, CommitCreate(c) \/ CommitMove(c) \/ ItnComplete(c)
      PROVE  Turn /\ Held
  <2>1. CASE CommitCreate(c)
    BY <2>1, CreatingKeepsTurn, CommittingKeepsKeys
  <2>2. CASE CommitMove(c)
    BY <2>2, MovingKeepsTurn, CommittingKeepsKeys
  <2>3. CASE ItnComplete(c)
    BY <2>3, PayingKeepsTurn, PayingKeepsKeys
  <2> QED
    BY <1>7, <2>1, <2>2, <2>3
<1>8. ASSUME \/ \E c \in Checkout : ItnFailed(c) \/ ExpireHold(c) \/ CancelSeries(c)
             \/ \E l \in Lesson : CancelBooking(l)
             \/ Tick \/ ChangeListing
      PROVE  Turn /\ Held
  <2>1. Quiet /\ handler' = handler
    BY <1>8 DEF ItnFailed, ExpireHold, CancelSeries, CancelBooking, End, Undisturbed, Tick, ChangeListing
  <2> QED
    BY <1>1, <1>8, <2>1, RestKeepsTurn, RestKeepsKeys
<1>9. CASE Next
  <2> HIDE DEF Turn, Held
  <2>1. Turn /\ Held
    BY <1>3, <1>4, <1>5, <1>6, <1>7, <1>8, <1>9 DEF Next
  <2> QED
    BY <1>1, <2>1 DEF Turn, Held, TurnInv
<1> QED
  BY <1>2, <1>9

(* Rows that have kept their keys share no time.                           *)
RowsApart ==
  \A l, m \in Lesson \ deprived :
    l # m /\ BlocksTime(booking[l], now) /\ BlocksTime(booking[m], now)
      => ~BookingsOverlap(booking[l].start, booking[l].duration,
                          booking[m].start, booking[m].duration)

LEMMA ClaimsTell ==
  ASSUME TurnInv
  PROVE  RowsApart /\ LaterWeeksStayFree
<1>1. Shape /\ RowsInOrder /\ ClaimsApart /\ TypeOK /\ now \in Nat
  BY DEF TurnInv, Shape, TypeOK
<1>2. ASSUME NEW l \in Lesson \ deprived, BlocksTime(booking[l], now)
      PROVE  Claimed(l) /\ Place(l) = booking[l].start /\ booking[l].duration = Duration[Owner(l)]
  BY <1>1, <1>2, ClaimsThatMove, BlockingRows DEF Claimed
<1>3. RowsApart
  BY <1>1, <1>2 DEF RowsApart, ClaimsApart, InTheWay
<1>4. ASSUME NEW c \in Checkout, booking[Root(c)].status = "pending_payment", ~Lapsed(c),
             NEW week \in Lesson \ deprived, NEW l \in Lesson \ deprived,
             Owner(week) = c, Owner(l) # c, BlocksTime(booking[l], now)
      PROVE  ~BookingsOverlap(LaterStart(booking[Root(c)], week[2]), Duration[c],
                              booking[l].start, booking[l].duration)
  <2>1. Pending(c)
    BY <1>1, <1>4, LessonParts, RowFields DEF Pending, Lapsed
  <2>2. Claimed(week) /\ Place(week) = LaterStart(booking[Root(c)], week[2])
    BY <1>4, <2>1 DEF Claimed, Place
  <2> QED
    BY <1>1, <1>2, <1>4, <2>2 DEF ClaimsApart, InTheWay
<1> QED
  BY <1>3, <1>4 DEF LaterWeeksStayFree

(* Requests that come in turn give a teacher's time twice only if keys of a *)
(* week that waited for its payment were deleted by name: whatever else     *)
(* lapses, moves or is cancelled, and however long the series, the keys and *)
(* the rows together keep lessons apart (create_booking, whose query sees   *)
(* no rows of the later weeks).                                             *)
THEOREM InTurnNobodySharesTime ==
  ASSUME ~Overlap PROVE Spec => [](deprived = {} => NoDoubleBooking)
<1>1. TurnInv => (deprived = {} => NoDoubleBooking)
  BY ClaimsTell DEF RowsApart, NoDoubleBooking
<1> QED
  BY <1>1, TurnInit, TurnNext, PTL DEF Spec

(* And a series that waits for its payment keeps free every week it has not *)
(* been deprived of: in turn, no other way to lose one exists.              *)
THEOREM InTurnWeeksStayFree ==
  ASSUME ~Overlap PROVE Spec => []LaterWeeksStayFree
<1>1. TurnInv => LaterWeeksStayFree
  BY ClaimsTell
<1> QED
  BY <1>1, TurnInit, TurnNext, PTL DEF Spec

-----------------------------------------------------------------------------
(* Every step of requests in turn is a step of the teacher's calendar.     *)
Entry(l) == [lesson |-> l, start |-> booking[l].start, duration |-> booking[l].duration]
Listed(l) == l \notin deprived /\ BlocksTime(booking[l], now)

LEMMA WhatIsAnEntry ==
  /\ \A e : e \in Entries <=> \E l \in Lesson : Listed(l) /\ e = Entry(l)
  /\ \A e : e \in Entries' <=> \E l \in Lesson : Listed(l)' /\ e = Entry(l)'
  BY DEF Entries, Entry, Listed

(* What does not overlap fits in.                                          *)
LEMMA ApartIsFit ==
  ASSUME RowsApart', NEW E \in SUBSET Entries'
  PROVE  Calendar!FitIn(E)
<1> SUFFICES ASSUME NEW e \in E, NEW f \in Entries', e # f,
                    BookingsOverlap(e.start, e.duration, f.start, f.duration)
             PROVE  FALSE
  BY DEF Calendar!FitIn, Calendar!Clash, Calendar!BookingsOverlap, BookingsOverlap
<1>1. PICK l \in Lesson : Listed(l)' /\ e = Entry(l)'
  BY WhatIsAnEntry
<1>2. PICK m \in Lesson : Listed(m)' /\ f = Entry(m)'
  BY WhatIsAnEntry
<1>3. l # m
  BY <1>1, <1>2
<1>4. /\ e.start = booking'[l].start /\ e.duration = booking'[l].duration
      /\ f.start = booking'[m].start /\ f.duration = booking'[m].duration
  BY <1>1, <1>2 DEF Entry
<1> QED
  BY <1>1, <1>2, <1>3, <1>4 DEF RowsApart, Listed

LEMMA CalendarSteps ==
  ASSUME RowsApart'
  PROVE  /\ Entries \subseteq Entries' => Calendar!Next
         /\ Entries' \subseteq Entries => Calendar!Next
         /\ \A l \in Lesson :
              /\ Listed(l) /\ Listed(l)'
              /\ \A m \in Lesson \ {l} : Entry(m)' = Entry(m) /\ (Listed(m)' <=> Listed(m))
              => Calendar!Next
<1>1. ASSUME Entries \subseteq Entries' PROVE Calendar!Next
  <2>1. Calendar!FitIn(Entries' \ Entries)
    BY ApartIsFit
  <2> QED
    BY <1>1, <2>1 DEF Calendar!Next, Calendar!Enter
<1>2. ASSUME Entries' \subseteq Entries PROVE Calendar!Next
  BY <1>2 DEF Calendar!Next, Calendar!Leave
<1>3. ASSUME NEW l \in Lesson, Listed(l), Listed(l)',
             \A m \in Lesson \ {l} : Entry(m)' = Entry(m) /\ (Listed(m)' <=> Listed(m))
      PROVE  Calendar!Next
  <2>1. Entry(l) \in Entries /\ Entry(l)' \in Entries'
    BY <1>3, WhatIsAnEntry
  <2>2. Entry(l).lesson = l /\ Entry(l)'.lesson = l
    BY DEF Entry
  <2>3. Entries' = (Entries \ {Entry(l)}) \cup {Entry(l)'}
    <3>1. ASSUME NEW e \in Entries' PROVE e \in (Entries \ {Entry(l)}) \cup {Entry(l)'}
      <4>1. PICK m \in Lesson : Listed(m)' /\ e = Entry(m)'
        BY WhatIsAnEntry
      <4>2. CASE m = l
        BY <4>1, <4>2
      <4>3. CASE m # l
        <5>1. e = Entry(m) /\ e \in Entries
          BY <1>3, <4>1, <4>3, WhatIsAnEntry
        <5>2. e.lesson = m
          BY <5>1 DEF Entry
        <5> QED
          BY <2>2, <4>3, <5>1, <5>2
      <4> QED
        BY <4>2, <4>3
    <3>2. ASSUME NEW e \in Entries, e # Entry(l) PROVE e \in Entries'
      <4>1. PICK m \in Lesson : Listed(m) /\ e = Entry(m)
        BY WhatIsAnEntry
      <4> QED
        BY <1>3, <3>2, <4>1, WhatIsAnEntry
    <3> QED
      BY <2>1, <3>1, <3>2
  <2>4. Calendar!FitIn({Entry(l)'})
    BY <2>1, ApartIsFit
  <2> QED
    BY <2>1, <2>2, <2>3, <2>4 DEF Calendar!Next, Calendar!Move
<1> QED
  BY <1>1, <1>2, <1>3

(* Rows that stay or end, and weeks that are deprived, only leave.         *)
LEMMA EndingLeaves ==
  ASSUME Shape, now' \in Nat, now' >= now, \A l \in Lesson : booking'[l] = booking[l] \/ Ended(l),
         deprived \subseteq deprived'
  PROVE  Entries' \subseteq Entries
<1> SUFFICES ASSUME NEW e \in Entries' PROVE e \in Entries
  OBVIOUS
<1>1. PICK l \in Lesson : l \notin deprived' /\ BlocksTime(booking'[l], now') /\ e = Entry(l)'
  BY WhatIsAnEntry DEF Listed
<1>2. now \in Nat /\ booking[l].expires \in Nat
  BY RowFields DEF Shape, TypeOK
<1>3. booking'[l] = booking[l] /\ BlocksTime(booking[l], now)
  BY <1>1, <1>2 DEF BlocksTime, ActiveStatuses, Ended
<1>4. e = Entry(l)
  BY <1>1, <1>3 DEF Entry
<1> QED
  BY <1>1, <1>3, <1>4, WhatIsAnEntry DEF Listed

LEMMA CreatingEnters ==
  ASSUME TurnInv, NEW c \in Checkout, CommitCreate(c)
  PROVE  Entries \subseteq Entries'
<1> SUFFICES ASSUME NEW e \in Entries PROVE e \in Entries'
  OBVIOUS
<1>1. Shape
  BY DEF TurnInv
<1>2. /\ \A m \in Lesson \ {Root(c)} : booking'[m] = booking[m]
      /\ handler[c].at = "create" /\ now' = now /\ deprived' = deprived
  BY <1>1, CommitCreateRows
<1>3. booking[Root(c)].status = "absent"
  BY <1>2 DEF TurnInv, Looked, IsCheckout
<1>4. PICK l \in Lesson : Listed(l) /\ e = Entry(l)
  BY WhatIsAnEntry
<1>5. l # Root(c)
  BY <1>3, <1>4 DEF Listed, BlocksTime, ActiveStatuses
<1>6. Listed(l)' /\ e = Entry(l)'
  BY <1>2, <1>4, <1>5 DEF Entry, Listed
<1> QED
  BY <1>6, WhatIsAnEntry

(* The weeks a payment deprives by its keys have no rows yet.              *)
LEMMA PayingEnters ==
  ASSUME TurnInv, NEW c \in Checkout, ItnComplete(c)
  PROVE  Entries \subseteq Entries'
<1> SUFFICES ASSUME NEW e \in Entries PROVE e \in Entries'
  OBVIOUS
<1>1. Shape /\ TypeOK /\ RowsInOrder
  BY DEF TurnInv, Shape
<1>2. /\ \A l \in Lesson : Owner(l) # c => booking'[l] = booking[l]
      /\ \A l \in Lesson : Owner(l) = c =>
           /\ booking'[l].status = "confirmed"
           /\ booking'[l].start = booking[Root(c)].start + l[2] * WeekMinutes
           /\ booking'[l].duration = booking[Root(c)].duration
      /\ Pending(c) /\ now' = now
  BY <1>1, ItnCompleteRows DEF Pending
<1>3. PICK l \in Lesson : Listed(l) /\ e = Entry(l)
  BY WhatIsAnEntry
<1>4. BlocksTime(booking[l], now) /\ l \notin deprived
  BY <1>3 DEF Listed
<1>5. l \notin deprived'
  <2>1. deprived' = deprived \cup Losers(c, HoldKeys(c, booking[Root(c)].start))
    BY DEF ItnComplete, Release
  <2>2. ASSUME l \in Losers(c, HoldKeys(c, booking[Root(c)].start)) PROVE FALSE
    <3>1. /\ l[2] # 0 /\ booking[Root(Owner(l))].status = "pending_payment" /\ ~Lapsed(Owner(l))
      BY <2>2 DEF Losers
    <3>2. Pending(Owner(l))
      BY <1>1, <3>1, LessonParts, RowFields DEF Pending, Lapsed, TypeOK
    <3>3. l = Root(Owner(l))
      BY <1>1, <1>4, <3>2, ClaimsThatMove
    <3> QED
      BY <3>1, <3>3 DEF Root
  <2> QED
    BY <1>4, <2>1, <2>2
<1>6. CASE Owner(l) # c
  BY <1>2, <1>3, <1>5, <1>6, WhatIsAnEntry DEF Entry, Listed
<1>7. CASE Owner(l) = c
  <2>1. l = Root(c) /\ Place(l) = booking[l].start
    BY <1>1, <1>2, <1>4, <1>7, ClaimsThatMove
  <2>2. booking'[l].start = booking[l].start /\ booking'[l].duration = booking[l].duration
    BY <1>1, <1>2, <1>7, <2>1, ClaimsThatMove
  <2>3. Listed(l)' /\ e = Entry(l)'
    BY <1>2, <1>3, <1>5, <1>7, <2>2 DEF Entry, Listed, BlocksTime, ActiveStatuses
  <2> QED
    BY <2>3, WhatIsAnEntry
<1> QED
  BY <1>6, <1>7

LEMMA MovingMoves ==
  ASSUME TurnInv, RowsApart', NEW c \in Checkout, CommitMove(c)
  PROVE  Calendar!Next
<1>1. Shape
  BY DEF TurnInv
<1>2. PICK l \in Lesson : l = handler[c].lesson
  BY <1>1, CommitMoveRows
<1>3. /\ \A m \in Lesson \ {l} : booking'[m] = booking[m]
      /\ booking'[l].status = booking[l].status
      /\ handler[c].at = "move" /\ now' = now /\ deprived' = deprived
  BY <1>1, <1>2, CommitMoveRows
<1>4. booking[l].status = "confirmed"
  BY <1>2, <1>3 DEF TurnInv, Looked, IsCheckout
<1>5. BlocksTime(booking[l], now) /\ BlocksTime(booking'[l], now')
  BY <1>3, <1>4 DEF BlocksTime, ActiveStatuses
<1>6. \A m \in Lesson \ {l} : Entry(m)' = Entry(m) /\ (Listed(m)' <=> Listed(m))
  BY <1>3 DEF Entry, Listed
<1>7. CASE l \notin deprived
  BY <1>3, <1>5, <1>6, <1>7, CalendarSteps DEF Listed
<1>8. CASE l \in deprived
  <2>1. ~Listed(l)'
    BY <1>3, <1>8 DEF Listed
  <2>2. Entries' \subseteq Entries
    BY <1>6, <2>1, WhatIsAnEntry
  <2> QED
    BY <2>2, CalendarSteps
<1> QED
  BY <1>7, <1>8

LEMMA CalendarStep ==
  ASSUME ~Overlap
  PROVE  TurnInv /\ RowsApart' /\ [Next]_vars => [Calendar!Next]_Entries
<1> SUFFICES ASSUME TurnInv, RowsApart', [Next]_vars PROVE [Calendar!Next]_Entries
  OBVIOUS
<1>1. Shape /\ now \in Nat /\ deprived \subseteq deprived'
  BY HistoryGoesOn DEF TurnInv, Shape, TypeOK
<1>2. ASSUME UNCHANGED <<now, booking>> PROVE Calendar!Next
  <2>1. Entries' \subseteq Entries
    BY <1>1, <1>2, EndingLeaves
  <2> QED
    BY <2>1, CalendarSteps
<1>3. CASE UNCHANGED vars
  BY <1>2, <1>3 DEF vars
<1>4. ASSUME NEW c \in Checkout, \E start \in Starts[c] : CheckSlot(c, start)
      PROVE  Calendar!Next
  BY <1>2, <1>4 DEF CheckSlot
<1>5. ASSUME NEW l \in Lesson, NEW start \in Starts[Owner(l)], CheckMove(l, start)
      PROVE  Calendar!Next
  BY <1>2, <1>5 DEF CheckMove
<1>6. ASSUME NEW c \in Checkout,
             AcquireHold(c) \/ HoldRefused(c) \/ ReleaseMove(c) \/ FailCommit(c) \/ Die(c)
      PROVE  Calendar!Next
  BY <1>1, <1>2, <1>6, RequestSteps
<1>7. ASSUME NEW c \in Checkout, CommitCreate(c) \/ ItnComplete(c)
      PROVE  Calendar!Next
  BY <1>7, CreatingEnters, PayingEnters, CalendarSteps
<1>8. ASSUME NEW c \in Checkout, CommitMove(c)
      PROVE  Calendar!Next
  BY <1>8, MovingMoves
<1>9. ASSUME \/ \E c \in Checkout : ItnFailed(c) \/ ExpireHold(c) \/ CancelSeries(c)
             \/ \E l \in Lesson : CancelBooking(l)
      PROVE  Calendar!Next
  <2>1. now' \in Nat /\ now' >= now /\ \A l \in Lesson : booking'[l] = booking[l] \/ Ended(l)
    BY <1>1, <1>9, EndingRows
  <2> QED
    BY <1>1, <2>1, EndingLeaves, CalendarSteps
<1>10. ASSUME Tick PROVE Calendar!Next
  <2>1. now' \in Nat /\ now' >= now /\ \A l \in Lesson : booking'[l] = booking[l] \/ Ended(l)
    BY <1>1, <1>10, TickRows
  <2> QED
    BY <1>1, <2>1, EndingLeaves, CalendarSteps
<1>11. ASSUME ChangeListing PROVE Calendar!Next
  BY <1>2, <1>11, ListingRows
<1> QED
  BY <1>3, <1>4, <1>5, <1>6, <1>7, <1>8, <1>9, <1>10, <1>11 DEF Next

LEMMA CalendarInit == Init => Calendar!Init
<1> SUFFICES ASSUME Init PROVE Entries = {}
  BY DEF Calendar!Init
<1>1. \A l \in Lesson : ~BlocksTime(booking[l], now)
  BY DEF Init, Absent, BlocksTime, ActiveStatuses
<1> QED
  BY <1>1 DEF Entries

(* The slot machinery keeps the calendar it promises: whatever requests in  *)
(* turn do, lessons enter only into free time, leave, or move one at a time *)
(* to free time.  Weeks that were deprived of their keys are not in it.     *)
THEOREM InTurnKeepsCalendar ==
  ASSUME ~Overlap PROVE Spec => KeepsCalendar
<1>1. TurnInv => RowsApart
  BY ClaimsTell
<1> QED
  BY <1>1, TurnInit, TurnNext, CalendarStep, CalendarInit, PTL DEF Spec, KeepsCalendar, Calendar!Spec

(* A single lesson has no later weeks to lose.                             *)
LEMMA SinglesLoseNothing ==
  ASSUME \A c \in Checkout : Weeks[c] = 1 PROVE Spec => [](deprived = {})
<1>1. Init => deprived = {}
  BY DEF Init
<1>2. Shape /\ deprived = {} /\ [Next]_vars => (deprived = {})'
  <2> SUFFICES ASSUME Shape, deprived = {}, [Next]_vars, NEW l \in deprived' PROVE FALSE
    OBVIOUS
  <2>1. l \in Lesson /\ l[2] # 0
    BY HistoryGoesOn DEF Shape, History
  <2>2. l[2] \in 0..(1 - 1)
    BY <2>1, LessonParts
  <2> QED
    BY <2>1, <2>2
<1> QED
  BY <1>1, <1>2, ShapeAlways, PTL DEF Spec

(* So single lessons booked and moved in turn never share time, and keep    *)
(* the calendar, without any condition.                                     *)
THEOREM SinglesInTurn ==
  ASSUME ~Overlap, \A c \in Checkout : Weeks[c] = 1
  PROVE  Spec => []NoDoubleBooking /\ KeepsCalendar
  BY SinglesLoseNothing, InTurnNobodySharesTime, InTurnKeepsCalendar, PTL

-----------------------------------------------------------------------------
(* Requests that overlap.  A single lesson has one row, and its keys are    *)
(* those of one start.                                                      *)
First(c) == booking[Root(c)]

(* A checkout that has got its keys, whether its row is written or not.    *)
Waiting(c) == handler[c].at = "create" \/ First(c).status = "pending_payment"
Holder(c)  == Waiting(c) \/ First(c).status = "confirmed"

KeysOf(c) == LockKeys(IF handler[c].at = "create" THEN handler[c].start ELSE First(c).start, Duration[c])
Until(c)  == IF handler[c].at = "create" THEN now + HoldTime ELSE First(c).expires

(* A row that was there when any request that runs now looked at the rows:  *)
(* the clock has moved since it was written.                                *)
Settled(c) ==
  \/ First(c).status = "confirmed"
  \/ First(c).status = "pending_payment" /\ First(c).expires < now + HoldTime

RushRequest(c) ==
  /\ handler[c].at \in {"idle", "creating", "create"}
  /\ handler[c].at = "idle" => handler[c] = Idle
  /\ First(c).status # "absent" => First(c).start \in Starts[c] /\ handler[c].at = "idle"

HoldersApart ==
  \A c, d \in Checkout : c # d /\ Holder(c) /\ Holder(d) => KeysOf(c) \cap KeysOf(d) = {}

Seen(c) ==
  handler[c].at = "creating" =>
    \A d \in Checkout \ {c} : Settled(d) => LockKeys(handler[c].start, Duration[c]) \cap KeysOf(d) = {}

KeysSet(c) == Waiting(c) => \A k \in KeysOf(c) : holds[k] >= Until(c)

RushInv ==
  /\ Shape /\ HoldersApart
  /\ \A c \in Checkout : RushRequest(c) /\ Seen(c) /\ KeysSet(c)

(* No checkout is left unpaid until its hold ends.                         *)
NobodyLapses ==
  \A c \in Checkout : booking[Root(c)].status = "pending_payment" => ~Lapsed(c)

LEMMA FirstRows ==
  ASSUME TypeOK, NEW c \in Checkout
  PROVE  /\ Root(c) \in Lesson /\ First(c).status \in Statuses /\ First(c).start \in Nat
         /\ First(c).expires \in Nat
  BY LessonParts, RowFields DEF First

LEMMA OneLessonEach ==
  ASSUME \A c \in Checkout : Weeks[c] = 1
  PROVE  /\ \A l \in Lesson : Owner(l) \in Checkout /\ l = Root(Owner(l)) /\ l[2] = 0
         /\ \A c \in Checkout, start \in Nat : HoldKeys(c, start) = LockKeys(start, Duration[c])
<1>1. ASSUME NEW l \in Lesson PROVE Owner(l) \in Checkout /\ l = Root(Owner(l)) /\ l[2] = 0
  <2>1. Owner(l) \in Checkout /\ l[2] \in 0..(1 - 1) /\ l = <<Owner(l), l[2]>>
    BY LessonParts
  <2> QED
    BY <2>1 DEF Root
<1>2. ASSUME NEW c \in Checkout, NEW start \in Nat
      PROVE  HoldKeys(c, start) = LockKeys(start, Duration[c])
  BY OneOccurrence DEF HoldKeys, SlotLockKeys
<1> QED
  BY <1>1, <1>2

LEMMA HolderKeys ==
  ASSUME RushInv, NEW c \in Checkout, Holder(c)
  PROVE  /\ KeysOf(c) \subseteq Key
         /\ handler[c].at # "create" => KeysOf(c) = LockKeys(First(c).start, Duration[c])
         /\ handler[c].at = "create" => KeysOf(c) = LockKeys(handler[c].start, Duration[c])
<1>1. RushRequest(c) /\ RequestShape(c, handler[c])
  BY DEF RushInv, Shape
<1>2. CASE handler[c].at = "create"
  BY <1>1, <1>2, KeysOfStarts DEF KeysOf, RequestShape
<1>3. CASE handler[c].at # "create"
  BY <1>1, <1>3, KeysOfStarts DEF KeysOf, RushRequest, Holder, Waiting
<1> QED
  BY <1>2, <1>3

(* A step of one checkout that leaves the rows and keys of the others.     *)
LEMMA RushFrame ==
  ASSUME RushInv, NEW c \in Checkout, Shape', now' = now,
         \A d \in Checkout \ {c} : handler'[d] = handler[d] /\ First(d)' = First(d),
         RushRequest(c)', Seen(c)', KeysSet(c)',
         Holder(c)' => \A d \in Checkout \ {c} : Holder(d) => KeysOf(c)' \cap KeysOf(d) = {},
         Settled(c)' => Settled(c) /\ KeysOf(c)' = KeysOf(c),
         \A d \in Checkout \ {c} : Waiting(d) => \A k \in KeysOf(d) : holds'[k] = holds[k]
  PROVE  RushInv'
<1>1. ASSUME NEW d \in Checkout \ {c}
      PROVE  /\ (Waiting(d)' <=> Waiting(d)) /\ (Holder(d)' <=> Holder(d))
             /\ (Settled(d)' <=> Settled(d)) /\ (RushRequest(d)' <=> RushRequest(d))
             /\ KeysOf(d)' = KeysOf(d) /\ Until(d)' = Until(d)
             /\ handler'[d] = handler[d]
  BY DEF Waiting, Holder, Settled, RushRequest, KeysOf, Until
<1>2. \A d \in Checkout : RushRequest(d)'
  BY <1>1 DEF RushInv
<1>3. HoldersApart'
  <2> SUFFICES ASSUME NEW d \in Checkout, NEW e \in Checkout, d # e, Holder(d)', Holder(e)'
               PROVE  KeysOf(d)' \cap KeysOf(e)' = {}
    BY DEF HoldersApart
  <2>1. CASE d # c /\ e # c
    BY <1>1, <2>1 DEF RushInv, HoldersApart
  <2>2. CASE d = c
    BY <1>1, <2>2
  <2>3. CASE e = c
    BY <1>1, <2>3
  <2> QED
    BY <2>1, <2>2, <2>3
<1>4. ASSUME NEW d \in Checkout \ {c} PROVE Seen(d)'
  <2> SUFFICES ASSUME handler'[d].at = "creating", NEW e \in Checkout \ {d}, Settled(e)'
               PROVE  LockKeys(handler'[d].start, Duration[d]) \cap KeysOf(e)' = {}
    BY DEF Seen
  <2>1. Settled(e) /\ KeysOf(e)' = KeysOf(e)
    BY <1>1
  <2>2. Seen(d)
    BY DEF RushInv
  <2> QED
    BY <1>1, <2>1, <2>2 DEF Seen
<1>5. ASSUME NEW d \in Checkout \ {c} PROVE KeysSet(d)'
  <2>1. KeysSet(d)
    BY DEF RushInv
  <2> QED
    BY <1>1, <2>1 DEF KeysSet
<1> QED
  BY <1>2, <1>3, <1>4, <1>5 DEF RushInv

(* Keys that a holder gives back are nobody else's.                        *)
LEMMA OwnKeysOnly ==
  ASSUME RushInv, NEW c \in Checkout, Holder(c), holds' = Freed(KeysOf(c))
  PROVE  \A d \in Checkout \ {c} : Waiting(d) => \A k \in KeysOf(d) : holds'[k] = holds[k]
<1> SUFFICES ASSUME NEW d \in Checkout \ {c}, Waiting(d), NEW k \in KeysOf(d)
             PROVE  holds'[k] = holds[k]
  OBVIOUS
<1>1. Holder(d)
  BY DEF Holder
<1>2. k \in Key /\ k \notin KeysOf(c)
  BY <1>1, HolderKeys DEF RushInv, HoldersApart
<1> QED
  BY <1>2, FreedKeys DEF RushInv, Shape

(* A checkout that lets go of everything.                                  *)
LEMMA LettingGo ==
  ASSUME RushInv, NEW c \in Checkout, Shape', now' = now,
         \A d \in Checkout \ {c} : handler'[d] = handler[d] /\ First(d)' = First(d),
         RushRequest(c)', handler'[c].at = "idle",
         First(c)'.status \notin {"pending_payment", "confirmed"},
         holds' = holds \/ (Holder(c) /\ holds' = Freed(KeysOf(c)))
  PROVE  RushInv'
<1>1. ~Holder(c)' /\ ~Waiting(c)' /\ ~Settled(c)' /\ Seen(c)' /\ KeysSet(c)'
  BY DEF Holder, Waiting, Settled, Seen, KeysSet
<1>2. \A d \in Checkout \ {c} : Waiting(d) => \A k \in KeysOf(d) : holds'[k] = holds[k]
  BY OwnKeysOnly
<1> QED
  BY <1>1, <1>2, RushFrame

LEMMA RushInit == Init => RushInv
<1> SUFFICES ASSUME Init PROVE RushInv
  OBVIOUS
<1>1. ASSUME NEW c \in Checkout
      PROVE  First(c).status = "absent" /\ handler[c] = Idle
  BY LessonParts DEF Init, First, Absent
<1>2. \A c \in Checkout : RushRequest(c) /\ Seen(c) /\ KeysSet(c) /\ ~Holder(c)
  BY <1>1, RestingRequest DEF RushRequest, Seen, KeysSet, Waiting, Holder
<1> QED
  BY <1>2, ShapeInit DEF RushInv, HoldersApart

LEMMA RushLooking ==
  ASSUME RushInv, NobodyLapses, \A c \in Checkout : Weeks[c] = 1,
         NEW c \in Checkout, NEW start \in Starts[c], CheckSlot(c, start), Shape'
  PROVE  RushInv'
<1>1. /\ Shape /\ TypeOK /\ now \in Nat /\ start \in Nat /\ RushRequest(c)
      /\ Duration[c] \in Nat /\ IsDurationSupported(Duration[c]) /\ Weeks[c] = 1
  BY CheckoutParts DEF RushInv, Shape, TypeOK
<1>2. /\ First(c).status = "absent" /\ UNCHANGED <<now, booking, holds>>
      /\ handler' = [handler EXCEPT ![c] = [at |-> "creating", lesson |-> Root(c), start |-> start]]
      /\ Bookable({start}, Duration[c])
      /\ ~Taken({start}, Duration[c], {booking[l] : l \in Lesson})
  BY <1>1, OneOccurrence DEF CheckSlot, First
<1>3. /\ \A d \in Checkout \ {c} : handler'[d] = handler[d]
      /\ handler'[c].at = "creating" /\ handler'[c].start = start
  BY <1>1, <1>2 DEF TypeOK
<1>4. IsSlotAligned(start)
  BY <1>2 DEF Bookable, IsWithinWeeklyAvailability
<1>5. ~Clashes(Lesson, {start}, Duration[c])
  <2>1. Lesson \in SUBSET Lesson /\ 1 \in Nat \ {0} /\ OccurrenceStarts(start, 1) = {start}
    BY <1>1, OneOccurrence
  <2> QED
    BY <1>1, <1>2, <2>1, TakenMeans
<1>6. ASSUME NEW d \in Checkout \ {c}, Settled(d)
      PROVE  LockKeys(start, Duration[c]) \cap KeysOf(d) = {}
  <2>1. BlocksTime(booking[Root(d)], now) /\ Root(d) \in Lesson /\ Owner(Root(d)) = d
    <3>1. booking[Root(d)].status = "pending_payment" => booking[Root(d)].expires > now
      BY <1>1, FirstRows DEF NobodyLapses, Lapsed, First
    <3> QED
      BY <1>6, <3>1, LessonParts DEF Settled, First, BlocksTime, ActiveStatuses
  <2>2. /\ First(d).start \in Nat /\ First(d).duration = Duration[d] /\ IsSlotAligned(First(d).start)
        /\ Duration[d] \in Nat /\ IsDurationSupported(Duration[d])
    BY <1>1, <2>1, BlockingRows, CheckoutParts DEF First
  <2>3. ~BookingsOverlap(start, Duration[c], First(d).start, Duration[d])
    BY <1>5, <2>1, <2>2 DEF Clashes, First
  <2>4. /\ start \in Int /\ First(d).start \in Int /\ Duration[c] \in Int /\ Duration[d] \in Int
    BY <1>1, <2>2
  <2>5. LockKeys(start, Duration[c]) \cap LockKeys(First(d).start, Duration[d]) = {}
    BY <1>1, <1>4, <2>2, <2>3, <2>4, OverlapIsSharedKey
  <2>6. KeysOf(d) = LockKeys(First(d).start, Duration[d])
    <3>1. Holder(d) /\ First(d).status # "absent"
      BY <1>6 DEF Settled, Holder, Waiting
    <3>2. handler[d].at # "create"
      BY <3>1 DEF RushInv, RushRequest
    <3> QED
      BY <3>1, <3>2, HolderKeys
  <2> QED
    BY <2>5, <2>6
<1>7. \A d \in Checkout : First(d)' = First(d)
  BY <1>2 DEF First
<1>8. RushRequest(c)' /\ ~Waiting(c)' /\ ~Holder(c)' /\ ~Settled(c)' /\ KeysSet(c)'
  BY <1>2, <1>3, <1>7 DEF RushRequest, Waiting, Holder, Settled, KeysSet
<1>9. Seen(c)'
  <2> SUFFICES ASSUME NEW d \in Checkout \ {c}, Settled(d)'
               PROVE  LockKeys(handler'[c].start, Duration[c]) \cap KeysOf(d)' = {}
    BY DEF Seen
  <2>1. Settled(d) /\ KeysOf(d)' = KeysOf(d)
    BY <1>2, <1>3, <1>7 DEF Settled, KeysOf
  <2> QED
    BY <1>3, <1>6, <2>1
<1> QED
  BY <1>2, <1>3, <1>7, <1>8, <1>9, RushFrame

(* The keys are free: whoever waits has others, whoever is confirmed was    *)
(* seen.                                                                    *)
LEMMA RushAcquiring ==
  ASSUME RushInv, NobodyLapses, \A c \in Checkout : Weeks[c] = 1,
         NEW c \in Checkout, AcquireHold(c), Shape'
  PROVE  RushInv'
<1>1. Shape /\ TypeOK /\ now \in Nat /\ RushRequest(c) /\ RequestShape(c, handler[c]) /\ HoldTime \in Nat \ {0}
  BY ClockAssumption DEF RushInv, Shape, TypeOK
<1>2. /\ handler[c].at = "creating" /\ FreeKeys(Asked(c)) /\ UNCHANGED <<now, booking>>
      /\ holds' = [k \in Key |-> IF k \in Asked(c) THEN now + HoldTime ELSE holds[k]]
      /\ handler' = [handler EXCEPT ![c].at = "create"]
  <2>1. handler[c].at = "creating"
    BY <1>1 DEF AcquireHold, RushRequest
  <2> QED
    BY <1>1, <2>1 DEF AcquireHold, TypeOK
<1>3. /\ \A d \in Checkout \ {c} : handler'[d] = handler[d]
      /\ handler'[c].at = "create" /\ handler'[c].start = handler[c].start
  BY <1>1, <1>2 DEF TypeOK
<1>4. \A d \in Checkout : First(d)' = First(d)
  BY <1>2 DEF First
<1>5. handler[c].start \in Starts[c] /\ handler[c].start \in Nat
  BY <1>1, <1>2, CheckoutParts DEF RequestShape
<1>6. Asked(c) = LockKeys(handler[c].start, Duration[c]) /\ Asked(c) \subseteq Key
  BY <1>2, <1>5, OneLessonEach, KeysOfStarts DEF Asked
<1>7. KeysOf(c)' = Asked(c) /\ Until(c)' = now + HoldTime
  BY <1>2, <1>3, <1>6 DEF KeysOf, Until
<1>8. First(c).status = "absent" /\ handler[c] # Idle
  BY <1>1, <1>2, RestingRequest DEF RushRequest
<1>9. RushRequest(c)' /\ Seen(c)' /\ ~Settled(c)'
  BY <1>2, <1>3, <1>4, <1>8 DEF RushRequest, Seen, Settled
<1>10. ASSUME NEW d \in Checkout \ {c}, Holder(d)
       PROVE  Asked(c) \cap KeysOf(d) = {}
  <2>1. CASE Waiting(d)
    <3>1. KeysSet(d)
      BY DEF RushInv
    <3>2. Until(d) \in Nat /\ Until(d) > 0
      BY <1>1, <2>1, FirstRows DEF Until, Waiting, NobodyLapses, Lapsed, First
    <3>3. ASSUME NEW k \in KeysOf(d), k \in Asked(c) PROVE FALSE
      <4>1. holds[k] >= Until(d) /\ holds[k] = 0
        BY <1>2, <2>1, <3>1, <3>3 DEF KeysSet, FreeKeys
      <4> QED
        BY <3>2, <4>1
    <3> QED
      BY <3>3
  <2>2. CASE ~Waiting(d)
    <3>1. Settled(d) /\ Seen(c)
      BY <1>10, <2>2 DEF Holder, Settled, RushInv
    <3> QED
      BY <1>2, <1>6, <3>1 DEF Seen
  <2> QED
    BY <2>1, <2>2
<1>11. ASSUME NEW d \in Checkout \ {c}, Waiting(d), NEW k \in KeysOf(d)
       PROVE  holds'[k] = holds[k]
  <2>1. Holder(d)
    BY <1>11 DEF Holder
  <2>2. k \in Key /\ k \notin Asked(c)
    BY <1>10, <2>1, HolderKeys
  <2> QED
    BY <1>2, <2>2
<1>12. KeysSet(c)'
  <2>1. now + HoldTime >= now + HoldTime
    BY <1>1
  <2>2. \A k \in Asked(c) : holds'[k] = now + HoldTime
    BY <1>2, <1>6
  <2> QED
    BY <1>7, <2>1, <2>2 DEF KeysSet
<1> QED
  BY <1>2, <1>3, <1>4, <1>7, <1>9, <1>10, <1>11, <1>12, RushFrame

LEMMA RushGivingUp ==
  ASSUME RushInv, \A c \in Checkout : Weeks[c] = 1,
         NEW c \in Checkout, HoldRefused(c) \/ FailCommit(c) \/ Die(c), Shape'
  PROVE  RushInv'
<1>1. Shape /\ TypeOK /\ RushRequest(c) /\ RequestShape(c, handler[c])
  BY DEF RushInv, Shape
<1>2. UNCHANGED <<now, booking>> /\ handler' = [handler EXCEPT ![c] = Idle]
  BY DEF HoldRefused, FailCommit, HandBack, Die
<1>3. handler[c].at \in {"creating", "create"}
  BY <1>1, RestingRequest DEF HoldRefused, FailCommit, Die, RushRequest
<1>4. holds' = holds \/ (Holder(c) /\ holds' = Freed(KeysOf(c)))
  <2>1. CASE HoldRefused(c) \/ Die(c)
    BY <2>1 DEF HoldRefused, Die
  <2>2. CASE FailCommit(c)
    <3>1. handler[c].at = "create" /\ holds' = Freed(HoldKeys(c, handler[c].start))
      BY <1>3, <2>2 DEF FailCommit, Release
    <3>2. handler[c].start \in Nat
      BY <1>1, RequestFields
    <3>3. Holder(c) /\ KeysOf(c) = HoldKeys(c, handler[c].start)
      BY <3>1, <3>2, OneLessonEach DEF Holder, Waiting, KeysOf
    <3> QED
      BY <3>1, <3>3
  <2> QED
    BY <2>1, <2>2
<1>5. \A d \in Checkout : handler'[d] = IF d = c THEN Idle ELSE handler[d]
  BY <1>1, <1>2, RestingRequest, RequestSet
<1>6. \A d \in Checkout : First(d)' = First(d)
  BY <1>2 DEF First
<1>7. First(c).status = "absent"
  BY <1>1, <1>3 DEF RushRequest
<1>8. RushRequest(c)'
  BY <1>5, <1>6, <1>7, RestingRequest DEF RushRequest
<1> QED
  BY <1>2, <1>4, <1>5, <1>6, <1>7, <1>8, RestingRequest, LettingGo

LEMMA RushCreating ==
  ASSUME RushInv, NEW c \in Checkout, CommitCreate(c), Shape'
  PROVE  RushInv'
<1>1. Shape /\ TypeOK /\ now \in Nat /\ HoldTime \in Nat /\ RequestShape(c, handler[c])
  BY ClockAssumption DEF RushInv, Shape, TypeOK
<1>2. /\ \A m \in Lesson \ {Root(c)} : booking'[m] = booking[m]
      /\ First(c)'.status = "pending_payment" /\ First(c)'.start = handler[c].start
      /\ First(c)'.expires = now + HoldTime
      /\ handler'[c] = Idle /\ \A d \in Checkout \ {c} : handler'[d] = handler[d]
      /\ handler[c].at = "create" /\ now' = now /\ holds' = holds
  BY <1>1, CommitCreateRows DEF First
<1>3. \A d \in Checkout \ {c} : First(d)' = First(d)
  BY <1>2, LessonParts DEF First
<1>4. /\ Holder(c) /\ Waiting(c) /\ KeysOf(c)' = KeysOf(c)
      /\ Until(c) = now + HoldTime /\ Until(c)' = now + HoldTime
  BY <1>2, RestingRequest DEF Holder, Waiting, KeysOf, Until
<1>5. RushRequest(c)' /\ Seen(c)'
  BY <1>1, <1>2, RestingRequest DEF RushRequest, Seen, RequestShape
<1>6. ~Settled(c)'
  BY <1>1, <1>2 DEF Settled
<1>7. KeysSet(c)'
  BY <1>2, <1>4 DEF KeysSet, RushInv
<1>8. \A d \in Checkout \ {c} : Holder(d) => KeysOf(c)' \cap KeysOf(d) = {}
  BY <1>4 DEF RushInv, HoldersApart
<1> QED
  BY <1>2, <1>3, <1>5, <1>6, <1>7, <1>8, RushFrame

LEMMA RushPaying ==
  ASSUME RushInv, \A c \in Checkout : Weeks[c] = 1, NEW c \in Checkout, ItnComplete(c), Shape'
  PROVE  RushInv'
<1>1. Shape /\ TypeOK /\ now \in Nat /\ RushRequest(c)
  BY DEF RushInv, Shape, TypeOK
<1>2. /\ \A l \in Lesson : Owner(l) # c => booking'[l] = booking[l]
      /\ First(c)'.status = "confirmed"
      /\ First(c)'.start = First(c).start + Root(c)[2] * WeekMinutes
      /\ holds' = Freed(HoldKeys(c, First(c).start))
      /\ First(c).status = "pending_payment" /\ First(c).expires < now + HoldTime
      /\ now' = now /\ handler' = handler
  BY <1>1, ItnCompleteRows, LessonParts DEF First
<1>3. First(c).start \in Nat /\ First(c)'.start = First(c).start
  <2>1. First(c).start \in Nat
    BY <1>1, FirstRows
  <2>2. Root(c)[2] = 0
    BY DEF Root
  <2> QED
    BY <1>2, <2>1, <2>2 DEF WeekMinutes
<1>4. \A d \in Checkout \ {c} : First(d)' = First(d)
  BY <1>2, LessonParts DEF First
<1>5. handler[c].at = "idle"
  BY <1>1, <1>2 DEF RushRequest
<1>6. /\ Holder(c) /\ Settled(c) /\ KeysOf(c)' = KeysOf(c) /\ KeysOf(c) = HoldKeys(c, First(c).start)
      /\ ~Waiting(c)'
  BY <1>2, <1>3, <1>5, OneLessonEach DEF Holder, Waiting, Settled, KeysOf
<1>7. RushRequest(c)' /\ Seen(c)' /\ KeysSet(c)'
  BY <1>1, <1>2, <1>3, <1>5, <1>6 DEF RushRequest, Seen, KeysSet
<1>8. \A d \in Checkout \ {c} : Waiting(d) => \A k \in KeysOf(d) : holds'[k] = holds[k]
  BY <1>2, <1>6, OwnKeysOnly
<1>9. \A d \in Checkout \ {c} : Holder(d) => KeysOf(c)' \cap KeysOf(d) = {}
  BY <1>6 DEF RushInv, HoldersApart
<1> QED
  BY <1>2, <1>4, <1>6, <1>7, <1>8, <1>9, RushFrame

LEMMA RushEnding ==
  ASSUME RushInv, \A c \in Checkout : Weeks[c] = 1, Shape',
         \/ \E c \in Checkout : ItnFailed(c) \/ ExpireHold(c)
         \/ \E l \in Lesson : CancelBooking(l)
  PROVE  RushInv'
<1>1. Shape /\ TypeOK
  BY DEF RushInv, Shape
<1>2. ASSUME NEW c \in Checkout, NEW status \in {"expired", "cancelled"},
             First(c).status \in {"pending_payment", "confirmed"},
             booking' = [booking EXCEPT ![Root(c)] = [@ EXCEPT !.status = status, !.expires = 0]],
             holds' = Freed(HoldKeys(c, First(c).start)), UNCHANGED <<now, handler>>
      PROVE  RushInv'
  <2>1. Root(c) \in Lesson /\ RushRequest(c) /\ First(c).start \in Nat
    BY <1>1, FirstRows DEF RushInv
  <2>2. Ended(Root(c)) /\ \A m \in Lesson \ {Root(c)} : booking'[m] = booking[m]
    <3>1. booking[Root(c)].status \in {"pending_payment", "confirmed"}
      BY <1>2 DEF First
    <3> QED
      BY <1>1, <1>2, <2>1, <3>1, RowEnds
  <2>3. \A d \in Checkout \ {c} : First(d)' = First(d)
    BY <2>2, LessonParts DEF First
  <2>4. First(c)'.status \in {"expired", "cancelled"} /\ First(c)'.start = First(c).start
    BY <2>2 DEF Ended, First
  <2>5. handler[c].at = "idle" /\ handler[c] = Idle /\ First(c).start \in Starts[c]
    BY <1>2, <2>1 DEF RushRequest
  <2>6. Holder(c) /\ KeysOf(c) = HoldKeys(c, First(c).start)
    BY <1>2, <2>1, <2>5, OneLessonEach DEF Holder, Waiting, KeysOf
  <2>7. RushRequest(c)'
    BY <1>2, <2>4, <2>5 DEF RushRequest
  <2> QED
    BY <1>2, <2>3, <2>4, <2>5, <2>6, <2>7, LettingGo
<1>3. ASSUME NEW c \in Checkout, ItnFailed(c) \/ ExpireHold(c)
      PROVE  RushInv'
  <2>1. End(c, "expired") /\ First(c).status = "pending_payment"
    BY <1>3 DEF ItnFailed, ExpireHold, AtPayFast, First
  <2> QED
    BY <1>2, <2>1 DEF End, Release, First
<1>4. ASSUME NEW l \in Lesson, CancelBooking(l)
      PROVE  RushInv'
  <2>1. PICK c \in Checkout : c = Owner(l) /\ l = Root(c)
    BY OneLessonEach
  <2> QED
    BY <1>2, <1>4, <2>1 DEF CancelBooking, Release, First
<1> QED
  BY <1>3, <1>4

(* The clock goes on while no request runs, and nobody's keys run out.     *)
LEMMA RushTick ==
  ASSUME RushInv, NobodyLapses', Tick, Shape'
  PROVE  RushInv'
<1>1. Shape /\ TypeOK /\ now \in Nat
  BY DEF RushInv, Shape, TypeOK
<1>2. /\ \A c \in Checkout : handler[c] = Idle
      /\ now' \in Nat /\ now' > now
      /\ \A k \in Key : holds'[k] = IF holds[k] > now' THEN holds[k] ELSE 0
      /\ UNCHANGED <<booking, handler>>
  BY <1>1, TickRows DEF Quiet
<1>3. ASSUME NEW c \in Checkout
      PROVE  /\ First(c)' = First(c) /\ handler'[c].at = "idle" /\ handler[c].at = "idle"
             /\ KeysOf(c)' = KeysOf(c)
             /\ (Holder(c)' <=> Holder(c)) /\ (Waiting(c)' <=> Waiting(c))
             /\ RushRequest(c)' /\ Seen(c)'
  <2>1. First(c)' = First(c) /\ handler'[c].at = "idle" /\ handler[c].at = "idle" /\ handler'[c] = handler[c]
    BY <1>2, RestingRequest DEF First
  <2>2. RushRequest(c)
    BY DEF RushInv
  <2> QED
    BY <2>1, <2>2 DEF KeysOf, Holder, Waiting, RushRequest, Seen
<1>4. HoldersApart'
  BY <1>3 DEF RushInv, HoldersApart
<1>5. ASSUME NEW c \in Checkout PROVE KeysSet(c)'
  <2> SUFFICES ASSUME Waiting(c)', NEW k \in KeysOf(c)'
               PROVE  holds'[k] >= Until(c)'
    BY DEF KeysSet
  <2>1. Waiting(c) /\ k \in KeysOf(c) /\ First(c).status = "pending_payment"
    BY <1>3 DEF Waiting
  <2>2. Until(c) = First(c).expires /\ Until(c)' = First(c).expires
    BY <1>3 DEF Until
  <2>3. First(c).expires \in Nat /\ First(c).expires > now'
    <3>1. First(c).expires \in Nat
      BY <1>1, FirstRows
    <3>2. ~(First(c).expires <= now')
      BY <1>2, <2>1 DEF NobodyLapses, Lapsed, First
    <3> QED
      BY <1>2, <3>1, <3>2
  <2>4. holds[k] >= First(c).expires
    BY <2>1, <2>2 DEF RushInv, KeysSet
  <2>5. k \in Key /\ holds[k] \in Nat
    BY <1>1, <2>1, HolderKeys DEF Holder, TypeOK
  <2>6. holds[k] > now'
    BY <1>2, <2>3, <2>4, <2>5
  <2> QED
    BY <1>2, <2>2, <2>4, <2>5, <2>6
<1> QED
  BY <1>3, <1>4, <1>5 DEF RushInv

LEMMA RushNext ==
  ASSUME Movers = {}, \A c \in Checkout : Weeks[c] = 1
  PROVE  RushInv /\ NobodyLapses /\ NobodyLapses' /\ [Next]_vars => RushInv'
<1> SUFFICES ASSUME RushInv, NobodyLapses, NobodyLapses', [Next]_vars PROVE RushInv'
  OBVIOUS
<1>1. Shape'
  BY ShapeNext DEF RushInv
<1>2. ASSUME UNCHANGED <<now, booking, holds, handler>> PROVE RushInv'
  <2>1. \A c \in Checkout : First(c)' = First(c) /\ handler'[c] = handler[c]
    BY <1>2 DEF First
  <2>2. now' = now /\ holds' = holds
    BY <1>2
  <2>3. \A c \in Checkout : /\ KeysOf(c)' = KeysOf(c) /\ Until(c)' = Until(c)
                            /\ (Holder(c)' <=> Holder(c)) /\ (Waiting(c)' <=> Waiting(c))
                            /\ (Settled(c)' <=> Settled(c)) /\ (RushRequest(c)' <=> RushRequest(c))
    BY <2>1, <2>2 DEF KeysOf, Until, Holder, Waiting, Settled, RushRequest
  <2>4. HoldersApart'
    BY <2>3 DEF RushInv, HoldersApart
  <2>5. \A c \in Checkout : Seen(c)' /\ KeysSet(c)'
    BY <2>1, <2>2, <2>3 DEF RushInv, Seen, KeysSet
  <2> QED
    BY <1>1, <2>3, <2>4, <2>5 DEF RushInv
<1>3. ASSUME NEW c \in Checkout, \E start \in Starts[c] : CheckSlot(c, start)
      PROVE  RushInv'
  BY <1>1, <1>3, RushLooking
<1>4. ASSUME NEW c \in Checkout, AcquireHold(c)
      PROVE  RushInv'
  BY <1>1, <1>4, RushAcquiring
<1>5. ASSUME NEW c \in Checkout, HoldRefused(c) \/ FailCommit(c) \/ Die(c)
      PROVE  RushInv'
  BY <1>1, <1>5, RushGivingUp
<1>6. ASSUME NEW c \in Checkout, CommitCreate(c) \/ ItnComplete(c)
      PROVE  RushInv'
  BY <1>1, <1>6, RushCreating, RushPaying
<1>7. ASSUME \/ \E c \in Checkout : ItnFailed(c) \/ ExpireHold(c)
             \/ \E l \in Lesson : CancelBooking(l)
      PROVE  RushInv'
  BY <1>1, <1>7, RushEnding
<1>8. ASSUME Tick PROVE RushInv'
  BY <1>1, <1>8, RushTick
<1>9. ASSUME NEW c \in Checkout PROVE ~CommitMove(c) /\ ~ReleaseMove(c) /\ ~CancelSeries(c)
  BY DEF CommitMove, ReleaseMove, CancelSeries, RushInv, RushRequest
<1>10. CASE ChangeListing
  BY <1>2, <1>10, ListingRows
<1>11. CASE UNCHANGED vars
  BY <1>2, <1>11 DEF vars
<1> QED
  BY <1>3, <1>4, <1>5, <1>6, <1>7, <1>8, <1>9, <1>10, <1>11 DEF Next

LEMMA RushTells ==
  ASSUME RushInv, \A c \in Checkout : Weeks[c] = 1
  PROVE  NoDoubleBooking /\ HeldForItsTime
<1>1. Shape /\ TypeOK /\ now \in Nat
  BY DEF RushInv, Shape, TypeOK
<1>2. ASSUME NEW c \in Checkout, BlocksTime(First(c), now)
      PROVE  /\ Holder(c) /\ KeysOf(c) = LockKeys(First(c).start, Duration[c])
             /\ First(c).start \in Int /\ First(c).duration = Duration[c] /\ IsSlotAligned(First(c).start)
             /\ Duration[c] \in Int /\ IsDurationSupported(Duration[c])
  <2>1. First(c).status \in {"pending_payment", "confirmed"}
    BY <1>1, <1>2, FirstRows DEF BlocksTime, ActiveStatuses, Statuses
  <2>2. Holder(c) /\ handler[c].at # "create"
    BY <2>1 DEF Holder, Waiting, RushInv, RushRequest
  <2>3. Root(c) \in Lesson /\ Owner(Root(c)) = c /\ BlocksTime(booking[Root(c)], now)
    BY <1>2, LessonParts DEF First
  <2>4. First(c).start \in Int /\ First(c).duration = Duration[c] /\ IsSlotAligned(First(c).start)
    BY <1>1, <2>3, BlockingRows DEF First
  <2> QED
    BY <2>2, <2>4, HolderKeys, CheckoutParts
<1>3. ASSUME NEW c \in Checkout, NEW d \in Checkout, c # d,
             BlocksTime(First(c), now), BlocksTime(First(d), now)
      PROVE  ~BookingsOverlap(First(c).start, First(c).duration, First(d).start, First(d).duration)
  <2>1. LockKeys(First(c).start, Duration[c]) \cap LockKeys(First(d).start, Duration[d]) = {}
    BY <1>2, <1>3 DEF RushInv, HoldersApart
  <2> QED
    BY <1>2, <1>3, <2>1, OverlapIsSharedKey
<1>4. NoDoubleBooking
  BY <1>3, OneLessonEach DEF NoDoubleBooking, First
<1>5. HeldForItsTime
  <2> SUFFICES ASSUME NEW c \in Checkout, First(c).status = "pending_payment", ~Lapsed(c),
                      NEW k \in HoldKeys(c, First(c).start)
               PROVE  holds[k] > now
    BY DEF HeldForItsTime, First
  <2>1. /\ First(c).start \in Nat /\ First(c).expires \in Nat /\ First(c).expires > now
    BY <1>1, FirstRows DEF Lapsed, First
  <2>2. handler[c].at # "create" /\ Waiting(c) /\ Holder(c)
    BY DEF RushInv, RushRequest, Waiting, Holder
  <2>3. k \in KeysOf(c) /\ Until(c) = First(c).expires /\ k \in Key
    BY <2>1, <2>2, HolderKeys, OneLessonEach DEF Until
  <2>4. holds[k] >= First(c).expires /\ holds[k] \in Nat
    BY <1>1, <2>2, <2>3 DEF RushInv, KeysSet, TypeOK
  <2> QED
    BY <1>1, <2>1, <2>4
<1> QED
  BY <1>4, <1>5

(* A rush of checkouts for single lessons, overlapping step by step: no two *)
(* get time they share, though rows are read before the keys are set, as    *)
(* long as nobody reschedules and no hold lapses unpaid.                    *)
THEOREM RushSharesNoTime ==
  ASSUME Movers = {}, \A c \in Checkout : Weeks[c] = 1
  PROVE  Spec /\ []NobodyLapses => []NoDoubleBooking
<1>1. RushInv => NoDoubleBooking
  BY RushTells
<1> QED
  BY <1>1, RushInit, RushNext, PTL DEF Spec

(* And every hold stays set for as long as it may be paid.                  *)
THEOREM RushKeepsHolds ==
  ASSUME Movers = {}, \A c \in Checkout : Weeks[c] = 1
  PROVE  Spec /\ []NobodyLapses => []HeldForItsTime
<1>1. RushInv => HeldForItsTime
  BY RushTells
<1> QED
  BY <1>1, RushInit, RushNext, PTL DEF Spec

(* In less time than a hold lasts nothing lapses, so there the condition    *)
(* is met.                                                                  *)
Early ==
  /\ Shape /\ now <= MaxTime
  /\ \A c \in Checkout : booking[Root(c)].status = "pending_payment" => booking[Root(c)].expires >= HoldTime

LEMMA EarlyInit == Init => Early
<1> SUFFICES ASSUME Init PROVE Early
  OBVIOUS
<1>1. \A c \in Checkout : booking[Root(c)].status = "absent"
  BY LessonParts DEF Init, Absent
<1>2. now <= MaxTime
  BY ClockAssumption DEF Init
<1> QED
  BY <1>1, <1>2, ShapeInit DEF Early

LEMMA EarlyNext == Early /\ [Next]_vars => Early'
<1> SUFFICES ASSUME Early, [Next]_vars PROVE Early'
  OBVIOUS
<1>1. Shape /\ now \in Nat /\ HoldTime \in Nat /\ Shape'
  BY ShapeNext, ClockAssumption DEF Early, Shape, TypeOK
<1> DEFINE Stays(l) == booking'[l].status = "pending_payment" =>
                        booking[l].status = "pending_payment" /\ booking'[l].expires = booking[l].expires
           Fresh(l) == booking'[l].status = "pending_payment" => booking'[l].expires = now + HoldTime
<1>2. SUFFICES now' <= MaxTime /\ \A l \in Lesson : Stays(l) \/ Fresh(l)
  <2>1. ASSUME NEW c \in Checkout, booking'[Root(c)].status = "pending_payment",
               Stays(Root(c)) \/ Fresh(Root(c))
        PROVE  booking'[Root(c)].expires >= HoldTime
    BY <1>1, <2>1 DEF Early
  <2> HIDE DEF Stays, Fresh
  <2> QED
    BY <1>1, <1>2, <2>1, LessonParts DEF Early
<1>3. ASSUME UNCHANGED <<now, booking>>
      PROVE  now' <= MaxTime /\ \A l \in Lesson : Stays(l) \/ Fresh(l)
  BY <1>3 DEF Early
<1>4. CASE UNCHANGED vars
  BY <1>3, <1>4 DEF vars
<1>5. ASSUME NEW c \in Checkout, \E start \in Starts[c] : CheckSlot(c, start)
      PROVE  UNCHANGED <<now, booking>>
  BY <1>5 DEF CheckSlot
<1>6. ASSUME NEW l \in Lesson, NEW start \in Starts[Owner(l)], CheckMove(l, start)
      PROVE  UNCHANGED <<now, booking>>
  BY <1>6 DEF CheckMove
<1>7. ASSUME NEW c \in Checkout,
             AcquireHold(c) \/ HoldRefused(c) \/ ReleaseMove(c) \/ FailCommit(c) \/ Die(c)
      PROVE  UNCHANGED <<now, booking>>
  BY <1>1, <1>7, RequestSteps
<1>8. ASSUME NEW c \in Checkout, CommitCreate(c) \/ CommitMove(c) \/ ItnComplete(c)
      PROVE  now' <= MaxTime /\ \A l \in Lesson : Stays(l) \/ Fresh(l)
  <2>1. CASE CommitCreate(c)
    BY <1>1, <2>1, CommitCreateRows DEF Early
  <2>2. CASE CommitMove(c)
    <3>1. PICK l \in Lesson : l = handler[c].lesson
      BY <1>1, <2>2, CommitMoveRows
    <3>2. /\ \A m \in Lesson \ {l} : booking'[m] = booking[m]
          /\ booking'[l].status = booking[l].status /\ booking'[l].expires = booking[l].expires
          /\ now' = now
      BY <1>1, <2>2, <3>1, CommitMoveRows
    <3> QED
      BY <3>2 DEF Early
  <2>3. CASE ItnComplete(c)
    BY <1>1, <2>3, ItnCompleteRows DEF Early
  <2> QED
    BY <1>8, <2>1, <2>2, <2>3
<1>9. ASSUME \/ \E c \in Checkout : ItnFailed(c) \/ ExpireHold(c) \/ CancelSeries(c)
             \/ \E l \in Lesson : CancelBooking(l)
      PROVE  now' <= MaxTime /\ \A l \in Lesson : Stays(l) \/ Fresh(l)
  BY <1>1, <1>9, EndingRows DEF Early, Ended
<1>10. ASSUME Tick
       PROVE  now' <= MaxTime /\ \A l \in Lesson : Stays(l) \/ Fresh(l)
  BY <1>1, <1>10, TickRows
<1>11. ASSUME ChangeListing PROVE UNCHANGED <<now, booking>>
  BY <1>11 DEF ChangeListing
<1> HIDE DEF Stays, Fresh
<1> QED
  BY <1>3, <1>4, <1>5, <1>6, <1>7, <1>8, <1>9, <1>10, <1>11 DEF Next

(* Until the first hold may end, a rush of checkouts is safe without any    *)
(* condition on what happens.                                               *)
THEOREM EarlyRush ==
  ASSUME Movers = {}, \A c \in Checkout : Weeks[c] = 1, MaxTime < HoldTime
  PROVE  Spec => [](NoDoubleBooking /\ HeldForItsTime)
<1>1. Early => NobodyLapses
  <2> SUFFICES ASSUME Early, NEW c \in Checkout, booking[Root(c)].status = "pending_payment"
               PROVE  ~Lapsed(c)
    BY DEF NobodyLapses
  <2>1. now \in Nat /\ booking[Root(c)].expires \in Nat /\ MaxTime \in Nat /\ HoldTime \in Nat
    BY LessonParts, RowFields, ClockAssumption DEF Early, Shape, TypeOK
  <2> QED
    BY <2>1 DEF Early, Lapsed
<1> QED
  BY <1>1, EarlyInit, EarlyNext, RushSharesNoTime, RushKeepsHolds, PTL DEF Spec

=============================================================================
