-------------------------- MODULE HandlerRacesProofs --------------------------
(***************************************************************************)
(* Any number of handlers and jobs on one booking: whatever they have read *)
(* when they commit, a lesson is live only if it is paid for.              *)
(***************************************************************************)
EXTENDS HandlerRaces, TLAPS

Live == {"confirmed", "in_progress", "completed"}
Gone == {"cancelled", "expired"}
Unpaid == {"failed", "cancelled"}

Writes == [busy: {TRUE}, booking: Live \cup Gone \cup {"same"},
           payment: Unpaid \cup {"complete", "same"},
           refund: BOOLEAN, payout: BOOLEAN, children: BOOLEAN]

(* Every column, the clock and every handler has a value of its type.      *)
TypeOK ==
  /\ booking \in Live \cup Gone \cup {"pending_payment"}
  /\ payment \in Unpaid \cup {"pending", "complete"}
  /\ refund \in BOOLEAN /\ payouts \in Nat /\ children \in Nat
  /\ clock \in {"held", "lapsed", "begun", "ended"}
  /\ work \in [Handler -> Writes \cup {Idle}]

Busy(h) == work[h] # Idle

(* Before the lesson begins, each commit makes it live and paid, or takes  *)
(* it off, or leaves booking and payment alone.                            *)
Together ==
  \A h \in Handler : Busy(h) =>
    /\ work[h].booking \in Live => work[h].payment = "complete"
    /\ work[h].payment \in Unpaid => work[h].booking \in Gone

(* Once it has begun, either nobody will make it live ...                  *)
NobodyRevives ==
  /\ booking \notin Live
  /\ \A h \in Handler : Busy(h) => work[h].booking \notin Live

(* ... or nobody will write its payment.                                   *)
NobodyUnpays ==
  /\ booking # "pending_payment"
  /\ \A h \in Handler : Busy(h) => work[h].payment = "same"
  /\ booking \in Live => payment = "complete"
  /\ (\E h \in Handler : Busy(h) /\ work[h].booking \in Live) => payment = "complete"

Inv ==
  /\ TypeOK
  /\ LiveIsPaid
  /\ clock \in {"held", "lapsed"} => Together
  /\ clock \in {"begun", "ended"} => NobodyRevives \/ NobodyUnpays

-----------------------------------------------------------------------------
(* What a handler may decide, by what it has read.                         *)
Proper(w) ==
  /\ w \in Writes
  /\ w.payment \in Unpaid => w.booking \in Gone /\ booking = "pending_payment"
  /\ w.payment = "complete" => clock = "held"
  /\ w.booking \in Live =>
       \/ w.payment = "complete"
       \/ w.payment = "same" /\ booking \in Live /\ clock \in {"begun", "ended"}

LEMMA DecidesStep ==
  ASSUME Inv, NEW h \in Handler, NEW w, Decides(h, w), Proper(w)
  PROVE  Inv'
<1>1. w \in Writes /\ w # Idle
  <2>1. w \in Writes
    BY DEF Proper
  <2>2. w.busy = TRUE
    BY <2>1 DEF Writes
  <2>3. Idle.busy = FALSE
    BY DEF Idle
  <2> QED
    BY <2>1, <2>2, <2>3
<1>2. /\ work' = [work EXCEPT ![h] = w] /\ work[h] = Idle
      /\ UNCHANGED <<booking, payment, refund, payouts, children, clock>>
  BY DEF Decides, rows
<1>3. TypeOK'
  BY <1>1, <1>2 DEF Inv, TypeOK
<1>4. work'[h] = w /\ \A g \in Handler \ {h} : work'[g] = work[g]
  BY <1>2 DEF Inv, TypeOK
<1>5. LiveIsPaid'
  BY <1>2 DEF Inv, LiveIsPaid
<1>6. ASSUME clock' \in {"held", "lapsed"} PROVE Together'
  BY <1>1, <1>2, <1>4, <1>6 DEF Inv, Together, Busy, Proper
<1>7. ASSUME clock' \in {"begun", "ended"} PROVE NobodyRevives' \/ NobodyUnpays'
  <2>1. CASE NobodyRevives
    BY <1>1, <1>2, <1>4, <1>7, <2>1 DEF NobodyRevives, Busy, Proper
  <2>2. CASE NobodyUnpays
    <3>1. w.payment = "same"
      BY <1>1, <1>2, <1>7, <2>2 DEF NobodyUnpays, Proper, Writes
    <3>2. w.booking \in Live => payment = "complete"
      BY <2>2, <3>1 DEF NobodyUnpays, Proper
    <3> QED
      BY <1>2, <1>4, <2>2, <3>1, <3>2 DEF NobodyUnpays, Busy
  <2> QED
    BY <1>2, <1>7, <2>1, <2>2 DEF Inv
<1> QED
  BY <1>3, <1>5, <1>6, <1>7 DEF Inv

LEMMA NothingFields ==
  /\ Nothing.busy = TRUE /\ Nothing.booking = "same" /\ Nothing.payment = "same"
  /\ Nothing.refund = FALSE /\ Nothing.payout = FALSE /\ Nothing.children = FALSE
  /\ Nothing \in Writes
  BY DEF Nothing, Writes

(* Handlers that read a checkout still to be paid.                         *)
LEMMA CheckoutStep ==
  ASSUME Inv, NEW h \in Handler, NoticeComplete(h) \/ NoticeFailed(h) \/ Expire(h)
  PROVE  Inv'
<1>1. \E w : Decides(h, w) /\ Proper(w)
  <2>1. CASE NoticeComplete(h) /\ clock = "held"
    <3> DEFINE w == [Nothing EXCEPT !.booking = "confirmed", !.payment = "complete", !.children = TRUE]
    <3>1. Proper(w)
      BY <2>1 DEF Proper, Nothing, Writes, Live, Gone, Unpaid
    <3> QED
      BY <2>1, <3>1 DEF NoticeComplete
  <2>2. CASE NoticeComplete(h) /\ clock # "held"
    <3> DEFINE w == [Nothing EXCEPT !.booking = "expired", !.payment = "cancelled"]
    <3>1. Proper(w)
      BY <2>2 DEF NoticeComplete, Proper, Nothing, Writes, Live, Gone, Unpaid
    <3> QED
      BY <2>2, <3>1 DEF NoticeComplete
  <2>3. CASE NoticeFailed(h)
    <3> DEFINE w == [Nothing EXCEPT !.booking = "expired", !.payment = "failed"]
    <3>1. Proper(w)
      BY <2>3 DEF NoticeFailed, Proper, Nothing, Writes, Live, Gone, Unpaid
    <3> QED
      BY <2>3, <3>1 DEF NoticeFailed
  <2>4. CASE Expire(h)
    <3> DEFINE p == IF payment = "pending" THEN "cancelled" ELSE "same"
               w == [Nothing EXCEPT !.booking = "expired", !.payment = p]
    <3>1. p \in {"cancelled", "same"}
      OBVIOUS
    <3>2. Decides(h, w)
      BY <2>4 DEF Expire
    <3> HIDE DEF p
    <3>3. Proper(w)
      BY <2>4, <3>1 DEF Expire, Proper, Nothing, Writes, Live, Gone, Unpaid
    <3> QED
      BY <3>2, <3>3
  <2> QED
    BY <2>1, <2>2, <2>3, <2>4
<1> QED
  BY <1>1, DecidesStep

(* Cancellation and the closing of the account.                            *)
LEMMA CancelStep ==
  ASSUME Inv, NEW h \in Handler, Cancel(h) \/ Close(h)
  PROVE  Inv'
<1>1. ASSUME booking = "pending_payment",
             Decides(h, [Nothing EXCEPT !.booking = "cancelled", !.payment = "cancelled"])
      PROVE  Inv'
  <2> DEFINE w == [Nothing EXCEPT !.booking = "cancelled", !.payment = "cancelled"]
  <2>1. Proper(w)
    BY <1>1 DEF Proper, Nothing, Writes, Live, Gone, Unpaid
  <2> HIDE DEF w
  <2> QED
    BY <1>1, <2>1, DecidesStep DEF w
<1>2. ASSUME NEW back \in BOOLEAN, NEW share \in BOOLEAN,
             Decides(h, [Nothing EXCEPT !.booking = "cancelled", !.refund = back, !.payout = share])
      PROVE  Inv'
  <2> DEFINE w == [Nothing EXCEPT !.booking = "cancelled", !.refund = back, !.payout = share]
  <2>1. Proper(w)
    BY DEF Proper, Nothing, Writes, Live, Gone, Unpaid
  <2> HIDE DEF w
  <2> QED
    BY <1>2, <2>1, DecidesStep DEF w
<1>3. ASSUME Decides(h, [Nothing EXCEPT !.booking = "cancelled", !.refund = TRUE])
      PROVE  Inv'
  <2> DEFINE w == [Nothing EXCEPT !.booking = "cancelled", !.refund = TRUE]
  <2>1. Proper(w)
    BY DEF Proper, Nothing, Writes, Live, Gone, Unpaid
  <2> HIDE DEF w
  <2> QED
    BY <1>3, <2>1, DecidesStep DEF w
<1>4. CASE Close(h)
  BY <1>1, <1>3, <1>4 DEF Close
<1>5. CASE Cancel(h) /\ booking # "pending_payment"
  <2>1. PICK back \in BOOLEAN, share \in BOOLEAN :
          Decides(h, [Nothing EXCEPT !.booking = "cancelled",
                                     !.refund = back /\ payment = "complete",
                                     !.payout = share /\ payment = "complete" /\ payouts = 0])
    BY <1>5 DEF Cancel
  <2> DEFINE b == back /\ payment = "complete"
             s == share /\ payment = "complete" /\ payouts = 0
  <2>2. b \in BOOLEAN /\ s \in BOOLEAN
    OBVIOUS
  <2>3. Decides(h, [Nothing EXCEPT !.booking = "cancelled", !.refund = b, !.payout = s])
    BY <2>1
  <2> HIDE DEF b, s
  <2> QED
    BY <1>2, <2>2, <2>3
<1>6. CASE Cancel(h) /\ booking = "pending_payment"
  BY <1>1, <1>6 DEF Cancel
<1> QED
  BY <1>4, <1>5, <1>6

(* Handlers and jobs that move a lesson on, or only pay the teacher.       *)
LEMMA LessonStep ==
  ASSUME Inv, NEW h \in Handler, Start(h) \/ Complete(h) \/ AutoComplete(h) \/ WeeklyPayouts(h)
  PROVE  Inv'
<1>1. ASSUME NEW to \in {"in_progress", "completed"}, booking \in Live, clock \in {"begun", "ended"},
             Decides(h, [Nothing EXCEPT !.booking = to])
      PROVE  Inv'
  <2> DEFINE w == [Nothing EXCEPT !.booking = to]
  <2>1. Proper(w)
    BY <1>1 DEF Proper, Nothing, Writes, Live, Gone, Unpaid
  <2> HIDE DEF w
  <2> QED
    BY <1>1, <2>1, DecidesStep DEF w
<1>2. CASE Start(h)
  BY <1>1, <1>2 DEF Start, Live
<1>3. CASE Complete(h)
  BY <1>1, <1>3 DEF Complete, Live
<1>4. CASE AutoComplete(h)
  <2> DEFINE w == [Nothing EXCEPT !.booking = "completed", !.payout = TRUE]
  <2>1. Proper(w)
    BY <1>4 DEF AutoComplete, Proper, Nothing, Writes, Live, Gone, Unpaid
  <2>2. Decides(h, w)
    BY <1>4 DEF AutoComplete
  <2> HIDE DEF w
  <2> QED
    BY <2>1, <2>2, DecidesStep
<1>5. CASE WeeklyPayouts(h)
  <2> DEFINE w == [Nothing EXCEPT !.payout = TRUE]
  <2>1. Proper(w)
    BY DEF Proper, Nothing, Writes, Live, Gone, Unpaid
  <2>2. Decides(h, w)
    BY <1>5 DEF WeeklyPayouts
  <2> HIDE DEF w
  <2> QED
    BY <2>1, <2>2, DecidesStep
<1> QED
  BY <1>2, <1>3, <1>4, <1>5

-----------------------------------------------------------------------------
(* The work of h is over; the rows and the clock stay.                     *)
LEMMA Forgets ==
  ASSUME Inv, NEW h \in Handler, work' = [work EXCEPT ![h] = Idle],
         UNCHANGED <<booking, payment, refund, payouts, children, clock>>
  PROVE  Inv'
<1>1. TypeOK'
  BY DEF Inv, TypeOK
<1>2. \A g \in Handler : Busy(g)' => Busy(g) /\ work'[g] = work[g]
  BY DEF Inv, TypeOK, Busy
<1>3. LiveIsPaid'
  BY DEF Inv, LiveIsPaid
<1>4. Together => Together'
  BY <1>2 DEF Together
<1>5. NobodyRevives => NobodyRevives'
  BY <1>2 DEF NobodyRevives
<1>6. NobodyUnpays => NobodyUnpays'
  BY <1>2 DEF NobodyUnpays
<1> QED
  BY <1>1, <1>3, <1>4, <1>5, <1>6 DEF Inv

LEMMA CommitStep == ASSUME Inv, NEW h \in Handler, Commit(h) PROVE Inv'
<1> DEFINE w == work[h]
<1>1. Busy(h) /\ w \in Writes /\ work' = [work EXCEPT ![h] = Idle] /\ UNCHANGED clock
  BY DEF Commit, Busy, Inv, TypeOK
<1>2. CASE w.refund /\ refund
  BY <1>1, <1>2, Forgets DEF Commit, rows
<1>3. CASE ~(w.refund /\ refund)
  <2>1. /\ booking' = IF w.booking = "same" THEN booking ELSE w.booking
        /\ payment' = IF w.payment = "same" THEN payment ELSE w.payment
        /\ refund' = (refund \/ w.refund)
        /\ payouts' = payouts + IF w.payout THEN 1 ELSE 0
        /\ children' = children + IF w.children THEN 1 ELSE 0
    BY <1>3 DEF Commit
  <2>2. /\ w.booking \in Live \cup Gone \cup {"same"} /\ w.payment \in Unpaid \cup {"complete", "same"}
        /\ w.refund \in BOOLEAN
    BY <1>1 DEF Writes
  <2>3. \A g \in Handler : Busy(g)' => Busy(g) /\ work'[g] = work[g]
    BY <1>1 DEF Inv, TypeOK, Busy
  <2>4. TypeOK'
    <3>1. booking' \in Live \cup Gone \cup {"pending_payment"} /\ payment' \in Unpaid \cup {"pending", "complete"}
      BY <2>1, <2>2 DEF Inv, TypeOK
    <3>2. payouts' \in Nat /\ children' \in Nat /\ refund' \in BOOLEAN
      BY <2>1, <2>2 DEF Inv, TypeOK
    <3>3. work' \in [Handler -> Writes \cup {Idle}]
      BY <1>1 DEF Inv, TypeOK
    <3> QED
      BY <1>1, <3>1, <3>2, <3>3 DEF Inv, TypeOK
  <2>5. Live \cap Gone = {} /\ "same" \notin Live \cup Gone \cup Unpaid /\ "complete" \notin Unpaid
        /\ "pending_payment" \notin Live \cup Gone
    BY DEF Live, Gone, Unpaid
  <2>6. ASSUME clock \in {"held", "lapsed"} PROVE LiveIsPaid' /\ Together'
    <3>1. Together /\ (booking \in Live => payment = "complete")
      BY <2>6 DEF Inv, LiveIsPaid, Live
    <3>2. Together'
      BY <2>3, <3>1 DEF Together
    <3>3. booking' \in Live => payment' = "complete"
      BY <1>1, <2>1, <2>2, <2>5, <3>1 DEF Together
    <3> QED
      BY <3>2, <3>3 DEF LiveIsPaid, Live
  <2>7. ASSUME NobodyRevives PROVE LiveIsPaid' /\ NobodyRevives'
    <3>1. booking' \notin Live
      BY <1>1, <2>1, <2>7 DEF NobodyRevives
    <3> QED
      BY <2>3, <2>7, <3>1 DEF NobodyRevives, LiveIsPaid, Live
  <2>8. ASSUME NobodyUnpays PROVE LiveIsPaid' /\ NobodyUnpays'
    <3>1. payment' = payment /\ booking' # "pending_payment"
      BY <1>1, <2>1, <2>2, <2>5, <2>8 DEF NobodyUnpays
    <3>2. booking' \in Live => payment = "complete"
      BY <1>1, <2>1, <2>8 DEF NobodyUnpays
    <3> QED
      BY <2>3, <2>8, <3>1, <3>2 DEF NobodyUnpays, LiveIsPaid, Live
  <2>9. clock \in {"held", "lapsed"} \/ NobodyRevives \/ NobodyUnpays
    BY DEF Inv, TypeOK
  <2>10. LiveIsPaid'
    BY <2>6, <2>7, <2>8, <2>9
  <2>11. clock' \in {"begun", "ended"} => NobodyRevives' \/ NobodyUnpays'
    BY <1>1, <2>7, <2>8 DEF Inv
  <2> QED
    BY <1>1, <2>4, <2>6, <2>10, <2>11 DEF Inv
<1> QED
  BY <1>2, <1>3

(* Nothing is under way when the lesson begins.                            *)
LEMMA TickStep == ASSUME Inv, Tick PROVE Inv'
<1>1. UNCHANGED <<booking, payment, refund, payouts, children, work>>
  BY DEF Tick, rows
<1>2. TypeOK'
  BY <1>1 DEF Tick, Inv, TypeOK
<1>3. LiveIsPaid' /\ (Together => Together')
  BY <1>1 DEF Inv, LiveIsPaid, Together, Busy
<1>4. (NobodyRevives => NobodyRevives') /\ (NobodyUnpays => NobodyUnpays')
  BY <1>1 DEF NobodyRevives, NobodyUnpays, Busy
<1>5. CASE clock = "held" /\ clock' = "lapsed"
  BY <1>2, <1>3, <1>5 DEF Inv
<1>6. CASE clock = "lapsed" /\ Quiet /\ clock' = "begun"
  <2>1. \A h \in Handler : ~Busy(h)'
    BY <1>1, <1>6 DEF Quiet, Busy
  <2>2. NobodyRevives' \/ NobodyUnpays'
    <3>1. CASE booking \in Live
      BY <1>1, <2>1, <3>1 DEF NobodyUnpays, Inv, LiveIsPaid, Live
    <3>2. CASE booking \notin Live
      BY <1>1, <2>1, <3>2 DEF NobodyRevives
    <3> QED
      BY <3>1, <3>2
  <2> QED
    BY <1>2, <1>3, <1>6, <2>2 DEF Inv
<1>7. CASE clock = "begun" /\ clock' = "ended"
  BY <1>2, <1>3, <1>4, <1>7 DEF Inv
<1> QED
  BY <1>5, <1>6, <1>7 DEF Tick

LEMMA InvInit == Init => Inv
<1> SUFFICES ASSUME Init PROVE Inv
  OBVIOUS
<1>1. TypeOK
  BY DEF Init, TypeOK, Unpaid
<1>2. Together
  BY DEF Init, Together, Busy
<1> QED
  BY <1>1, <1>2 DEF Init, Inv, LiveIsPaid

LEMMA InvStep == ASSUME Inv, [Next]_vars PROVE Inv'
<1>1. CASE UNCHANGED vars
  BY <1>1 DEF vars, rows, Inv, TypeOK, LiveIsPaid, Together, NobodyRevives, NobodyUnpays, Busy
<1>2. ASSUME NEW h \in Handler, Die(h) PROVE Inv'
  BY <1>2, Forgets DEF Die, rows
<1> QED
  BY <1>1, <1>2, CheckoutStep, CancelStep, LessonStep, CommitStep, TickStep DEF Next

(* The invariant holds of every behaviour.                                 *)
THEOREM RacesSafe == Spec => []Inv
  BY InvInit, InvStep, PTL DEF Spec

(* However many notices, cancellations, sweeps and jobs overlap on a       *)
(* booking, the lesson is live or taught only if its payment is complete.  *)
THEOREM LiveLessonsArePaid == Spec => []LiveIsPaid
<1>1. Inv => LiveIsPaid
  BY DEF Inv
<1> QED
  BY <1>1, RacesSafe, PTL
=============================================================================
