------------------------- MODULE OneTimeLinksProofs -------------------------
(***************************************************************************)
(* One-time tickets, for any number of tickets and requests: what was      *)
(* issued whatever requests do to each other, and that a ticket works once *)
(* while they do not overlap.                                              *)
(***************************************************************************)
EXTENDS OneTimeLinks, TLAPS

Steps == {"idle", "insert", "look", "replace", "set", "remember", "hand", "burn", "apply"}

Work == [at: Steps, kind: Kind \cup {"unissued"}, ticket: Ticket \cup {None}]

(* Every key, column and request has a value of its type.                  *)
TypeOK ==
  /\ live \subseteq Ticket /\ handed \subseteq Ticket
  /\ kind \in [Ticket -> Kind \cup {"unissued"}]
  /\ newest \in [Mailed -> Ticket \cup {None}]
  /\ applied \in [Ticket -> Nat]
  /\ account \in {"none", "open", "closed"} /\ verified \in BOOLEAN
  /\ request \in [Request -> Work]
  /\ overlapped \in BOOLEAN

(* Tickets are issued one after the other, and only issued ones are known. *)
Known ==
  /\ \E n \in 0..MaxTicket : Issued = 1..n
  /\ live \subseteq Issued /\ handed \subseteq Issued
  /\ \A t \in Ticket : applied[t] # 0 => t \in Issued

(* What a request has in hand at each of its steps.                        *)
InHand(w) ==
  /\ w.at \in {"insert", "look", "replace", "set", "remember"} => w.kind \in Mailed
  /\ w.at \in {"remember", "hand", "burn", "apply"} =>
       w.ticket \in Issued /\ kind[w.ticket] = w.kind

TicketInv ==
  /\ TypeOK
  /\ Known
  /\ \A r \in Request : InHand(request[r])

-----------------------------------------------------------------------------
(* While requests do not overlap.                                          *)

(* The links that somebody may follow, of one kind.                        *)
Followable(k) == {t \in handed \cap live : kind[t] = k}

(* Only the remembered link can be followed, and it has not been.          *)
Fresh ==
  /\ \A k \in Mailed : Followable(k) \subseteq {newest[k]}
  /\ \A t \in live : applied[t] = 0
  /\ \A t \in Ticket : applied[t] <= 1

(* What the one request under way has established.                         *)
Turn(w) ==
  /\ w.at = "replace" => w.ticket = newest[w.kind]
  /\ w.at \in {"set", "remember"} => Followable(w.kind) = {}
  /\ w.at = "hand" /\ w.kind \in Mailed => newest[w.kind] = w.ticket /\ Followable(w.kind) = {}
  /\ w.at = "burn" => w.ticket \in handed \cap live
  /\ w.at = "apply" => w.ticket \notin live /\ applied[w.ticket] = 0

Alone == \A q, r \in Request : request[q] # Idle /\ request[r] # Idle => q = r

TurnInv ==
  ~overlapped =>
    /\ Alone
    /\ Fresh
    /\ \A r \in Request : Turn(request[r])

Inv == TicketInv /\ TurnInv

-----------------------------------------------------------------------------
(* A ticket is issued: the next number.                                    *)
LEMMA NewTicketIsNew ==
  ASSUME NEW n \in 0..MaxTicket, Issued = 1..n, Issued # Ticket
  PROVE  /\ NewTicket \in Ticket \ Issued
         /\ NewTicket = n + 1 /\ n + 1 \in 0..MaxTicket
         /\ Issued \cup {NewTicket} = 1..(n + 1)
<1>1. n < MaxTicket /\ n + 1 \in Ticket /\ n + 1 \in 0..MaxTicket
  BY TicketAssumption DEF Ticket
<1>2. \A t \in Ticket : Issued = 1..(t - 1) <=> t = n + 1
  <2> SUFFICES ASSUME NEW t \in Ticket PROVE Issued = 1..(t - 1) <=> t = n + 1
    OBVIOUS
  <2>1. t \in Nat \ {0} /\ n \in Nat
    BY TicketAssumption DEF Ticket
  <2>2. ASSUME 1..n = 1..(t - 1) PROVE t = n + 1
    <3>1. CASE n < t - 1
      <4>1. t - 1 \in 1..(t - 1) /\ t - 1 \notin 1..n
        BY <2>1, <3>1
      <4> QED
        BY <2>2, <4>1
    <3>2. CASE n > t - 1
      <4>1. n \in 1..n /\ n \notin 1..(t - 1)
        BY <2>1, <3>2
      <4> QED
        BY <2>2, <4>1
    <3> QED
      BY <2>1, <3>1, <3>2
  <2>3. ASSUME t = n + 1 PROVE 1..n = 1..(t - 1)
    BY <2>1, <2>3
  <2> QED
    BY <2>2, <2>3
<1>3. NewTicket = n + 1
  BY <1>1, <1>2 DEF NewTicket
<1>4. n + 1 \notin 1..n /\ 1..n \cup {n + 1} = 1..(n + 1)
  BY <1>1 DEF Ticket
<1> QED
  BY <1>1, <1>3, <1>4

LEMMA NoneIsNoTicket == None \notin Ticket
  BY DEF None, Ticket

(* What was issued stays issued, for the same purpose.                     *)
Extends == Issued \subseteq Issued' /\ \A t \in Issued : kind'[t] = kind[t]

LEMMA KindKept ==
  ASSUME UNCHANGED kind
  PROVE  UNCHANGED Issued /\ Extends
  BY DEF Issued, Extends

(* A new ticket, which nobody has been handed or has used.                 *)
LEMMA Issues ==
  ASSUME TypeOK, Known, Issued # Ticket, NEW k \in Kind,
         live' = live \cup {NewTicket}, kind' = [kind EXCEPT ![NewTicket] = k],
         UNCHANGED <<newest, handed, applied>>
  PROVE  /\ NewTicket \in Ticket /\ NewTicket \notin Issued /\ NewTicket \in Issued'
         /\ kind'[NewTicket] = k /\ kind' \in [Ticket -> Kind \cup {"unissued"}]
         /\ Known' /\ Extends
         /\ NewTicket \notin handed /\ applied[NewTicket] = 0
<1>1. PICK n \in 0..MaxTicket : Issued = 1..n
  BY DEF Known
<1>2. /\ NewTicket \in Ticket \ Issued /\ n + 1 \in 0..MaxTicket
      /\ Issued \cup {NewTicket} = 1..(n + 1)
  BY <1>1, NewTicketIsNew
<1> DEFINE new == NewTicket
<1> HIDE DEF new
<1>3. new \in Ticket \ Issued /\ kind' = [kind EXCEPT ![new] = k] /\ live' = live \cup {new}
  BY <1>2 DEF new
<1>4. k # "unissued"
  BY DEF Kind, Mailed, Google
<1>5. Issued' = Issued \cup {new} /\ kind'[new] = k /\ \A t \in Issued : kind'[t] = kind[t]
  BY <1>3, <1>4 DEF Issued, TypeOK
<1>6. kind' \in [Ticket -> Kind \cup {"unissued"}]
  BY <1>3 DEF TypeOK
<1>7. Issued' = 1..(n + 1)
  BY <1>2, <1>5 DEF new
<1> HIDE DEF Issued
<1>8. Known'
  BY <1>2, <1>3, <1>5, <1>7 DEF Known
<1>9. Extends
  BY <1>5 DEF Extends
<1>10. new \notin handed /\ applied[new] = 0 /\ new \in Issued'
  BY <1>3, <1>5 DEF Known
<1> QED
  BY <1>3, <1>5, <1>6, <1>8, <1>9, <1>10 DEF new

-----------------------------------------------------------------------------
(* How a request goes on.                                                  *)
Others(r) == \A q \in Request \ {r} : request'[q] = request[q]

GoesOn(r, w) == request' \in [Request -> Work] /\ request'[r] = w /\ Others(r)

LEMMA IdleIsWork == Idle \in Work
  BY DEF Idle, Work, Steps

LEMMA Continues ==
  ASSUME TypeOK, NEW r \in Request, NEW w \in Work, request' = [request EXCEPT ![r] = w]
  PROVE  GoesOn(r, w)
  BY DEF TypeOK, GoesOn, Others

LEMMA Finished ==
  ASSUME TypeOK, NEW r \in Request, Finish(r)
  PROVE  GoesOn(r, Idle) /\ overlapped' = overlapped
  BY IdleIsWork, Continues DEF Finish

LEMMA InHandStays ==
  ASSUME Extends, NEW q \in Request, InHand(request[q]), request'[q] = request[q]
  PROVE  InHand(request[q])'
<1> HIDE DEF Issued
<1> QED
  BY DEF InHand, Extends

LEMMA IdleTurn == Turn(Idle)' /\ InHand(Idle)'
  BY DEF Turn, InHand, Idle

LEMMA Acts ==
  ASSUME Inv, NEW r \in Request, Others(r), Extends,
         ~overlapped' => ~overlapped /\ (request[r] # Idle \/ Quiet),
         TypeOK', Known', InHand(request[r])',
         ~overlapped' => Fresh' /\ Turn(request[r])'
  PROVE  Inv'
<1>1. \A q \in Request : InHand(request[q])'
  <2> TAKE q \in Request
  <2>1. CASE q = r
    BY <2>1
  <2>2. CASE q # r
    <3>1. request'[q] = request[q]
      BY <2>2 DEF Others
    <3> QED
      BY <3>1, InHandStays DEF Inv, TicketInv
  <2> QED
    BY <2>1, <2>2
<1>2. ASSUME ~overlapped', NEW q \in Request, q # r PROVE request'[q] = Idle
  BY <1>2 DEF Others, Inv, TurnInv, Alone, Quiet
<1>3. TurnInv'
  <2> SUFFICES ASSUME ~overlapped'
               PROVE  Alone' /\ Fresh' /\ (\A q \in Request : Turn(request[q]))'
    BY DEF TurnInv
  <2>1. Alone'
    BY <1>2 DEF Alone
  <2>2. ASSUME NEW q \in Request PROVE Turn(request[q])'
    BY <1>2, IdleTurn
  <2> QED
    BY <2>1, <2>2
<1> QED
  BY <1>1, <1>3 DEF Inv, TicketInv

(* What holds of a request under way before its step.                      *)
LEMMA UnderWay ==
  ASSUME Inv, NEW r \in Request
  PROVE  /\ TypeOK /\ Known /\ request[r] \in Work /\ InHand(request[r])
         /\ ~overlapped => Turn(request[r]) /\ Fresh
  BY DEF Inv, TicketInv, TurnInv, TypeOK

(* The fields of a request after it took the step from this to next.       *)
LEMMA Stepped ==
  ASSUME Inv, NEW r \in Request, NEW this \in Steps \ {"idle"}, NEW next \in Steps,
         Step(r, this, next)
  PROVE  /\ request' \in [Request -> Work] /\ Others(r) /\ request[r].at = this
         /\ request'[r].at = next /\ request[r] # Idle
         /\ request'[r].kind = request[r].kind /\ request'[r].ticket = request[r].ticket
         /\ overlapped' = overlapped
<1> DEFINE w == [request[r] EXCEPT !.at = next]
<1>1. TypeOK /\ request[r] \in Work
  BY UnderWay
<1>2. w \in Work /\ w.at = next /\ w.kind = request[r].kind /\ w.ticket = request[r].ticket
  BY <1>1 DEF Work
<1>3. request' = [request EXCEPT ![r] = w] /\ request[r].at = this /\ overlapped' = overlapped
  BY DEF Step, At
<1> HIDE DEF w
<1>4. GoesOn(r, w)
  BY <1>1, <1>2, <1>3, Continues
<1>5. request[r] # Idle
  BY <1>3 DEF Idle
<1> QED
  BY <1>2, <1>3, <1>4, <1>5 DEF GoesOn

(* A request goes on, and no ticket changes.                               *)
LEMMA Thinks ==
  ASSUME Inv, NEW r \in Request, NEW w \in Work, GoesOn(r, w),
         UNCHANGED <<live, kind, newest, handed, applied>>,
         account' \in {"none", "open", "closed"}, verified' \in BOOLEAN,
         overlapped' \in BOOLEAN,
         ~overlapped' => ~overlapped /\ (request[r] # Idle \/ Quiet),
         InHand(w), ~overlapped => Turn(w)
  PROVE  Inv'
<1>1. request'[r] = w /\ Others(r) /\ request' \in [Request -> Work]
  BY DEF GoesOn
<1>2. UNCHANGED Issued /\ Extends
  BY KindKept
<1>3. TypeOK'
  BY <1>1 DEF Inv, TicketInv, TypeOK
<1> HIDE DEF Issued
<1>4. Known'
  BY <1>2 DEF Inv, TicketInv, Known
<1>5. InHand(request[r])'
  BY <1>1, <1>2 DEF InHand
<1>6. ~overlapped => Fresh' /\ Turn(request[r])'
  <2> SUFFICES ASSUME ~overlapped PROVE Fresh' /\ Turn(request[r])'
    OBVIOUS
  <2>1. Fresh /\ Turn(w)
    BY DEF Inv, TurnInv
  <2>2. \A k : UNCHANGED Followable(k)
    BY DEF Followable
  <2>3. Fresh'
    BY <2>1, <2>2 DEF Fresh
  <2>4. Turn(request[r])'
    BY <1>1, <2>1, <2>2 DEF Turn
  <2> QED
    BY <2>3, <2>4
<1> QED
  BY <1>1, <1>2, <1>3, <1>4, <1>5, <1>6, Acts

LEMMA Enters ==
  ASSUME Inv, NEW r \in Request, NEW step \in Steps, NEW k \in Kind, NEW t \in Ticket \cup {None},
         Arrive(r, step, k, t),
         LET w == [at |-> step, kind |-> k, ticket |-> t]
         IN  InHand(w) /\ (~overlapped => Turn(w))
  PROVE  Inv'
<1> DEFINE w == [at |-> step, kind |-> k, ticket |-> t]
<1>1. w \in Work /\ TypeOK
  BY DEF Work, Inv, TicketInv
<1>2. /\ request' = [request EXCEPT ![r] = w] /\ request[r] = Idle
      /\ overlapped' = (overlapped \/ ~Quiet)
      /\ UNCHANGED <<live, kind, newest, handed, applied, account, verified>>
  BY DEF Arrive, tickets, row
<1>3. InHand(w) /\ (~overlapped => Turn(w))
  OBVIOUS
<1> HIDE DEF w
<1>4. GoesOn(r, w)
  BY <1>1, <1>2, Continues
<1>5. account' \in {"none", "open", "closed"} /\ verified' \in BOOLEAN /\ overlapped' \in BOOLEAN
  BY <1>1, <1>2 DEF TypeOK
<1>6. ~overlapped' => ~overlapped /\ (request[r] # Idle \/ Quiet)
  BY <1>2
<1> QED
  BY <1>1, <1>2, <1>3, <1>4, <1>5, <1>6, Thinks

LEMMA Ends ==
  ASSUME Inv, NEW r \in Request, request[r] # Idle, Finish(r),
         UNCHANGED <<live, kind, newest, handed, applied>>,
         account' \in {"none", "open", "closed"}, verified' \in BOOLEAN
  PROVE  Inv'
<1>1. TypeOK
  BY DEF Inv, TicketInv
<1>2. GoesOn(r, Idle) /\ overlapped' = overlapped
  BY <1>1, Finished
<1>3. InHand(Idle) /\ Turn(Idle)
  BY DEF InHand, Turn, Idle
<1>4. overlapped' \in BOOLEAN
  BY <1>1, <1>2 DEF TypeOK
<1> QED
  BY <1>2, <1>3, <1>4, IdleIsWork, Thinks

-----------------------------------------------------------------------------
(* Requests arrive.                                                        *)
LEMMA RegisterStep == ASSUME Inv, NEW r \in Request, Register(r) PROVE Inv'
<1>1. "insert" \in Steps /\ "verify" \in Kind /\ None \in Ticket \cup {None} /\ "verify" \in Mailed
  BY DEF Steps, Kind, Mailed
<1>2. Arrive(r, "insert", "verify", None)
  BY DEF Register
<1>3. LET w == [at |-> "insert", kind |-> "verify", ticket |-> None] IN InHand(w) /\ Turn(w)
  BY <1>1 DEF InHand, Turn
<1> QED
  BY <1>1, <1>2, <1>3, Enters

LEMMA AskStep ==
  ASSUME Inv, NEW r \in Request, RequestEmailVerification(r) \/ ForgotPassword(r) PROVE Inv'
<1>1. PICK k \in Mailed : Arrive(r, "look", k, None)
  BY DEF RequestEmailVerification, ForgotPassword, Mailed
<1>2. "look" \in Steps /\ k \in Kind /\ None \in Ticket \cup {None}
  BY DEF Steps, Kind
<1>3. LET w == [at |-> "look", kind |-> k, ticket |-> None] IN InHand(w) /\ Turn(w)
  BY DEF InHand, Turn
<1> QED
  BY <1>1, <1>2, <1>3, Enters

LEMMA FollowStep == ASSUME Inv, NEW r \in Request, NEW t \in Ticket, Follow(r, t) PROVE Inv'
<1>1. t \in handed \cap live /\ Arrive(r, "burn", kind[t], t)
  BY DEF Follow
<1>2. t \in Issued /\ kind[t] # "unissued" /\ kind[t] \in Kind \cup {"unissued"}
  BY <1>1 DEF Inv, TicketInv, TypeOK, Known, Issued
<1>3. "burn" \in Steps /\ kind[t] \in Kind /\ t \in Ticket \cup {None}
  BY <1>2 DEF Steps
<1> DEFINE k == kind[t]
<1> HIDE DEF Issued
<1>4. LET w == [at |-> "burn", kind |-> k, ticket |-> t] IN InHand(w) /\ Turn(w)
  BY <1>1, <1>2 DEF InHand, Turn
<1> QED
  BY <1>1, <1>3, <1>4, Enters

-----------------------------------------------------------------------------
(* Requests that ask for a link.                                           *)
LEMMA InsertStep == ASSUME Inv, NEW r \in Request, Insert(r) PROVE Inv'
<1>1. /\ TypeOK /\ Known /\ request[r] \in Work /\ InHand(request[r])
      /\ ~overlapped => Turn(request[r]) /\ Fresh
  BY UnderWay
<1>2. /\ UNCHANGED <<live, kind, newest, handed, applied>> /\ request[r].at = "insert"
      /\ account' \in {"none", "open", "closed"} /\ verified' \in BOOLEAN
  BY <1>1 DEF Insert, At, tickets, TypeOK
<1>3. request[r] # Idle
  BY <1>2 DEF Idle
<1>4. CASE Finish(r)
  BY <1>2, <1>3, <1>4, Ends
<1>5. CASE Step(r, "insert", "look")
  <2>1. "insert" \in Steps \ {"idle"} /\ "look" \in Steps
    BY DEF Steps
  <2>2. /\ request' \in [Request -> Work] /\ Others(r) /\ request'[r].at = "look"
        /\ request'[r].kind = request[r].kind /\ overlapped' = overlapped
    BY <1>5, <2>1, Stepped
  <2>3. request'[r] \in Work /\ GoesOn(r, request'[r])
    BY <2>2 DEF GoesOn
  <2>4. overlapped' \in BOOLEAN
    BY <1>1, <2>2 DEF TypeOK
  <2>5. InHand(request'[r]) /\ (~overlapped => Turn(request'[r]))
    BY <1>1, <1>2, <2>2 DEF InHand, Turn
  <2> QED
    BY <1>2, <1>3, <2>2, <2>3, <2>4, <2>5, Thinks
<1> QED
  BY <1>4, <1>5 DEF Insert

LEMMA LookStep == ASSUME Inv, NEW r \in Request, Look(r) PROVE Inv'
<1> DEFINE previous == newest[request[r].kind]
           at == IF previous = None THEN "set" ELSE "replace"
           w == [request[r] EXCEPT !.at = at, !.ticket = previous]
<1>1. /\ TypeOK /\ Known /\ request[r] \in Work /\ InHand(request[r])
      /\ ~overlapped => Turn(request[r]) /\ Fresh
  BY UnderWay
<1>2. request[r].at = "look" /\ request' = [request EXCEPT ![r] = w]
  BY DEF Look, At
<1>3. /\ UNCHANGED <<live, kind, newest, handed, applied, overlapped>>
      /\ account' \in {"none", "open", "closed"} /\ verified' \in BOOLEAN
      /\ overlapped' \in BOOLEAN
  BY <1>1 DEF Look, tickets, row, TypeOK
<1>4. request[r].kind \in Mailed /\ previous \in Ticket \cup {None} /\ at \in Steps
  BY <1>1, <1>2 DEF InHand, TypeOK, Steps
<1>5. w \in Work /\ w.at = at /\ w.kind = request[r].kind /\ w.ticket = previous
  BY <1>1, <1>4 DEF Work
<1> HIDE DEF w
<1>6. GoesOn(r, w)
  BY <1>1, <1>2, <1>5, Continues
<1>7. InHand(w)
  BY <1>4, <1>5 DEF InHand
<1>8. ~overlapped => Turn(w)
  <2> SUFFICES ASSUME ~overlapped PROVE Turn(w)
    OBVIOUS
  <2>1. Followable(request[r].kind) \subseteq {previous}
    BY <1>1, <1>4 DEF Fresh
  <2>2. previous = None => Followable(request[r].kind) = {}
    BY <1>1, <2>1, NoneIsNoTicket DEF Followable, TypeOK
  <2> QED
    BY <1>5, <2>2 DEF Turn
<1>9. request[r] # Idle
  BY <1>2 DEF Idle
<1> QED
  BY <1>3, <1>5, <1>6, <1>7, <1>8, <1>9, Thinks

LEMMA ReplaceStep == ASSUME Inv, NEW r \in Request, Replace(r) PROVE Inv'
<1>1. /\ TypeOK /\ Known /\ request[r] \in Work /\ InHand(request[r])
      /\ ~overlapped => Turn(request[r]) /\ Fresh
  BY UnderWay
<1>2. "replace" \in Steps \ {"idle"} /\ "set" \in Steps /\ Step(r, "replace", "set")
  BY DEF Steps, Replace
<1>3. /\ request' \in [Request -> Work] /\ Others(r) /\ request[r].at = "replace"
      /\ request'[r].at = "set" /\ request[r] # Idle
      /\ request'[r].kind = request[r].kind /\ request'[r].ticket = request[r].ticket
      /\ overlapped' = overlapped
  BY <1>2, Stepped
<1>4. /\ live' = live \ {request[r].ticket}
      /\ UNCHANGED <<kind, newest, handed, applied, account, verified>>
  BY DEF Replace, row
<1>5. UNCHANGED Issued /\ Extends
  BY <1>4, KindKept
<1>6. TypeOK'
  BY <1>1, <1>3, <1>4 DEF TypeOK
<1> HIDE DEF Issued
<1>7. Known'
  BY <1>1, <1>4, <1>5 DEF Known
<1>8. InHand(request[r])'
  BY <1>1, <1>3 DEF InHand
<1>9. ~overlapped => Fresh' /\ Turn(request[r])'
  <2> SUFFICES ASSUME ~overlapped PROVE Fresh' /\ Turn(request[r])'
    OBVIOUS
  <2>1. Fresh /\ request[r].ticket = newest[request[r].kind] /\ request[r].kind \in Mailed
    BY <1>1, <1>3 DEF Turn, InHand
  <2>2. \A k : Followable(k)' = Followable(k) \ {request[r].ticket}
    BY <1>4 DEF Followable
  <2>3. Fresh'
    BY <1>4, <2>1, <2>2 DEF Fresh
  <2>4. Followable(request[r].kind)' = {}
    BY <1>3, <2>1, <2>2 DEF Fresh
  <2>5. Turn(request[r])'
    BY <1>3, <2>4 DEF Turn
  <2> QED
    BY <2>3, <2>5
<1> QED
  BY <1>3, <1>5, <1>6, <1>7, <1>8, <1>9, Acts

LEMMA SetStep == ASSUME Inv, NEW r \in Request, Set(r) PROVE Inv'
<1> DEFINE w == [request[r] EXCEPT !.at = "remember", !.ticket = NewTicket]
<1>1. /\ TypeOK /\ Known /\ request[r] \in Work /\ InHand(request[r])
      /\ ~overlapped => Turn(request[r]) /\ Fresh
  BY UnderWay
<1>2. /\ request[r].at = "set" /\ Issued # Ticket
      /\ live' = live \cup {NewTicket} /\ kind' = [kind EXCEPT ![NewTicket] = request[r].kind]
      /\ request' = [request EXCEPT ![r] = w]
      /\ UNCHANGED <<newest, handed, applied, account, verified, overlapped>>
  BY DEF Set, At, row
<1>3. request[r].kind \in Mailed /\ request[r].kind \in Kind
  BY <1>1, <1>2 DEF InHand, Kind
<1>4. /\ NewTicket \in Ticket /\ NewTicket \notin Issued /\ NewTicket \in Issued'
      /\ kind'[NewTicket] = request[r].kind /\ kind' \in [Ticket -> Kind \cup {"unissued"}]
      /\ Known' /\ Extends
      /\ NewTicket \notin handed /\ applied[NewTicket] = 0
  BY <1>1, <1>2, <1>3, Issues
<1> DEFINE new == NewTicket
<1> HIDE DEF new
<1>5. /\ w \in Work /\ w.at = "remember" /\ w.ticket = new /\ w.kind = request[r].kind
  BY <1>1, <1>4 DEF Work, Steps, new
<1> HIDE DEF w
<1>6. GoesOn(r, w)
  BY <1>1, <1>2, <1>5, Continues
<1>7. request'[r] = w /\ Others(r) /\ request' \in [Request -> Work]
  BY <1>6 DEF GoesOn
<1>8. TypeOK'
  BY <1>1, <1>2, <1>4, <1>7 DEF TypeOK
<1> HIDE DEF Issued
<1>9. InHand(request[r])'
  BY <1>3, <1>4, <1>5, <1>7 DEF InHand, new
<1>10. ~overlapped => Fresh' /\ Turn(request[r])'
  <2> SUFFICES ASSUME ~overlapped PROVE Fresh' /\ Turn(request[r])'
    OBVIOUS
  <2>1. Fresh /\ Followable(request[r].kind) = {}
    BY <1>1, <1>2 DEF Turn
  <2>2. \A k : UNCHANGED Followable(k)
    BY <1>1, <1>2, <1>4 DEF Followable, Extends, Known
  <2>3. Fresh'
    BY <1>2, <1>4, <2>1, <2>2 DEF Fresh
  <2>4. Turn(request[r])'
    BY <1>5, <1>7, <2>1, <2>2 DEF Turn
  <2> QED
    BY <2>3, <2>4
<1>11. request[r] # Idle
  BY <1>2 DEF Idle
<1> QED
  BY <1>2, <1>4, <1>7, <1>8, <1>9, <1>10, <1>11, Acts

LEMMA RememberStep == ASSUME Inv, NEW r \in Request, Remember(r) PROVE Inv'
<1>1. /\ TypeOK /\ Known /\ request[r] \in Work /\ InHand(request[r])
      /\ ~overlapped => Turn(request[r]) /\ Fresh
  BY UnderWay
<1>2. "remember" \in Steps \ {"idle"} /\ "hand" \in Steps /\ Step(r, "remember", "hand")
  BY DEF Steps, Remember
<1>3. /\ request' \in [Request -> Work] /\ Others(r) /\ request[r].at = "remember"
      /\ request'[r].at = "hand" /\ request[r] # Idle
      /\ request'[r].kind = request[r].kind /\ request'[r].ticket = request[r].ticket
      /\ overlapped' = overlapped
  BY <1>2, Stepped
<1>4. /\ newest' = [newest EXCEPT ![request[r].kind] = request[r].ticket]
      /\ UNCHANGED <<live, kind, handed, applied, account, verified>>
  BY DEF Remember, row
<1>5. UNCHANGED Issued /\ Extends
  BY <1>4, KindKept
<1>6. request[r].kind \in Mailed /\ request[r].ticket \in Ticket
  BY <1>1, <1>3 DEF InHand, Issued
<1>7. TypeOK'
  BY <1>1, <1>3, <1>4, <1>6 DEF TypeOK
<1> HIDE DEF Issued
<1>8. Known'
  BY <1>1, <1>4, <1>5 DEF Known
<1>9. InHand(request[r])'
  BY <1>1, <1>3, <1>4, <1>5 DEF InHand
<1>10. ~overlapped => Fresh' /\ Turn(request[r])'
  <2> SUFFICES ASSUME ~overlapped PROVE Fresh' /\ Turn(request[r])'
    OBVIOUS
  <2>1. Fresh /\ Followable(request[r].kind) = {}
    BY <1>1, <1>3 DEF Turn
  <2>2. \A k : UNCHANGED Followable(k)
    BY <1>4 DEF Followable
  <2>3. Fresh'
    BY <1>1, <1>4, <2>1, <2>2 DEF Fresh, TypeOK
  <2>4. Turn(request[r])'
    BY <1>1, <1>3, <1>4, <1>6, <2>1, <2>2 DEF Turn, TypeOK
  <2> QED
    BY <2>3, <2>4
<1> QED
  BY <1>3, <1>5, <1>7, <1>8, <1>9, <1>10, Acts

(* A link is handed out only when it is the one remembered.                *)
LEMMA HandStep == ASSUME Inv, NEW r \in Request, Hand(r) PROVE Inv'
<1>1. /\ TypeOK /\ Known /\ request[r] \in Work /\ InHand(request[r])
      /\ ~overlapped => Turn(request[r]) /\ Fresh
  BY UnderWay
<1>2. /\ request[r].at = "hand" /\ Finish(r) /\ handed' = handed \cup {request[r].ticket}
      /\ UNCHANGED <<live, kind, newest, applied, account, verified>>
  BY DEF Hand, At, row
<1>3. GoesOn(r, Idle) /\ overlapped' = overlapped
  BY <1>1, <1>2, Finished
<1>4. /\ request[r].ticket \in Issued /\ request[r].ticket \in Ticket
      /\ kind[request[r].ticket] = request[r].kind
  BY <1>1, <1>2 DEF InHand, Issued
<1>5. UNCHANGED Issued /\ Extends
  BY <1>2, KindKept
<1>6. TypeOK'
  BY <1>1, <1>2, <1>3, <1>4 DEF TypeOK, GoesOn
<1> HIDE DEF Issued
<1>7. Known'
  BY <1>1, <1>2, <1>4, <1>5 DEF Known
<1>8. InHand(request[r])'
  BY <1>3, IdleTurn DEF GoesOn
<1>9. ~overlapped => Fresh' /\ Turn(request[r])'
  <2> SUFFICES ASSUME ~overlapped PROVE Fresh' /\ Turn(request[r])'
    OBVIOUS
  <2>1. /\ Fresh
        /\ request[r].kind \in Mailed =>
             newest[request[r].kind] = request[r].ticket /\ Followable(request[r].kind) = {}
    BY <1>1, <1>2 DEF Turn
  <2>2. ASSUME NEW k \in Mailed PROVE Followable(k)' \subseteq {newest[k]}
    <3>1. CASE k = request[r].kind
      <4>1. Followable(k)' \subseteq Followable(k) \cup {request[r].ticket}
        BY <1>2 DEF Followable
      <4> QED
        BY <2>1, <3>1, <4>1
    <3>2. CASE k # request[r].kind
      <4>1. Followable(k)' = Followable(k)
        BY <1>2, <1>4, <3>2 DEF Followable
      <4> QED
        BY <2>1, <4>1 DEF Fresh
    <3> QED
      BY <3>1, <3>2
  <2>3. Fresh'
    BY <1>2, <2>1, <2>2 DEF Fresh
  <2>4. Turn(request[r])'
    BY <1>3, IdleTurn DEF GoesOn
  <2> QED
    BY <2>3, <2>4
<1>10. request[r] # Idle
  BY <1>2 DEF Idle
<1> QED
  BY <1>3, <1>5, <1>6, <1>7, <1>8, <1>9, <1>10, Acts DEF GoesOn

(* The state of a Google sign-in is issued with the request.               *)
LEMMA StartGoogleStep ==
  ASSUME Inv, NEW r \in Request, NEW flow \in Google, StartGoogle(r, flow) PROVE Inv'
<1> DEFINE w == [at |-> "hand", kind |-> flow, ticket |-> NewTicket]
<1>1. /\ TypeOK /\ Known /\ (~overlapped => Fresh)
  BY UnderWay
<1>2. /\ request[r] = Idle /\ Issued # Ticket
      /\ live' = live \cup {NewTicket} /\ kind' = [kind EXCEPT ![NewTicket] = flow]
      /\ request' = [request EXCEPT ![r] = w] /\ overlapped' = (overlapped \/ ~Quiet)
      /\ UNCHANGED <<newest, handed, applied, account, verified>>
  BY DEF StartGoogle, row
<1>3. flow \in Kind /\ flow \notin Mailed
  BY DEF Kind, Google, Mailed
<1>4. /\ NewTicket \in Ticket /\ NewTicket \notin Issued /\ NewTicket \in Issued'
      /\ kind'[NewTicket] = flow /\ kind' \in [Ticket -> Kind \cup {"unissued"}]
      /\ Known' /\ Extends
      /\ NewTicket \notin handed /\ applied[NewTicket] = 0
  BY <1>1, <1>2, <1>3, Issues
<1>5. w \in Work
  BY <1>3, <1>4 DEF Work, Steps
<1>6. GoesOn(r, w)
  BY <1>1, <1>2, <1>5, Continues
<1> DEFINE new == NewTicket
<1> HIDE DEF new
<1>7. /\ request'[r] = [at |-> "hand", kind |-> flow, ticket |-> new]
      /\ Others(r) /\ request' \in [Request -> Work]
  BY <1>6 DEF GoesOn, new
<1>8. TypeOK'
  BY <1>1, <1>2, <1>4, <1>7 DEF TypeOK
<1> HIDE DEF Issued
<1>9. InHand(request[r])'
  BY <1>3, <1>4, <1>7 DEF InHand, new
<1>10. ~overlapped' => Fresh' /\ Turn(request[r])'
  <2> SUFFICES ASSUME ~overlapped PROVE Fresh' /\ Turn(request[r])'
    BY <1>2
  <2>1. Fresh
    BY <1>1
  <2>2. \A k : UNCHANGED Followable(k)
    BY <1>1, <1>2, <1>4 DEF Followable, Extends, Known
  <2>3. Fresh'
    BY <1>2, <1>4, <2>1, <2>2 DEF Fresh
  <2>4. Turn(request[r])'
    BY <1>3, <1>7 DEF Turn
  <2> QED
    BY <2>3, <2>4
<1>11. ~overlapped' => ~overlapped /\ Quiet
  BY <1>2
<1> QED
  BY <1>4, <1>7, <1>8, <1>9, <1>10, <1>11, Acts

-----------------------------------------------------------------------------
(* Tickets are used.                                                       *)

(* The key goes before the effect: nobody else can follow the ticket.      *)
LEMMA BurnStep == ASSUME Inv, NEW r \in Request, Burn(r) PROVE Inv'
<1>1. /\ TypeOK /\ Known /\ request[r] \in Work /\ InHand(request[r])
      /\ ~overlapped => Turn(request[r]) /\ Fresh
  BY UnderWay
<1>2. "burn" \in Steps \ {"idle"} /\ "apply" \in Steps /\ Step(r, "burn", "apply")
  BY DEF Steps, Burn
<1>3. /\ request' \in [Request -> Work] /\ Others(r) /\ request[r].at = "burn"
      /\ request'[r].at = "apply" /\ request[r] # Idle
      /\ request'[r].kind = request[r].kind /\ request'[r].ticket = request[r].ticket
      /\ overlapped' = overlapped
  BY <1>2, Stepped
<1>4. /\ live' = live \ {request[r].ticket}
      /\ newest' = [k \in Mailed |-> IF k = request[r].kind THEN None ELSE newest[k]]
      /\ UNCHANGED <<kind, handed, applied, account, verified>>
  BY DEF Burn, row
<1>5. UNCHANGED Issued /\ Extends
  BY <1>4, KindKept
<1>6. request[r].ticket \in Issued /\ kind[request[r].ticket] = request[r].kind
  BY <1>1, <1>3 DEF InHand
<1>7. TypeOK'
  BY <1>1, <1>3, <1>4 DEF TypeOK
<1> HIDE DEF Issued
<1>8. Known'
  BY <1>1, <1>4, <1>5 DEF Known
<1>9. InHand(request[r])'
  BY <1>3, <1>4, <1>5, <1>6 DEF InHand
<1>10. ~overlapped => Fresh' /\ Turn(request[r])'
  <2> SUFFICES ASSUME ~overlapped PROVE Fresh' /\ Turn(request[r])'
    OBVIOUS
  <2>1. Fresh /\ request[r].ticket \in handed \cap live
    BY <1>1, <1>3 DEF Turn
  <2>2. \A k : Followable(k)' = Followable(k) \ {request[r].ticket}
    BY <1>4 DEF Followable
  <2>3. ASSUME NEW k \in Mailed PROVE Followable(k)' \subseteq {newest'[k]}
    <3>1. CASE k = request[r].kind
      <4>1. request[r].ticket \in Followable(k)
        BY <1>6, <2>1, <3>1 DEF Followable
      <4>2. Followable(k)' = {}
        BY <2>1, <2>2, <4>1 DEF Fresh
      <4> QED
        BY <4>2
    <3>2. CASE k # request[r].kind
      BY <1>4, <2>1, <2>2, <3>2 DEF Fresh
    <3> QED
      BY <3>1, <3>2
  <2>4. Fresh'
    BY <1>4, <2>1, <2>3 DEF Fresh
  <2>5. Turn(request[r])'
    BY <1>3, <1>4, <2>1 DEF Turn, Fresh
  <2> QED
    BY <2>4, <2>5
<1> QED
  BY <1>3, <1>5, <1>7, <1>8, <1>9, <1>10, Acts

(* What takes effect had not before, and its key is gone.                  *)
LEMMA ApplyStep ==
  ASSUME Inv, NEW r \in Request, NEW kinds, Apply(r, kinds),
         account' \in {"none", "open", "closed"}, verified' \in BOOLEAN
  PROVE  Inv'
<1>1. /\ TypeOK /\ Known /\ request[r] \in Work /\ InHand(request[r])
      /\ ~overlapped => Turn(request[r]) /\ Fresh
  BY UnderWay
<1>2. /\ request[r].at = "apply" /\ Finish(r)
      /\ applied' = [applied EXCEPT ![request[r].ticket] = @ + 1]
      /\ UNCHANGED <<live, kind, newest, handed>>
  BY DEF Apply, At, tickets
<1>3. GoesOn(r, Idle) /\ overlapped' = overlapped
  BY <1>1, <1>2, Finished
<1>4. request[r].ticket \in Issued /\ request[r].ticket \in Ticket
  BY <1>1, <1>2 DEF InHand, Issued
<1>5. UNCHANGED Issued /\ Extends
  BY <1>2, KindKept
<1>6. TypeOK'
  BY <1>1, <1>2, <1>3, <1>4 DEF TypeOK, GoesOn
<1> HIDE DEF Issued
<1>7. \A t \in Ticket \ {request[r].ticket} : applied'[t] = applied[t]
  BY <1>1, <1>2 DEF TypeOK
<1>8. Known'
  BY <1>1, <1>2, <1>4, <1>5, <1>7 DEF Known
<1>9. InHand(request[r])'
  BY <1>3, IdleTurn DEF GoesOn
<1>10. ~overlapped => Fresh' /\ Turn(request[r])'
  <2> SUFFICES ASSUME ~overlapped PROVE Fresh' /\ Turn(request[r])'
    OBVIOUS
  <2>1. Fresh /\ request[r].ticket \notin live /\ applied[request[r].ticket] = 0
    BY <1>1, <1>2 DEF Turn
  <2>2. applied'[request[r].ticket] = 1
    BY <1>1, <1>2, <1>4, <2>1 DEF TypeOK
  <2>3. \A k : UNCHANGED Followable(k)
    BY <1>2 DEF Followable
  <2>4. \A t \in live' : applied'[t] = 0
    BY <1>1, <1>2, <1>7, <2>1 DEF Fresh, TypeOK
  <2>5. \A t \in Ticket : applied'[t] <= 1
    BY <1>7, <2>1, <2>2 DEF Fresh
  <2>6. Fresh'
    BY <1>2, <2>1, <2>3, <2>4, <2>5 DEF Fresh
  <2>7. Turn(request[r])'
    BY <1>3, IdleTurn DEF GoesOn
  <2> QED
    BY <2>6, <2>7
<1>11. request[r] # Idle
  BY <1>2 DEF Idle
<1> QED
  BY <1>3, <1>5, <1>6, <1>8, <1>9, <1>10, <1>11, Acts DEF GoesOn

LEMMA UseStep ==
  ASSUME Inv, NEW r \in Request, VerifyEmail(r) \/ ResetPassword(r) \/ GoogleCallback(r)
  PROVE  Inv'
<1>1. account' \in {"none", "open", "closed"} /\ verified' \in BOOLEAN
  BY DEF VerifyEmail, ResetPassword, GoogleCallback, Inv, TicketInv, TypeOK
<1>2. PICK kinds \in SUBSET Kind : Apply(r, kinds)
  BY DEF VerifyEmail, ResetPassword, GoogleCallback, Kind, Mailed, Google
<1> QED
  BY <1>1, <1>2, ApplyStep

LEMMA DieStep == ASSUME Inv, NEW r \in Request, Die(r) PROVE Inv'
<1>1. /\ UNCHANGED <<live, kind, newest, handed, applied>>
      /\ account' \in {"none", "open", "closed"} /\ verified' \in BOOLEAN
  BY DEF Die, tickets, row, Inv, TicketInv, TypeOK
<1> QED
  BY <1>1, Ends DEF Die

-----------------------------------------------------------------------------
(* Nothing is under way, or no ticket is concerned.                        *)
LEMMA Passes ==
  ASSUME Inv, UNCHANGED <<kind, handed, applied, request, overlapped>>,
         TypeOK', live' \subseteq live,
         Quiet \/ UNCHANGED <<live, newest>>,
         ~overlapped => Fresh'
  PROVE  Inv'
<1>1. UNCHANGED Issued /\ Extends
  BY KindKept
<1>2. \A q \in Request : InHand(request[q])'
  BY <1>1, InHandStays DEF Inv, TicketInv
<1> HIDE DEF Issued
<1>3. Known'
  BY <1>1 DEF Inv, TicketInv, Known
<1>4. ASSUME ~overlapped, NEW q \in Request PROVE Turn(request[q])'
  <2>1. CASE Quiet
    BY <2>1, IdleTurn DEF Quiet
  <2>2. CASE UNCHANGED <<live, newest>>
    <3>1. \A k : UNCHANGED Followable(k)
      BY <2>2 DEF Followable
    <3> QED
      BY <1>4, <2>2, <3>1 DEF Inv, TurnInv, Turn
  <2> QED
    BY <2>1, <2>2
<1> QED
  BY <1>2, <1>3, <1>4 DEF Inv, TicketInv, TurnInv, Alone

LEMMA LapseStep == ASSUME Inv, NEW t \in Ticket, Lapse(t) PROVE Inv'
<1>1. /\ Quiet /\ live' = live \ {t}
      /\ newest' = [k \in Mailed |-> IF newest[k] = t THEN None ELSE newest[k]]
      /\ UNCHANGED <<kind, handed, applied, account, verified, request, overlapped>>
  BY DEF Lapse, row
<1>2. TypeOK'
  BY <1>1 DEF Inv, TicketInv, TypeOK
<1>3. ~overlapped => Fresh'
  <2> SUFFICES ASSUME ~overlapped PROVE Fresh'
    OBVIOUS
  <2>1. Fresh
    BY DEF Inv, TurnInv
  <2>2. \A k : Followable(k)' = Followable(k) \ {t}
    BY <1>1 DEF Followable
  <2> QED
    BY <1>1, <2>1, <2>2 DEF Fresh
<1> QED
  BY <1>1, <1>2, <1>3, Passes

LEMMA RestStep == ASSUME Inv, CloseAccount \/ UNCHANGED vars PROVE Inv'
<1>1. /\ UNCHANGED <<live, kind, newest, handed, applied, verified, request, overlapped>>
      /\ account' \in {"none", "open", "closed"}
  BY DEF CloseAccount, vars, tickets, row, Inv, TicketInv, TypeOK
<1>2. TypeOK'
  BY <1>1 DEF Inv, TicketInv, TypeOK
<1>3. ~overlapped => Fresh'
  BY <1>1 DEF Inv, TurnInv, Fresh, Followable
<1> QED
  BY <1>1, <1>2, <1>3, Passes

-----------------------------------------------------------------------------
LEMMA InvInit == Init => Inv
<1> SUFFICES ASSUME Init PROVE Inv
  OBVIOUS
<1>1. TypeOK
  BY IdleIsWork DEF Init, TypeOK
<1>2. Issued = 1..0 /\ 0 \in 0..MaxTicket
  BY TicketAssumption DEF Init, Issued
<1> HIDE DEF Issued
<1>3. Known
  BY <1>2 DEF Init, Known
<1>4. ASSUME NEW r \in Request PROVE InHand(request[r]) /\ Turn(request[r])
  BY DEF Init, InHand, Turn, Idle
<1>5. Alone /\ Fresh
  BY DEF Init, Alone, Fresh, Followable
<1> QED
  BY <1>1, <1>3, <1>4, <1>5 DEF Inv, TicketInv, TurnInv

LEMMA InvStep == ASSUME Inv, [Next]_vars PROVE Inv'
  BY RegisterStep, AskStep, FollowStep, InsertStep, LookStep, ReplaceStep, SetStep,
     RememberStep, HandStep, StartGoogleStep, BurnStep, UseStep, DieStep, LapseStep, RestStep
  DEF Next

(* The invariant holds of every behaviour.                                 *)
THEOREM TicketsSafe == Spec => []Inv
  BY InvInit, InvStep, PTL DEF Spec

(* While requests do not overlap, a ticket takes effect at most once, also *)
(* when its request died on the way (consume_email_verification_token,     *)
(* consume_password_reset_token, google_oauth_callback).                   *)
THEOREM TicketsWorkOnce == Spec => []TicketWorksOnce
<1>1. Inv => TicketWorksOnce
  BY DEF Inv, TurnInv, Fresh, TicketWorksOnce
<1> QED
  BY <1>1, TicketsSafe, PTL

(* While requests do not overlap, only the last link of a kind that was    *)
(* mailed can work (issue_email_verification_token, ..password_reset..).   *)
THEOREM LastLinkWorks == Spec => []OnlyTheLastLinkWorks
<1>1. Inv => OnlyTheLastLinkWorks
  BY DEF Inv, TurnInv, Fresh, Followable, OnlyTheLastLinkWorks
<1> QED
  BY <1>1, TicketsSafe, PTL
=============================================================================
