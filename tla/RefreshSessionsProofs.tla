------------------------ MODULE RefreshSessionsProofs ------------------------
(***************************************************************************)
(* Refresh tokens for any number of sessions, tokens and requests: first   *)
(* what holds whatever requests do to each other, then what holds while    *)
(* they do not overlap.                                                    *)
(***************************************************************************)
EXTENDS RefreshSessions, TLAPS

Steps == {"idle", "delete", "markUsed", "setRefresh", "setSession", "addMember", "answer",
          "getUsed", "members", "dropToken", "dropSession", "drop", "remove", "each",
          "list", "unlist"}

Work == [at: Steps, sid: Session \cup {NoSession}, token: Token \cup {None},
         todo: SUBSET Session, ends: SUBSET Session, then: {"done", "close"}]

(* Every key, claim and request has a value of its type.                   *)
TypeOK ==
  /\ refresh \subseteq Token /\ used \subseteq Token /\ expired \subseteq Token
  /\ session \in [Session -> Token \cup {None}]
  /\ received \subseteq Token /\ stray \subseteq Token
  /\ members \subseteq Session /\ ended \subseteq Session
  /\ sid \in [Token -> Session \cup {NoSession}]
  /\ parent \in [Token -> Token \cup {None}]
  /\ active \in BOOLEAN /\ overlapped \in BOOLEAN
  /\ request \in [Request -> Work]

(* Whatever is named or live has been issued, for the session it is kept   *)
(* under.                                                                  *)
Issued ==
  /\ refresh \subseteq Minted /\ expired \subseteq Minted
  /\ received \subseteq Minted /\ stray \subseteq Minted
  /\ \A s \in Session : session[s] # None => session[s] \in Minted /\ sid[session[s]] = s
  /\ \A t \in Token : parent[t] # None => parent[t] \in Minted
  /\ ended \subseteq Opened

(* What a request has in hand at each of its steps.                        *)
InHand(w) ==
  /\ w.at \in {"delete", "markUsed", "setRefresh", "setSession", "addMember", "answer",
               "dropToken", "dropSession", "drop"} => w.sid \in Session
  /\ w.at \in {"delete", "markUsed"} => w.token \in Minted
  /\ w.at = "markUsed" => w.token \notin refresh
  /\ w.at = "setRefresh" /\ w.token # None =>
       w.token \in Minted \cap (used \cup expired) /\ w.token \notin refresh
  /\ w.at \in {"setSession", "addMember", "answer"} => w.token \in Minted /\ sid[w.token] = w.sid
  /\ w.ends \subseteq Opened

TokenInv ==
  /\ TypeOK
  /\ Issued
  /\ ParentIsSpent
  /\ \A r \in Request : InHand(request[r])

-----------------------------------------------------------------------------
(* While requests do not overlap.                                          *)

(* No cookie of session s is live; none is but those a late logout left;   *)
(* nothing more can be promised of s.                                      *)
Dead(s) == \A t \in Usable : sid[t] # s
Left(s) == \A t \in Usable \ stray : sid[t] # s
Gone(s) == Dead(s) \/ s \in Astray

(* The live cookie of a session is the listed one, and there is one.       *)
Listed ==
  /\ \A t \in Usable \ stray : session[sid[t]] = t /\ sid[t] \in members
  /\ \A t, u \in Usable : sid[t] = sid[u] => t = u

(* What the one request under way has established, and has yet to end.     *)
Turn(w) ==
  /\ w.at \in {"delete", "markUsed", "setRefresh", "setSession", "addMember", "answer"} =>
       (w.sid \in ended => w.sid \in Astray) /\ w.ends = {}
  /\ w.at = "delete" => w.token \in Usable /\ sid[w.token] = w.sid
  /\ w.at \in {"markUsed", "setRefresh", "setSession", "addMember", "answer"} => Dead(w.sid)
  /\ w.at = "remove" => w.sid \in Session /\ Left(w.sid)
  /\ w.at \in {"addMember", "answer"} => session[w.sid] = w.token
  /\ w.at = "answer" => w.sid \in members
  /\ w.at = "drop" => w.token = session[w.sid]
  /\ w.at \in {"list", "unlist"} => w.ends = {}
  /\ w.at = "unlist" => w.sid \in Session /\ session[w.sid] = None
  /\ \A s \in w.ends : Gone(s) \/ s \in w.todo
                         \/ (w.at \in {"drop", "dropToken", "dropSession"} /\ w.sid = s)

(* Only one request is under way.                                          *)
Alone == \A q, r \in Request : request[q] # Idle /\ request[r] # Idle => q = r

TurnInv ==
  ~overlapped =>
    /\ Alone
    /\ Listed
    /\ \A s \in ended : Gone(s)
    /\ \A r \in Request : Turn(request[r])

Inv == TokenInv /\ TurnInv

-----------------------------------------------------------------------------
(* How a request goes on.                                                  *)
Others(r) == \A q \in Request \ {r} : request'[q] = request[q]

(* Request r goes on with the record w.                                    *)
GoesOn(r, w) == request' \in [Request -> Work] /\ request'[r] = w /\ Others(r)

LEMMA IdleIsWork == Idle \in Work
  BY DEF Idle, Work, Steps

LEMMA Continues ==
  ASSUME TypeOK, NEW r \in Request, NEW w \in Work, request' = [request EXCEPT ![r] = w]
  PROVE  GoesOn(r, w)
  BY DEF TypeOK, GoesOn, Others

(* The fields of a request after it took the step from this to next.       *)
LEMMA Stepped ==
  ASSUME TypeOK, NEW r \in Request, NEW this, NEW next \in Steps, Step(r, this, next)
  PROVE  /\ request' \in [Request -> Work] /\ Others(r) /\ request[r].at = this
         /\ request'[r].at = next
         /\ request'[r].sid = request[r].sid /\ request'[r].token = request[r].token
         /\ request'[r].todo = request[r].todo /\ request'[r].ends = request[r].ends
         /\ overlapped' = overlapped
<1> DEFINE w == [request[r] EXCEPT !.at = next]
<1>1. request[r] \in Work
  BY DEF TypeOK
<1>2. /\ w \in Work /\ w.at = next /\ w.sid = request[r].sid /\ w.token = request[r].token
      /\ w.todo = request[r].todo /\ w.ends = request[r].ends
  BY <1>1 DEF Work
<1>3. request' = [request EXCEPT ![r] = w] /\ request[r].at = this /\ overlapped' = overlapped
  BY DEF Step, At
<1> HIDE DEF w
<1>4. GoesOn(r, w)
  BY <1>2, <1>3, Continues
<1> QED
  BY <1>2, <1>3, <1>4 DEF GoesOn

LEMMA Arrived ==
  ASSUME TypeOK, NEW r \in Request, NEW w \in Work, Arrive(r, w)
  PROVE  /\ GoesOn(r, w) /\ request[r] = Idle
         /\ UNCHANGED <<sid, parent, expired, received, active, ended, stray>>
         /\ overlapped' \in BOOLEAN
         /\ ~overlapped' => ~overlapped /\ Quiet
<1>1. GoesOn(r, w)
  BY Continues DEF Arrive
<1> QED
  BY <1>1 DEF Arrive, claims, outside

LEMMA Finished ==
  ASSUME TypeOK, NEW r \in Request, Finish(r)
  PROVE  GoesOn(r, Idle) /\ overlapped' = overlapped
  BY IdleIsWork, Continues DEF Finish

-----------------------------------------------------------------------------
(* No step takes a token back.                                             *)
Grows ==
  /\ \A t \in Minted : sid'[t] = sid[t]
  /\ refresh' \cap Minted \subseteq refresh
  /\ used \cup expired \subseteq used' \cup expired'

LEMMA IssuedStays ==
  ASSUME Grows
  PROVE  Minted \subseteq Minted' /\ Opened \subseteq Opened'
  BY DEF Grows, Minted, Opened

(* The records with which requests arrive.                                 *)
LEMMA ArriveTypes ==
  ASSUME TypeOK, NEW r \in Request, NEW w \in Work, Arrive(r, w), UNCHANGED redis
  PROVE  TypeOK' /\ Grows
<1>1. /\ GoesOn(r, w) /\ UNCHANGED <<sid, parent, expired, received, active, ended, stray>>
      /\ overlapped' \in BOOLEAN
  BY Arrived
<1> QED
  BY <1>1 DEF TypeOK, Grows, GoesOn, redis

LEMMA LogInWork ==
  ASSUME NEW s \in Session
  PROVE  LET w == [Idle EXCEPT !.at = "setRefresh", !.sid = s]
         IN  /\ w \in Work /\ w.at = "setRefresh" /\ w.sid = s /\ w.token = None
             /\ w.todo = {} /\ w.ends = {}
  BY DEF Idle, Work, Steps

Exchanging(at, s, t) == [Idle EXCEPT !.at = at, !.sid = s, !.token = t]

LEMMA ExchangingWork ==
  ASSUME NEW s \in Session, NEW t \in Token \cup {None}, NEW at \in Steps
  PROVE  /\ Exchanging(at, s, t) \in Work /\ Exchanging(at, s, t).at = at
         /\ Exchanging(at, s, t).sid = s /\ Exchanging(at, s, t).token = t
         /\ Exchanging(at, s, t).ends = {}
  BY DEF Exchanging, Idle, Work

Ending(at, s, t) == [Idle EXCEPT !.at = at, !.sid = s, !.token = t, !.ends = {s}]

LEMMA EndingWork ==
  ASSUME NEW s \in Session, NEW t \in Token \cup {None}, NEW at \in Steps
  PROVE  /\ Ending(at, s, t) \in Work /\ Ending(at, s, t).at = at
         /\ Ending(at, s, t).sid = s /\ Ending(at, s, t).token = t
         /\ Ending(at, s, t).ends = {s}
  BY DEF Ending, Idle, Work

EndingEach(todo, ends) == [Idle EXCEPT !.at = "each", !.todo = todo, !.ends = ends]

LEMMA EachWork ==
  ASSUME NEW todo \in SUBSET Session, NEW ends \in SUBSET Session
  PROVE  /\ EndingEach(todo, ends) \in Work /\ EndingEach(todo, ends).at = "each"
         /\ EndingEach(todo, ends).todo = todo /\ EndingEach(todo, ends).ends = ends
  BY DEF EndingEach, Idle, Work, Steps

Closing(todo, ends) == [Idle EXCEPT !.at = "each", !.todo = todo, !.ends = ends, !.then = "close"]

LEMMA ClosingWork ==
  ASSUME NEW todo \in SUBSET Session, NEW ends \in SUBSET Session
  PROVE  /\ Closing(todo, ends) \in Work /\ Closing(todo, ends).at = "each"
         /\ Closing(todo, ends).todo = todo /\ Closing(todo, ends).ends = ends
  BY DEF Closing, Idle, Work, Steps

LEMMA ListWork ==
  ASSUME NEW todo \in SUBSET Session
  PROVE  LET w == [Idle EXCEPT !.at = "list", !.todo = todo]
         IN  w \in Work /\ w.at = "list" /\ w.todo = todo /\ w.ends = {}
  BY DEF Idle, Work, Steps

-----------------------------------------------------------------------------
(* What the step of one request leaves to the others.                      *)
LEMMA InHandStays ==
  ASSUME TypeOK, Issued, Grows, NEW q \in Request, InHand(request[q]), request'[q] = request[q]
  PROVE  InHand(request[q])'
<1>1. Minted \subseteq Minted' /\ Opened \subseteq Opened'
  BY IssuedStays
<1>2. /\ \A t \in Minted : sid'[t] = sid[t]
      /\ refresh' \cap Minted \subseteq refresh
      /\ used \cup expired \subseteq used' \cup expired'
  BY DEF Grows
<1> HIDE DEF Minted, Opened
<1> QED
  BY <1>1, <1>2 DEF InHand

LEMMA IdleTurn == Turn(Idle)'
  BY DEF Turn, Idle

LEMMA Acts ==
  ASSUME Inv, NEW r \in Request, Others(r), Grows,
         ~overlapped' => ~overlapped /\ (request[r] # Idle \/ Quiet), TypeOK', Issued', ParentIsSpent',
         InHand(request[r])',
         ~overlapped' => Listed' /\ (\A s \in ended : Gone(s))' /\ Turn(request[r])'
  PROVE  Inv'
<1>1. \A q \in Request : InHand(request[q])'
  <2> TAKE q \in Request
  <2>1. CASE q = r
    BY <2>1
  <2>2. CASE q # r
    <3>1. request'[q] = request[q]
      BY <2>2 DEF Others
    <3> QED
      BY <3>1, InHandStays DEF Inv, TokenInv
  <2> QED
    BY <2>1, <2>2
<1>2. ASSUME ~overlapped', NEW q \in Request, q # r PROVE request'[q] = Idle
  BY <1>2 DEF Others, Inv, TurnInv, Alone, Quiet
<1>3. TurnInv'
  <2> SUFFICES ASSUME ~overlapped'
               PROVE  /\ Alone' /\ Listed' /\ (\A s \in ended : Gone(s))'
                      /\ (\A q \in Request : Turn(request[q]))'
    BY DEF TurnInv
  <2>1. Alone'
    BY <1>2 DEF Alone
  <2>2. ASSUME NEW q \in Request PROVE Turn(request[q])'
    BY <1>2, IdleTurn
  <2> QED
    BY <2>1, <2>2
<1> QED
  BY <1>1, <1>3 DEF Inv, TokenInv

(* A request that goes on without a command to Redis.                      *)
LEMMA Thinks ==
  ASSUME Inv, NEW r \in Request, NEW w \in Work, GoesOn(r, w),
         UNCHANGED <<redis, claims, outside>>, overlapped' \in BOOLEAN,
         ~overlapped' => ~overlapped /\ (request[r] # Idle \/ Quiet),
         InHand(w), ~overlapped => Turn(w)
  PROVE  Inv'
<1>1. /\ UNCHANGED <<refresh, used, session, members, sid, parent, expired, received, active, ended, stray>>
      /\ request'[r] = w /\ Others(r) /\ request' \in [Request -> Work]
  BY DEF redis, claims, outside, GoesOn
<1>2. TypeOK' /\ Grows
  BY <1>1 DEF Inv, TokenInv, TypeOK, Grows
<1>3. UNCHANGED <<Minted, Opened>>
  BY <1>1 DEF Minted, Opened
<1>4. Issued' /\ ParentIsSpent'
  <2> HIDE DEF Minted, Opened
  <2> QED
    BY <1>1, <1>3 DEF Inv, TokenInv, Issued, ParentIsSpent
<1>5. InHand(request[r])'
  <2> HIDE DEF Minted, Opened
  <2> QED
    BY <1>1, <1>3 DEF InHand
<1>6. ~overlapped => Listed' /\ (\A s \in ended : Gone(s))' /\ Turn(request[r])'
  <2> SUFFICES ASSUME ~overlapped
               PROVE  Listed' /\ (\A s \in ended : Gone(s))' /\ Turn(request[r])'
    OBVIOUS
  <2>1. Listed /\ (\A s \in ended : Gone(s)) /\ Turn(w)
    BY DEF Inv, TurnInv
  <2>2. Listed' /\ (\A s \in ended : Gone(s))'
    BY <1>1, <2>1 DEF Listed, Dead, Left, Gone, Usable, Astray
  <2>3. Turn(request[r])'
    BY <1>1, <2>1 DEF Turn, Dead, Left, Gone, Usable, Astray
  <2> QED
    BY <2>2, <2>3
<1> QED
  BY <1>1, <1>2, <1>4, <1>5, <1>6, Acts

-----------------------------------------------------------------------------
(* Requests arrive.                                                        *)
LEMMA OpenedIsSession == ASSUME TypeOK PROVE Opened \subseteq Session
  BY DEF TypeOK, Opened, Minted

LEMMA NoneIsNoToken == None \notin Token
  BY DEF None, Token

LEMMA Enters ==
  ASSUME Inv, NEW r \in Request, NEW w \in Work, Arrive(r, w), UNCHANGED redis,
         InHand(w), ~overlapped => Turn(w)
  PROVE  Inv'
<1>1. TypeOK
  BY DEF Inv, TokenInv
<1>2. /\ GoesOn(r, w) /\ request[r] = Idle
      /\ UNCHANGED <<sid, parent, expired, received, active, ended, stray>>
      /\ overlapped' \in BOOLEAN
      /\ ~overlapped' => ~overlapped /\ Quiet
  BY <1>1, Arrived
<1>3. UNCHANGED <<redis, claims, outside>>
  BY <1>2 DEF claims, outside
<1> QED
  BY <1>2, <1>3, Thinks

LEMMA LogInStep == ASSUME Inv, NEW r \in Request, LogIn(r) PROVE Inv'
<1>1. PICK s \in Session \ Opened : Arrive(r, [Idle EXCEPT !.at = "setRefresh", !.sid = s])
  BY DEF LogIn
<1> DEFINE w == [Idle EXCEPT !.at = "setRefresh", !.sid = s]
<1>2. w \in Work /\ w.at = "setRefresh" /\ w.sid = s /\ w.token = None /\ w.todo = {} /\ w.ends = {}
  BY LogInWork
<1>3. Arrive(r, w) /\ UNCHANGED redis
  BY <1>1 DEF LogIn
<1> HIDE DEF w
<1>4. InHand(w)
  BY <1>2 DEF InHand
<1>5. s \notin ended /\ \A t \in received : sid[t] # s
  BY <1>1 DEF Inv, TokenInv, Issued, Opened
<1>6. Dead(s)
  BY <1>5 DEF Dead, Usable
<1>7. Turn(w)
  BY <1>2, <1>5, <1>6 DEF Turn
<1> QED
  BY <1>2, <1>3, <1>4, <1>7, Enters

(* A cookie belongs to a session that was opened.                          *)
LEMMA CookieIsIssued ==
  ASSUME Inv, NEW t \in Token, t \in Cookie
  PROVE  t \in Minted /\ t \in received /\ sid[t] \in Session /\ sid[t] \in Opened
<1>1. t \in Minted /\ t \in received
  BY DEF Cookie, Inv, TokenInv, Issued
<1> QED
  BY <1>1 DEF Minted, Opened, Inv, TokenInv, TypeOK

LEMMA RefreshStep == ASSUME Inv, NEW r \in Request, NEW t \in Token, Refresh(r, t) PROVE Inv'
<1> DEFINE at == IF t \in refresh THEN "delete" ELSE "getUsed"
           w  == Exchanging(at, sid[t], t)
<1>1. at \in Steps /\ (at = "delete" => t \in refresh) /\ at \in {"delete", "getUsed"}
  BY DEF Steps
<1>2. Arrive(r, w) /\ UNCHANGED redis /\ t \in Cookie
  BY DEF Refresh, Exchanging
<1>3. t \in Minted /\ t \in received /\ sid[t] \in Session
  BY <1>2, CookieIsIssued
<1>4. w \in Work /\ w.at = at /\ w.sid = sid[t] /\ w.token = t /\ w.ends = {}
  BY <1>1, <1>3, ExchangingWork
<1> HIDE DEF w, at
<1>5. InHand(w)
  BY <1>1, <1>3, <1>4 DEF InHand
<1>6. ASSUME ~overlapped PROVE Turn(w)
  <2>1. \A s \in ended : Gone(s)
    BY <1>6 DEF Inv, TurnInv
  <2>2. at = "delete" => t \in Usable
    BY <1>1, <1>3 DEF Usable
  <2>3. at = "delete" /\ sid[t] \in ended => sid[t] \in Astray
    BY <2>1, <2>2 DEF Gone, Dead
  <2> QED
    BY <1>1, <1>4, <2>2, <2>3 DEF Turn
<1> QED
  BY <1>2, <1>4, <1>5, <1>6, Enters

LEMMA LogOutStep == ASSUME Inv, NEW r \in Request, NEW t \in Token, LogOut(r, t) PROVE Inv'
<1> DEFINE w == Ending("dropToken", sid[t], t)
<1>1. "dropToken" \in Steps
  BY DEF Steps
<1>2. Arrive(r, w) /\ UNCHANGED redis /\ t \in Cookie
  BY DEF LogOut, Ending
<1>3. sid[t] \in Session /\ sid[t] \in Opened
  BY <1>2, CookieIsIssued
<1>4. /\ w \in Work /\ w.at = "dropToken" /\ w.sid = sid[t] /\ w.token = t
      /\ w.ends = {sid[t]}
  BY <1>1, <1>3, EndingWork
<1> HIDE DEF w
<1>5. InHand(w)
  BY <1>3, <1>4 DEF InHand
<1>6. Turn(w)
  BY <1>4 DEF Turn
<1> QED
  BY <1>2, <1>4, <1>5, <1>6, Enters

LEMMA RevokeSessionStep ==
  ASSUME Inv, NEW r \in Request, NEW s \in Session, RevokeSession(r, s) PROVE Inv'
<1> DEFINE w == Ending("drop", s, session[s])
<1>1. session[s] \in Token \cup {None} /\ "drop" \in Steps
  BY DEF Inv, TokenInv, TypeOK, Steps
<1>2. Arrive(r, w) /\ UNCHANGED redis /\ session[s] # None
  BY DEF RevokeSession, Ending
<1>3. /\ w \in Work /\ w.at = "drop" /\ w.sid = s /\ w.token = session[s]
      /\ w.ends = {s}
  BY <1>1, EndingWork
<1>4. s \in Opened
  BY <1>2 DEF Inv, TokenInv, Issued, Opened
<1> HIDE DEF w
<1>5. InHand(w)
  BY <1>3, <1>4 DEF InHand
<1>6. Turn(w)
  BY <1>3 DEF Turn
<1> QED
  BY <1>2, <1>3, <1>5, <1>6, Enters

(* Ending all sessions, or all but one: those that are not on the list     *)
(* have no live token.                                                     *)
LEMMA EndingAll ==
  ASSUME Inv, NEW others, NEW w \in Work, w.at = "each", w.todo = members \ others,
         w.ends = Opened \ others
  PROVE  InHand(w) /\ (~overlapped => Turn(w))
<1>1. InHand(w)
  BY DEF InHand
<1>2. Opened \subseteq Session
  BY OpenedIsSession DEF Inv, TokenInv
<1>3. ASSUME ~overlapped, NEW s \in w.ends PROVE Gone(s) \/ s \in w.todo
  <2>1. CASE s \in members
    BY <2>1
  <2>2. CASE s \notin members
    BY <1>3, <2>2 DEF Inv, TurnInv, Listed, Gone, Dead, Astray
  <2> QED
    BY <2>1, <2>2
<1>4. ~overlapped => Turn(w)
  BY <1>3 DEF Turn
<1> QED
  BY <1>1, <1>4

LEMMA RevokeOthersStep == ASSUME Inv, NEW r \in Request, RevokeOthers(r) PROVE Inv'
<1>1. PICK s \in {sid[t] : t \in Cookie} \cup {NoSession} :
        Arrive(r, [Idle EXCEPT !.at = "each", !.todo = members \ {s}, !.ends = Opened \ {s}])
        /\ UNCHANGED redis
  BY DEF RevokeOthers
<1> DEFINE w == EndingEach(members \ {s}, Opened \ {s})
<1>2. members \ {s} \in SUBSET Session /\ Opened \ {s} \in SUBSET Session
  BY OpenedIsSession DEF Inv, TokenInv, TypeOK
<1>3. w \in Work /\ w.at = "each" /\ w.todo = members \ {s} /\ w.ends = Opened \ {s}
  BY <1>2, EachWork
<1>4. Arrive(r, w)
  BY <1>1 DEF EndingEach
<1> HIDE DEF w
<1>5. InHand(w) /\ (~overlapped => Turn(w))
  BY <1>3, EndingAll
<1> QED
  BY <1>1, <1>3, <1>4, <1>5, Enters

LEMMA CloseAccountStep == ASSUME Inv, NEW r \in Request, CloseAccount(r) PROVE Inv'
<1> DEFINE w == Closing(members, Opened)
<1>1. members \in SUBSET Session /\ Opened \in SUBSET Session
  BY OpenedIsSession DEF Inv, TokenInv, TypeOK
<1>2. w \in Work /\ w.at = "each" /\ w.todo = members /\ w.ends = Opened
  BY <1>1, ClosingWork
<1>3. Arrive(r, w) /\ UNCHANGED redis
  BY DEF CloseAccount, Closing
<1> HIDE DEF w
<1>4. w.todo = members \ {} /\ w.ends = Opened \ {}
  BY <1>2
<1>5. InHand(w) /\ (~overlapped => Turn(w))
  BY <1>2, <1>4, EndingAll
<1> QED
  BY <1>2, <1>3, <1>5, Enters

LEMMA ListSessionsStep == ASSUME Inv, NEW r \in Request, ListSessions(r) PROVE Inv'
<1> DEFINE w == [Idle EXCEPT !.at = "list", !.todo = members]
<1>1. members \in SUBSET Session
  BY DEF Inv, TokenInv, TypeOK
<1>2. w \in Work /\ w.at = "list" /\ w.todo = members /\ w.ends = {}
  BY <1>1, ListWork
<1>3. Arrive(r, w) /\ UNCHANGED redis
  BY DEF ListSessions
<1> HIDE DEF w
<1>4. InHand(w) /\ Turn(w)
  BY <1>2 DEF InHand, Turn
<1> QED
  BY <1>2, <1>3, <1>4, Enters

-----------------------------------------------------------------------------
(* Requests go on without a command that writes.                           *)
LEMMA Ends ==
  ASSUME Inv, NEW r \in Request, request[r] # Idle, Finish(r), UNCHANGED <<redis, claims, outside>>
  PROVE  Inv'
<1>1. GoesOn(r, Idle) /\ overlapped' = overlapped
  BY Finished DEF Inv, TokenInv
<1>2. InHand(Idle) /\ Turn(Idle)
  BY DEF InHand, Turn, Idle
<1>3. overlapped' \in BOOLEAN
  BY <1>1 DEF Inv, TokenInv, TypeOK
<1> QED
  BY <1>1, <1>2, <1>3, IdleIsWork, Thinks

LEMMA GetUsedStep == ASSUME Inv, NEW r \in Request, GetUsed(r) PROVE Inv'
<1>1. request[r] # Idle /\ UNCHANGED <<redis, claims, outside>>
  BY DEF GetUsed, At, Idle
<1>2. CASE Finish(r)
  BY <1>1, <1>2, Ends
<1>3. CASE Step(r, "getUsed", "members")
  <2> DEFINE w == request'[r]
  <2>1. TypeOK /\ "members" \in Steps
    BY DEF Inv, TokenInv, Steps
  <2>2. /\ request' \in [Request -> Work] /\ Others(r) /\ request[r].at = "getUsed"
        /\ w.at = "members" /\ w.ends = request[r].ends /\ overlapped' = overlapped
        /\ w.todo = request[r].todo
    BY <1>3, <2>1, Stepped
  <2>3. GoesOn(r, w) /\ w \in Work
    BY <2>2 DEF GoesOn
  <2>4. InHand(w)
    BY <2>2 DEF InHand, Inv, TokenInv
  <2>5. ~overlapped => Turn(w)
    <3> SUFFICES ASSUME ~overlapped PROVE Turn(w)
      OBVIOUS
    <3>1. Turn(request[r])
      BY DEF Inv, TurnInv
    <3> HIDE DEF w
    <3> QED
      BY <2>2, <3>1 DEF Turn
  <2>6. overlapped' \in BOOLEAN
    BY <2>2 DEF Inv, TokenInv, TypeOK
  <2> HIDE DEF w
  <2> QED
    BY <1>1, <2>2, <2>3, <2>4, <2>5, <2>6, Thinks
<1> QED
  BY <1>2, <1>3 DEF GetUsed

LEMMA MembersStep == ASSUME Inv, NEW r \in Request, Members(r) PROVE Inv'
<1> DEFINE w == EndingEach(members, Opened)
<1>1. members \in SUBSET Session /\ Opened \in SUBSET Session
  BY OpenedIsSession DEF Inv, TokenInv, TypeOK
<1>2. w \in Work /\ w.at = "each" /\ w.todo = members /\ w.ends = Opened
  BY <1>1, EachWork
<1>3. /\ request' = [request EXCEPT ![r] = w] /\ overlapped' = overlapped
      /\ request[r] # Idle /\ UNCHANGED <<redis, claims, outside>>
  BY DEF Members, EndingEach, At, Idle
<1> HIDE DEF w
<1>4. w.todo = members \ {} /\ w.ends = Opened \ {}
  BY <1>2
<1>5. InHand(w) /\ (~overlapped => Turn(w))
  BY <1>2, <1>4, EndingAll
<1>6. GoesOn(r, w) /\ overlapped' \in BOOLEAN
  BY <1>2, <1>3, Continues DEF Inv, TokenInv, TypeOK
<1> QED
  BY <1>2, <1>3, <1>5, <1>6, Thinks

LEMMA EachStep == ASSUME Inv, NEW r \in Request, Each(r) PROVE Inv'
<1>1. PICK s \in request[r].todo :
        request' = [request EXCEPT ![r] =
          IF session[s] = None THEN Took(r, s)
          ELSE [Took(r, s) EXCEPT !.at = "drop", !.sid = s, !.token = session[s]]]
  BY DEF Each
<1> DEFINE v == Took(r, s)
           u == [v EXCEPT !.at = "drop", !.sid = s, !.token = session[s]]
           w == IF session[s] = None THEN v ELSE u
<1>2. request[r] \in Work /\ request[r].at = "each" /\ TypeOK
  BY DEF Each, At, Inv, TokenInv, TypeOK
<1>3. s \in Session
  BY <1>1, <1>2 DEF Work
<1>4. session[s] \in Token \cup {None}
  BY <1>2, <1>3 DEF TypeOK
<1>5. /\ v \in Work /\ v.at = "each" /\ v.todo = request[r].todo \ {s} /\ v.ends = request[r].ends
  BY <1>2 DEF Work, Took
<1> HIDE DEF v
<1>6. /\ u \in Work /\ u.at = "drop" /\ u.todo = request[r].todo \ {s} /\ u.ends = request[r].ends
      /\ u.sid = s /\ u.token = session[s]
  BY <1>3, <1>4, <1>5 DEF Work, Steps
<1> USE DEF v
<1> HIDE DEF u
<1>7. request' = [request EXCEPT ![r] = w] /\ w \in Work
  <2>1. w \in Work
    BY <1>5, <1>6
  <2>2. request' = [request EXCEPT ![r] = w]
    BY <1>1 DEF u
  <2> QED
    BY <2>1, <2>2
<1> HIDE DEF v
<1>8. InHand(request[r]) /\ (~overlapped => Turn(request[r]) /\ Listed)
  BY DEF Inv, TokenInv, TurnInv
<1>9. InHand(w)
  BY <1>3, <1>5, <1>6, <1>8 DEF InHand
<1>10. ~overlapped => Turn(w)
  <2> SUFFICES ASSUME ~overlapped PROVE Turn(w)
    OBVIOUS
  <2>1. Turn(request[r]) /\ Listed
    BY <1>8
  <2>2. CASE session[s] = None
    <3>1. Gone(s)
      BY <1>2, <1>3, <2>1, <2>2, NoneIsNoToken DEF Listed, Gone, Dead, Usable, Astray, TypeOK
    <3> QED
      BY <1>2, <1>5, <2>1, <2>2, <3>1 DEF Turn
  <2>3. CASE session[s] # None
    BY <1>2, <1>6, <2>1, <2>3 DEF Turn
  <2> QED
    BY <2>2, <2>3
<1> HIDE DEF w
<1>11. overlapped' \in BOOLEAN /\ overlapped' = overlapped /\ UNCHANGED <<redis, claims, outside>>
  BY <1>2 DEF Each, TypeOK
<1>12. GoesOn(r, w)
  BY <1>2, <1>7, Continues
<1>13. request[r] # Idle
  BY <1>2 DEF Idle
<1> QED
  BY <1>7, <1>9, <1>10, <1>11, <1>12, <1>13, Thinks

LEMMA ListOneStep == ASSUME Inv, NEW r \in Request, ListOne(r) PROVE Inv'
<1>1. request[r] \in Work /\ request[r].at = "list" /\ TypeOK /\ request[r] # Idle
  <2>1. request[r] \in Work /\ request[r].at = "list" /\ TypeOK
    BY DEF ListOne, At, Inv, TokenInv, TypeOK
  <2> QED
    BY <2>1 DEF Idle
<1>2. UNCHANGED <<redis, claims, outside>>
  BY DEF ListOne
<1>3. CASE Finish(r)
  BY <1>1, <1>2, <1>3, Ends
<1>4. CASE ~Finish(r)
  <2>1. PICK s \in request[r].todo :
          request' = [request EXCEPT ![r] =
            IF session[s] # None THEN Took(r, s)
            ELSE [Took(r, s) EXCEPT !.at = "unlist", !.sid = s]]
    BY <1>4 DEF ListOne
  <2> DEFINE v == Took(r, s)
             u == [v EXCEPT !.at = "unlist", !.sid = s]
             w == IF session[s] # None THEN v ELSE u
  <2>2. s \in Session
    BY <1>1 DEF Work
  <2>3. /\ v \in Work /\ v.at = "list" /\ v.todo = request[r].todo \ {s} /\ v.ends = request[r].ends
    BY <1>1 DEF Work, Took
  <2> HIDE DEF v
  <2>4. /\ u \in Work /\ u.at = "unlist" /\ u.todo = request[r].todo \ {s} /\ u.ends = request[r].ends
        /\ u.sid = s
    BY <2>2, <2>3 DEF Work, Steps
  <2> USE DEF v
  <2> HIDE DEF u
  <2>5. w \in Work
    BY <2>3, <2>4
  <2>6. request' = [request EXCEPT ![r] = w]
    BY <2>1 DEF u
  <2> HIDE DEF v
  <2>7. InHand(request[r]) /\ (~overlapped => Turn(request[r]) /\ Listed)
    BY DEF Inv, TokenInv, TurnInv
  <2>8. InHand(w)
    BY <2>3, <2>4, <2>7 DEF InHand
  <2>9. ~overlapped => Turn(w)
    <3> SUFFICES ASSUME ~overlapped PROVE Turn(w)
      OBVIOUS
    <3>1. Turn(request[r]) /\ Listed
      BY <2>7
    <3>2. request[r].ends = {}
      BY <1>1, <3>1 DEF Turn
    <3>3. CASE session[s] = None
      BY <2>2, <2>4, <3>2, <3>3 DEF Turn
    <3>4. CASE session[s] # None
      BY <2>3, <3>2, <3>4 DEF Turn
    <3> QED
      BY <3>3, <3>4
  <2> HIDE DEF w
  <2>10. GoesOn(r, w) /\ overlapped' \in BOOLEAN /\ overlapped' = overlapped
    BY <1>1, <1>4, <2>5, <2>6, Continues DEF ListOne, TypeOK
  <2> QED
    BY <1>1, <1>2, <2>5, <2>8, <2>9, <2>10, Thinks
<1> QED
  BY <1>3, <1>4

LEMMA DieStep == ASSUME Inv, NEW r \in Request, Die(r) PROVE Inv'
  BY Ends DEF Die

-----------------------------------------------------------------------------
(* Requests write.                                                         *)

(* Tokens are issued as before, or fewer are live and recorded.            *)
LEMMA IssuedKept ==
  ASSUME Inv, refresh' \subseteq refresh, UNCHANGED <<expired, received, sid, parent, ended>>,
         stray' \subseteq stray \cup received,
         \A s \in Session : session'[s] \in {session[s], None}
  PROVE  Issued'
<1>1. UNCHANGED <<Minted, Opened>>
  BY DEF Minted, Opened
<1> HIDE DEF Minted, Opened
<1> QED
  BY <1>1 DEF Inv, TokenInv, Issued

LEMMA ParentKept ==
  ASSUME Inv, refresh' \subseteq refresh, UNCHANGED parent,
         used \cup expired \subseteq used' \cup expired'
  PROVE  ParentIsSpent'
  BY DEF Inv, TokenInv, ParentIsSpent

(* No more cookies are usable, and no fewer were left behind.              *)
LEMMA Fewer ==
  ASSUME refresh' \subseteq refresh, UNCHANGED <<received, sid>>, stray \subseteq stray'
  PROVE  /\ Usable' \subseteq Usable /\ Astray \subseteq Astray'
         /\ Usable' \ stray' \subseteq Usable \ stray
  BY DEF Usable, Astray

(* A command that issues nothing, on behalf of a request under way.        *)
LEMMA Writes ==
  ASSUME Inv, NEW r \in Request, NEW this \in Steps \ {"idle"}, NEW next \in Steps,
         request' \in [Request -> Work], Others(r), request[r].at = this, request'[r].at = next,
         request'[r].ends = request[r].ends,
         UNCHANGED <<claims, received, active, ended, overlapped>>, stray \subseteq stray',
         refresh' \subseteq refresh, used \subseteq used', used' \subseteq Token,
         members' \subseteq Session, session' \in [Session -> Token \cup {None}], Issued',
         InHand(request[r]) => InHand(request[r])',
         ~overlapped => Listed' /\ Turn(request[r])'
  PROVE  Inv'
<1>1. UNCHANGED <<sid, parent, expired>>
  BY DEF claims
<1>2. TypeOK' /\ Grows
  <2>1. stray' \subseteq Token
    BY DEF Issued, Minted
  <2> QED
    BY <1>1, <2>1 DEF Inv, TokenInv, TypeOK, Grows
<1>3. ParentIsSpent'
  BY <1>1, ParentKept
<1>4. InHand(request[r])'
  BY DEF Inv, TokenInv
<1>5. ~overlapped => (\A s \in ended : Gone(s))'
  BY <1>1 DEF Inv, TurnInv, Dead, Left, Gone, Usable, Astray
<1>6. request[r] # Idle
  BY DEF Idle
<1> QED
  BY <1>2, <1>3, <1>4, <1>5, <1>6, Acts

(* What holds of a request under way before its step.                      *)
LEMMA UnderWay ==
  ASSUME Inv, NEW r \in Request
  PROVE  /\ TypeOK /\ request[r] \in Work /\ InHand(request[r])
         /\ ~overlapped => Turn(request[r]) /\ Listed
  BY DEF Inv, TokenInv, TurnInv, TypeOK

(* The facts of a step that only moves on.                                 *)
LEMMA Moves ==
  ASSUME Inv, NEW r \in Request, NEW this \in Steps \ {"idle"}, NEW next \in Steps,
         Step(r, this, next)
  PROVE  /\ TypeOK /\ request[r] \in Work /\ InHand(request[r])
         /\ ~overlapped => Turn(request[r]) /\ Listed
         /\ request' \in [Request -> Work] /\ Others(r) /\ request[r].at = this
         /\ request'[r].at = next
         /\ request'[r].sid = request[r].sid /\ request'[r].token = request[r].token
         /\ request'[r].todo = request[r].todo /\ request'[r].ends = request[r].ends
         /\ overlapped' = overlapped
  BY UnderWay, Stepped

LEMMA ClaimsKept ==
  ASSUME UNCHANGED claims
  PROVE  UNCHANGED <<sid, parent, expired, Minted, Opened>>
  BY DEF claims, Minted, Opened

LEMMA DeleteOldStep == ASSUME Inv, NEW r \in Request, DeleteOld(r) PROVE Inv'
<1>1. "markUsed" \in Steps /\ "delete" \in Steps \ {"idle"} /\ Step(r, "delete", "markUsed")
  BY DEF Steps, DeleteOld
<1>2. /\ TypeOK /\ request[r] \in Work /\ InHand(request[r])
      /\ ~overlapped => Turn(request[r]) /\ Listed
      /\ request' \in [Request -> Work] /\ Others(r) /\ request[r].at = "delete"
      /\ request'[r].at = "markUsed"
      /\ request'[r].sid = request[r].sid /\ request'[r].token = request[r].token
      /\ request'[r].todo = request[r].todo /\ request'[r].ends = request[r].ends
      /\ overlapped' = overlapped
  BY <1>1, Moves
<1>3. /\ refresh' = refresh \ {request[r].token}
      /\ UNCHANGED <<used, session, members, claims, received, active, ended, stray>>
  BY DEF DeleteOld, outside
<1>4. UNCHANGED <<sid, parent, expired, Minted, Opened>>
  BY <1>3, ClaimsKept
<1> HIDE DEF Minted, Opened
<1>5. Issued'
  BY <1>3, <1>4, IssuedKept
<1>6. InHand(request[r])'
  BY <1>2, <1>3, <1>4 DEF InHand
<1>7. ~overlapped => Listed' /\ Turn(request[r])'
  <2> SUFFICES ASSUME ~overlapped PROVE Listed' /\ Turn(request[r])'
    OBVIOUS
  <2>0. /\ Usable' \subseteq Usable /\ Astray \subseteq Astray' /\ UNCHANGED <<sid, ended>>
        /\ Usable' \ stray' \subseteq Usable \ stray
    BY <1>3, Fewer DEF claims
  <2>1. Turn(request[r]) /\ Listed
    BY <1>2
  <2>2. Listed'
    BY <1>3, <2>0, <2>1 DEF Listed, Dead, Left, Gone
  <2>3. \A t \in Usable' : t \in Usable /\ sid'[t] # request[r].sid
    BY <1>2, <1>3, <2>0, <2>1 DEF Turn, Listed, Usable
  <2>4. Turn(request[r])'
    BY <1>2, <1>3, <2>0, <2>1, <2>3 DEF Turn, Dead, Gone
  <2> QED
    BY <2>2, <2>4
<1>8. used' \subseteq Token /\ members' \subseteq Session /\ session' \in [Session -> Token \cup {None}]
  BY <1>2, <1>3 DEF TypeOK
<1> QED
  BY <1>1, <1>2, <1>3, <1>5, <1>6, <1>7, <1>8, Writes

LEMMA MarkUsedStep == ASSUME Inv, NEW r \in Request, MarkUsed(r) PROVE Inv'
<1>1. "setRefresh" \in Steps /\ "markUsed" \in Steps \ {"idle"} /\ Step(r, "markUsed", "setRefresh")
  BY DEF Steps, MarkUsed
<1>2. /\ TypeOK /\ request[r] \in Work /\ InHand(request[r])
      /\ ~overlapped => Turn(request[r]) /\ Listed
      /\ request' \in [Request -> Work] /\ Others(r) /\ request[r].at = "markUsed"
      /\ request'[r].at = "setRefresh"
      /\ request'[r].sid = request[r].sid /\ request'[r].token = request[r].token
      /\ request'[r].todo = request[r].todo /\ request'[r].ends = request[r].ends
      /\ overlapped' = overlapped
  BY <1>1, Moves
<1>3. /\ used' = used \cup {request[r].token}
      /\ UNCHANGED <<refresh, session, members, claims, received, active, ended, stray>>
  BY DEF MarkUsed, outside
<1>4. UNCHANGED <<sid, parent, expired, Minted, Opened>>
  BY <1>3, ClaimsKept
<1>5. request[r].token \in Token
  BY <1>2 DEF InHand, Minted
<1> HIDE DEF Minted, Opened
<1>6. Issued'
  BY <1>3, <1>4, IssuedKept
<1>7. InHand(request[r])'
  BY <1>2, <1>3, <1>4 DEF InHand
<1>8. ~overlapped => Listed' /\ Turn(request[r])'
  <2> SUFFICES ASSUME ~overlapped PROVE Listed' /\ Turn(request[r])'
    OBVIOUS
  <2>0. /\ Usable' \subseteq Usable /\ Astray \subseteq Astray' /\ UNCHANGED <<sid, ended>>
        /\ Usable' \ stray' \subseteq Usable \ stray
    BY <1>3, Fewer DEF claims
  <2>1. Turn(request[r]) /\ Listed
    BY <1>2
  <2>2. Listed'
    BY <1>3, <2>0, <2>1 DEF Listed, Dead, Left, Gone
  <2>3. Turn(request[r])'
    BY <1>2, <1>3, <2>0, <2>1 DEF Turn, Dead, Left, Gone
  <2> QED
    BY <2>2, <2>3
<1>9. used' \subseteq Token /\ members' \subseteq Session /\ session' \in [Session -> Token \cup {None}]
  BY <1>2, <1>3, <1>5 DEF TypeOK
<1> QED
  BY <1>1, <1>2, <1>3, <1>6, <1>7, <1>8, <1>9, Writes

LEMMA SetSessionStep == ASSUME Inv, NEW r \in Request, SetSession(r) PROVE Inv'
<1>1. "addMember" \in Steps /\ "setSession" \in Steps \ {"idle"} /\ Step(r, "setSession", "addMember")
  BY DEF Steps, SetSession
<1>2. /\ TypeOK /\ request[r] \in Work /\ InHand(request[r])
      /\ ~overlapped => Turn(request[r]) /\ Listed
      /\ request' \in [Request -> Work] /\ Others(r) /\ request[r].at = "setSession"
      /\ request'[r].at = "addMember"
      /\ request'[r].sid = request[r].sid /\ request'[r].token = request[r].token
      /\ request'[r].todo = request[r].todo /\ request'[r].ends = request[r].ends
      /\ overlapped' = overlapped
  BY <1>1, Moves
<1>3. /\ session' = [session EXCEPT ![request[r].sid] = request[r].token]
      /\ UNCHANGED <<refresh, used, members, claims, received, active, ended, stray>>
  BY DEF SetSession, outside
<1>4. UNCHANGED <<sid, parent, expired, Minted, Opened>>
  BY <1>3, ClaimsKept
<1>5. request[r].token \in Token \cup {None} /\ request[r].sid \in Session
  BY <1>2 DEF Work, InHand
<1> HIDE DEF Minted, Opened
<1>6. Issued'
  BY <1>2, <1>3, <1>4, <1>5 DEF Issued, InHand, Inv, TokenInv, TypeOK
<1>7. InHand(request[r])'
  BY <1>2, <1>3, <1>4 DEF InHand
<1>8. ~overlapped => Listed' /\ Turn(request[r])'
  <2> SUFFICES ASSUME ~overlapped PROVE Listed' /\ Turn(request[r])'
    OBVIOUS
  <2>0. /\ Usable' \subseteq Usable /\ Astray \subseteq Astray' /\ UNCHANGED <<sid, ended>>
        /\ Usable' \ stray' \subseteq Usable \ stray
    BY <1>3, Fewer DEF claims
  <2>1. Turn(request[r]) /\ Listed
    BY <1>2
  <2>2. Listed'
    BY <1>2, <1>3, <1>5, <2>0, <2>1 DEF Listed, Dead, Left, Gone, Turn, TypeOK
  <2>3. Turn(request[r])'
    BY <1>2, <1>3, <1>5, <2>0, <2>1 DEF Turn, Dead, Left, Gone, Listed, TypeOK
  <2> QED
    BY <2>2, <2>3
<1>9. used' \subseteq Token /\ members' \subseteq Session /\ session' \in [Session -> Token \cup {None}]
  BY <1>2, <1>3, <1>5 DEF TypeOK
<1> QED
  BY <1>1, <1>2, <1>3, <1>6, <1>7, <1>8, <1>9, Writes

LEMMA AddMemberStep == ASSUME Inv, NEW r \in Request, AddMember(r) PROVE Inv'
<1>1. "answer" \in Steps /\ "addMember" \in Steps \ {"idle"} /\ Step(r, "addMember", "answer")
  BY DEF Steps, AddMember
<1>2. /\ TypeOK /\ request[r] \in Work /\ InHand(request[r])
      /\ ~overlapped => Turn(request[r]) /\ Listed
      /\ request' \in [Request -> Work] /\ Others(r) /\ request[r].at = "addMember"
      /\ request'[r].at = "answer"
      /\ request'[r].sid = request[r].sid /\ request'[r].token = request[r].token
      /\ request'[r].todo = request[r].todo /\ request'[r].ends = request[r].ends
      /\ overlapped' = overlapped
  BY <1>1, Moves
<1>3. /\ members' = members \cup {request[r].sid}
      /\ UNCHANGED <<refresh, used, session, claims, received, active, ended, stray>>
  BY DEF AddMember, outside
<1>4. UNCHANGED <<sid, parent, expired, Minted, Opened>>
  BY <1>3, ClaimsKept
<1>5. request[r].token \in Token \cup {None} /\ request[r].sid \in Session
  BY <1>2 DEF Work, InHand
<1> HIDE DEF Minted, Opened
<1>6. Issued'
  BY <1>2, <1>3, <1>4, <1>5, IssuedKept DEF TypeOK
<1>7. InHand(request[r])'
  BY <1>2, <1>3, <1>4 DEF InHand
<1>8. ~overlapped => Listed' /\ Turn(request[r])'
  <2> SUFFICES ASSUME ~overlapped PROVE Listed' /\ Turn(request[r])'
    OBVIOUS
  <2>0. /\ Usable' \subseteq Usable /\ Astray \subseteq Astray' /\ UNCHANGED <<sid, ended>>
        /\ Usable' \ stray' \subseteq Usable \ stray
    BY <1>3, Fewer DEF claims
  <2>1. Turn(request[r]) /\ Listed
    BY <1>2
  <2>2. Listed'
    BY <1>2, <1>3, <1>5, <2>0, <2>1 DEF Listed, Dead, Left, Gone, Turn, TypeOK
  <2>3. Turn(request[r])'
    BY <1>2, <1>3, <1>5, <2>0, <2>1 DEF Turn, Dead, Left, Gone, Listed, TypeOK
  <2> QED
    BY <2>2, <2>3
<1>9. used' \subseteq Token /\ members' \subseteq Session /\ session' \in [Session -> Token \cup {None}]
  BY <1>2, <1>3, <1>5 DEF TypeOK
<1> QED
  BY <1>1, <1>2, <1>3, <1>6, <1>7, <1>8, <1>9, Writes

LEMMA DropTokenStep == ASSUME Inv, NEW r \in Request, DropToken(r) PROVE Inv'
<1>1. "dropSession" \in Steps /\ "dropToken" \in Steps \ {"idle"} /\ Step(r, "dropToken", "dropSession")
  BY DEF Steps, DropToken
<1>2. /\ TypeOK /\ request[r] \in Work /\ InHand(request[r])
      /\ ~overlapped => Turn(request[r]) /\ Listed
      /\ request' \in [Request -> Work] /\ Others(r) /\ request[r].at = "dropToken"
      /\ request'[r].at = "dropSession"
      /\ request'[r].sid = request[r].sid /\ request'[r].token = request[r].token
      /\ request'[r].todo = request[r].todo /\ request'[r].ends = request[r].ends
      /\ overlapped' = overlapped
  BY <1>1, Moves
<1>3. /\ refresh' = refresh \ {request[r].token}
      /\ UNCHANGED <<used, session, members, claims, received, active, ended, stray>>
  BY DEF DropToken, outside
<1>4. UNCHANGED <<sid, parent, expired, Minted, Opened>>
  BY <1>3, ClaimsKept
<1>5. request[r].token \in Token \cup {None} /\ request[r].sid \in Session
  BY <1>2 DEF Work, InHand
<1> HIDE DEF Minted, Opened
<1>6. Issued'
  BY <1>2, <1>3, <1>4, <1>5, IssuedKept DEF TypeOK
<1>7. InHand(request[r])'
  BY <1>2, <1>3, <1>4 DEF InHand
<1>8. ~overlapped => Listed' /\ Turn(request[r])'
  <2> SUFFICES ASSUME ~overlapped PROVE Listed' /\ Turn(request[r])'
    OBVIOUS
  <2>0. /\ Usable' \subseteq Usable /\ Astray \subseteq Astray' /\ UNCHANGED <<sid, ended>>
        /\ Usable' \ stray' \subseteq Usable \ stray
    BY <1>3, Fewer DEF claims
  <2>1. Turn(request[r]) /\ Listed
    BY <1>2
  <2>2. Listed'
    BY <1>2, <1>3, <1>5, <2>0, <2>1 DEF Listed, Dead, Left, Gone, Turn, TypeOK
  <2>3. Turn(request[r])'
    BY <1>2, <1>3, <1>5, <2>0, <2>1 DEF Turn, Dead, Left, Gone, Listed, TypeOK
  <2> QED
    BY <2>2, <2>3
<1>9. used' \subseteq Token /\ members' \subseteq Session /\ session' \in [Session -> Token \cup {None}]
  BY <1>2, <1>3, <1>5 DEF TypeOK
<1> QED
  BY <1>1, <1>2, <1>3, <1>6, <1>7, <1>8, <1>9, Writes

LEMMA DropSessionStep == ASSUME Inv, NEW r \in Request, DropSession(r) PROVE Inv'
<1>1. "remove" \in Steps /\ "dropSession" \in Steps \ {"idle"} /\ Step(r, "dropSession", "remove")
  BY DEF Steps, DropSession
<1>2. /\ TypeOK /\ request[r] \in Work /\ InHand(request[r])
      /\ ~overlapped => Turn(request[r]) /\ Listed
      /\ request' \in [Request -> Work] /\ Others(r) /\ request[r].at = "dropSession"
      /\ request'[r].at = "remove"
      /\ request'[r].sid = request[r].sid /\ request'[r].token = request[r].token
      /\ request'[r].todo = request[r].todo /\ request'[r].ends = request[r].ends
      /\ overlapped' = overlapped
  BY <1>1, Moves
<1>3. /\ session' = [session EXCEPT ![request[r].sid] = None]
      /\ stray' = stray \cup {t \in Usable : sid[t] = request[r].sid}
      /\ UNCHANGED <<refresh, used, members, claims, received, active, ended>>
  BY DEF DropSession
<1>4. UNCHANGED <<sid, parent, expired, Minted, Opened>>
  BY <1>3, ClaimsKept
<1>5. request[r].token \in Token \cup {None} /\ request[r].sid \in Session
  BY <1>2 DEF Work, InHand
<1> HIDE DEF Minted, Opened
<1>6. Issued'
  BY <1>2, <1>3, <1>4, <1>5, IssuedKept DEF TypeOK, Usable
<1>7. InHand(request[r])'
  BY <1>2, <1>3, <1>4 DEF InHand
<1>8. ~overlapped => Listed' /\ Turn(request[r])'
  <2> SUFFICES ASSUME ~overlapped PROVE Listed' /\ Turn(request[r])'
    OBVIOUS
  <2>0. /\ Usable' \subseteq Usable /\ Astray \subseteq Astray' /\ UNCHANGED <<sid, ended>>
        /\ Usable' \ stray' \subseteq Usable \ stray
    BY <1>3, Fewer DEF claims
  <2>1. Turn(request[r]) /\ Listed
    BY <1>2
  <2>2. Listed'
    BY <1>2, <1>3, <1>5, <2>0, <2>1 DEF Listed, Dead, Left, Gone, Turn, TypeOK
  <2>3. (\A t \in Usable' \ stray' : sid'[t] # request[r].sid)
    BY <1>3, <2>0 DEF Usable
  <2>4. Gone(request[r].sid)'
    BY <1>2, <1>3, <2>0, <2>3 DEF Gone, Dead, Astray
  <2>5. \A s \in request[r].ends : s # request[r].sid => Gone(s) \/ s \in request[r].todo
    BY <1>2, <2>1 DEF Turn
  <2>6. Turn(request[r])'
    BY <1>2, <1>5, <2>0, <2>3, <2>4, <2>5 DEF Turn, Dead, Left, Gone
  <2> QED
    BY <2>2, <2>6
<1>9. used' \subseteq Token /\ members' \subseteq Session /\ session' \in [Session -> Token \cup {None}]
  BY <1>2, <1>3, <1>5 DEF TypeOK
<1> QED
  BY <1>1, <1>2, <1>3, <1>6, <1>7, <1>8, <1>9, Writes

LEMMA DropStep == ASSUME Inv, NEW r \in Request, Drop(r) PROVE Inv'
<1>1. "remove" \in Steps /\ "drop" \in Steps \ {"idle"} /\ Step(r, "drop", "remove")
  BY DEF Steps, Drop
<1>2. /\ TypeOK /\ request[r] \in Work /\ InHand(request[r])
      /\ ~overlapped => Turn(request[r]) /\ Listed
      /\ request' \in [Request -> Work] /\ Others(r) /\ request[r].at = "drop"
      /\ request'[r].at = "remove"
      /\ request'[r].sid = request[r].sid /\ request'[r].token = request[r].token
      /\ request'[r].todo = request[r].todo /\ request'[r].ends = request[r].ends
      /\ overlapped' = overlapped
  BY <1>1, Moves
<1>3. /\ session' = [session EXCEPT ![request[r].sid] = None]
      /\ refresh' = refresh \ {request[r].token}
      /\ UNCHANGED <<used, members, claims, received, active, ended, stray>>
  BY DEF Drop, outside
<1>4. UNCHANGED <<sid, parent, expired, Minted, Opened>>
  BY <1>3, ClaimsKept
<1>5. request[r].token \in Token \cup {None} /\ request[r].sid \in Session
  BY <1>2 DEF Work, InHand
<1> HIDE DEF Minted, Opened
<1>6. Issued'
  BY <1>2, <1>3, <1>4, <1>5, IssuedKept DEF TypeOK
<1>7. InHand(request[r])'
  BY <1>2, <1>3, <1>4 DEF InHand
<1>8. ~overlapped => Listed' /\ Turn(request[r])'
  <2> SUFFICES ASSUME ~overlapped PROVE Listed' /\ Turn(request[r])'
    OBVIOUS
  <2>0. /\ Usable' \subseteq Usable /\ Astray \subseteq Astray' /\ UNCHANGED <<sid, ended>>
        /\ Usable' \ stray' \subseteq Usable \ stray
    BY <1>3, Fewer DEF claims
  <2>1. Turn(request[r]) /\ Listed
    BY <1>2
  <2>2. /\ Usable' = Usable \ {request[r].token} /\ request[r].token = session[request[r].sid]
        /\ \A s \in Session : s # request[r].sid => session'[s] = session[s]
    BY <1>2, <1>3, <2>1 DEF Usable, Turn, TypeOK
  <2>3. \A t \in Usable' \ stray' : sid'[t] # request[r].sid
    BY <1>3, <2>0, <2>1, <2>2 DEF Listed
  <2>4. Listed'
    <3>1. ASSUME NEW t \in Usable' \ stray' PROVE session'[sid'[t]] = t /\ sid'[t] \in members'
      <4>1. t \in Usable \ stray /\ sid'[t] = sid[t] /\ sid[t] # request[r].sid
        BY <2>0, <2>3
      <4>2. sid[t] \in Session
        BY <1>2, <2>1, <4>1 DEF Listed, TypeOK
      <4> QED
        BY <1>3, <2>1, <2>2, <4>1, <4>2 DEF Listed
    <3>2. ASSUME NEW t \in Usable', NEW u \in Usable', sid'[t] = sid'[u] PROVE t = u
      BY <2>0, <2>1, <3>2 DEF Listed
    <3> QED
      BY <3>1, <3>2 DEF Listed
  <2>5. Gone(request[r].sid)'
    BY <1>2, <2>3 DEF Gone, Dead, Astray
  <2>6. \A s \in request[r].ends : s # request[r].sid => Gone(s) \/ s \in request[r].todo
    BY <1>2, <2>1 DEF Turn
  <2>7. Turn(request[r])'
    BY <1>2, <1>5, <2>0, <2>3, <2>5, <2>6 DEF Turn, Dead, Left, Gone
  <2> QED
    BY <2>4, <2>7
<1>9. used' \subseteq Token /\ members' \subseteq Session /\ session' \in [Session -> Token \cup {None}]
  BY <1>2, <1>3, <1>5 DEF TypeOK
<1> QED
  BY <1>1, <1>2, <1>3, <1>6, <1>7, <1>8, <1>9, Writes

LEMMA RemoveStep == ASSUME Inv, NEW r \in Request, Remove(r) PROVE Inv'
<1> DEFINE w == [request[r] EXCEPT !.at = "each", !.sid = NoSession, !.token = None]
<1>1. /\ TypeOK /\ request[r] \in Work /\ InHand(request[r])
      /\ ~overlapped => Turn(request[r]) /\ Listed
  BY UnderWay
<1>2. /\ w \in Work /\ w.at = "each" /\ w.todo = request[r].todo /\ w.ends = request[r].ends
  BY <1>1 DEF Work, Steps
<1>3. /\ request[r].at = "remove" /\ request' = [request EXCEPT ![r] = w]
      /\ members' = members \ {request[r].sid}
      /\ UNCHANGED <<refresh, used, session, claims, overlapped, received, active, ended, stray>>
  BY DEF Remove, At, outside
<1> HIDE DEF w
<1>4. GoesOn(r, w)
  BY <1>1, <1>2, <1>3, Continues
<1>5. /\ request' \in [Request -> Work] /\ Others(r) /\ request'[r].at = "each"
      /\ request'[r].todo = request[r].todo /\ request'[r].ends = request[r].ends
  BY <1>2, <1>4 DEF GoesOn
<1>6. UNCHANGED <<sid, parent, expired, Minted, Opened>>
  BY <1>3, ClaimsKept
<1> HIDE DEF Minted, Opened
<1>7. Issued'
  BY <1>3, <1>6, IssuedKept
<1>8. InHand(request[r])'
  BY <1>1, <1>3, <1>5, <1>6 DEF InHand
<1>9. ~overlapped => Listed' /\ Turn(request[r])'
  <2> SUFFICES ASSUME ~overlapped PROVE Listed' /\ Turn(request[r])'
    OBVIOUS
  <2>0. /\ Usable' \subseteq Usable /\ Astray \subseteq Astray' /\ UNCHANGED <<sid, ended>>
        /\ Usable' \ stray' \subseteq Usable \ stray
    BY <1>3, Fewer DEF claims
  <2>1. Turn(request[r]) /\ Listed
    BY <1>1
  <2>2. Listed'
    BY <1>3, <2>0, <2>1 DEF Listed, Dead, Left, Gone, Turn
  <2>3. Turn(request[r])'
    BY <1>3, <1>5, <2>0, <2>1 DEF Turn, Dead, Left, Gone
  <2> QED
    BY <2>2, <2>3
<1>10. used' \subseteq Token /\ members' \subseteq Session /\ session' \in [Session -> Token \cup {None}]
  BY <1>1, <1>3 DEF TypeOK
<1>11. "remove" \in Steps \ {"idle"} /\ "each" \in Steps
  BY DEF Steps
<1> QED
  BY <1>3, <1>5, <1>7, <1>8, <1>9, <1>10, <1>11, Writes

LEMMA UnlistStep == ASSUME Inv, NEW r \in Request, Unlist(r) PROVE Inv'
<1> DEFINE w == [request[r] EXCEPT !.at = "list", !.sid = NoSession]
<1>1. /\ TypeOK /\ request[r] \in Work /\ InHand(request[r])
      /\ ~overlapped => Turn(request[r]) /\ Listed
  BY UnderWay
<1>2. /\ w \in Work /\ w.at = "list" /\ w.todo = request[r].todo /\ w.ends = request[r].ends
  BY <1>1 DEF Work, Steps
<1>3. /\ request[r].at = "unlist" /\ request' = [request EXCEPT ![r] = w]
      /\ members' = members \ {request[r].sid}
      /\ UNCHANGED <<refresh, used, session, claims, overlapped, received, active, ended, stray>>
  BY DEF Unlist, At, outside
<1> HIDE DEF w
<1>4. GoesOn(r, w)
  BY <1>1, <1>2, <1>3, Continues
<1>5. /\ request' \in [Request -> Work] /\ Others(r) /\ request'[r].at = "list"
      /\ request'[r].todo = request[r].todo /\ request'[r].ends = request[r].ends
  BY <1>2, <1>4 DEF GoesOn
<1>6. UNCHANGED <<sid, parent, expired, Minted, Opened>>
  BY <1>3, ClaimsKept
<1> HIDE DEF Minted, Opened
<1>7. Issued'
  BY <1>3, <1>6, IssuedKept
<1>8. InHand(request[r])'
  BY <1>1, <1>3, <1>5, <1>6 DEF InHand
<1>9. ~overlapped => Listed' /\ Turn(request[r])'
  <2> SUFFICES ASSUME ~overlapped PROVE Listed' /\ Turn(request[r])'
    OBVIOUS
  <2>0. /\ Usable' \subseteq Usable /\ Astray \subseteq Astray' /\ UNCHANGED <<sid, ended>>
        /\ Usable' \ stray' \subseteq Usable \ stray
    BY <1>3, Fewer DEF claims
  <2>1. Turn(request[r]) /\ Listed
    BY <1>1
  <2>2. Left(request[r].sid)
    BY <1>1, <1>3, <2>1, NoneIsNoToken DEF Listed, Turn, Left, Usable, TypeOK
  <2>3. Listed'
    BY <1>3, <2>0, <2>1, <2>2 DEF Listed, Dead, Left, Gone, Turn
  <2>4. Turn(request[r])'
    BY <1>3, <1>5, <2>0, <2>1 DEF Turn, Dead, Left, Gone
  <2> QED
    BY <2>3, <2>4
<1>10. used' \subseteq Token /\ members' \subseteq Session /\ session' \in [Session -> Token \cup {None}]
  BY <1>1, <1>3 DEF TypeOK
<1>11. "unlist" \in Steps \ {"idle"} /\ "list" \in Steps
  BY DEF Steps
<1> QED
  BY <1>3, <1>5, <1>7, <1>8, <1>9, <1>10, <1>11, Writes

(* A new token: it is nobody's parent, and its own parent is spent.        *)
LEMMA SetRefreshStep == ASSUME Inv, NEW r \in Request, SetRefresh(r) PROVE Inv'
<1>1. PICK t \in Token \ Minted :
        /\ refresh' = refresh \cup {t}
        /\ sid' = [sid EXCEPT ![t] = request[r].sid]
        /\ parent' = [parent EXCEPT ![t] = request[r].token]
        /\ request' = [request EXCEPT ![r].at = "setSession", ![r].token = t]
  BY DEF SetRefresh
<1> DEFINE w == [request[r] EXCEPT !.at = "setSession", !.token = t]
<1>2. /\ TypeOK /\ request[r] \in Work /\ InHand(request[r])
      /\ ~overlapped => Turn(request[r]) /\ Listed
  BY UnderWay
<1>3. /\ w \in Work /\ w.at = "setSession" /\ w.sid = request[r].sid /\ w.token = t
      /\ w.todo = request[r].todo /\ w.ends = request[r].ends
  BY <1>2 DEF Work, Steps
<1>4. /\ request[r].at = "setRefresh" /\ request' = [request EXCEPT ![r] = w]
      /\ UNCHANGED <<used, session, members, expired, received, active, ended, stray, overlapped>>
  BY <1>1 DEF SetRefresh, At, outside
<1> HIDE DEF w
<1>5. GoesOn(r, w)
  BY <1>2, <1>3, <1>4, Continues
<1>6. /\ request' \in [Request -> Work] /\ Others(r) /\ request'[r].at = "setSession"
      /\ request'[r].sid = request[r].sid /\ request'[r].token = t
      /\ request'[r].todo = request[r].todo /\ request'[r].ends = request[r].ends
  BY <1>3, <1>5 DEF GoesOn
<1>7. request[r].sid \in Session /\ request[r].token \in Token \cup {None}
  BY <1>2, <1>4 DEF InHand, Work
<1>8. TypeOK'
  BY <1>1, <1>2, <1>4, <1>6, <1>7 DEF TypeOK
<1>9. Minted' = Minted \cup {t} /\ \A u \in Token \ {t} : sid'[u] = sid[u]
  BY <1>1, <1>2, <1>7, SessionAssumption DEF Minted, TypeOK
<1>10. refresh \subseteq Minted /\ t \notin Minted /\ t \in Token /\ Minted \subseteq Token
  BY <1>1 DEF Inv, TokenInv, Issued, Minted
<1>11. Grows
  <2> HIDE DEF Minted
  <2> QED
    BY <1>1, <1>4, <1>9, <1>10 DEF Grows
<1>12. Opened \subseteq Opened'
  BY <1>11, IssuedStays
<1>13. request[r].token # None => /\ request[r].token \in Minted \cap (used \cup expired)
                                 /\ request[r].token \notin refresh
  BY <1>2, <1>4 DEF InHand
<1> HIDE DEF Minted, Opened
<1>14. Issued'
  <2>1. /\ refresh' \subseteq Minted' /\ expired' \subseteq Minted'
        /\ received' \subseteq Minted' /\ stray' \subseteq Minted'
    BY <1>1, <1>4, <1>9 DEF Inv, TokenInv, Issued
  <2>2. ASSUME NEW s \in Session, session[s] # None
        PROVE  session[s] \in Minted' /\ sid'[session[s]] = s
    <3>1. session[s] \in Minted /\ sid[session[s]] = s
      BY <2>2 DEF Inv, TokenInv, Issued
    <3> QED
      BY <1>9, <1>10, <3>1
  <2>3. ASSUME NEW u \in Token, parent'[u] # None PROVE parent'[u] \in Minted'
    BY <1>1, <1>2, <1>9, <1>13, <2>3 DEF Inv, TokenInv, Issued, TypeOK
  <2>4. ended' \subseteq Opened'
    BY <1>4, <1>12 DEF Inv, TokenInv, Issued
  <2> QED
    BY <1>4, <2>1, <2>2, <2>3, <2>4 DEF Issued
<1>15. ParentIsSpent'
  <2> SUFFICES ASSUME NEW u \in refresh', parent'[u] # None
               PROVE  parent'[u] \notin refresh' /\ parent'[u] \in used' \cup expired'
    BY DEF ParentIsSpent
  <2>1. CASE u = t
    <3>1. parent'[u] = request[r].token
      BY <1>1, <1>2, <2>1 DEF TypeOK
    <3> QED
      BY <1>1, <1>4, <1>10, <1>13, <3>1
  <2>2. CASE u # t
    <3>1. u \in refresh /\ u \in Token /\ parent'[u] = parent[u]
      BY <1>1, <1>2, <2>2 DEF TypeOK
    <3>2. parent[u] \in Minted
      BY <3>1 DEF Inv, TokenInv, Issued
    <3> QED
      BY <1>1, <1>4, <1>10, <3>1, <3>2 DEF Inv, TokenInv, ParentIsSpent
  <2> QED
    BY <2>1, <2>2
<1>16. InHand(request[r])'
  <2>1. sid'[t] = request[r].sid
    BY <1>1, <1>2 DEF TypeOK
  <2> QED
    BY <1>2, <1>4, <1>6, <1>7, <1>9, <1>12, <2>1 DEF InHand
<1>17. ~overlapped => Listed' /\ (\A s \in ended : Gone(s))' /\ Turn(request[r])'
  <2> SUFFICES ASSUME ~overlapped
               PROVE  Listed' /\ (\A s \in ended : Gone(s))' /\ Turn(request[r])'
    OBVIOUS
  <2>1. Turn(request[r]) /\ Listed /\ (\A s \in ended : Gone(s))
    BY <1>2 DEF Inv, TurnInv
  <2>2. /\ Usable' = Usable /\ stray' = stray /\ Astray' = Astray
        /\ \A u \in Usable : sid'[u] = sid[u]
    <3>1. received \subseteq Minted /\ stray \subseteq Minted
      BY DEF Inv, TokenInv, Issued
    <3>2. Usable' = Usable /\ \A u \in Usable \cup stray : sid'[u] = sid[u]
      BY <1>1, <1>4, <1>9, <1>10, <3>1 DEF Usable
    <3> QED
      BY <1>4, <3>2 DEF Astray
  <2>3. Listed'
    BY <1>4, <2>1, <2>2 DEF Listed
  <2>4. (\A s \in ended : Gone(s))'
    BY <1>4, <2>1, <2>2 DEF Gone, Dead
  <2>5. Turn(request[r])'
    BY <1>4, <1>6, <2>1, <2>2 DEF Turn, Gone, Dead
  <2> QED
    BY <2>3, <2>4, <2>5
<1>18. request[r] # Idle
  BY <1>4 DEF Idle
<1> QED
  BY <1>4, <1>6, <1>8, <1>11, <1>14, <1>15, <1>16, <1>17, <1>18, Acts

(* The browser receives the token that its session's record names.         *)
LEMMA AnswerStep == ASSUME Inv, NEW r \in Request, Answer(r) PROVE Inv'
<1>1. /\ TypeOK /\ request[r] \in Work /\ InHand(request[r])
      /\ ~overlapped => Turn(request[r]) /\ Listed
  BY UnderWay
<1>2. /\ request[r].at = "answer" /\ Finish(r)
      /\ received' = received \cup {request[r].token}
      /\ UNCHANGED <<refresh, used, session, members, sid, parent, expired, active, ended, stray, claims>>
  BY DEF Answer, At, redis, claims
<1>3. GoesOn(r, Idle) /\ overlapped' = overlapped
  BY <1>1, <1>2, Finished
<1>4. UNCHANGED <<Minted, Opened>>
  BY <1>2, ClaimsKept
<1>5. /\ request[r].sid \in Session /\ request[r].token \in Minted
      /\ sid[request[r].token] = request[r].sid
  BY <1>1, <1>2 DEF InHand
<1>6. request[r].token \in Token
  BY <1>5 DEF Minted
<1>7. TypeOK'
  BY <1>1, <1>2, <1>3, <1>5, <1>6 DEF TypeOK, GoesOn
<1>8. Grows
  BY <1>2 DEF Grows
<1> HIDE DEF Minted, Opened
<1>9. Issued'
  BY <1>1, <1>2, <1>4, <1>5 DEF Inv, TokenInv, Issued, TypeOK
<1>10. ParentIsSpent'
  BY <1>2, ParentKept
<1>11. InHand(request[r])'
  BY <1>3 DEF GoesOn, InHand, Idle
<1>12. ~overlapped => Listed' /\ (\A s \in ended : Gone(s))' /\ Turn(request[r])'
  <2> SUFFICES ASSUME ~overlapped
               PROVE  Listed' /\ (\A s \in ended : Gone(s))' /\ Turn(request[r])'
    OBVIOUS
  <2>1. Turn(request[r]) /\ Listed /\ (\A s \in ended : Gone(s))
    BY <1>1 DEF Inv, TurnInv
  <2>2. /\ request[r].sid \in ended => request[r].sid \in Astray
        /\ request[r].sid \in members /\ Dead(request[r].sid)
        /\ session[request[r].sid] = request[r].token
    BY <1>2, <2>1 DEF Turn
  <2>3. /\ Usable' \subseteq Usable \cup {request[r].token}
        /\ UNCHANGED <<sid, stray, Astray>>
    BY <1>2 DEF Usable, Astray
  <2>4. sid'[request[r].token] = request[r].sid
    BY <1>5, <2>3
  <2>5. Listed'
    <3>1. ASSUME NEW t \in Usable' \ stray' PROVE session'[sid'[t]] = t /\ sid'[t] \in members'
      BY <1>2, <2>1, <2>2, <2>3, <2>4 DEF Listed
    <3>2. ASSUME NEW t \in Usable', NEW u \in Usable', sid'[t] = sid'[u] PROVE t = u
      BY <2>1, <2>2, <2>3, <2>4, <3>2 DEF Listed, Dead
    <3> QED
      BY <3>1, <3>2 DEF Listed
  <2>6. (\A s \in ended : Gone(s))'
    BY <1>2, <2>1, <2>2, <2>3, <2>4 DEF Gone, Dead
  <2>7. Turn(request[r])'
    BY <1>3, IdleTurn DEF GoesOn
  <2> QED
    BY <2>5, <2>6, <2>7
<1>13. request[r] # Idle
  BY <1>2 DEF Idle
<1> QED
  BY <1>3, <1>7, <1>8, <1>9, <1>10, <1>11, <1>12, <1>13, Acts DEF GoesOn

(* What a request was to end is dead when it is done.                      *)
LEMMA DoneStep == ASSUME Inv, NEW r \in Request, Done(r) PROVE Inv'
<1>1. /\ TypeOK /\ request[r] \in Work /\ InHand(request[r])
      /\ ~overlapped => Turn(request[r]) /\ Listed
  BY UnderWay
<1>2. /\ request[r].at = "each" /\ request[r].todo = {} /\ Finish(r)
      /\ ended' = ended \cup request[r].ends
      /\ active' = (active /\ request[r].then # "close")
      /\ UNCHANGED <<refresh, used, session, members, sid, parent, expired, received, stray, claims>>
  BY DEF Done, At, redis, claims
<1>3. GoesOn(r, Idle) /\ overlapped' = overlapped
  BY <1>1, <1>2, Finished
<1>4. UNCHANGED <<Minted, Opened>>
  BY <1>2, ClaimsKept
<1>5. request[r].ends \subseteq Opened /\ request[r].ends \subseteq Session
  BY <1>1 DEF InHand, Work
<1>6. TypeOK'
  <2>1. active' \in BOOLEAN
    BY <1>2
  <2> QED
    BY <1>1, <1>2, <1>3, <1>5, <2>1 DEF TypeOK, GoesOn
<1>7. Grows
  BY <1>2 DEF Grows
<1> HIDE DEF Minted, Opened
<1>8. Issued'
  BY <1>2, <1>4, <1>5 DEF Inv, TokenInv, Issued
<1>9. ParentIsSpent'
  BY <1>2, ParentKept
<1>10. InHand(request[r])'
  BY <1>3 DEF GoesOn, InHand, Idle
<1>11. ~overlapped => Listed' /\ (\A s \in ended : Gone(s))' /\ Turn(request[r])'
  <2> SUFFICES ASSUME ~overlapped
               PROVE  Listed' /\ (\A s \in ended : Gone(s))' /\ Turn(request[r])'
    OBVIOUS
  <2>1. Turn(request[r]) /\ Listed /\ (\A s \in ended : Gone(s))
    BY <1>1 DEF Inv, TurnInv
  <2>2. \A s \in request[r].ends : Gone(s)
    BY <1>2, <2>1 DEF Turn
  <2>3. UNCHANGED <<Usable, Astray>>
    BY <1>2 DEF Usable, Astray
  <2>4. Listed' /\ (\A s \in ended : Gone(s))'
    BY <1>2, <2>1, <2>2, <2>3 DEF Listed, Dead, Gone
  <2>5. Turn(request[r])'
    BY <1>3, IdleTurn DEF GoesOn
  <2> QED
    BY <2>4, <2>5
<1>12. request[r] # Idle
  BY <1>2 DEF Idle
<1> QED
  BY <1>3, <1>6, <1>7, <1>8, <1>9, <1>10, <1>11, <1>12, Acts DEF GoesOn

-----------------------------------------------------------------------------
(* Time passes: nothing is under way.                                      *)
LEMMA Passes ==
  ASSUME Inv, Quiet, UNCHANGED <<request, overlapped, received, ended, stray, sid>>,
         Grows, TypeOK', Issued', ParentIsSpent', refresh' \subseteq refresh, Listed => Listed'
  PROVE  Inv'
<1>1. \A q \in Request : InHand(request[q])'
  BY InHandStays DEF Inv, TokenInv
<1>2. \A q \in Request : request'[q] = Idle
  BY DEF Quiet
<1>3. Usable' \subseteq Usable /\ Astray \subseteq Astray'
  BY Fewer
<1>4. TurnInv'
  BY <1>2, <1>3, IdleTurn DEF Inv, TurnInv, Alone, Dead, Gone
<1> QED
  BY <1>1, <1>4 DEF Inv, TokenInv

LEMMA ExpireStep == ASSUME Inv, NEW t \in Token, Expire(t) PROVE Inv'
<1>1. /\ Quiet /\ t \in Minted /\ expired' = expired \cup {t} /\ refresh' = refresh \ {t}
      /\ session' = [s \in Session |-> IF session[s] = t THEN None ELSE session[s]]
      /\ UNCHANGED <<used, members, sid, parent, received, active, ended, stray, request, overlapped>>
  BY DEF Expire, outside
<1>2. TypeOK
  BY DEF Inv, TokenInv
<1>3. TypeOK'
  BY <1>1, <1>2 DEF TypeOK
<1>4. Grows
  BY <1>1 DEF Grows
<1>5. UNCHANGED <<Minted, Opened>>
  BY <1>1 DEF Minted, Opened
<1> HIDE DEF Minted, Opened
<1>6. Issued'
  BY <1>1, <1>5 DEF Inv, TokenInv, Issued
<1>7. ParentIsSpent'
  BY <1>1, ParentKept
<1>8. Listed => Listed'
  <2>1. Usable' = Usable \ {t} /\ UNCHANGED <<sid, stray, members>>
    BY <1>1 DEF Usable
  <2>2. \A u \in Usable : sid[u] \in Session
    BY <1>2 DEF Inv, TokenInv, Issued, Usable, Minted, TypeOK
  <2> QED
    BY <1>1, <1>2, <2>1, <2>2 DEF Listed, TypeOK
<1> QED
  BY <1>1, <1>3, <1>4, <1>6, <1>7, <1>8, Passes

LEMMA ForgetUsedStep == ASSUME Inv, NEW t \in Token, ForgetUsed(t) PROVE Inv'
<1>1. /\ Quiet /\ t \in expired /\ used' = used \ {t}
      /\ UNCHANGED <<refresh, session, members, sid, parent, expired, received, active, ended, stray,
                     request, overlapped>>
  BY DEF ForgetUsed, claims, outside
<1>2. TypeOK'
  BY <1>1 DEF Inv, TokenInv, TypeOK
<1>3. Grows
  BY <1>1 DEF Grows
<1>4. Issued'
  BY <1>1, IssuedKept
<1>5. ParentIsSpent'
  BY <1>1, ParentKept
<1>6. Listed => Listed'
  BY <1>1 DEF Listed, Usable
<1> QED
  BY <1>1, <1>2, <1>3, <1>4, <1>5, <1>6, Passes

LEMMA Stutters == ASSUME Inv, UNCHANGED vars PROVE Inv'
<1>1. UNCHANGED <<refresh, used, session, members, sid, parent, expired, received, active, ended, stray,
                  request, overlapped>>
  BY DEF vars, redis, claims, outside
<1>2. UNCHANGED <<Minted, Opened>>
  BY <1>1 DEF Minted, Opened
<1> HIDE DEF Minted, Opened
<1>3. TokenInv'
  BY <1>1, <1>2 DEF Inv, TokenInv, TypeOK, Issued, ParentIsSpent, InHand
<1>4. TurnInv'
  <2>1. UNCHANGED <<Usable, Astray>>
    BY <1>1 DEF Usable, Astray
  <2> QED
    BY <1>1, <2>1 DEF Inv, TurnInv, Alone, Listed, Turn, Dead, Left, Gone
<1> QED
  BY <1>3, <1>4 DEF Inv

-----------------------------------------------------------------------------
LEMMA InvInit == Init => Inv
<1> SUFFICES ASSUME Init PROVE Inv
  OBVIOUS
<1>1. TypeOK
  BY IdleIsWork DEF Init, TypeOK
<1>2. Minted = {} /\ Opened = {}
  BY DEF Init, Minted, Opened
<1> HIDE DEF Minted, Opened
<1>3. Issued /\ ParentIsSpent
  BY <1>2 DEF Init, Issued, ParentIsSpent
<1>4. ASSUME NEW r \in Request PROVE InHand(request[r]) /\ Turn(request[r])
  BY DEF Init, InHand, Turn, Idle
<1>5. Alone /\ Listed /\ \A s \in ended : Gone(s)
  BY DEF Init, Alone, Listed, Usable
<1> QED
  BY <1>1, <1>3, <1>4, <1>5 DEF Inv, TokenInv, TurnInv

LEMMA InvStep == ASSUME Inv, [Next]_vars PROVE Inv'
<1>1. ASSUME NEW r \in Request,
             \/ LogIn(r) \/ RevokeOthers(r) \/ CloseAccount(r) \/ ListSessions(r)
             \/ \E t \in Token : Refresh(r, t) \/ LogOut(r, t)
             \/ \E s \in Session : RevokeSession(r, s)
      PROVE  Inv'
  BY <1>1, LogInStep, RevokeOthersStep, CloseAccountStep, ListSessionsStep, RefreshStep,
     LogOutStep, RevokeSessionStep
<1>2. ASSUME NEW r \in Request,
             \/ DeleteOld(r) \/ MarkUsed(r) \/ SetRefresh(r) \/ SetSession(r) \/ AddMember(r)
             \/ Answer(r) \/ GetUsed(r) \/ Members(r)
      PROVE  Inv'
  BY <1>2, DeleteOldStep, MarkUsedStep, SetRefreshStep, SetSessionStep, AddMemberStep,
     AnswerStep, GetUsedStep, MembersStep
<1>3. ASSUME NEW r \in Request,
             \/ DropToken(r) \/ DropSession(r) \/ Drop(r) \/ Remove(r)
             \/ Each(r) \/ Done(r) \/ ListOne(r) \/ Unlist(r) \/ Die(r)
      PROVE  Inv'
  BY <1>3, DropTokenStep, DropSessionStep, DropStep, RemoveStep, EachStep, DoneStep,
     ListOneStep, UnlistStep, DieStep
<1>4. ASSUME NEW t \in Token, Expire(t) \/ ForgetUsed(t) PROVE Inv'
  BY <1>4, ExpireStep, ForgetUsedStep
<1> QED
  BY <1>1, <1>2, <1>3, <1>4, Stutters DEF Next

(* The invariant holds of every behaviour.                                 *)
THEOREM SessionsSafe == Spec => []Inv
  BY InvInit, InvStep, PTL DEF Spec

(* However requests overlap and wherever servers die, the token that a     *)
(* live one was exchanged for is dead, and marked or expired: one exchange *)
(* of rotate_refresh_session never leaves both alive.                      *)
THEOREM ParentsAreSpent == Spec => []ParentIsSpent
<1>1. Inv => ParentIsSpent
  BY DEF Inv, TokenInv
<1> QED
  BY <1>1, SessionsSafe, PTL

(* While requests do not overlap, a token that a browser can use, however  *)
(* old the cookies it sends, is the one its session's record names, and    *)
(* the session is on the user's list; unless a logout with an older cookie *)
(* (revoke_refresh_session) left that token behind.                        *)
THEOREM LiveTokensAreListed == Spec => []WhatLivesIsListed
<1>1. Inv => WhatLivesIsListed
  BY DEF Inv, TurnInv, Listed, WhatLivesIsListed
<1> QED
  BY <1>1, SessionsSafe, PTL

(* While requests do not overlap, a session that was ended stays ended,    *)
(* unless a logout with an older cookie took it off the list while a newer *)
(* token of it was live: then no way of ending it promises anything.       *)
THEOREM EndedStaysEnded == Spec => []EndedForGood
<1>1. Inv => EndedForGood
  BY DEF Inv, TurnInv, Gone, Dead, EndedForGood
<1> QED
  BY <1>1, SessionsSafe, PTL
=============================================================================
