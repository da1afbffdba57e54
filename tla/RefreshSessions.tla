--------------------------- MODULE RefreshSessions ---------------------------
(***************************************************************************)
(* The refresh sessions of one user: what auth_tokens.py keeps in Redis    *)
(* and the requests that read and write it, one Redis command at a time.   *)
(*                                                                         *)
(* A token is its jti.  A session is opened by one login in one browser.   *)
(* A request may die between any two commands, and its answer may never    *)
(* reach the browser.  A request carries any cookie the browser has had,   *)
(* not only its last one: what was sent earlier may arrive later.          *)
(***************************************************************************)
EXTENDS Naturals, TLC

CONSTANTS
  Session,    \* session ids that may be opened
  NoSession,  \* no session
  MaxToken,   \* bound: refresh tokens ever created
  Request,    \* requests the server works on at a time
  MaxOverlap  \* bound: once requests have met, none starts after more tokens than this

ASSUME SessionAssumption ==
  /\ NoSession \notin Session
  /\ MaxToken \in Nat \ {0}
  /\ MaxOverlap \in Nat

Token == 1..MaxToken
None  == 0

VARIABLES
  refresh,    \* auth:refresh:<jti>: the live tokens
  used,       \* auth:refresh-used:<jti>: the exchanged tokens
  session,    \* auth:session:<sid>: current_jti of each session, or None
  members,    \* auth:session-user:<user>: the sessions of the user
  sid,        \* the claim "sid" inside each token, NoSession before it exists
  parent,     \* the token each one was exchanged for, None after a login
  expired,    \* tokens whose claim "exp" has passed
  received,   \* the tokens that have reached a browser as its cookie
  active,     \* users.is_active
  request,    \* the requests under way
  overlapped, \* some request has met another one under way
  ended,      \* the sessions that some finished request was to end
  stray       \* the cookies still live when a logout with an older one took
              \* their session off the list

redis   == <<refresh, used, session, members>>
claims  == <<sid, parent, expired>>
outside == <<received, active, ended, stray>>
vars    == <<redis, claims, outside, request, overlapped>>

Idle   == [at |-> "idle", sid |-> NoSession, token |-> None, todo |-> {}, ends |-> {}, then |-> "done"]
Minted == {t \in Token : sid[t] # NoSession}
Opened == {sid[t] : t \in Minted}
Cookie == received \ expired  \* what a browser may have sent with a request
Usable == received \cap refresh
Astray == {sid[t] : t \in stray}
Quiet  == \A r \in Request : request[r] = Idle
At(r, step) == request[r].at = step

Init ==
  /\ refresh = {} /\ used = {} /\ members = {} /\ expired = {}
  /\ received = {} /\ ended = {} /\ stray = {}
  /\ session = [s \in Session |-> None]
  /\ sid = [t \in Token |-> NoSession]
  /\ parent = [t \in Token |-> None]
  /\ request = [r \in Request |-> Idle]
  /\ active = TRUE
  /\ overlapped = FALSE

(* Request r arrives and goes on with the given fields.                    *)
Arrive(r, record) ==
  /\ request[r] = Idle
  /\ request' = [request EXCEPT ![r] = record]
  /\ overlapped' = (overlapped \/ ~Quiet)
  /\ overlapped' => Minted \subseteq 1..MaxOverlap
  /\ UNCHANGED <<claims, outside>>

(* Request r takes the step it is at and continues with step next.         *)
Step(r, this, next) ==
  /\ At(r, this)
  /\ request' = [request EXCEPT ![r].at = next]
  /\ UNCHANGED overlapped

Finish(r) ==
  /\ request' = [request EXCEPT ![r] = Idle]
  /\ UNCHANGED overlapped

-----------------------------------------------------------------------------
(* Login, and register and Google sign-in, which end with the same answer. *)
LogIn(r) ==
  /\ active
  /\ \E s \in Session \ (Opened \cup {request[q].sid : q \in Request}) :
       Arrive(r, [Idle EXCEPT !.at = "setRefresh", !.sid = s])
  /\ UNCHANGED redis

(* rotate_refresh_session: the cookie t is exchanged.                      *)
Refresh(r, t) ==
  /\ t \in Cookie
  /\ Arrive(r, [Idle EXCEPT !.at = IF t \in refresh THEN "delete" ELSE "getUsed",
                            !.sid = sid[t], !.token = t])
  /\ UNCHANGED redis

(* Mutant: the exchanged token is not recorded.                            *)
DeleteOldUnmarked(r) ==
  /\ Step(r, "delete", "setRefresh")
  /\ refresh' = refresh \ {request[r].token}
  /\ UNCHANGED <<used, session, members, claims, outside>>

DeleteOld(r) ==
  /\ Step(r, "delete", "markUsed")
  /\ refresh' = refresh \ {request[r].token}
  /\ UNCHANGED <<used, session, members, claims, outside>>

MarkUsed(r) ==
  /\ Step(r, "markUsed", "setRefresh")
  /\ used' = used \cup {request[r].token}
  /\ UNCHANGED <<refresh, session, members, claims, outside>>

(* issue_refresh_session, command by command.                              *)
SetRefresh(r) ==
  /\ At(r, "setRefresh")
  /\ \E t \in Token \ Minted :
       /\ \A u \in Token \ Minted : t <= u
       /\ refresh' = refresh \cup {t}
       /\ sid' = [sid EXCEPT ![t] = request[r].sid]
       /\ parent' = [parent EXCEPT ![t] = request[r].token]
       /\ request' = [request EXCEPT ![r].at = "setSession", ![r].token = t]
  /\ UNCHANGED <<used, session, members, expired, outside, overlapped>>

(* Mutant: the record of a session is written once.                        *)
SetSessionOnce(r) ==
  /\ Step(r, "setSession", "addMember")
  /\ session' = [session EXCEPT ![request[r].sid] = IF @ = None THEN request[r].token ELSE @]
  /\ UNCHANGED <<refresh, used, members, claims, outside>>

SetSession(r) ==
  /\ Step(r, "setSession", "addMember")
  /\ session' = [session EXCEPT ![request[r].sid] = request[r].token]
  /\ UNCHANGED <<refresh, used, members, claims, outside>>

AddMember(r) ==
  /\ Step(r, "addMember", "answer")
  /\ members' = members \cup {request[r].sid}
  /\ UNCHANGED <<refresh, used, session, claims, outside>>

(* The cookie is set; a refresh answers 401 to a closed account.           *)
Answer(r) ==
  /\ At(r, "answer")
  /\ parent[request[r].token] # None => active
  /\ received' = received \cup {request[r].token}
  /\ Finish(r)
  /\ UNCHANGED <<redis, claims, active, ended, stray>>

(* A token that is not live was exchanged before, or is merely unknown.    *)
GetUsed(r) ==
  /\ At(r, "getUsed")
  /\ IF request[r].token \in used
     THEN Step(r, "getUsed", "members")
     ELSE Finish(r)
  /\ UNCHANGED <<redis, claims, outside>>

-----------------------------------------------------------------------------
(* revoke_refresh_session: logout with the cookie t, live or not.          *)
LogOut(r, t) ==
  /\ t \in Cookie
  /\ Arrive(r, [Idle EXCEPT !.at = "dropToken", !.sid = sid[t], !.token = t, !.ends = {sid[t]}])
  /\ UNCHANGED redis

DropToken(r) ==
  /\ Step(r, "dropToken", "dropSession")
  /\ refresh' = refresh \ {request[r].token}
  /\ UNCHANGED <<used, session, members, claims, outside>>

DropSession(r) ==
  /\ Step(r, "dropSession", "remove")
  /\ session' = [session EXCEPT ![request[r].sid] = None]
  /\ stray' = stray \cup {t \in Usable : sid[t] = request[r].sid}
  /\ UNCHANGED <<refresh, used, members, claims, received, active, ended>>

(* DELETE /sessions/{s} of somebody signed in; 404 without a record.       *)
RevokeSession(r, s) ==
  /\ active /\ session[s] # None
  /\ Arrive(r, [Idle EXCEPT !.at = "drop", !.sid = s, !.token = session[s], !.ends = {s}])
  /\ UNCHANGED redis

(* Mutant: only the record is deleted.                                     *)
DropRecord(r) ==
  /\ Step(r, "drop", "remove")
  /\ session' = [session EXCEPT ![request[r].sid] = None]
  /\ UNCHANGED <<refresh, used, members, claims, outside>>

(* The record and its current token go in one DEL.                         *)
Drop(r) ==
  /\ Step(r, "drop", "remove")
  /\ session' = [session EXCEPT ![request[r].sid] = None]
  /\ refresh' = refresh \ {request[r].token}
  /\ UNCHANGED <<used, members, claims, outside>>

Remove(r) ==
  /\ At(r, "remove")
  /\ request' = [request EXCEPT ![r].at = "each", ![r].sid = NoSession, ![r].token = None]
  /\ members' = members \ {request[r].sid}
  /\ UNCHANGED <<refresh, used, session, claims, outside, overlapped>>

(* Everything but the session of the own cookie; the reset of a password   *)
(* and the closing of the account, which commits afterwards, end them all. *)
RevokeOthers(r) ==
  \E s \in {sid[t] : t \in Cookie} \cup {NoSession} :
    /\ active
    /\ Arrive(r, [Idle EXCEPT !.at = "each", !.todo = members \ {s}, !.ends = Opened \ {s}])
    /\ UNCHANGED redis

CloseAccount(r) ==
  /\ active
  /\ Arrive(r, [Idle EXCEPT !.at = "each", !.todo = members, !.ends = Opened, !.then = "close"])
  /\ UNCHANGED redis

(* Reuse detected: the same loop over the members of the moment.           *)
Members(r) ==
  /\ At(r, "members")
  /\ request' = [request EXCEPT ![r] = [Idle EXCEPT !.at = "each", !.todo = members, !.ends = Opened]]
  /\ UNCHANGED <<redis, claims, outside, overlapped>>

(* The walk over the sessions it read has come to s.                       *)
Took(r, s) == [request[r] EXCEPT !.todo = @ \ {s}]

Each(r) ==
  /\ At(r, "each")
  /\ \E s \in request[r].todo :
       request' = [request EXCEPT ![r] =
         IF session[s] = None THEN Took(r, s)
         ELSE [Took(r, s) EXCEPT !.at = "drop", !.sid = s, !.token = session[s]]]
  /\ UNCHANGED <<redis, claims, outside, overlapped>>

Done(r) ==
  /\ At(r, "each") /\ request[r].todo = {}
  /\ active' = (active /\ request[r].then # "close")
  /\ ended' = ended \cup request[r].ends
  /\ Finish(r)
  /\ UNCHANGED <<redis, claims, received, stray>>

(* list_refresh_sessions drops the members that have no record.            *)
ListSessions(r) ==
  /\ active
  /\ Arrive(r, [Idle EXCEPT !.at = "list", !.todo = members])
  /\ UNCHANGED redis

ListOne(r) ==
  /\ At(r, "list")
  /\ IF request[r].todo = {}
     THEN Finish(r)
     ELSE /\ \E s \in request[r].todo :
               request' = [request EXCEPT ![r] =
                 IF session[s] # None THEN Took(r, s)
                 ELSE [Took(r, s) EXCEPT !.at = "unlist", !.sid = s]]
          /\ UNCHANGED overlapped
  /\ UNCHANGED <<redis, claims, outside>>

Unlist(r) ==
  /\ At(r, "unlist")
  /\ request' = [request EXCEPT ![r].at = "list", ![r].sid = NoSession]
  /\ members' = members \ {request[r].sid}
  /\ UNCHANGED <<refresh, used, session, claims, outside, overlapped>>

-----------------------------------------------------------------------------
(* The server dies, or its answer is lost, or is a refusal.                *)
Die(r) ==
  /\ request[r] # Idle
  /\ Finish(r)
  /\ UNCHANGED <<redis, claims, outside>>

(* The claim "exp" of a token, its key and the record that names it end    *)
(* together, days after the token was issued and between requests.  The    *)
(* mark of an exchange, which is set later, ends later.                    *)
Expire(t) ==
  /\ Quiet
  /\ t \in Minted \ expired
  /\ expired' = expired \cup {t}
  /\ refresh' = refresh \ {t}
  /\ session' = [s \in Session |-> IF session[s] = t THEN None ELSE session[s]]
  /\ UNCHANGED <<used, members, sid, parent, outside, request, overlapped>>

ForgetUsed(t) ==
  /\ Quiet
  /\ t \in used \cap expired
  /\ used' = used \ {t}
  /\ UNCHANGED <<refresh, session, members, claims, outside, request, overlapped>>

Next ==
  \/ \E r \in Request :
       \/ LogIn(r) \/ RevokeOthers(r) \/ CloseAccount(r) \/ ListSessions(r)
       \/ \E t \in Token : Refresh(r, t) \/ LogOut(r, t)
       \/ \E s \in Session : RevokeSession(r, s)
       \/ DeleteOld(r) \/ MarkUsed(r) \/ SetRefresh(r) \/ SetSession(r) \/ AddMember(r) \/ Answer(r)
       \/ GetUsed(r) \/ Members(r) \/ DropToken(r) \/ DropSession(r) \/ Drop(r) \/ Remove(r)
       \/ Each(r) \/ Done(r) \/ ListOne(r) \/ Unlist(r) \/ Die(r)
  \/ \E t \in Token : Expire(t) \/ ForgetUsed(t)

Spec == Init /\ [][Next]_vars

Symmetry == Permutations(Session) \cup Permutations(Request)

-----------------------------------------------------------------------------
(* An exchange spends its token before the next one exists, whatever other *)
(* requests do and wherever servers die: the token a live one was          *)
(* exchanged for is dead, and whoever presents it again is recognised      *)
(* until it has expired (rotate_refresh_session).                          *)
ParentIsSpent ==
  \A t \in refresh : parent[t] # None =>
    /\ parent[t] \notin refresh
    /\ parent[t] \in used \cup expired

(* While requests do not overlap, every live token a browser has received  *)
(* is the one its session's record names, and the session is on the user's *)
(* list: what the dashboard lists and can revoke is all there is, also     *)
(* after servers died halfway, keys lapsed and cookies came late.  The one *)
(* exception: revoke_refresh_session with a cookie that was exchanged      *)
(* before it arrived deletes the record and leaves the newer token live.   *)
WhatLivesIsListed ==
  ~overlapped /\ Quiet =>
    \A t \in Usable \ stray : session[sid[t]] = t /\ sid[t] \in members

(* While requests do not overlap, a session that was logged out, revoked,  *)
(* or ended by a reset password, by a reused token or with the account     *)
(* never serves a browser again, whichever of its cookies comes late;      *)
(* unless such a late logout ever took the session off the list while a    *)
(* token of it was live.                                                   *)
EndedForGood ==
  ~overlapped => \A t \in Usable : sid[t] \in ended => sid[t] \in Astray
=============================================================================
