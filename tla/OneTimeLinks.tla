---------------------------- MODULE OneTimeLinks ----------------------------
(***************************************************************************)
(* The one-time tickets of one e-mail address: links that verify it, links *)
(* that reset its password, and the state a Google sign-in carries.  Each  *)
(* is a key in Redis; of the first two a second key remembers the newest,  *)
(* so that asking again replaces it.  Requests are split at their Redis    *)
(* commands and at the commit, and may die anywhere.                       *)
(***************************************************************************)
EXTENDS Naturals, FiniteSets, TLC

CONSTANTS
  MaxTicket,  \* bound: tickets ever issued
  Request,    \* requests the server works on at a time
  MaxOverlap  \* bound: once requests have met, none starts after more tickets than this

ASSUME TicketAssumption == MaxTicket \in Nat \ {0} /\ MaxOverlap \in Nat

Ticket == 1..MaxTicket
None   == 0
Mailed == {"verify", "reset"}                 \* replaced when asked for again
Google == {"googleLogin", "googleRegister"}   \* the flow inside GoogleOAuthState
Kind   == Mailed \cup Google

VARIABLES
  live,       \* the tickets whose key is set
  kind,       \* what each ticket is for, "unissued" before it exists
  newest,     \* auth:verify-email-user, auth:password-reset-user: a ticket or None
  handed,     \* tickets that were mailed, or put into the URL of Google
  applied,    \* how often the effect of each ticket was committed
  account,    \* "none", "open" or "closed"
  verified,   \* users.email_verified
  request,    \* the requests under way
  overlapped  \* some request has met another one under way

tickets == <<live, kind, newest, handed>>
row     == <<applied, account, verified>>
vars    == <<tickets, row, request, overlapped>>

Idle   == [at |-> "idle", kind |-> "unissued", ticket |-> None]
Issued == {t \in Ticket : kind[t] # "unissued"}
Quiet  == \A r \in Request : request[r] = Idle
At(r, step) == request[r].at = step

Init ==
  /\ live = {} /\ handed = {}
  /\ kind = [t \in Ticket |-> "unissued"]
  /\ newest = [k \in Mailed |-> None]
  /\ applied = [t \in Ticket |-> 0]
  /\ account = "none"
  /\ verified = FALSE
  /\ request = [r \in Request |-> Idle]
  /\ overlapped = FALSE

Arrive(r, step, k, t) ==
  /\ request[r] = Idle
  /\ request' = [request EXCEPT ![r] = [at |-> step, kind |-> k, ticket |-> t]]
  /\ overlapped' = (overlapped \/ ~Quiet)
  /\ overlapped' => Issued \subseteq 1..MaxOverlap
  /\ UNCHANGED <<tickets, row>>

Step(r, this, next) ==
  /\ At(r, this)
  /\ request' = [request EXCEPT ![r].at = next]
  /\ UNCHANGED overlapped

Finish(r) ==
  /\ request' = [request EXCEPT ![r] = Idle]
  /\ UNCHANGED overlapped

NewTicket == CHOOSE t \in Ticket : Issued = 1..(t - 1)

-----------------------------------------------------------------------------
(* The address may be free when register looks and taken when it inserts;  *)
(* the unique column then refuses.  The new account is mailed a link.      *)
Register(r) == account = "none" /\ Arrive(r, "insert", "verify", None)

Insert(r) ==
  /\ At(r, "insert")
  /\ IF account = "none" THEN Step(r, "insert", "look") ELSE Finish(r)
  /\ account' = IF account = "none" THEN "open" ELSE account
  /\ UNCHANGED <<tickets, applied, verified>>

(* Links are mailed to open accounts; to verify only to unverified ones.   *)
RequestEmailVerification(r) ==
  /\ account = "open" /\ ~verified
  /\ Arrive(r, "look", "verify", None)

ForgotPassword(r) ==
  /\ account = "open"
  /\ Arrive(r, "look", "reset", None)

(* issue_email_verification_token, issue_password_reset_token.             *)
Look(r) ==
  /\ At(r, "look")
  /\ LET previous == newest[request[r].kind] IN
       request' = [request EXCEPT ![r].at = IF previous = None THEN "set" ELSE "replace",
                                  ![r].ticket = previous]
  /\ UNCHANGED <<tickets, row, overlapped>>

Replace(r) ==
  /\ Step(r, "replace", "set")
  /\ live' = live \ {request[r].ticket}
  /\ UNCHANGED <<kind, newest, handed, row>>

Set(r) ==
  /\ At(r, "set")
  /\ Issued # Ticket
  /\ live' = live \cup {NewTicket}
  /\ kind' = [kind EXCEPT ![NewTicket] = request[r].kind]
  /\ request' = [request EXCEPT ![r].at = "remember", ![r].ticket = NewTicket]
  /\ UNCHANGED <<newest, handed, row, overlapped>>

(* Mutant: the newest link is remembered only if none is.                  *)
RememberFirst(r) ==
  /\ Step(r, "remember", "hand")
  /\ newest' = [newest EXCEPT ![request[r].kind] = IF @ = None THEN request[r].ticket ELSE @]
  /\ UNCHANGED <<live, kind, handed, row>>

Remember(r) ==
  /\ Step(r, "remember", "hand")
  /\ newest' = [newest EXCEPT ![request[r].kind] = request[r].ticket]
  /\ UNCHANGED <<live, kind, handed, row>>

(* The mail is queued; for Google the answer carries the URL.              *)
Hand(r) ==
  /\ At(r, "hand")
  /\ handed' = handed \cup {request[r].ticket}
  /\ Finish(r)
  /\ UNCHANGED <<live, kind, newest, row>>

(* start_google_oauth sets one key.                                        *)
StartGoogle(r, flow) ==
  /\ Issued # Ticket
  /\ request[r] = Idle
  /\ overlapped' = (overlapped \/ ~Quiet)
  /\ overlapped' => Issued \subseteq 1..MaxOverlap
  /\ live' = live \cup {NewTicket}
  /\ kind' = [kind EXCEPT ![NewTicket] = flow]
  /\ request' = [request EXCEPT ![r] = [at |-> "hand", kind |-> flow, ticket |-> NewTicket]]
  /\ UNCHANGED <<newest, handed, row>>

-----------------------------------------------------------------------------
(* Somebody follows a link, or Google sends the browser back: the key is   *)
(* read and, if it is there, deleted, together with the user's newest.     *)
Follow(r, t) ==
  /\ t \in handed \cap live
  /\ Arrive(r, "burn", kind[t], t)

(* Mutant: the key of the ticket itself stays.                             *)
BurnNewest(r) ==
  /\ Step(r, "burn", "apply")
  /\ newest' = [k \in Mailed |-> IF k = request[r].kind THEN None ELSE newest[k]]
  /\ UNCHANGED <<live, kind, handed, row>>

Burn(r) ==
  /\ Step(r, "burn", "apply")
  /\ live' = live \ {request[r].ticket}
  /\ newest' = [k \in Mailed |-> IF k = request[r].kind THEN None ELSE newest[k]]
  /\ UNCHANGED <<kind, handed, row>>

(* What the ticket is for is done and committed.                           *)
Apply(r, kinds) ==
  /\ At(r, "apply")
  /\ request[r].kind \in kinds
  /\ applied' = [applied EXCEPT ![request[r].ticket] = @ + 1]
  /\ Finish(r)
  /\ UNCHANGED tickets

VerifyEmail(r) ==
  /\ account = "open"
  /\ Apply(r, {"verify"})
  /\ verified' = TRUE
  /\ UNCHANGED account

ResetPassword(r) ==
  /\ account = "open"
  /\ Apply(r, {"reset"})
  /\ UNCHANGED <<account, verified>>

(* resolve_google_oauth_user: sign in to an open account, or open one.     *)
GoogleCallback(r) ==
  /\ \/ account = "open" /\ Apply(r, {"googleLogin"})
     \/ account = "none" /\ Apply(r, {"googleRegister"})
  /\ verified' = TRUE
  /\ account' = "open"

-----------------------------------------------------------------------------
(* The server dies, the request is refused, or Google does not answer.     *)
Die(r) ==
  /\ request[r] # Idle
  /\ Finish(r)
  /\ UNCHANGED <<tickets, row>>

(* Both keys of a link have the same TTL, of minutes or hours.             *)
Lapse(t) ==
  /\ Quiet
  /\ t \in live
  /\ live' = live \ {t}
  /\ newest' = [k \in Mailed |-> IF newest[k] = t THEN None ELSE newest[k]]
  /\ UNCHANGED <<kind, handed, row, request, overlapped>>

CloseAccount ==
  /\ account = "open"
  /\ account' = "closed"
  /\ UNCHANGED <<tickets, applied, verified, request, overlapped>>

Next ==
  \/ \E r \in Request :
       \/ Register(r) \/ Insert(r)
       \/ RequestEmailVerification(r) \/ ForgotPassword(r)
       \/ Look(r) \/ Replace(r) \/ Set(r) \/ Remember(r) \/ Hand(r)
       \/ \E flow \in Google : StartGoogle(r, flow)
       \/ \E t \in Ticket : Follow(r, t)
       \/ Burn(r) \/ VerifyEmail(r) \/ ResetPassword(r) \/ GoogleCallback(r) \/ Die(r)
  \/ \E t \in Ticket : Lapse(t)
  \/ CloseAccount

Spec == Init /\ [][Next]_vars

Symmetry == Permutations(Request)

-----------------------------------------------------------------------------
(* While requests do not overlap, of the links of a kind that were mailed  *)
(* only the last one can still work, wherever earlier requests died: who   *)
(* asks for a new link need not fear the old mail (issue_..._token).       *)
OnlyTheLastLinkWorks ==
  ~overlapped =>
    \A t, u \in handed \cap live :
      kind[t] = kind[u] /\ kind[t] \in Mailed => t = u

(* While requests do not overlap, a ticket takes effect at most once, also *)
(* when the request that used it died on the way (consume_..., callback).  *)
TicketWorksOnce ==
  ~overlapped => \A t \in Ticket : applied[t] <= 1
=============================================================================
