----------------------------- MODULE SlotAcquire -----------------------------
(***************************************************************************)
(* acquire_slot_hold and release_slot_hold, command by command: a handler  *)
(* sets its keys one after the other with SET NX, in sorted order, and     *)
(* deletes what it got when one of them is taken.  Other handlers run      *)
(* between any two Redis commands, and a server process may die there.     *)
(***************************************************************************)
EXTENDS SlotTimes

CONSTANTS
  Handler,  \* requests in flight for one teacher
  Ask,      \* Ask[h]: start, weeks and duration that handler h asks for
  Nobody    \* owner of a free key

ASSUME HandlerAssumption ==
  /\ Nobody \notin Handler
  /\ \A h \in Handler : Ask[h].start \in Nat /\ Ask[h].weeks \in Nat /\ Ask[h].duration \in Nat

VARIABLES
  owner,     \* who set each Redis key
  acquired,  \* the local variable of the same name
  step       \* where each handler is

vars == <<owner, acquired, step>>

Wants == [h \in Handler |->
            SlotLockKeys(OccurrenceStarts(Ask[h].start, Ask[h].weeks), Ask[h].duration)]

Key == UNION {Wants[h] : h \in Handler}

Steps == {"idle", "acquiring", "backing off", "won", "refused", "released", "dead"}

-----------------------------------------------------------------------------
Init ==
  /\ owner = [k \in Key |-> Nobody]
  /\ acquired = [h \in Handler |-> {}]
  /\ step = [h \in Handler |-> "idle"]

AnyKeyFree(k) == TRUE   \* slip: SET without NX
KeyFree(k) == owner[k] = Nobody

AnyMissing(h) == Wants[h] \ acquired[h]   \* slip: the keys come in no order
(* The next key of the loop: sorted() makes it the earliest moment.        *)
Upcoming(h) == {k \in Wants[h] \ acquired[h] : \A l \in Wants[h] \ acquired[h] : k <= l}

Freed(keys) == [k \in Key |-> IF k \in keys THEN Nobody ELSE owner[k]]

Begin(h) ==
  /\ step[h] = "idle"
  /\ step' = [step EXCEPT ![h] = "acquiring"]
  /\ UNCHANGED <<owner, acquired>>

SetKey(h) ==
  /\ step[h] = "acquiring"
  /\ \E k \in Upcoming(h) :
       /\ KeyFree(k)
       /\ owner' = [owner EXCEPT ![k] = h]
       /\ acquired' = [acquired EXCEPT ![h] = @ \cup {k}]
  /\ step' = [step EXCEPT ![h] = IF acquired'[h] = Wants[h] THEN "won" ELSE "acquiring"]

FindTaken(h) ==
  /\ step[h] = "acquiring"
  /\ \E k \in Upcoming(h) : ~KeyFree(k)
  /\ step' = [step EXCEPT ![h] = "backing off"]
  /\ UNCHANGED <<owner, acquired>>

AllButFirst(h) == acquired[h] \ {k \in acquired[h] : \A l \in acquired[h] : k <= l}  \* slip
ToDelete(h) == acquired[h]

(* One DEL of everything acquired; the caller answers 409.                 *)
BackOff(h) ==
  /\ step[h] = "backing off"
  /\ owner' = Freed(ToDelete(h))
  /\ step' = [step EXCEPT ![h] = "refused"]
  /\ UNCHANGED acquired

(* The caller gives the slot back, or the hold runs out with its TTL.      *)
Release(h) ==
  /\ step[h] = "won"
  /\ owner' = Freed(Wants[h])
  /\ step' = [step EXCEPT ![h] = "released"]
  /\ UNCHANGED acquired

Die(h) ==
  /\ step[h] \in {"acquiring", "backing off"}
  /\ step' = [step EXCEPT ![h] = "dead"]
  /\ UNCHANGED <<owner, acquired>>

(* The TTL outlasts every live call, so it only ends keys of dead ones.    *)
KeyExpires(k) ==
  /\ \E h \in Handler : owner[k] = h /\ step[h] = "dead"
  /\ owner' = [owner EXCEPT ![k] = Nobody]
  /\ UNCHANGED <<acquired, step>>

Next ==
  \/ \E h \in Handler : Begin(h) \/ SetKey(h) \/ FindTaken(h) \/ BackOff(h) \/ Release(h) \/ Die(h)
  \/ \E k \in Key : KeyExpires(k)

Spec == Init /\ [][Next]_vars

-----------------------------------------------------------------------------
TypeOK ==
  /\ owner \in [Key -> Handler \cup {Nobody}]
  /\ acquired \in [Handler -> SUBSET Key]
  /\ step \in [Handler -> Steps]

(* Whoever was told that the slot is on hold for it owns every key of it,  *)
(* so two holders never share a half hour.                                 *)
WinnersOwnTheirKeys ==
  \A h \in Handler : step[h] = "won" => \A k \in Wants[h] : owner[k] = h

(* A refused request blocks nobody: it leaves none of its keys behind, also *)
(* when it had set some before it met the taken one.                        *)
NothingLeftBehind ==
  \A k \in Key, h \in Handler : owner[k] = h => step[h] \notin {"idle", "refused", "released"}

(* Rivals never turn each other away all at once: because the keys are     *)
(* taken in order, a refusal always has somebody who went further.         *)
SomebodyWins ==
  (\E h \in Handler : step[h] = "refused") =>
    \E h \in Handler : step[h] \notin {"idle", "refused"}

(* The holds granted key by key are holds granted as a whole.              *)
Winners == {h \in Handler : step[h] = "won"}
Whole == INSTANCE SlotLock WITH winners <- Winners
GrantedAsAWhole == Whole!Spec
=============================================================================
