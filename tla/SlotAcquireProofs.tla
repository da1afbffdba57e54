-------------------------- MODULE SlotAcquireProofs --------------------------
(***************************************************************************)
(* Whatever the handlers and their requests, acquire_slot_hold grants whole *)
(* holds, leaves nothing behind and implements SlotLock.                   *)
(***************************************************************************)
EXTENDS SlotAcquire, TLAPS

(* What a handler's position says about the keys it has set.               *)
Ours(h) ==
  /\ acquired[h] \subseteq Wants[h]
  /\ step[h] = "idle" => acquired[h] = {}
  /\ step[h] \in {"acquiring", "backing off", "won"} => \A k \in acquired[h] : owner[k] = h
  /\ step[h] = "won" => acquired[h] = Wants[h]
  /\ \A k \in Key : owner[k] = h =>
       k \in acquired[h] /\ step[h] \notin {"idle", "refused", "released"}

Inv == TypeOK /\ \A h \in Handler : Ours(h)

LEMMA KeysAreKeys == \A h \in Handler : Wants[h] \subseteq Key
  BY DEF Key

LEMMA AskIsWanted == \A h \in Handler : Upcoming(h) \subseteq Wants[h]
  BY DEF Upcoming

LEMMA OwnInit == Init => Inv
  BY HandlerAssumption DEF Init, Inv, TypeOK, Ours, Steps

LEMMA SetKeyKeeps == ASSUME Inv, NEW h \in Handler, SetKey(h) PROVE Inv'
<1>1. PICK k \in Upcoming(h) :
        /\ owner[k] = Nobody
        /\ owner' = [owner EXCEPT ![k] = h]
        /\ acquired' = [acquired EXCEPT ![h] = @ \cup {k}]
  BY DEF SetKey, KeyFree
<1>2. k \in Wants[h] /\ k \in Key
  BY AskIsWanted, KeysAreKeys
<1>3. TypeOK /\ \A g \in Handler : Ours(g)
  BY DEF Inv
<1>4. /\ step[h] = "acquiring"
      /\ step' = [step EXCEPT ![h] = IF acquired'[h] = Wants[h] THEN "won" ELSE "acquiring"]
  BY DEF SetKey
<1>5. TypeOK'
  BY <1>1, <1>2, <1>3, <1>4 DEF TypeOK, Steps
<1>6. ASSUME NEW g \in Handler PROVE Ours(g)'
  <2>1. CASE g = h
    <3>1. /\ acquired'[g] = acquired[g] \cup {k}
          /\ step'[g] = IF acquired'[g] = Wants[g] THEN "won" ELSE "acquiring"
          /\ step[g] = "acquiring"
      BY <1>1, <1>3, <1>4, <2>1 DEF TypeOK
    <3>2. \A l \in Key : owner'[l] = IF l = k THEN g ELSE owner[l]
      BY <1>1, <1>3, <2>1 DEF TypeOK
    <3>3. Ours(g) /\ k \in Wants[g] /\ Wants[g] \subseteq Key
      BY <1>2, <1>3, <2>1, KeysAreKeys
    <3> QED BY <3>1, <3>2, <3>3 DEF Ours
  <2>2. CASE g # h
    <3>1. acquired'[g] = acquired[g] /\ step'[g] = step[g] /\ Wants[g]' = Wants[g]
      BY <1>1, <1>3, <1>4, <2>2 DEF TypeOK, Wants
    <3>2. \A l \in Key : l # k => owner'[l] = owner[l]
      BY <1>1, <1>3 DEF TypeOK
    <3>3. owner'[k] = h /\ owner[k] = Nobody
      BY <1>1, <1>2, <1>3 DEF TypeOK
    <3>4. Ours(g) /\ g # Nobody /\ acquired[g] \subseteq Key
      BY <1>3, HandlerAssumption DEF TypeOK
    <3> QED BY <2>2, <3>1, <3>2, <3>3, <3>4 DEF Ours
  <2> QED BY <2>1, <2>2
<1> QED BY <1>5, <1>6 DEF Inv

(* Handing keys back touches nobody else's: they are all one's own.        *)
LEMMA FreeingKeeps ==
  ASSUME Inv, NEW h \in Handler, NEW keys \in SUBSET Key, NEW last \in {"refused", "released"},
         \A k \in keys : owner[k] = h,
         \A k \in Key : owner[k] = h => k \in keys,
         owner' = Freed(keys),
         step' = [step EXCEPT ![h] = last],
         acquired' = acquired
  PROVE  Inv'
<1>1. TypeOK /\ \A g \in Handler : Ours(g)
  BY DEF Inv
<1>2. \A k \in Key : owner'[k] = IF k \in keys THEN Nobody ELSE owner[k]
  BY DEF Freed
<1>3. owner' \in [Key -> Handler \cup {Nobody}]
  BY <1>1 DEF Freed, TypeOK
<1>4. TypeOK'
  BY <1>1, <1>3 DEF TypeOK, Steps
<1>5. ASSUME NEW g \in Handler PROVE Ours(g)'
  <2>1. Ours(g) /\ g # Nobody /\ acquired[g] \subseteq Key
    BY <1>1, HandlerAssumption DEF TypeOK
  <2>2. CASE g = h
    <3>1. step'[g] = last /\ acquired'[g] = acquired[g]
      BY <1>1, <2>2 DEF TypeOK
    <3>2. \A k \in Key : owner'[k] # g
      BY <1>2, <2>1, <2>2
    <3> QED BY <2>1, <3>1, <3>2 DEF Ours
  <2>3. CASE g # h
    <3>1. step'[g] = step[g]
      BY <1>1, <2>3 DEF TypeOK
    <3>2. \A k \in Key : owner'[k] = g <=> owner[k] = g
      BY <1>2, <2>1, <2>3
    <3> QED BY <2>1, <3>1, <3>2 DEF Ours
  <2> QED BY <2>2, <2>3
<1> QED BY <1>4, <1>5 DEF Inv

LEMMA OwnStep == Inv /\ [Next]_vars => Inv'
<1> SUFFICES ASSUME Inv, [Next]_vars PROVE Inv'
  OBVIOUS
<1>0. TypeOK /\ \A h \in Handler : Ours(h)
  BY DEF Inv
<1>1. CASE \E h \in Handler : SetKey(h)
  BY <1>1, SetKeyKeeps
<1>2. CASE \E h \in Handler : BackOff(h)
  <2>1. PICK h \in Handler : BackOff(h)
    BY <1>2
  <2>2. acquired[h] \in SUBSET Key
    BY <1>0 DEF TypeOK
  <2>3. /\ \A k \in acquired[h] : owner[k] = h
        /\ \A k \in Key : owner[k] = h => k \in acquired[h]
    BY <1>0, <2>1 DEF Ours, BackOff
  <2> QED BY <2>1, <2>2, <2>3, FreeingKeeps DEF BackOff, ToDelete
<1>3. CASE \E h \in Handler : Release(h)
  <2>1. PICK h \in Handler : Release(h)
    BY <1>3
  <2>2. Wants[h] \in SUBSET Key
    BY KeysAreKeys
  <2>3. /\ \A k \in Wants[h] : owner[k] = h
        /\ \A k \in Key : owner[k] = h => k \in Wants[h]
    BY <1>0, <2>1 DEF Ours, Release
  <2> QED BY <2>1, <2>2, <2>3, FreeingKeeps DEF Release
<1>4. CASE \E h \in Handler : Begin(h) \/ FindTaken(h) \/ Die(h)
  <2>1. PICK h \in Handler : Begin(h) \/ FindTaken(h) \/ Die(h)
    BY <1>4
  <2>2. /\ owner' = owner /\ acquired' = acquired
        /\ \E s \in {"acquiring", "backing off", "dead"} : step' = [step EXCEPT ![h] = s]
        /\ step[h] \in {"idle", "acquiring", "backing off"}
        /\ step[h] = "idle" => step' = [step EXCEPT ![h] = "acquiring"]
    BY <2>1 DEF Begin, FindTaken, Die
  <2>3. TypeOK'
    BY <1>0, <2>2 DEF TypeOK, Steps
  <2>4. ASSUME NEW g \in Handler PROVE Ours(g)'
    <3>1. Ours(g)
      BY <1>0
    <3>2. CASE g = h
      <4>1. /\ step'[g] \in {"acquiring", "backing off", "dead"}
            /\ step[g] \in {"idle", "acquiring", "backing off"}
            /\ step[g] = "idle" => step'[g] = "acquiring"
        BY <1>0, <2>2, <3>2 DEF TypeOK
      <4> QED BY <2>2, <3>1, <4>1 DEF Ours
    <3>3. CASE g # h
      <4>1. step'[g] = step[g]
        BY <1>0, <2>2, <3>3 DEF TypeOK
      <4> QED BY <2>2, <3>1, <4>1 DEF Ours
    <3> QED BY <3>2, <3>3
  <2> QED BY <2>3, <2>4 DEF Inv
<1>5. CASE \E k \in Key : KeyExpires(k)
  <2>1. PICK k \in Key : KeyExpires(k)
    BY <1>5
  <2>2. PICK h \in Handler : owner[k] = h /\ step[h] = "dead"
    BY <2>1 DEF KeyExpires
  <2>3. /\ \A l \in Key : owner'[l] = IF l = k THEN Nobody ELSE owner[l]
        /\ acquired' = acquired /\ step' = step
        /\ TypeOK'
    BY <1>0, <2>1 DEF KeyExpires, TypeOK
  <2>4. ASSUME NEW g \in Handler PROVE Ours(g)'
    <3>1. Ours(g) /\ g # Nobody /\ acquired[g] \subseteq Key
      BY <1>0, HandlerAssumption DEF TypeOK
    <3> QED BY <2>2, <2>3, <3>1 DEF Ours
  <2> QED BY <2>3, <2>4 DEF Inv
<1>6. CASE UNCHANGED vars
  BY <1>0, <1>6 DEF vars, Inv, TypeOK, Ours
<1> QED BY <1>1, <1>2, <1>3, <1>4, <1>5, <1>6 DEF Next

LEMMA OwnAlways == Spec => []Inv
  BY OwnInit, OwnStep, PTL DEF Spec

(* A granted hold covers every half hour of every lesson it was asked for, *)
(* for any number of handlers and any requests.                            *)
THEOREM HoldsAreOwned == Spec => []WinnersOwnTheirKeys
<1>1. Inv => WinnersOwnTheirKeys
  BY DEF Inv, Ours, WinnersOwnTheirKeys
<1> QED BY <1>1, OwnAlways, PTL

(* A request that was refused or whose hold ended blocks no slot.          *)
THEOREM NoKeysAreLeaked == Spec => []NothingLeftBehind
<1>1. Inv => NothingLeftBehind
  BY DEF Inv, Ours, NothingLeftBehind
<1> QED BY <1>1, OwnAlways, PTL

-----------------------------------------------------------------------------
(* Why a refusal always has somebody who went further: the keys are taken  *)
(* in the order of their moments, so the key that stops a request lies     *)
(* beyond all of its own, and within those of whoever owns it.             *)
LEMMA KeysAreMoments == \A h \in Handler : Wants[h] \subseteq Int
  BY HandlerAssumption DEF Wants, SlotLockKeys, OccurrenceStarts, LockKeys, WeekMinutes, SLOT_STEP_MINUTES

Further(g, h) == \E k \in acquired[g] : \A l \in acquired[h] : l < k

UnderWay == {"acquiring", "won", "released", "dead"}

InOrder(h) == \A k \in acquired[h] : \A l \in Wants[h] \ acquired[h] : k < l

Outrun(h) ==
  step[h] \in {"backing off", "refused"} => \E g \in Handler : step[g] \in UnderWay /\ Further(g, h)

RaceInv == Inv /\ \A h \in Handler : InOrder(h) /\ Outrun(h)

LEMMA FurtherStill ==
  ASSUME Inv, NEW f \in Handler, NEW g \in Handler, NEW h \in Handler, Further(f, g), Further(g, h)
  PROVE  Further(f, h)
<1>1. PICK k \in acquired[f] : \A l \in acquired[g] : l < k
  BY DEF Further
<1>2. PICK m \in acquired[g] : \A l \in acquired[h] : l < m
  BY DEF Further
<1>3. acquired[f] \subseteq Int /\ acquired[g] \subseteq Int /\ acquired[h] \subseteq Int
  BY KeysAreMoments DEF Inv, Ours
<1>4. \A l \in acquired[h] : l < k
  BY <1>1, <1>2, <1>3
<1> QED
  BY <1>4 DEF Further

LEMMA RaceStep == RaceInv /\ [Next]_vars => RaceInv'
<1> SUFFICES ASSUME RaceInv, [Next]_vars PROVE RaceInv'
  OBVIOUS
<1>1. Inv /\ TypeOK /\ Inv' /\ TypeOK'
  BY OwnStep DEF RaceInv, Inv
<1>2. \A h \in Handler : InOrder(h) /\ Outrun(h) /\ Ours(h) /\ Ours(h)'
  BY <1>1 DEF RaceInv, Inv
<1>3. \A h \in Handler : Wants[h]' = Wants[h] /\ Wants[h] \subseteq Int
  BY KeysAreMoments DEF Wants
(* Where nobody new is stopped and no keys are noted, nothing changes.     *)
<1>4. ASSUME acquired' = acquired,
             \A h \in Handler : step[h] \in UnderWay => step'[h] \in UnderWay,
             \A h \in Handler : step'[h] \in {"backing off", "refused"}
                               => step[h] \in {"backing off", "refused"}
      PROVE  RaceInv'
  BY <1>1, <1>2, <1>3, <1>4 DEF RaceInv, InOrder, Outrun, Further
<1>5. ASSUME NEW h \in Handler, SetKey(h) PROVE RaceInv'
  <2>1. PICK k \in Upcoming(h) : acquired' = [acquired EXCEPT ![h] = @ \cup {k}]
    BY <1>5 DEF SetKey
  <2>2. /\ step[h] = "acquiring" /\ step'[h] \in UnderWay
        /\ \A g \in Handler \ {h} : step'[g] = step[g]
    BY <1>1, <1>5 DEF SetKey, TypeOK, UnderWay
  <2>3. /\ acquired'[h] = acquired[h] \cup {k}
        /\ \A g \in Handler \ {h} : acquired'[g] = acquired[g]
    BY <1>1, <2>1 DEF TypeOK
  <2>4. k \in Wants[h] /\ \A l \in Wants[h] \ acquired[h] : k <= l
    BY <2>1 DEF Upcoming
  <2>5. ASSUME NEW g \in Handler PROVE InOrder(g)'
    <3>1. CASE g = h
      BY <1>2, <1>3, <2>3, <2>4, <3>1 DEF InOrder
    <3>2. CASE g # h
      BY <1>2, <1>3, <2>3, <3>2 DEF InOrder
    <3> QED BY <3>1, <3>2
  <2>6. ASSUME NEW g \in Handler PROVE Outrun(g)'
    <3> SUFFICES ASSUME step'[g] \in {"backing off", "refused"}
                 PROVE  \E f \in Handler : step'[f] \in UnderWay /\ Further(f, g)'
      BY DEF Outrun
    <3>1. g # h /\ step[g] \in {"backing off", "refused"} /\ acquired'[g] = acquired[g]
      BY <2>2, <2>3 DEF UnderWay
    <3>2. PICK f \in Handler : step[f] \in UnderWay /\ Further(f, g)
      BY <1>2, <3>1 DEF Outrun
    <3>3. step'[f] \in UnderWay /\ acquired[f] \subseteq acquired'[f]
      BY <2>2, <2>3, <3>2
    <3> QED BY <3>1, <3>2, <3>3 DEF Further
  <2> QED BY <1>1, <2>5, <2>6 DEF RaceInv
<1>6. ASSUME NEW h \in Handler, FindTaken(h) PROVE RaceInv'
  <2>1. PICK k \in Upcoming(h) : ~KeyFree(k)
    BY <1>6 DEF FindTaken
  <2>2. /\ step[h] = "acquiring" /\ step'[h] = "backing off" /\ acquired' = acquired
        /\ \A g \in Handler \ {h} : step'[g] = step[g]
    BY <1>1, <1>6 DEF FindTaken, TypeOK
  <2>3. k \in Wants[h] \ acquired[h] /\ k \in Key
    BY <2>1, KeysAreKeys DEF Upcoming
  <2>4. PICK g \in Handler : owner[k] = g
    BY <1>1, <2>1, <2>3 DEF KeyFree, TypeOK
  <2>5. k \in acquired[g] /\ step[g] \in {"acquiring", "backing off", "won", "dead"}
    <3>1. k \in acquired[g] /\ step[g] \notin {"idle", "refused", "released"}
      BY <1>2, <2>3, <2>4 DEF Ours
    <3>2. step[g] \in Steps
      BY <1>1 DEF TypeOK
    <3> QED BY <3>1, <3>2 DEF Steps
  <2>6. g # h /\ Further(g, h)
    BY <1>2, <2>3, <2>5 DEF InOrder, Further
  <2>7. PICK f \in Handler : f # h /\ step[f] \in UnderWay /\ Further(f, h)
    <3>1. CASE step[g] # "backing off"
      BY <2>5, <2>6, <3>1 DEF UnderWay
    <3>2. CASE step[g] = "backing off"
      <4>1. PICK f \in Handler : step[f] \in UnderWay /\ Further(f, g)
        BY <1>2, <3>2 DEF Outrun
      <4>2. Further(f, h)
        BY <1>1, <2>6, <4>1, FurtherStill
      <4>3. f # h
        <5>1. acquired[h] \subseteq Int
          BY <1>2, <1>3 DEF Ours
        <5> QED BY <4>2, <5>1 DEF Further
      <4> QED BY <4>1, <4>2, <4>3
    <3> QED BY <3>1, <3>2
  <2>8. step'[f] \in UnderWay
    BY <2>2, <2>7
  <2>9. ASSUME NEW e \in Handler PROVE InOrder(e)'
    BY <1>2, <1>3, <2>2 DEF InOrder
  <2>10. ASSUME NEW e \in Handler PROVE Outrun(e)'
    <3> SUFFICES ASSUME step'[e] \in {"backing off", "refused"}
                 PROVE  \E d \in Handler : step'[d] \in UnderWay /\ Further(d, e)
      BY <2>2 DEF Outrun, Further
    <3>1. CASE e = h
      BY <2>7, <2>8, <3>1
    <3>2. CASE e # h
      <4>1. PICK d \in Handler : step[d] \in UnderWay /\ Further(d, e)
        BY <1>2, <2>2, <3>2 DEF Outrun
      <4>2. CASE d # h
        BY <2>2, <4>1, <4>2
      <4>3. CASE d = h
        BY <1>1, <2>7, <2>8, <4>1, <4>3, FurtherStill
      <4> QED BY <4>2, <4>3
    <3> QED BY <3>1, <3>2
  <2> QED BY <1>1, <2>9, <2>10 DEF RaceInv
<1>7. ASSUME NEW h \in Handler, Begin(h) \/ BackOff(h) \/ Release(h) \/ Die(h) PROVE RaceInv'
  <2>1. acquired' = acquired
    BY <1>7 DEF Begin, BackOff, Release, Die
  <2>2. /\ \A g \in Handler \ {h} : step'[g] = step[g]
        /\ \/ step[h] = "backing off" /\ step'[h] = "refused"
           \/ step[h] \notin {"backing off", "refused"} /\ step'[h] \in UnderWay
           \/ step[h] = "backing off" /\ step'[h] = "dead"
    BY <1>1, <1>7 DEF Begin, BackOff, Release, Die, TypeOK, UnderWay
  <2> QED BY <1>4, <2>1, <2>2 DEF UnderWay
<1>8. ASSUME NEW k \in Key, KeyExpires(k) PROVE RaceInv'
  BY <1>4, <1>8 DEF KeyExpires
<1>9. CASE UNCHANGED vars
  BY <1>4, <1>9 DEF vars
<1> QED BY <1>5, <1>6, <1>7, <1>8, <1>9 DEF Next

(* For any number of rivals and whatever they ask for, a refusal has       *)
(* somebody who got further and did not give up (the sorted loop of        *)
(* acquire_slot_hold).                                                     *)
THEOREM RivalsLeaveAWinner == Spec => []SomebodyWins
<1>1. Init => RaceInv
  BY OwnInit DEF Init, RaceInv, InOrder, Outrun
<1>2. RaceInv => SomebodyWins
  BY DEF RaceInv, Outrun, SomebodyWins, UnderWay
<1> QED BY <1>1, <1>2, RaceStep, PTL DEF Spec

-----------------------------------------------------------------------------
LEMMA WinnerInit == Init => Whole!Init
  BY DEF Init, Whole!Init, Winners

(* The last SET of a request that succeeds is the grant: the winners own   *)
(* their keys, so none of them is among the keys of the newcomer.          *)
LEMMA GrantStep ==
  ASSUME Inv, NEW h \in Handler, SetKey(h) PROVE [Whole!Next]_Winners
<1>1. /\ step[h] = "acquiring"
      /\ step' = [step EXCEPT ![h] = IF acquired'[h] = Wants[h] THEN "won" ELSE "acquiring"]
  BY DEF SetKey
<1>2. /\ WinnersOwnTheirKeys /\ step \in [Handler -> Steps]
      /\ WinnersOwnTheirKeys'
  BY SetKeyKeeps DEF Inv, TypeOK, Ours, WinnersOwnTheirKeys
<1>3. CASE acquired'[h] = Wants[h]
  <2>1. step' = [step EXCEPT ![h] = "won"]
    BY <1>1, <1>3
  <2>2. h \notin Winners /\ Winners' = Winners \cup {h}
    BY <1>1, <1>2, <2>1 DEF Winners
  <2>3. ASSUME NEW w \in Winners PROVE Wants[w] \cap Wants[h] = {}
    <3>1. w \in Handler /\ w # h /\ step'[w] = "won" /\ step'[h] = "won"
      BY <1>1, <1>2, <2>1 DEF Winners
    <3>2. \A k \in Wants[w] : owner'[k] = w
      BY <1>2, <3>1 DEF WinnersOwnTheirKeys, Wants
    <3>3. \A k \in Wants[h] : owner'[k] = h
      BY <1>2, <3>1 DEF WinnersOwnTheirKeys, Wants
    <3> QED BY <3>1, <3>2, <3>3
  <2> QED BY <2>2, <2>3 DEF Whole!Next, Whole!Grant
<1>4. CASE acquired'[h] # Wants[h]
  <2>1. step' = [step EXCEPT ![h] = "acquiring"]
    BY <1>1, <1>4
  <2>2. Winners' = Winners
    BY <1>1, <1>2, <2>1 DEF Winners
  <2> QED BY <2>2
<1> QED BY <1>3, <1>4

LEMMA WinnerStep == Inv /\ [Next]_vars => [Whole!Next]_Winners
<1> SUFFICES ASSUME Inv, [Next]_vars PROVE [Whole!Next]_Winners
  OBVIOUS
<1>0. step \in [Handler -> Steps]
  BY DEF Inv, TypeOK
<1>1. CASE \E h \in Handler : SetKey(h)
  BY <1>1, GrantStep
<1>2. CASE \E h \in Handler : Release(h)
  <2>1. PICK h \in Handler : Release(h)
    BY <1>2
  <2>2. h \in Winners /\ Winners' = Winners \ {h}
    BY <1>0, <2>1 DEF Release, Winners
  <2> QED BY <2>2 DEF Whole!Next, Whole!GiveBack
<1>3. CASE \E h \in Handler : Begin(h) \/ FindTaken(h) \/ BackOff(h) \/ Die(h)
  <2>1. PICK h \in Handler : Begin(h) \/ FindTaken(h) \/ BackOff(h) \/ Die(h)
    BY <1>3
  <2>2. /\ step[h] # "won"
        /\ \E s \in {"acquiring", "backing off", "refused", "dead"} : step' = [step EXCEPT ![h] = s]
    BY <2>1 DEF Begin, FindTaken, BackOff, Die
  <2>3. Winners' = Winners
    BY <1>0, <2>2 DEF Winners
  <2> QED BY <2>3
<1>4. CASE \E k \in Key : KeyExpires(k)
  BY <1>4 DEF KeyExpires, Winners
<1>5. CASE UNCHANGED vars
  BY <1>5 DEF vars, Winners
<1> QED BY <1>1, <1>2, <1>3, <1>4, <1>5 DEF Next

(* Taken key by key, with other handlers in between and processes dying,   *)
(* the holds are still the all-or-nothing, exclusive holds of SlotLock.    *)
THEOREM AcquireImplementsLock == Spec => GrantedAsAWhole
  BY WinnerInit, WinnerStep, OwnAlways, PTL DEF Spec, GrantedAsAWhole, Whole!Spec
=============================================================================
