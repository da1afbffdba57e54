------------------------------- MODULE SlotLock -------------------------------
(***************************************************************************)
(* What acquire_slot_hold promises its callers: a set of lock keys is      *)
(* granted as a whole, and never while another holder has one of them.     *)
(***************************************************************************)
CONSTANTS Handler, Wants   \* Wants[h]: the keys handler h asks for

VARIABLE winners           \* handlers whose hold is granted

Init == winners = {}

Grant(h) ==
  /\ h \notin winners
  /\ \A w \in winners : Wants[w] \cap Wants[h] = {}
  /\ winners' = winners \cup {h}

GiveBack(h) == h \in winners /\ winners' = winners \ {h}

Next == \E h \in Handler : Grant(h) \/ GiveBack(h)

Spec == Init /\ [][Next]_winners
=============================================================================
