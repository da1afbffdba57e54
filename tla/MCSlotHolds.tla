----------------------------- MODULE MCSlotHolds -----------------------------
EXTENDS SlotHolds

(* Mondays and Tuesdays, from one hour to four hours after midnight, and   *)
(* another on Mondays that begins off the half hour; the first Tuesday is  *)
(* blocked.                                                                *)
MCWindows == {[day |-> 0, from |-> 60, to |-> 240], [day |-> 0, from |-> 255, to |-> 300],
              [day |-> 1, from |-> 60, to |-> 240]}
MCBlocked == {1}

(* A prepaid pair of hours, half an hour and an hour and a half that get   *)
(* into its way in the first week, or in the second where the pair has no  *)
(* row yet: there the hold of the half hour may lapse and its keys, set    *)
(* again for the pair, be deleted before the long lesson asks.           *)
(* 195 is off the grid, 210 too late for 90 minutes and 1500 on the        *)
(* blocked Tuesday.                                                        *)
Mix       == {"pair", "half", "long"}
MixWeeks  == [pair |-> 2, half |-> 1, long |-> 1]
MixLength == [pair |-> 60, half |-> 30, long |-> 90]
MixStarts == [pair |-> {120}, half |-> {150, 150 + WeekMinutes}, long |-> {90, 90 + WeekMinutes, 195, 210, 1500}]

(* The same three as single lessons.                                       *)
SingleWeeks == [c \in Mix |-> 1]
=============================================================================
