---------------------------- MODULE MCSlotAcquire ----------------------------
EXTENDS SlotAcquire

(* Two lessons of an hour and a half that share an hour, the half hour     *)
(* both contain, and a series of two that meets the later one's end.       *)
MCHandler == {"early", "late", "half", "series"}
MCAsk ==
  [early  |-> [start |-> 600, weeks |-> 1, duration |-> 90],
   late   |-> [start |-> 630, weeks |-> 1, duration |-> 90],
   half   |-> [start |-> 630, weeks |-> 1, duration |-> 30],
   series |-> [start |-> 690, weeks |-> 2, duration |-> 30]]
=============================================================================
