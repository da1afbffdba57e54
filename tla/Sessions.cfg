\* Two browsers and four tokens for requests in turn; two requests at a time
\* while no more than two tokens exist.
SPECIFICATION Spec
CONSTANTS
  Session = {s1, s2}
  NoSession = NoSession
  MaxToken = 4
  MaxOverlap = 2
  Request = {r1, r2}
INVARIANTS
  ParentIsSpent
  WhatLivesIsListed
  EndedForGood
SYMMETRY Symmetry
CHECK_DEADLOCK FALSE
