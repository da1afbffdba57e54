\* Four tickets for requests in turn; two requests at a time while no more
\* than two tickets exist.
SPECIFICATION Spec
CONSTANTS
  MaxTicket = 4
  MaxOverlap = 2
  Request = {r1, r2}
INVARIANTS
  OnlyTheLastLinkWorks
  TicketWorksOnce
SYMMETRY Symmetry
CHECK_DEADLOCK FALSE
