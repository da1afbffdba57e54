\* Checkouts, payments and reschedule requests, step by step.
SPECIFICATION Spec
CONSTANTS
  Checkout <- Mix
  Weeks <- MixWeeks
  Duration <- MixLength
  Starts <- MixStarts
  Movers <- Mix
  Windows <- MCWindows
  Blocked <- MCBlocked
  HoldTime = 15
  SearchDays = 2
  LeadTime = 60
  ClockStep = 10
  MaxTime = 10
  Overlap = TRUE
INVARIANTS
  NoDoubleBooking
CHECK_DEADLOCK FALSE
