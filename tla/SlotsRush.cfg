\* Rival checkouts of single lessons, step by step, until the first hold lapses.
SPECIFICATION Spec
CONSTANTS
  Checkout <- Mix
  Weeks <- SingleWeeks
  Duration <- MixLength
  Starts <- MixStarts
  Movers = {}
  Windows <- MCWindows
  Blocked <- MCBlocked
  HoldTime = 15
  SearchDays = 2
  LeadTime = 60
  ClockStep = 10
  MaxTime = 10
  Overlap = TRUE
INVARIANTS
  NoDoubleBooking
  HeldForItsTime
CHECK_DEADLOCK FALSE
