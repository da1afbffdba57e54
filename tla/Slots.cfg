\* A prepaid pair and two single lessons, one request at a time, lapsing holds.
SPECIFICATION Spec
CONSTANTS
  Checkout <- Mix
  Weeks <- MixWeeks
  Duration <- MixLength
  Starts <- MixStarts
  Movers = {"half", "long"}
  Windows <- MCWindows
  Blocked <- MCBlocked
  HoldTime = 15
  SearchDays = 2
  LeadTime = 60
  ClockStep = 10
  MaxTime = 50
  Overlap = FALSE
INVARIANTS
  TypeOK
  LaterWeeksStayFree
  OffersAreAccepted
PROPERTIES
  KeepsCalendar
CHECK_DEADLOCK FALSE
