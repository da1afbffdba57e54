\* A prepaid series of two weekly lessons, every actor, a current admin page.
SPECIFICATION Spec
CONSTANTS
  Amount = 3
  Commission = 1
  FullRefundWindow = 3
  NoRefundWindow = 2
  RecurringWeeks = 2
  Week = 2
  Slots = {4}
  Duration = 1
  HoldTime = 1
  LeadTime = 2
  Grace = 1
  RoomTime = 1
  MaxTime = 7
  AdminPageFresh = TRUE
INVARIANTS
  EscrowHeld
  SeriesAllOrNothing
  SentWithinAmount
  TeacherPaidOnce
  ClosedAccountHasNoFuture
PROPERTIES
  PaidIsFinal
CHECK_DEADLOCK FALSE
