\* One lesson, every actor, an admin page that may be old.
SPECIFICATION FairSpec
CONSTANTS
  Amount = 3
  Commission = 1
  FullRefundWindow = 4
  NoRefundWindow = 3
  RecurringWeeks = 1
  Week = 1
  Slots = {5, 7}
  Duration = 2
  HoldTime = 1
  LeadTime = 2
  Grace = 1
  RoomTime = 1
  MaxTime = 10
  AdminPageFresh = FALSE
INVARIANTS
  TypeOK
  SplitExact
  MoneyInFirst
  DisputeFreezesLesson
PROPERTIES
  BuriedForGood
  ConfirmedAhead
  HoldsLapse
  LessonsSettle
  TeachersGetPaid
CHECK_DEADLOCK FALSE
