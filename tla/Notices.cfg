\* Every notice; one worker at a time, one device, one retry, one trouble.
SPECIFICATION Spec
CONSTANTS
  Notice = {"verify link", "reset link", "booking", "verification", "documents", "payout", "refund"}
  Phone = {"parent"}
  Browser = {"teacher"}
  Device = {d1}
  Worker = {w1}
  MaxRetries = 1
  MaxTroubles = 1
INVARIANTS
  EveryoneIsAccountedFor
  DeliveredWasSent
  RepeatsAreBounded
PROPERTIES
  Settles
CHECK_DEADLOCK FALSE
