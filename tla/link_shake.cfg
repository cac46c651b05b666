SPECIFICATION HsSpec
CONSTANTS
  a = a
  b = b
  Devices = {a, b}
  Calls <- Sends
  Faults = {"network", "protocol", "restore", "stale", "reset"}
  Rotating = {a}
  AdvanceLimit = 2
  FailureLimit = 1
  ParkLimit = 1
  PollLimit = 1
  MaxTry = 4
  MaxKey = 2
  MaxCrash = 1
INVARIANTS
  OneSession
PROPERTIES
  EstablishedKept
  BudgetStops
CHECK_DEADLOCK FALSE
