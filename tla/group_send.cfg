SPECIFICATION GsSpec
CONSTANTS
  p1 = p1
  p2 = p2
  Peers = {p1, p2}
  MaxMsg = 2
  Uploads = {1}
  Faults = {"network", "error", "age", "delivered"}
  MaxAttempts = 1
  MaxCalls = 1
  MaxTrouble = 1
SYMMETRY Symmetry
INVARIANTS
  MemberReadsOnce
  NeverStuckSending
  FailedIsTrue
PROPERTIES
  NobodySkipped
CHECK_DEADLOCK FALSE
