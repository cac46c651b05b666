SPECIFICATION RxSpec
CONSTANTS
  d1 = d1
  d2 = d2
  Devices = {d1, d2}
  First = d1
  Drains = {"pass"}
  Asks = {"enable", "heal", "takeover", "signout"}
  None = None
  MaxAttempts = 2
  MaxKey = 3
  MaxUser = 2
  MaxFault = 1
INVARIANTS
  SecretBehindMarker
PROPERTIES
  OnlyTakeoverReplaces
  RolesSettle
CHECK_DEADLOCK FALSE
