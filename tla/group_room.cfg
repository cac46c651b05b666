SPECIFICATION GrSpec
CONSTANTS
  f = f
  a = a
  b = b
  c = c
  Devices = {f, a, b, c}
  Founder = f
  Invited = {a, b}
  Links <- SomeLinks
  PackCap = 2
  Quota = 1
  Faults = {}
  Limit <- Talk
SYMMETRY Symmetry
INVARIANTS
  RostersAgree
  HistoryAgrees
  DeferredSettles
CHECK_DEADLOCK FALSE
