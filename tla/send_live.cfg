SPECIFICATION FairSpec
CONSTANTS
  d1 = d1
  d2 = d2
  d3 = d3
  f1 = f1
  f2 = f2
  c1 = c1
  r1 = r1
  Dms = {d1}
  Fanouts = {f1}
  SlowFanouts = {f1}
  Controls = {}
  Restored = {}
  Faults = {}
  MaxAttempts = 1
  MaxNonce = 2
  MaxEpoch = 0
  MaxPasses = 1
  MaxCrash = 1
PROPERTIES
  QueueDrains
CHECK_DEADLOCK FALSE
