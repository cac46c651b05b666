SPECIFICATION Spec
CONSTANTS
  d1 = d1
  d2 = d2
  d3 = d3
  f1 = f1
  f2 = f2
  c1 = c1
  r1 = r1
  Dms = {d1}
  Fanouts = {}
  SlowFanouts = {}
  Controls = {c1}
  Restored = {d1}
  Faults = {"receipt", "control", "unsend", "reset", "finalize_fails", "tail_loss"}
  MaxAttempts = 1
  MaxNonce = 2
  MaxEpoch = 0
  MaxPasses = 1
  MaxCrash = 1
INVARIANTS
  OwedHasItem
  NoGaps
  ClaimsHaveOwners
CHECK_DEADLOCK FALSE
