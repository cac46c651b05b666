SPECIFICATION Spec
CONSTANTS
  d1 = d1
  d2 = d2
  d3 = d3
  f1 = f1
  f2 = f2
  c1 = c1
  r1 = r1
  Dms = {d1}
  Fanouts = {f1}
  SlowFanouts = {}
  Controls = {}
  Restored = {}
  Faults = {"rekey", "claim_expires", "heal", "age"}
  MaxAttempts = 1
  MaxNonce = 2
  MaxEpoch = 1
  MaxPasses = 1
  MaxCrash = 1
INVARIANTS
  NonceOnce
  SentIsReadable
PROPERTIES
  OldestFirst
  NoSilentDrop
  SettledNeverEncrypted
  HealNeverRevives
  ImplementsOutbox
CONSTRAINT DayAlone
CHECK_DEADLOCK FALSE
