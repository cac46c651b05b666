SPECIFICATION InFairSpec
CONSTANTS
  Scripts <- Talk
  Mine = {"m"}
  Faults = {"error", "wipe", "rate", "late"}
  ReloadAt <- AnyPoint
  MaxBatch = 2
  MaxReload = 1
  MaxError = 1
INVARIANTS
  NoStrangerShown
  CheckpointCovered
  UnsentWiped
  DeclineLeavesNothing
PROPERTIES
  Arrives
