SPECIFICATION StoreSpec
CONSTANTS
  t1 = t1
  t2 = t2
  s1 = s1
  s2 = s2
  w1 = w1
  w2 = w2
  Tabs = {t1, t2}
  Slots = {s1}
  Faults = {"gone"}
  Rows = {w1}
  StoreFaults = {"focus", "rollback"}
  MaxTries = 1
  MaxTakeovers = 2
  MaxDepth = 0
  MaxBoots = 1
SYMMETRY Symmetric
INVARIANTS
  WriterIsCurrent
PROPERTIES
  NothingLost
  HandedOver
CHECK_DEADLOCK FALSE
