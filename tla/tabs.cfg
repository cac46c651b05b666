SPECIFICATION LockSpec
CONSTANTS
  t1 = t1
  t2 = t2
  s1 = s1
  s2 = s2
  Tabs = {t1, t2}
  Slots = {s1}
  Faults = {"hide","section","gone","steal"}
  MaxTries = 1
  MaxTakeovers = 1
  MaxDepth = 1
  MaxBoots = 1
PROPERTIES
  SectionHolds
  SurfaceReady
  LoserStandsDown
CHECK_DEADLOCK FALSE
