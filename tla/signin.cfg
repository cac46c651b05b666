SPECIFICATION SiSpec
CONSTANTS
  t1 = t1
  Tabs = {t1}
  MaxFlow = 2
  Limit <- LimitDef
  Most = 2
  Faults = {"narrow", "foreign", "section", "return"}
INVARIANTS
  NoneStray
  OneFlow
  KeysRecoverable
  IdentityKept
  SignedOutStays
CHECK_DEADLOCK FALSE
