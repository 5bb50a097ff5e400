CONSTANTS
  t1 = t1  t2 = t2  here = here  there = there  s1 = s1  s2 = s2
  Tabs = {t1, t2}
  Places = {here, there}
  Secrets = {s1, s2, Shipped}
  Shipped = Shipped
  None = None
  MaxFails = 1
  GlobalMax = 1
  MaxRequests = 4
  MaxCrashes = 2
SPECIFICATION Spec
SYMMETRY MCAlike
CHECK_DEADLOCK FALSE
INVARIANTS
  AccessInv
  NobodyIsLockedOut
PROPERTY
  OnlyDisableSwitchesOff
