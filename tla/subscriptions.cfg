CONSTANTS
  a1 = a1  a2 = a2  a3 = a3  b1 = b1  b2 = b2
  s1 = s1  s2 = s2  t1 = t1  t2 = t2  p1 = p1  p2 = p2  j1 = j1  j2 = j2
  Keys = {a1, a2, b1}
  Servers = {s1, s2}
  At <- MCAt
  Tokens = {t1, t2}
  None = None
  Procs = {p1, p2}
  Jobs = {j1, j2}
  Home <- MCHome
  FirstKey = a1
  FirstToken = t1
  FirstStates <- MCStates
  Ttl = 1
  CollectLimit = 1
  Readers = {p1}
  MaxFaults = 1
SPECIFICATION Spec
CHECK_DEADLOCK FALSE
INVARIANTS
  ConfigInv
  NeverWithoutConfig
  NothingStray
  InheritsBeforeExposed
  PageIsRecent
