CONSTANTS
  t1 = t1  t2 = t2  s1 = s1  s2 = s2  k1 = k1
  Tasks = {t1, t2}
  Servers = {s1, s2}
  Keys = {k1}
  ServerOf <- MCServerOf
  Grants <- MCGrants
  None = None
  MaxMessages = 5
  MaxChanges = 1
  MaxBots = 2
SPECIFICATION Spec
SYMMETRY MCAlike
CHECK_DEADLOCK FALSE
INVARIANT
  BotInv
PROPERTY
  RevokedRightsBite
