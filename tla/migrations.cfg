CONSTANTS
  p1 = p1  p2 = p2  c1 = c1  c2 = c2
  Procs = {p1, p2}
  Customers = {c1, c2}
  None = None
  MaxCrashes = 2
SPECIFICATION FairSpec
CHECK_DEADLOCK FALSE

  
PROPERTIES
  NoRowIsLost
  StartsUndoNothing
  EveryoneStarts
