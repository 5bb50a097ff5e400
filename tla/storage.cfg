CONSTANTS
  p1 = p1  p2 = p2  edit = edit  removal = removal  sale = sale  restore = restore
  export = export  copy1 = copy1  copy2 = copy2
  Procs = {p1, p2}
  Tasks = {edit, removal, sale, restore, export, copy1, copy2}
  HomeOf <- MCHomeOf
  Kind <- MCKind
  Shipped = Shipped  Gone = Gone
  None = None
  AtOnce = 3
  MaxCrashes = 1
SPECIFICATION FairSpec
INVARIANTS
  StoreInv
  EveryCopyIsWhole
PROPERTIES
  TakesEffectAtOnce
  WriteLockIsReleased
