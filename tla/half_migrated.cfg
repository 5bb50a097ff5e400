CONSTANTS
  p1 = p1  p2 = p2  c1 = c1  c2 = c2
  Procs = {p1}
  Customers = {c1, c2}
  None = None
  MaxCrashes = 1
SPECIFICATION Spec
CHECK_DEADLOCK FALSE
INVARIANT
  HalfAppliedIsRecoverable
