CONSTANTS
  p1 = p1  p2 = p2  o1 = o1
  Nobody = Nobody
  Procs = {p1, p2}
  Naps = {1, 2}
  MinTtl = 3
  Requests = {o1}
  Every = 2
  Keep = 1
  MaxTime = 6
SPECIFICATION Spec
SYMMETRY ProcSymmetry
CHECK_DEADLOCK FALSE
INVARIANTS
  OneScheduler
  LapseIsNoticed
  RecordedBackupExists
PROPERTY
  SnapshotsAreSpaced
