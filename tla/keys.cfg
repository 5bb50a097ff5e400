CONSTANTS
  j1 = j1  j2 = j2  j3 = j3
  Routes = {j1}
  Pass = Pass
  None = None
  Sales <- MCSales
  Packages <- MCPackages
  Sizes <- MCSizes
  Days = {1}
  Quotas = {1}
  Cycle = 1
  MaxTime = 1
  MaxUsed = 1
  MaxRequests = 2
  MaxFaults = 1
SPECIFICATION FairSpec
CHECK_DEADLOCK FALSE
INVARIANTS
  KeyInv
  RowMatchesOutline
  QuotaDoesNotCompound
  MeteredByQuota
PROPERTIES
  ResetReopens
  ExpiredIsCut
  QuotaComesBack
