CONSTANTS
  p1 = p1  p2 = p2  a1 = a1  r1 = r1  r2 = r2  r3 = r3  t1 = t1  k1 = k1
  NoKey = NoKey  NoOp = NoOp
  Procs = {p1, p2}
  Admins = {a1}
  Orders = {r1, r2}
  Adjustments = {t1}
  Keys = {k1}
  HomeOf <- MCTwoHomes
  AdminOf <- MCAdminOf
  Amount <- MCAmount
  KeyOf <- MCRetryAndTab
  BodyOf <- MCTwoBodies
  Creates = {r1}
  BadPackage = {}
  InitialCredit <- MCInitialCredit
  MaxCrashes = 1
  DbMayFail = FALSE
SPECIFICATION FairSpec
CHECK_DEADLOCK FALSE
PROPERTIES
  PaidSettles
  ReservationEnds
