SPECIFICATION FairSpec
CONSTANTS
  o1 = o1
  o2 = o2
  f1 = f1
  f2 = f2
  r1 = r1
  Forwards = {f1}
  Requests <- MCRequests
  Restores = {r1}
  MaxCrashes = 1
  MaxFails = 1
  MaxGeneration = 2
CHECK_DEADLOCK FALSE
INVARIANTS
  DecommissionInv
PROPERTIES
  AckSettled
  ReleasedByOwnGrant
  DecommissionAnswered
