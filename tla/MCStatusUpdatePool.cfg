SPECIFICATION FairSpec
CONSTANTS
  r1 = r1
  r2 = r2
  r3 = r3
  i1 = i1
  i2 = i2
  Request <- MCTwo
  Id = {i1, i2}
  Call <- MCConfirm
  PoolSize = 2
  MaxFaults = 0
PROPERTIES
  ConfirmationMakesRoom
CHECK_DEADLOCK FALSE
