SPECIFICATION Spec
CONSTANTS
  r1 = r1
  r2 = r2
  r3 = r3
  i1 = i1
  i2 = i2
  Request <- MCTwo
  Id = {i1}
  Call <- MCCalls
  PoolSize = 3
  MaxFaults = 0
SYMMETRY MCSymmetry
INVARIANTS
  ConflictDetected
