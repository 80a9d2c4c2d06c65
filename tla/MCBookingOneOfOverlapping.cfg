SPECIFICATION Spec
CONSTANTS
  r1 = r1
  r2 = r2
  r3 = r3
  s1 = s1
  s2 = s2
  Request <- MCTwo
  Space = {s1}
  Call <- MCCalls
  PoolSize = 2
SYMMETRY MCSymmetry
INVARIANTS
  OneOfOverlapping
