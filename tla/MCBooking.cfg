SPECIFICATION Spec
CONSTANTS
  r1 = r1
  r2 = r2
  r3 = r3
  s1 = s1
  s2 = s2
  Request <- MCThree
  Space = {s1, s2}
  Call <- MCCallsTwoSpaces
  PoolSize = 3
SYMMETRY MCSymmetry
INVARIANTS
  TypeOK
  NoDoubleBooking
  CheckStillHolds
  LockedSpaceStaysLive
  RefusalJustified
PROPERTIES
  ImplementsLedger
