SPECIFICATION Spec
CONSTANTS
  Request = {r1, r2, r3, r4}
  User = {u1, u2}
  Life = 2
  AccessLife = 1
  MaxRestarts = 1
  MaxTime = 2
  NoToken = NoToken
SYMMETRY MCSymmetry
INVARIANTS
  TypeOK
  LogoutHolds
PROPERTIES
  OutStaysOut
  SessionEndsForAReason
