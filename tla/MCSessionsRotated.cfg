SPECIFICATION Spec
CONSTANTS
  Request = {r1, r2}
  User = {u1}
  Life = 2
  AccessLife = 1
  MaxRestarts = 0
  MaxTime = 1
  NoToken = NoToken
INVARIANTS
  StoredTokenServes
