SPECIFICATION Spec
CONSTANTS
  Request = {r1, r2, r3, r4}
  Email = {e1, e2}
  Nickname = {n1, n2}
SYMMETRY MCSymmetry
INVARIANTS
  TypeOK
  RefusalBacked
  ConflictOnlyIfOvertaken
