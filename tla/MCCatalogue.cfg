SPECIFICATION MCSpec
CONSTANTS
  r1 = r1  r2 = r2  r3 = r3  o1 = o1  u1 = u1  u2 = u2  s1 = s1  v1 = v1  v2 = v2  f1 = f1  f2 = f2
  Request = {r1, r2, r3}
  OldSpace = {s1}
  Old <- MCOld
  User = {u1, u2}
  Field = {f1, f2}
  Value = {v1, v2}
INVARIANTS
  TypeOK
  DuplicatesExplained
PROPERTIES
  OnlyStaleCopiesOverwrite
  AnswerIsRow
