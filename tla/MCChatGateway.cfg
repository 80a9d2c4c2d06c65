SPECIFICATION Spec
CONSTANTS
  Socket = {s1, s2, s3}
  Chat = {c1, c2}
  Message = {m1, m2}
  MaxFaults = 1
SYMMETRY MCSymmetry
INVARIANTS
  TypeOK
  SameOrder
  MembersServed
  ReceivedIsSaved
PROPERTIES
  ImplementsBoard
