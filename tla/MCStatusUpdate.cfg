SPECIFICATION FairSpec
CONSTANTS
  r1 = r1
  r2 = r2
  r3 = r3
  i1 = i1
  i2 = i2
  Request <- MCThree
  Id = {i1, i2}
  Call <- MCTwoRows
  PoolSize = 4
  MaxFaults = 2
INVARIANTS
  TypeOK
  ConfirmedHasRoom
  NoRoomCollision
  RoomHasConfirmer
PROPERTIES
  CompletedUnlessStale
  EveryPatchAnswered
