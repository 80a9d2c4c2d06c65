SPECIFICATION ServiceFairSpec
CONSTANTS
  b1 = b1
  b2 = b2
  p1 = p1
  s1 = s1
  Id <- MCBookers
  Booker <- MCBookers
  Patcher <- MCOne
  Space = {s1}
  Start <- MCStart
  Wanted <- MCWanted
  Patch <- MCPatch
  PoolSize = 2
  Minute = 2
  MaxTime = 6
  MaxFaults = 1
INVARIANTS
  ServiceTypeOK
  ToldUnlessSkipped
  WholeMinutesTold
  AtMostTwice
  ToldHasRoom
PROPERTIES
  LedgerSurvives
  EveryRequestAnswered
