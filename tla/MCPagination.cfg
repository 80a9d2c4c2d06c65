SPECIFICATION FairSpec
CONSTANTS
  MaxId = 4
  Take = 2
  MaxServed <- MCMaxServed
INVARIANTS
  TypeOK
  ServedInOrder
  StableRowsServed
  PagesPartition
PROPERTIES
  ReaderFinishes
