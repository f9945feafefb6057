SPECIFICATION Spec
CONSTANTS
  Outputs = {"a", "b", "c"}
  Paths = {"a", "b", "h"}
  Hashes = {"c1", "c2"}
  Times = {1}
  DepLists <- MCDepLists
  minCompactionEntryCount = 1
  compactionRatio = 1
  MaxRecords = 3
  MaxCrashes = 2
  MaxTears = 2
INVARIANTS
  MemoryAgreesWithDisk
  LoadInventsNothing
  IdsAreKnown
PROPERTIES
  ImplementsDepsStore
