SPECIFICATION Spec
CONSTANTS
  p = p
  q = q
  Caller <- Callers
  Name <- Names
  Begins <- NamePrefixes
  BatchLimit = 1
  Drawings <- DrawingSet
  Instances <- InstanceSet
  MaxVersion = 3
INVARIANTS TypeOK SearchMissesNothing StoredIsReachable TriggersAreWhole
CHECK_DEADLOCK FALSE
