SPECIFICATION FairSpec
CONSTANTS
  g1 = g1
  g2 = g2
  g3 = g3
  Goroutines = {g1, g2, g3}
  Ids = {"s1"}
  Kinds = {"memory", "file"}
  MaxSaves = 2
  MaxChanges = 1
  MaxCrashes = 1
INVARIANTS
  StoreTypeOK
  WritersAlone
  ContextAsSaved
PROPERTIES
  EveryCallReturns
  ImplementsStore
CHECK_DEADLOCK FALSE
