SPECIFICATION FairSpec
CONSTANTS
  Goroutines = {g1, g2}
  NodeIds = {1}
  MaxEvents = 2
PROPERTY
  RecordReturns
CHECK_DEADLOCK FALSE
