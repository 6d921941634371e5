SPECIFICATION FairSpec
CONSTANTS
  Nodes = {1, 2, 3, 4}
  Graphs <- MCGraphs
INVARIANTS
  LevelsInOrder
  LevelsEarliest
  ErrorMeansCycle
PROPERTIES
  Terminates
CHECK_DEADLOCK FALSE
