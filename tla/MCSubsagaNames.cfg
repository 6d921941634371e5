SPECIFICATION Spec
CONSTANTS
  Nodes = {1, 2, 3, 4, 5, 6}
  Dags <- MCDags
  ActionNodes = {1, 3, 5}
  Registries <- MCRegistries
  Names = {"vpc", "network", "server"}
  Unnamed = ""
  NameOf <- MCNameOf
  DoItFailures = {"nothing"}
  FailedSaves = {}
  RetryDags = {}
  MaxExecutes = 1
  MaxRollbacks = 1
INVARIANT
  InnerOutputsHidden
CHECK_DEADLOCK FALSE
