SPECIFICATION LifeFairSpec
CONSTANTS
  Nodes = {1, 2, 3}
  Dags <- MCDags
  ActionNodes = {1, 2}
  Registries <- MCRegistries
  Names = {"database", "server"}
  Unnamed = ""
  NameOf <- MCNameOf
  DoItFailures = {}
  FailedSaves = {}
  RetryDags = {}
  MaxExecutes = 1
  MaxRollbacks = 1
  MaxDeploys = 2
  MaxMishaps = 1
PROPERTIES
  ExistingSagaCanBeDestroyed
CHECK_DEADLOCK FALSE
