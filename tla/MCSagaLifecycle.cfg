SPECIFICATION LifeFairSpec
CONSTANTS
  Nodes = {1, 2, 3}
  Dags <- MCChain
  ActionNodes = {1, 2}
  Registries <- MCRegistries
  Names = {"database", "server"}
  Unnamed = ""
  NameOf <- MCNameOf
  DoItFailures = {"nothing", "partial"}
  FailedSaves = {"old"}
  RetryDags = {}
  MaxExecutes = 1
  MaxRollbacks = 1
  MaxDeploys = 2
  MaxMishaps = 2
INVARIANTS
  LifeTypeOK
  OneLostPerMishap
  UndoRespectsDependencies
  DestroyedWhatWasListed
PROPERTIES
  ListedUntilRemoved
  ListedIsRemoved
CHECK_DEADLOCK FALSE
