SPECIFICATION FairSpec
CONSTANTS
  Nodes = {1, 2, 3, 4}
  Dags <- MCDags
  ActionNodes = {1, 2, 3}
  Registries <- MCRegistries
  Names = {"vpc", "subnet", "table"}
  Unnamed = ""
  NameOf <- MCNameOf
  DoItFailures = {"nothing", "partial"}
  FailedSaves = {"old", "torn"}
  RetryDags <- MCRetryDags
  MaxExecutes = 2
  MaxRollbacks = 2
INVARIANTS
  TypeOK
  DependenciesInPlace
  DependentsGone
  NothingLeftBehind
  StatusTruthful
  CrashLosesAtMostOne
  StoredIsPrefix
  RetryIsClean
  TraceAccountsForCompleted
PROPERTIES
  CallsReturn
  FailureIsCompensated
  ImplementsAbstract
CHECK_DEADLOCK FALSE
