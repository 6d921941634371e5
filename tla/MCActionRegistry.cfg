SPECIFICATION Spec
CONSTANTS
  Goroutines = {"g1", "g2"}
  Names = {"create", "attach"}
  Sagas <- RegistrySagas
INVARIANT
  IdentifiedByName
CHECK_DEADLOCK FALSE
