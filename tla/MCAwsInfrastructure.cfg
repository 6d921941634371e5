SPECIFICATION Spec
CONSTANTS
  p1 = p1
  p2 = p2
  Processes = {p1, p2}
  Sagas <- AllSagas
  AtOnce <- NetworkOnly
  MaxDeploys = 2
  MaxMishaps = 1
SYMMETRY Symmetry
INVARIANTS
  TypeOK
  UndoneMeansGone
  LeftoversPerMishap
  NothingLaterInPlace
  NeverRefusedInPeace
CHECK_DEADLOCK FALSE
