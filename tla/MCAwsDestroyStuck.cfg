SPECIFICATION FairSpec
CONSTANTS
  p1 = p1
  p2 = p2
  Processes = {p1}
  Sagas <- NetworkOnly
  AtOnce <- NetworkOnly
  MaxDeploys = 2
  MaxMishaps = 1
PROPERTY
  FailedSagaCanBeDestroyed
CHECK_DEADLOCK FALSE
