SPECIFICATION Spec
CONSTANTS
  Stages <- MCParams
  Registered <- MCRegistered
  Labels <- MCLabels
  NoName = ""
  MaxCalls = 2
  MaxSagaDags = 1
INVARIANT
  SubsagaDependsOnParams
CHECK_DEADLOCK FALSE
