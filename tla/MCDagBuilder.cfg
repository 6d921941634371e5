SPECIFICATION Spec
CONSTANTS
  Stages <- MCStages
  Registered <- MCRegistered
  Labels <- MCLabels
  NoName = ""
  MaxCalls = 4
  MaxSagaDags = 2
INVARIANTS
  TypeOK
  GraphOrdered
  StagesInOrder
  SubsagaCopied
  OneRootNeverPanics
  EndsKnown
  WrappedWhole
  ActionsRegistered
CHECK_DEADLOCK FALSE
