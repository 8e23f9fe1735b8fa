SPECIFICATION FairSpec
CONSTANTS
  Goals = {1, 2}
  NoGoal = 0
  Invalid = {}
  Periodic = TRUE
  FixedModes = {TRUE, FALSE}
  RecoveryEnabled = TRUE
  Behaviors = 1
CONSTRAINT Bound
INVARIANTS
  IdleIsReset
  StandsStillToRecover
PROPERTIES
  CancelEnds
  GoalIsPlanned
CHECK_DEADLOCK FALSE
