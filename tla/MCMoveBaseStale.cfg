SPECIFICATION Spec
CONSTANTS
  Goals = {1, 2}
  NoGoal = 0
  Invalid = {}
  Periodic = TRUE
  FixedModes = {TRUE}
  RecoveryEnabled = FALSE
  Behaviors = 0
PROPERTY SuccessIsArrival
CHECK_DEADLOCK FALSE
