SPECIFICATION Spec
CONSTANTS
  Poses = 2
  Graph <- Aisle
  Runners = {"service"}
  Buttons = {"A", "X"}
  FixedRoutes = {FALSE}
  Outcomes = {"succeeded", "aborted"}
  ValidateDistance = FALSE
  MaxRequests = 1
PROPERTIES
  CanceledGoalBlocksNothing
CHECK_DEADLOCK FALSE
