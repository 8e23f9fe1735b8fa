SPECIFICATION FairSpec
CONSTANTS
  Poses = 2
  Graph <- Aisle
  Runners = {"service", "joy"}
  Buttons = {"A", "X", "Y", "cancel"}
  FixedRoutes = {TRUE, FALSE}
  Outcomes = {"succeeded", "aborted"}
  ValidateDistance = FALSE
  MaxRequests = 1
CONSTRAINT OneRunner
PROPERTIES
  CancelEndsMission
  MissionEnds
  FixedRouteIsKept
CHECK_DEADLOCK FALSE
