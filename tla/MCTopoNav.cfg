SPECIFICATION Spec
CONSTANTS
  Poses = 4
  Graph <- Ring
  Runners = {"service"}
  Buttons = {"cancel"}
  FixedRoutes = {TRUE, FALSE}
  Outcomes = {"succeeded", "aborted"}
  ValidateDistance = FALSE
  MaxRequests = 1
CONSTRAINT FewReplans
INVARIANTS
  RestOfRouteIsOpen
  ReportIsAboutGoal
PROPERTIES
  CanceledGoalBlocksNothing
CHECK_DEADLOCK FALSE
