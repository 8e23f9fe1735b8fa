SPECIFICATION FairSpec
CONSTANTS
  a = a
  b = b
  c = c
  d = d
  e = e
  Goals <- MCGoals
  Targets <- MCTargets
  Place <- MCPlace
  Heading <- MCHeading
  Topologies <- MCTopologies
  Settle = 1
  FixedRoutes = {TRUE, FALSE}
  EnableAvoidance = TRUE
CONSTRAINT OneKind
INVARIANTS
  PathIsOfRoute
  PassedGoalsGoOn
  ReachedWasThere
PROPERTIES
  StandingEnds
