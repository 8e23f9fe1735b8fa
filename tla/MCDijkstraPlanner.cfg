SPECIFICATION PlannerSpec
CONSTANTS
  Poses = 4
  Graph <- MCGraph
  CooldownInitial = 1
  CooldownMax = 3
  BackoffFactor = 2
  BlockedWaitTimeout = 3
  BlockBidirectional = TRUE
  Trips <- MCTrips
  Driven <- MCDriven
  MaxFailures = 3
INVARIANTS
  BothDirectionsBlocked
PROPERTIES
  KeepsPromise
  RouteIsShortest
  GivesUpOnlyIfHopeless
  WaitEnds
