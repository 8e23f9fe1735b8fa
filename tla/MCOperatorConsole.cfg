SPECIFICATION Spec
CONSTANTS
  MaxRequests = 3
  StableFrames = 1
  TagAbortTimeout = 2
  InnerRounds = 1
  FinalRecheck = TRUE
  Works <- MCWorks
  MaxLoops = 2
  MaxJoy = 2
CONSTRAINT Few
INVARIANTS
  StaysStopped
  LoopIsShown
  AlignedFirst
PROPERTIES
  SuccessIsOwn
  LostTagAborts
  StoppedLoopEnds
CHECK_DEADLOCK FALSE
