SPECIFICATION Spec
CONSTANTS
  Voxels = {"v"}
  KeyframeInterval = 1
  MinHits = 2
  MinSpan = 2
  FreeToRemove = 2
  CandidateTimeout = 2
  Programs = {"mapping", "location"}
  ScanTime = 1
  MaxIniCount = 1
  MinConfirmed = 1
  Steps = {1, 2}
  ImuSteps = {1, 2}
  MaxTime = 8
  MaxWaiting = 2
  MaxSamples = 3
  MaxJumps = 1
  MaxSkew = 2
CONSTRAINT Bounds
INVARIANTS
  StaticIsAsObserved
PROPERTIES
  FrameIsOfOneScan
  StaysLocated
CHECK_DEADLOCK FALSE
