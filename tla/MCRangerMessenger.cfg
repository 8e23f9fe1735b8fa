SPECIFICATION FairSpec
CONSTANTS
  RobotType = "ranger_mini_v2"
  CmdVelTimeout = 1
  StopWaitTimeout = 3
  ModeSwitchTimeout = 2
  CenteringTimeout = 3
  ModeRetry = 1
  StopStableFrames = 2
  CenterStableFrames = 2
  Elapsed = {1, 2}
  TwistsSent = {"invalid", "zero", "arc", "sideways", "tight", "diagonal"}
  Reports <- AnyReport
  GoalReasons = {"SOFTWARE_ESTOP", "CHASSIS_FAULT"}
INVARIANTS
  NoMotionWhileStopping
  MotionIsFresh
  GoalIsServed
PROPERTIES
  SuccessMeansCentered
  UnlockOnlyCentered
  GoalsEnd
  LockIsReleased
