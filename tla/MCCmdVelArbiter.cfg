SPECIFICATION Spec
CONSTANTS
  Sources = {"safety", "tag", "nav"}
  Safety = "safety"
  None = None
  Priority <- PriorityOf
  Timeout <- NoAge
  CenterOnLoss = {"tag", "nav"}
  Mobile = {"tag", "nav"}
  SwitchStopCycles = 2
  Suppression = 1
  WaitTimeout = 1
  Sends <- SendsMoves
  ServerAnswers <- BothAnswers
INVARIANTS
  FinishedSourceIsMute
PROPERTIES
  CenteredReplyIsCurrent
  GateSpec
