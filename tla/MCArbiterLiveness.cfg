SPECIFICATION FairSpec
CONSTANTS
  Sources = {"safety", "nav"}
  Safety = "safety"
  None = None
  Priority <- PriorityOf
  Timeout <- NoAge
  CenterOnLoss = {"nav"}
  Mobile = {"nav"}
  SwitchStopCycles = 1
  Suppression = 1
  WaitTimeout = 1
  Sends <- SendsAnything
  ServerAnswers <- AlwaysAnswers
PROPERTIES
  SilenceStopsAndCenters
  FinishReturns
