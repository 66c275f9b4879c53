SPECIFICATION PreflightSpec
CONSTANTS
  Models <- AllModels
  Stages <- AllStages
  Embedding = "embedding"
  Timeout = 2
  Overrun = 1
  Absent = Absent
  NoReport = NoReport
INVARIANTS
  ConfirmedCopiesAreFresh
  CleanExitIsTrue
PROPERTY Termination
CHECK_DEADLOCK FALSE
