SPECIFICATION Spec
CONSTANTS
  NoRun = NoRun
  Texts = {"t1"}
  Splits <- DevOnly
  Questions <- TwoQuestions
  ArmSets <- PairSets
  MaxClock = 1
  MaxRuns = 2
  MaxVersion = 0
INVARIANT IsolationClaimIsTrue
CHECK_DEADLOCK FALSE
