SPECIFICATION Spec
CONSTANTS
  NoRun = NoRun
  Texts = {"t1", "t2"}
  Splits <- BothSplits
  Questions <- TwoSplits
  ArmSets <- MixedSets
  MaxClock = 1
  MaxRuns = 2
  MaxVersion = 1
INVARIANTS
  PublishedContrastIsPaired
  ReplayedContrastIsPaired
  PublishedRunsAreComplete
CHECK_DEADLOCK FALSE
