SPECIFICATION PlacementSpec
CONSTANTS
  Models <- AllModels
  Generation = "generation"
  Verification = "verification"
  Embedding = "embedding"
  Questions = 2
  Absent = Absent
INVARIANTS
  ValidArmsRanAsRequested
PROPERTY CpuMismatchIsALeftover
CHECK_DEADLOCK FALSE
