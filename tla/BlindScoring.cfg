SPECIFICATION Spec
CONSTANTS
  s1 = s1
  s2 = s2
  Sheets <- TwoSheets
  NoSheet = NoSheet
  Size = 2
  MaxLines = 3
  MaxCrashes = 2
SYMMETRY Symmetry
INVARIANTS
  JudgementsAreOfTheSessionSheet
  ConfirmedJudgementsReplay
  FinishedMeansComplete
CHECK_DEADLOCK FALSE
