SPECIFICATION MCSpec
CONSTANTS
  Pending = Pending
  Undefined = Undefined
  Families <- MCFamilies
  DETECTION_REQUIRED = 2
  PARSE_FAILURES_ALLOWED = 1
  Whole = 2
  Tolerance = 2
  Facts <- MCFacts
  Focal <- MCFocal
  Questions <- MCQuestions
  FAMILIES = 4
  PARAPHRASES = 3
  CONTROLS = 2
  MODELS = {"llama", "qwen"}
  Llama = "llama"
  Qwen = "qwen"
  REPEATS = 2
  DilutionGap = 2
  Conflicting = {"supersession", "exclusive", "stricter"}
  Full <- MCFull
  Ranked <- MCRanked
  Runs <- MCRuns
  Baseline <- MCBaseline
INVARIANTS
  GateIsMonotone
  RefusalBuysNothing
  ComparedOnTheSameInput
  RuleIsEarned
CHECK_DEADLOCK FALSE
