SPECIFICATION MCSpec
CONSTANTS
  Absent = Absent
  Torn = Torn
  Garbled = Garbled
  Undefined = Undefined
  DirectionH1 = 1
  DirectionH2 = 2
  Facts <- MCFacts
  Focal <- MCFocal
  Arms <- ArmSet
  RunNames <- MCRunNames
  DiagnosticRun = "D"
  QuestionSet <- MCQuestionSet
  Declared <- MCDeclared
  DiagnosticGroup <- MCGroup
  VALID_RELATIONSHIPS = {"none", "supersession", "exclusive", "stricter", "compatible"}
  CONFLICTING_RELATIONSHIPS = {"supersession", "exclusive", "stricter"}
INVARIANTS
  RowsAreOfTheirAnswers
  FamilyIsTheUnit
  RulesAgree
  DiagnosticIsWhole
CHECK_DEADLOCK FALSE
