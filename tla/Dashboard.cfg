SPECIFICATION MCSpec
CONSTANTS
  Requests = {r1, r2}
  Main = main
  Nobody = Nobody
  Absent = Absent
  Torn = Torn
  Garbled = Garbled
  Arms = {"A", "B", "D"}
  RunNames <- Names
  HashFields = {"corpus_sha256", "index_file_sha256"}
  Expected = 2
INVARIANTS
  GridIsPaired
  GridIsFrozen
  BuiltAtMostOnce
  VerdictIsOfTheAnswer
PROPERTIES
  ReplayNeverWaits
  LiveWaitsOnlyForABuild
CHECK_DEADLOCK FALSE
