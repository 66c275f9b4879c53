SPECIFICATION ChunkerSpec
CONSTANTS
    Bodies <- AllBodies
    MaxUnits = 5
    MaxWords = 5
    MinWords = 2
    OverlapSentences = 1
    MarkerWords = 1
INVARIANTS
    NothingLostOrSplit
    SizeIsJustified
    SectionsAreTrue
    CopiesResolve
CHECK_DEADLOCK FALSE
