SPECIFICATION GoldSpec
CONSTANTS
    None = None
    HalfWritten = HalfWritten
    CONFLICTS <- MCConflicts
    TOPICS <- MCTopics
    Registries <- MCRegistries
    Corpora <- MCCorpora
    HandEdits <- MCHandEdits
    MaxEdits = 2
INVARIANTS
    SplitsAreSealed
    QuestionsMeetTheirConflict
CHECK_DEADLOCK FALSE
