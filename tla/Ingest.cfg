SPECIFICATION Spec
CONSTANTS
    None = None
    Bad = Bad
    DocIds = {1, 2, 3}
    Absent = Absent
    Torn = Torn
    TopK = 2
    MinSimilarity = 1
    Folders <- AllFolders
    Drafts <- AllDrafts
    Chunkers = {c1, c2}
    EmbeddingModels = {nomic, mock}
    Scores <- AllScores
    MaxEdits = 1
INVARIANTS
    CorpusIsWired
    AnswersAreOverTheCorpus
    CurrentOnlyKeepsCurrentHits
    ValidCitationsResolve
SYMMETRY Symmetry
CHECK_DEADLOCK FALSE
