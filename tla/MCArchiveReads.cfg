SPECIFICATION MCSpec
CONSTANTS
    Tables <- MCTables
    Relabels <- MCRelabels
    Queries <- MCQueries
    ChunkSizes = {1, 2}
    Columns = {"c1", "c2"}
    SeriesLabels = {"c1", "c2", "x", "y"}
    Times = {1, 2, 3, 4, 5, 6, 7, 8}
    Probe = 3
    Side = 2
    Block = 2
    Lag = 2
    Width = 3
    ChunkSegments = {1, 2}
    Scenes <- MCScenes
INVARIANTS ReadsAgree AnswersAsTheUnion ConflictsAreFound
PROPERTIES ChunksKeepTheirWord BlocksAreFinal
CHECK_DEADLOCK FALSE
