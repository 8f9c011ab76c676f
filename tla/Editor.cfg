SPECIFICATION FairSpec
CHECK_DEADLOCK FALSE
CONSTANTS
    Root = Root
    None = None
    a = a
    b = b
    c = c
    d = d
    e = e
    f1 = f1
    f2 = f2
    f3 = f3
    w1 = w1
    w2 = w2
    t1 = t1
    t2 = t2
    HISTORY_LIMIT = 3
    Ids <- MCIds
    Files <- MCFiles
    Words <- MCWords
    Tasks <- MCTasks
    Scenarios <- MCScenarios
INVARIANTS
    MapIsATree
    OnePlaceEach
    NotesAreKept
    CleanMeansSaved
PROPERTIES
    EditsSurviveAnswers
    ImplementsUndo
    AutosaveCatchesUp
