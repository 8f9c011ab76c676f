SPECIFICATION Spec
CHECK_DEADLOCK FALSE
CONSTANTS
    Blank = Blank
    Board = Board
    v1 = v1
    v2 = v2
    v3 = v3
    old = old
    new = new
    memo = memo
    tag = tag
    Vaults <- MCVaults
    Names <- MCNames
    Notes <- MCNotes
    Tags <- MCTags
    Scenarios <- MCScenarios
INVARIANTS
    RowsTellServer
    BoardsOpenAsBoards
