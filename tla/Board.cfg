SPECIFICATION FairSpec
CHECK_DEADLOCK FALSE
CONSTANTS
    None = None
    c1 = c1
    c2 = c2
    c3 = c3
    f1 = f1
    f2 = f2
    s1 = s1
    s2 = s2
    Cards <- MCCards
    Files <- MCFiles
    Saves <- MCSaves
    Sittings <- MCSittings
INVARIANTS
    ConnectionsJoinCards
PROPERTIES
    CalmWorkIsStored
