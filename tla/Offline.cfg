SPECIFICATION Spec
CONSTANTS
    d1 = d1
    d2 = d2
    None = None
    MaxSaves = 2
    MaxElsewhere = 1
    MaxVersions = 4
    Drains <- MCDrains
    Scenarios <- MCScenarios
INVARIANTS
    WorkIsKept
    SettledVaultOpens
    StatusIsHonest
PROPERTIES
    DrainIsCareful
