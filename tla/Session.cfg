SPECIFICATION FairSpec
CHECK_DEADLOCK FALSE
CONSTANTS
    None = None
    ann = ann
    bob = bob
    m1 = m1
    m2 = m2
    t1 = t1
    t2 = t2
    MaxVersion = 3
    Accounts <- MCAccounts
    Methods <- MCMethods
    Tasks <- MCTasks
    Scenarios <- MCScenarios
INVARIANTS
    SessionIsOneAccount
    
PROPERTIES
    UnlockIsAnswered
