SPECIFICATION Spec
CONSTANTS
    None = None
    r1 = r1
    r2 = r2
    Requests = {r1, r2}
    Ids = {u1, u2, u3}
    Names = {n1, n2}
    Subjects = {s1}
    Invites = {i1}
    Flows = {f1, f2}
    Bundles = {k1, k2}
    Permits = 1
    Threshold = 2
    Scenarios <- MCScenarios
SYMMETRY MCSymmetry
INVARIANTS
    InviteAdmitsOne
    SpentInvitesMadeAccounts
    EnrolledIsReached
    ShellsCanBeSwept
    GuessesAreBounded
PROPERTIES
    EnrolledStay
CHECK_DEADLOCK FALSE
