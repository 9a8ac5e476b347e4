CONSTANTS
    c1 = c1
    p1 = p1
    p2 = p2
    Clients = {c1}
    Pages = {p1, p2}
    ClientOf <- MCClientOf
    Bump = 2
    MaxCommands = 3
    MaxReloads = 1
    MaxRestarts = 1
SPECIFICATION Spec
CHECK_DEADLOCK FALSE
INVARIANTS
    TypeOK
    GuardFollowsRuns
    RevocationIsFinal
