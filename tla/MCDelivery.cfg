CONSTANTS
    b1 = b1
    Browsers = {b1}
    PushKinds = {"stream", "status"}
    MaxReplay = 2
    MaxStream = 2
    MaxEvents = 3
    MaxDrops = 1
    MaxRestarts = 1
    MaxLost = 1
SPECIFICATION FairSpec
CHECK_DEADLOCK FALSE
INVARIANTS
    TypeOK
    InOrderOnce
    HolesAreExplained
    StatusIsCurrent
PROPERTY CatchesUp
