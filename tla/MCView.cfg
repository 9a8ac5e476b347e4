SPECIFICATION Spec
CONSTANTS
    Pages = {a, b}
    Found = 2
    MaxSessions = 3
    MaxMessages = 2
    MaxMoves = 3
INVARIANTS
    DisplayInvariant
    MessageReachesItsSession
PROPERTY
    MessagesArrive
CHECK_DEADLOCK FALSE
