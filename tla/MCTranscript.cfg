CONSTANTS
    p1 = p1
    p2 = p2
    Pages = {p1, p2}
    EagerPages = {p2}
    MaxTurns = 2
    Paths <- MCPaths
    PathOf <- MCPathOf
    MaxMessages = 2
    Large = {2}
    MaxInterrupts = 1
    MaxDownloads = 1
    MaxDrops = 1
SPECIFICATION Spec
CONSTRAINT OneDisturbance
VIEW Relevant
ACTION_CONSTRAINT EagerPagesFirst
INVARIANTS TypeOK LiveViewIsJournalView FinishedTurnsAreWhole CardsGiveFinishedFiles PromptsAgree
CHECK_DEADLOCK FALSE
