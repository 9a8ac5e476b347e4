CONSTANTS
    o1 = o1
    o2 = o2
    Ops = {o1, o2}
    MaxSessions = 4
    Commands = {"new", "open", "delete", "rename", "read"}
    MaxCommands = 2
    MaxCrashes = 1
SPECIFICATION FairSpec
CHECK_DEADLOCK FALSE
INVARIANTS
    MutexKeepsWrites
    DiskInvariant
PROPERTIES
    CommandsAreAtomic
    CallsReturn
