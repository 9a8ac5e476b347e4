CONSTANTS
    Write = Write
    Bash = Bash
    r1 = r1
    r2 = r2
    Tools = {Write, Bash}
    EditTools = {Write}
    NeverAutoTools = {Bash}
    Requests = {r1}
    ToolOf <- MCToolOf
    MaxTurns = 2
    MaxRestarts = 2
    Commands = {"session_config", "interrupt", "end"}
    Failures = {"query", "restart"}
    PolicyUpdates = {}
SPECIFICATION Spec
INVARIANTS
    TypeOK
    JournalMatchesTurn
    TurnsAgree
    InterruptsAreHonest
