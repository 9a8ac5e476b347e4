CONSTANTS
    Write = Write
    Bash = Bash
    r1 = r1
    r2 = r2
    Tools = {Write, Bash}
    EditTools = {Write}
    NeverAutoTools = {Bash}
    Requests = {r1, r2}
    ToolOf <- MCToolOf
    MaxTurns = 1
    MaxRestarts = 1
    Commands = {"session_config", "interrupt", "end"}
    Failures = {"query", "restart"}
    PolicyUpdates <- MCPolicyUpdates
SPECIFICATION FairSpec
INVARIANTS
    FirstWordDecides
    OnlyEndDropsTimers
PROPERTIES
    TurnsComplete
    CallsAreSettled
