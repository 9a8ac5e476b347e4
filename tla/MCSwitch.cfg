SPECIFICATION Spec
CONSTANTS
  Requests = {r1}
  MaxSessions = 2
  MaxBinds = 3
  MaxTurns = 2
  MaxEvents = 1
  MaxRestarts = 1
CHECK_DEADLOCK FALSE
INVARIANTS JournalInvariant QuietSwitchLosesNothing EngineIsHeard
PROPERTY TurnsEnd
