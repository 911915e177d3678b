SPECIFICATION Spec
CONSTANTS
    None = None
    Sessions = {s1}
    RunIds = {r1}
    Caps = {}
    Outcomes = {"success", "recoverable"}
    Signals = {"complete"}
    MaxRetries = 1
    MaxTotal = 1
    MaxTurn = 0
    MinTurns = 1
    MaxConcurrent = 1
    MaxRunStates = 2
    Checkpointing = TRUE
    HasCommands = FALSE
    Facade = TRUE
    AuditDepth = 1
    Oldest = "stalled"
    MaxSuspended = 1
CHECK_DEADLOCK FALSE
INVARIANTS
    EndedHasNoCheckpoint
