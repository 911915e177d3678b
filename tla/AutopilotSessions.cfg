SPECIFICATION Spec
CONSTANTS
    None = None
    Sessions = {s1, s2}
    RunIds = {r1, r2}
    Caps = {}
    Outcomes = {"success"}
    Signals = {"complete"}
    MaxRetries = 0
    MaxTotal = 1
    MaxTurn = 0
    MinTurns = 0
    MaxConcurrent = 2
    MaxRunStates = 1
    Checkpointing = FALSE
    HasCommands = TRUE
    Facade = FALSE
    AuditDepth = 1
    Oldest = "orphan"
    MaxSuspended = 1
SYMMETRY Symmetry
CHECK_DEADLOCK FALSE
INVARIANTS
    NoAuditLeak
    
    
