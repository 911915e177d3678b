SPECIFICATION FairSpec
CONSTANTS
    None = None
    Sessions = {s1}
    RunIds = {r1}
    Caps = {"max_cost_reached"}
    Outcomes = {"success"}
    Signals = {"complete", "no_task"}
    MaxRetries = 1
    MaxTotal = 1
    MaxTurn = 0
    MinTurns = 1
    MaxConcurrent = 1
    MaxRunStates = 2
    Checkpointing = FALSE
    HasCommands = FALSE
    Facade = TRUE
    AuditDepth = 1
    Oldest = "stalled"
    MaxSuspended = 1
CHECK_DEADLOCK FALSE
PROPERTIES
    CapsAreEnforced
    RetriesFire
