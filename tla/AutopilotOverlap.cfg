SPECIFICATION Spec
CONSTANTS
    None = None
    Sessions = {s1}
    RunIds = {r1}
    Caps = {"max_cost_reached"}
    Outcomes = {"success", "recoverable", "permission_denied"}
    Signals = {"complete", "token_budget_exceeded"}
    MaxRetries = 1
    MaxTotal = 1
    MaxTurn = 1
    MinTurns = 1
    MaxConcurrent = 1
    MaxRunStates = 2
    Checkpointing = FALSE
    HasCommands = TRUE
    Facade = TRUE
    AuditDepth = 1
    Oldest = "stalled"
    MaxSuspended = 2
CHECK_DEADLOCK FALSE
INVARIANTS
    ContinuationBudget
    NoAuditLeak
    RunsStayWellFormed
PROPERTIES
    EndedStaysEnded
