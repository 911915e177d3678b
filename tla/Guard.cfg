SPECIFICATION Spec
CONSTANTS
    Calls <- MCCalls
    Main = Main
    Subagent = Subagent
    NoSession = NoSession
    Setups <- MCSetups
    ProcessCwd <- Home1
    HighRisk = {}
    RunHighRisk = {"browser"}
    Grants = {"exec", "browser"}
    MaxFile = 1
    MaxAudit = 2
    Limit = 2
    MaxDay = 2
    MaxEntries = 3
    MaxPending = 1
    MaxLost = 1
CHECK_DEADLOCK FALSE
INVARIANTS
    TypeOK
    LoadsTheNewest
    
    
    GuardIsStricter
    
    BlocksAreRecordedOnce
