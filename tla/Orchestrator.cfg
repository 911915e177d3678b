SPECIFICATION Spec
CONSTANTS
    MaxRetries = 2
    MaxTotal = 2
    MaxTurn = 1
INVARIANTS
    TypeOK
    FieldsAgree
    RetryWithinBudget
    BackoffIsBounded
PROPERTIES
    TerminalIsFinal
    NonResumableStaysParked
    RetryNeverRefunded
    ImplementsLifecycle
