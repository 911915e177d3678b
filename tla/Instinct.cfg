SPECIFICATION Spec
CONSTANTS
    None = None
    Procs = {p1, p2}
    Slots = {a, b}
    Capacity = 2
    MaxAge = 1
    MaxClock = 2
    MaxCalls = 3
    Limit = 2
SYMMETRY Symmetry
INVARIANTS
    TypeOK
    RecallsTheNewest
    OneRecordPerSlot
    HitsNeverInflated
PROPERTIES
    NothingLostEarly
    RetentionHolds
