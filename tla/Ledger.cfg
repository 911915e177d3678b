SPECIFICATION Spec
CONSTANTS
    Files = {f, g}
    MaxDetail = 2
    MaxPerEntry = 1
    MaxSummary = 1
    Activations <- MCActivations
    MaxTotal = 2
    MaxHistory = 4
SYMMETRY Symmetry
CHECK_DEADLOCK FALSE
INVARIANTS
    TypeOK
    FoldingIsLossless
    HeadlineIsHonest
    VerifiedMeansRun
PROPERTIES
    PauseIsDeserved
