SPECIFICATION Spec
CONSTANTS
    r1 = r1
    r2 = r2
    s1 = s1
    RunIds = {r1, r2}
    Sessions = {s1}
    Owner <- BothOfOneSession
    None = None
    MaxVersion = 2
    MaxQueue = 2
    MaxCrashes = 1
SYMMETRY Symmetry
INVARIANTS
    TypeOK
    IndexNeverDangles
    QuietMeansDurable
PROPERTIES
    ImplementsRegister
CHECK_DEADLOCK FALSE
