SPECIFICATION Spec
CONSTANTS
    Length = 12
    Step = 4
    BlockLen = 6
    Modulus = 3
    MaxShort = 1
INVARIANTS
    ReportsAreTrue
    MissesOnly
PROPERTIES
    Ends
CHECK_DEADLOCK FALSE
