SPECIFICATION Spec
CONSTANTS
    Space <- Bytes
INVARIANTS
    DumpExact
    DumpInv
CHECK_DEADLOCK FALSE
