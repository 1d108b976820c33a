SPECIFICATION Spec
CONSTANTS
    Ports = 2
    OsIsLocal = TRUE
    Numbers = 3
    Requests <- MCRequests
    MaxTransfer = 4096
    MaxPlugs = 2
    MaxShort = 1
INVARIANT HubAnswers
CHECK_DEADLOCK FALSE
