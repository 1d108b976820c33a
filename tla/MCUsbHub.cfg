SPECIFICATION Spec
CONSTANTS
    Ports = 2
    OsIsLocal = FALSE
    Numbers = 3
    Requests <- MCRequests
    MaxTransfer = 4096
    MaxPlugs = 2
    MaxShort = 1
INVARIANTS OpensTheHub FileIsImage ReportIsOfOne
PROPERTY RunEndsClosed
CHECK_DEADLOCK FALSE
