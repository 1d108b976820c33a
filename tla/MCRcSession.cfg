SPECIFICATION Spec
CONSTANTS
    Window = 2
    Jobs <- AllJobs
    Retries = 2
    MaxRuns = 2
    Faults = {"aux", "short", "slow", "intr", "kill"}
INVARIANTS
    ReadOnlyInSession
    QuietAtTrigger
    ReadsFaithful
    LeftOpenOnlyIf
    SessionInv
PROPERTIES
    ReadsAtomically
    EveryRunEnds
CHECK_DEADLOCK FALSE
