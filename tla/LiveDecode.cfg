SPECIFICATION LiveSpec
CONSTANTS
    Window = 4
    MaxLive = 2
    MaxChanges = 1
INVARIANTS
    TimingUntorn
    SteadyIsShown
CHECK_DEADLOCK FALSE
