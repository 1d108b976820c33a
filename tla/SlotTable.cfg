SPECIFICATION SlotsSpec
CONSTANTS
    Burst = 2
    Top = 5
    MaxVersion = 1
    LinkStart = 0
    TableStart = 2
    Slots = 4
    Ids = {0, 1, 2}
INVARIANTS ReadsSpan WritesSpan SlotsAreCounted
PROPERTY SlotsEnd
CHECK_DEADLOCK FALSE
