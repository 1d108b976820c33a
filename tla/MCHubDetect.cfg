SPECIFICATION Spec
CONSTANTS
    Displays = 2
    Nodes = 2
    Answers <- MCAnswers
    MaxChanges = 1
INVARIANTS HubIsFound ChosenIsBest HandlesInUse
CHECK_DEADLOCK FALSE
