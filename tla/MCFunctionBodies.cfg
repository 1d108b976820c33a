SPECIFICATION BodiesSpec
CONSTANTS
    Bytes = {0, 1, 2, 4, 17, 18, 34, 96, 115, 251}
    Size = 4
    Images <- MCImages
    Vectors <- MCVectors
    Cap = 4
    MaxIns = 3
INVARIANTS MapIsRight LostOnlyBy BodiesAreRight WalksAreReachable
PROPERTY WalksEnd
CHECK_DEADLOCK FALSE
