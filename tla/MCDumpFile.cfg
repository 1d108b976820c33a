SPECIFICATION FileSpec
CONSTANTS
    Lines <- VmmToolLines
    MaxLines = 4
    Addr <- Addresses
    Value <- Values
    RowLen = 2
INVARIANTS
    SectionIsParsed
    RoundTrip
    CutHarmsLastOnly
    BlobIsPlaced
CHECK_DEADLOCK FALSE
