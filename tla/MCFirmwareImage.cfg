SPECIFICATION ImageSpec
CONSTANTS
    Blobs <- MCBlobs
    Block = 4
    Page = 4
    Pieces = 4
INVARIANTS SectionsPartition ScansFindAll LostOnlyByCode
CHECK_DEADLOCK FALSE
