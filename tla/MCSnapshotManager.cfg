SPECIFICATION FairSpec
CONSTANTS
    MaxHeight = 3
    Old = 1
    KeepRecent = 1
    MaxChunks = 2
    MaxOffered = 3
    ChunkBuffer = 1
INVARIANTS
    TypeOK
    ListedIsWhole
    OneOperation
    LeftoversExplained
PROPERTIES
    NewestOnly
    RetainsRecent
    CompleteMeansRestored
    SnapshotsEnd
    RestoreChunkReturnsOrStalls
CHECK_DEADLOCK FALSE
