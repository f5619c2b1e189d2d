SPECIFICATION FairSpec
CONSTANTS
    MaxHeight = 1
    Old = 0
    KeepRecent = 1
    MaxChunks = 1
    MaxOffered = 3
    ChunkBuffer = 1
PROPERTY
    RestoreChunkReturns
CHECK_DEADLOCK FALSE
