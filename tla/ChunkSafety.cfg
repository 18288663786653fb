SPECIFICATION Spec
CONSTANTS
    Tokens <- MCTokens
    Spelling <- MCSpelling
    Lines <- MCLines
    IntMax = 1000
    LenLimit = 16
    MaxBatch = 3
    ChunkSize = 2
    LevelsPerByte = 2
    ByteLimit = 3
    RefReset = 2
    GroupBits = 2
    WordBits = 5
CHECK_DEADLOCK FALSE
INVARIANTS RoundTrip CutChunkFails OtherCodingsAgree
