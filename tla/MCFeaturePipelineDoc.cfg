CONSTANTS
    FrameLength = 5
    FrameShift = 2
    ChunkSizes <- MCChunkSizes
    ReadCounts <- MCReadCounts
    SizeModulus = 16
    MaxSamples = 12
SPECIFICATION Spec
INVARIANT BlocksOnlyWhenEmpty
