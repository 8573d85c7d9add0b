CONSTANTS
    chunk_samples = 2
    Buffered = 3
    MaxSamples = 7
SPECIFICATION Spec
INVARIANTS
    NoSampleLost
    NoReadAfterClose
PROPERTY ThreadEnds
