CONSTANTS
    NumWakeWords = 2
    Top = 4
    High = 3
    Medium = 2
    MediumHits = 2
    Release = 1
    ReleaseLow = 3
    Outputs <- MCOutputs
    Ranges <- MCRanges
CONSTRAINT HistoryIsShort
SPECIFICATION Spec
INVARIANTS
    StreaksAreRuns
    LowCountIsRun
    TriggerFrameIsReal
PROPERTY ImplementsPolicy
