CONSTANTS
    window_frames = 3
    Models <- MCModels
    Options <- MCOptions
    frame_length = 5
    frame_shift = 2
    NumWakeWords = 1
    Top = 2
    Levels = {0, 1, 2}
    High = 2
    Medium = 1
    MediumHits = 2
    Release = 1
    ReleaseLow = 2
    MaxFrames = 6
CONSTRAINT StreamIsShort
CHECK_DEADLOCK FALSE
SPECIFICATION Spec
INVARIANTS
    PushNeverFails
    HistoryIsWindow
    JudgedOnce
    KeywordTimeIsReal
    RearmedByQuiet
