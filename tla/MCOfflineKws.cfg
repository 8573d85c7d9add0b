CONSTANTS
    Models <- MCModels
    Value <- MCValue
    Files <- MCFiles
    MaxGarbage = 3
    FrameLength = 2
    FrameShift = 1
    FeatureDims = {2, 3}
    BatchSizes <- MCBatchSizes
    SizeModulus = 16
SPECIFICATION Spec
INVARIANTS
    LinesAreTheirFrames
    AsOnePass
    TensorIsFeatures
PROPERTY Ends
