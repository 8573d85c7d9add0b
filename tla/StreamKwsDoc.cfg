CONSTANTS
    chunk_samples = 2
    Buffered = 2
    MaxSamples = 6
    FrameLength = 2
    FrameShift = 1
    MaxBrightness = 1
    stride_frames = 2
SPECIFICATION Spec
INVARIANT CtrlCIsNormal
