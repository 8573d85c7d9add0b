CONSTANTS
    window_frames = 3
    zero = zero
    a = a
    b = b
    misfit = misfit
    Zero = zero
    Frames <- MCFrames
    Misfits = {misfit}
    Blocks <- MCBlocks
CONSTRAINT HistoryIsShort
SPECIFICATION Spec
INVARIANTS
    WindowIsLatest
    RingIsLatest
