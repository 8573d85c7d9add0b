CONSTANTS
    P = 193
    Generator = 5
    FrameLengths = {3, 5, 8, 17}
    frame_shift = 2
    NumBins = {1, 3}
    sample_rate = 32
    low_freq = 1
    MelScale <- MCMelScale
    Coeff = 7
    Window <- MCWindow
    Epsilon = 1
    LogOf <- MCLogOf
    Lifter <- MCLifter
    Waves <- MCWaves
CHECK_DEADLOCK FALSE
SPECIFICATION Spec
INVARIANTS
    TablesAreTrue
    BlocksAreDfts
    FeatureIsItsFrame
