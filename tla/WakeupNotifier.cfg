CONSTANT MaxBrightness = 2
SPECIFICATION Spec
INVARIANTS
    FlagIsBusy
    NotifyIsAsync
    NeverTerminates
    QuietAfterWait
PROPERTY
    PlaybacksEnd
