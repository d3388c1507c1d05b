\* Presses 1 s apart and more.
SPECIFICATION ReceptionSpec
CONSTANTS
    Direct = direct
    Relayed = relayed
    Frames = {direct, relayed}
    NoFrame = NoFrame
    Captures <- Broadcasts
    MaxCandidates = 8
    BurstGap = 6
    MinimumRepeats = 4
    CountLimit = 255
    RepeatWindow = 1
    RelayWindow = 16
    RelayFirst = 4
    RelayLast = 6
    Spacing = 4
INVARIANT EveryPressRingsOnce
