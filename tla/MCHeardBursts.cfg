\* Three frames in any order compete for two candidates.
SPECIFICATION HearingSpec
CONSTANTS
    Frames = {f, g, h}
    NoFrame = NoFrame
    Captures <- MixedCaptures
    MaxCandidates = 2
    BurstGap = 1
    MinimumRepeats = 2
    CountLimit = 3
SYMMETRY Symmetry
INVARIANTS
    DecoderTypeOK
    EmittedOnlyHeard
    ExactConsensus
