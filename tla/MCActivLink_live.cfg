\* Liveness: timers, restarts, the API key and the radio.
SPECIFICATION Spec
CONSTANTS
    a = a
    b = b
    overlong = overlong
    Empty = Empty
    NumSlots = 1
    Ids = {a, b}
    BadIds = {overlong}
    RepeatWindow = 0
    RelayWindow = 0
    Frames <- StorageFrames
    Captures = {"noise", "plausible", "collapsed"}
    StoredRecords <- NewGateway
    SaveOutcomes = {"ok", "sync_failed"}
    KeyOutcomes = {"saved", "failed"}
    HasApiKey = TRUE
    PairingTimeout = 1
    RefreshDelay = 1
    RadioCooldown = 1
    BootTime = 0
PROPERTIES
    ModeEnds
    DiscoveryCatchesUp
    RecoveryHappens
