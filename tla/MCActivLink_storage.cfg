\* Every way a save can fail, with crashes and late flushes.
SPECIFICATION Spec
CONSTANTS
    a = a
    b = b
    overlong = overlong
    Empty = Empty
    NumSlots = 2
    Ids = {a, b}
    BadIds = {overlong}
    RepeatWindow = 0
    RelayWindow = 0
    Frames <- StorageFrames
    Captures = {}
    StoredRecords <- AllRecords
    SaveOutcomes = {"ok", "save_failed", "sync_failed"}
    KeyOutcomes = {"saved"}
    HasApiKey = FALSE
    PairingTimeout = 1
    RefreshDelay = 0
    RadioCooldown = 0
    BootTime = 0
INVARIANTS
    TypeOK
    RestartSafe
    SavedUnlessFailed
    RestartLosesNothing
    ReportedChangeIsDurable
    ModeCanSucceed
    StatusReportsMode
    EntitiesMirrorTable
    StaleDiscoveryPending
    BatteryNotUnshown
PROPERTIES
    SlotsNeverChangeHands
    ImplementsRegistry
