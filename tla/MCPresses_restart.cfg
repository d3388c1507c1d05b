\* The restart after pairing forgets the press that paired.
SPECIFICATION PressesSpec
CONSTANTS
    a = a
    b = b
    Empty = Empty
    NumSlots = 1
    Ids = {a}
    BadIds = {}
    RepeatWindow = 1
    RelayWindow = 3
    Frames = {}
    Captures = {}
    StoredRecords <- NewGateway
    SaveOutcomes = {"ok"}
    KeyOutcomes = {"saved"}
    HasApiKey = FALSE
    PairingTimeout = 1
    RefreshDelay = 1
    RadioCooldown = 0
    BootTime = 1
    Secrets = {FALSE}
    RelayDelay = 1
    MaxAir = 1
    PowerFails = FALSE
INVARIANT IdentifyingPressNeverRings
