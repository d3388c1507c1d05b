\* Two buttons, two slots, both kinds of press, saves that may fail.
SPECIFICATION PressesSpec
CONSTANTS
    a = a
    b = b
    Empty = Empty
    NumSlots = 2
    Ids = {a, b}
    BadIds = {}
    RepeatWindow = 1
    RelayWindow = 2
    Frames = {}
    Captures = {}
    StoredRecords <- NewGateway
    SaveOutcomes = {"ok", "save_failed"}
    KeyOutcomes = {"saved"}
    HasApiKey = FALSE
    PairingTimeout = 1
    RefreshDelay = 1
    RadioCooldown = 0
    BootTime = 1
    Secrets = {TRUE, FALSE}
    RelayDelay = 1
    MaxAir = 2
    PowerFails = TRUE
SYMMETRY Symmetry
INVARIANTS
    PressRingsOnce
    IdentifyingPressIsSilent
    EmptySlotRemembersNothing
