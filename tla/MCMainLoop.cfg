\* A clock of eight ticks, all windows shorter; a stack with two networks.
SPECIFICATION MainLoopSpec
CONSTANTS
    Wrap = 8
    PairingTimeout = 3
    RadioCooldown = 2
    RepeatWindow = 2
    RelayWindow = 3
    DiagnosticPeriod = 3
    MaxDelay = 2
    Networks = {n1, n2}
    Unavailable = Unavailable
    Configured = {"attached", "role", "partition_id", "parent_rloc16", "router_table"}
    LockWait = 2
INVARIANTS
    TimersTellTime
    SurfaceOfOneMoment
    LockGivenBack
PROPERTIES
    NothingTooSoon
    UpdateReturns
