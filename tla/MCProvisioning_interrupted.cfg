\* A second bootstrap of a verified device that is interrupted.
SPECIFICATION ProvisioningSpec
CONSTANTS
    Devices = {d1}
    s1 = s1
    s2 = s2
    Sets = {s1}
    NoSet = NoSet
    NvsOffset <- MovedNvs
    Reach <- FullReach
    Interruptible = {"flash-bootstrap"}
PROPERTY LocksOnlyProvisioned
