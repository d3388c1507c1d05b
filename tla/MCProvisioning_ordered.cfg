\* Every interruption but that of the initial erase.
SPECIFICATION ProvisioningSpec
CONSTANTS
    Devices = {d1, d2}
    s1 = s1
    s2 = s2
    Sets = {s1, s2}
    NoSet = NoSet
    NvsOffset <- MovedNvs
    Reach <- FullReach
    Interruptible = {"prepare", "verify-bootstrap", "flash-production", "verify-production",
                     "flash-recovery", "restore-production"}
SYMMETRY Symmetry
INVARIANTS
    ProvisioningTypeOK
    ReceiptTruthful
PROPERTY LocksOnlyProvisioned
