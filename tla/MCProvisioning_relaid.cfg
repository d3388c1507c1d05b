\* A locked device gets production of a set with another partition table.
SPECIFICATION ProvisioningSpec
CONSTANTS
    Devices = {d1}
    s1 = s1
    s2 = s2
    Sets = {s1, s2}
    NoSet = NoSet
    NvsOffset <- MovedNvs
    Reach <- FullReach
    Interruptible = {}
PROPERTY RestoredKeepsCredentials
