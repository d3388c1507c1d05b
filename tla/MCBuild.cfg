\* Two runs of the scripts, with every fault; tables of up to three rows;
\* datasets of up to six bytes.
SPECIFICATION BuildSpec
CONSTANTS
    Names = {"app0", "nvs"}
    Implicit = Implicit
    ShortRow = ShortRow
    Tables <- AllTables
    TableOffset = 1
    TableSize = 1
    DataAlignment = 2
    AppAlignment = 4
    Kilo = 2
    NoFault = NoFault
    FactoryApp = 4
    Headroom = 1
    Inputs <- SomeInputs
    Versions = {1, 2}
    MinimumVersion = 2
    Variants <- SomeVariants
    Upstreams <- SomeUpstreams
    NoFile = NoFile
    Torn = Torn
    MaxRuns = 2
    Bytes = {0, 1, 2, 3}
    NotHex = NotHex
    Limit = 5
    Datasets <- AllDatasets
    Required = {1}
    Lengths <- SomeLengths
    MaxRows = 3
    Offsets = {5, 8}
    Numbers = {1}
    MaxBytes = 6
INVARIANTS
    PartitionsApart
    ImplicitRowsFit
    AcceptsWellFormed
    AcceptedSetIsSound
    ReleaseIsSound
CHECK_DEADLOCK FALSE
