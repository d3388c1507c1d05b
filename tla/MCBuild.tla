------------------------------ MODULE MCBuild -------------------------------
(***************************************************************************)
(* A small instance of the build scripts for TLC.  The layout of any table *)
(* and the check of a Thread dataset share nothing with a run of the       *)
(* scripts; a behaviour is one of the three, with the others at rest.      *)
(***************************************************************************)
EXTENDS Preparation, ThreadDataset, TLC

CONSTANTS
    MaxRows,     \* bound: rows of a table
    Offsets,     \* explicit offsets that are tried
    Numbers,     \* and numbers in sizes
    MaxBytes     \* bound: bytes of a dataset

VARIABLE part    \* what this behaviour is one of

AllDatasets == UNION {[1 .. n -> Bytes] : n \in 0 .. MaxBytes} \cup {NotHex}

\* Type 1 is required; types 0 and 1 have known lengths, type 2 has not.
SomeLengths == 0 :> <<1, 1>> @@ 1 :> <<1, 2>>

-----------------------------------------------------------------------------
Partition(name, app, number) ==
    [name |-> name, app |-> app, offset |-> Implicit, number |-> number, suffix |-> "K"]

GoodTable == <<Partition("app0", TRUE, 3), Partition("nvs", FALSE, 1)>>

\* Good ones, and ones with NVS in the way, too small, or without a partition.
SomeTables ==
    {GoodTable,
     <<Partition("app0", TRUE, 4), Partition("nvs", FALSE, 1)>>,
     <<Partition("nvs", FALSE, 1), Partition("app0", TRUE, 3)>>,
     <<Partition("app0", TRUE, 1), Partition("nvs", FALSE, 1)>>,
     <<Partition("app0", TRUE, 3)>>,
     <<Partition("nvs", FALSE, 1)>>,
     <<ShortRow>>}

Rows ==
    [name : Names, app : BOOLEAN, offset : {Implicit} \cup Offsets,
     number : Numbers, suffix : {"none", "K", "M"}] \cup {ShortRow}

AllTables == SomeTables \cup UNION {[1 .. n -> Rows] : n \in 0 .. MaxRows}

\* Everything good, everything bad, and each input bad alone.
SomeInputs ==
    {ValidInputs,
     [ValidInputs EXCEPT !.signing_key = "absent"],
     [ValidInputs EXCEPT !.signing_key = "readable by others"],
     [ValidInputs EXCEPT !.secrets = "no mapping"],
     [ValidInputs EXCEPT !.api_key = "zero or short"],
     [ValidInputs EXCEPT !.ota_password = "short"]}

SomeUpstreams ==
    [ApiSources -> {"known"}]
        \cup {"api_pb2.h" :> "known" @@ "api_connection.cpp" :> state : state \in {"changed", "gone"}}

Variant(t, size, fault) == [table |-> t, size |-> size, fault |-> fault]

\* The second size is too large for any application partition.
SomeVariants ==
    {Variant(t, 4, NoFault) : t \in SomeTables}
        \cup {Variant(GoodTable, 6, NoFault)}
        \cup {Variant(GoodTable, 4, fault) : fault \in Faults}

-----------------------------------------------------------------------------
DatasetAtRest == raw = <<>> /\ at = 0 /\ found = <<>> /\ checking = "idle"

BuildInit ==
    /\ PreparationInit
    /\ \/ part = "scripts" /\ LayoutAtRest /\ DatasetAtRest
       \/ part = "layout" /\ LayoutInit /\ DatasetAtRest
       \/ part = "dataset" /\ LayoutAtRest /\ DatasetInit

BuildNext ==
    /\ UNCHANGED part
    /\ \/ part = "scripts" /\ PreparationNext /\ UNCHANGED datasetVars
       \/ part = "layout" /\ LayoutNext /\ UNCHANGED <<hostVars, datasetVars>>
       \/ part = "dataset" /\ DatasetNext /\ UNCHANGED preparationVars

BuildSpec == BuildInit /\ [][BuildNext]_<<part, preparationVars, datasetVars>>
=============================================================================
