----------------------------- MODULE MCActivLink -----------------------------
(***************************************************************************)
(* Small instances of the gateway component for TLC.                       *)
(***************************************************************************)
EXTENDS ActivLink

CONSTANTS a, b, overlong

\* One direct press of each kind, from every transmitter.
DirectFrames ==
    {[id |-> i, type |-> "doorbell", secret |-> FALSE, relay |-> FALSE, low |-> l] :
        i \in Ids, l \in BOOLEAN}

\* A device of another type, with an ID of its own, may be in range too.
OtherFrames ==
    {[id |-> i, type |-> "other", secret |-> FALSE, relay |-> FALSE, low |-> FALSE] :
        i \in Ids}

StorageFrames == DirectFrames \cup OtherFrames

Owners(first, second) == [s \in Slots |-> IF s = 0 THEN first ELSE
                                          IF s = 1 THEN second ELSE Empty]

Stored(format, first, second, known, low) ==
    [format |-> format,
     table |-> [ids |-> Owners(first, second), known |-> known, low |-> low]]

\* A new gateway, good records of both formats, and one record for each reason
\* that load_pairings_ has to reject one.
AllRecords ==
    {NoRecord,
     Stored("v2", a, b, {1}, {1}),
     Stored("v2", Empty, a, {}, {}),
     Stored("v1", a, Empty, {}, {}),
     Stored("foreign", a, b, {}, {}),
     Stored("v1", a, a, {}, {}),
     Stored("v2", b, b, {}, {}),
     Stored("v2", overlong, b, {}, {}),
     Stored("v2", a, Empty, {1}, {}),
     Stored("v2", a, b, {0}, {1})}

NewGateway == {NoRecord}
=============================================================================
