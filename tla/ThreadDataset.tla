--------------------------- MODULE ThreadDataset ----------------------------
(***************************************************************************)
(* The check of a Thread dataset (validate_thread_dataset_tlv of           *)
(* scripts/firmware_security.py), a sequence of type, length and value.    *)
(* A step reads one of them; the values play no part.                      *)
(***************************************************************************)
EXTENDS Integers, Sequences, FiniteSets

CONSTANTS
    Bytes,      \* 0 .. 255
    Datasets,   \* what may be checked: byte sequences and NotHex
    NotHex,     \* a placeholder, or anything else that is no hexadecimal text
    Limit,      \* 254
    Required,   \* _REQUIRED_BOOTSTRAP_TLVS
    Lengths     \* _DATASET_TLV_LENGTHS: least and greatest length of known types

ASSUME DatasetAssumption ==
    /\ Bytes \subseteq Nat /\ Limit \in Nat
    /\ \A input \in Datasets : input = NotHex \/ input \in Seq(Bytes)

VARIABLES
    raw,       \* the bytes
    at,        \* cursor: the bytes read so far
    found,     \* the length of each type found so far
    checking   \* "running", "accepted" or, when it raised, "rejected"

datasetVars == <<raw, at, found, checking>>

-----------------------------------------------------------------------------
Reject == checking' = "rejected" /\ UNCHANGED <<raw, at, found>>

BeginCheck ==
    /\ checking = "idle"
    /\ IF raw = NotHex \/ Len(raw) > Limit
       THEN Reject
       ELSE checking' = "running" /\ UNCHANGED <<raw, at, found>>

\* A bug to rule out: the value is not known to be there.
ReadTlvHeaderOnly ==
    /\ checking = "running"
    /\ at < Len(raw)
    /\ IF at + 2 > Len(raw) \/ raw[at + 1] \in DOMAIN found
       THEN Reject
       ELSE /\ found' = [type \in DOMAIN found \cup {raw[at + 1]} |->
                            IF type = raw[at + 1] THEN raw[at + 2] ELSE found[type]]
            /\ at' = at + 2 + raw[at + 2]
            /\ UNCHANGED <<raw, checking>>

ReadTlv ==
    /\ checking = "running"
    /\ at < Len(raw)
    /\ IF \/ at + 2 > Len(raw)
          \/ at + 2 + raw[at + 2] > Len(raw)
          \/ raw[at + 1] \in DOMAIN found
       THEN Reject
       ELSE /\ found' = [type \in DOMAIN found \cup {raw[at + 1]} |->
                            IF type = raw[at + 1] THEN raw[at + 2] ELSE found[type]]
            /\ at' = at + 2 + raw[at + 2]
            /\ UNCHANGED <<raw, checking>>

LengthAllowed(type, length) ==
    type \in DOMAIN Lengths => Lengths[type][1] <= length /\ length <= Lengths[type][2]

Conclude ==
    /\ checking = "running"
    /\ at >= Len(raw)
    /\ checking' = IF /\ Required \subseteq DOMAIN found
                      /\ \A type \in DOMAIN found : LengthAllowed(type, found[type])
                   THEN "accepted" ELSE "rejected"
    /\ UNCHANGED <<raw, at, found>>

DatasetInit ==
    /\ raw \in Datasets
    /\ at = 0
    /\ found = <<>>
    /\ checking = "idle"

DatasetNext == BeginCheck \/ ReadTlv \/ Conclude

DatasetSpec == DatasetInit /\ [][DatasetNext]_datasetVars

-----------------------------------------------------------------------------
\* The headers of a dataset, if it is one: a set of positions that starts with
\* the first byte, from each of which the length leads to the next or to the
\* end, and which no other way reaches.
Decomposes(headers) ==
    LET next(h) == h + 2 + raw[h + 2]
    IN  /\ \A h \in headers : h + 2 <= Len(raw) /\ next(h) \in headers \cup {Len(raw)}
        /\ \A h \in headers : h = 0 \/ \E g \in headers : next(g) = h
        /\ raw # <<>> => 0 \in headers

\* A dataset is accepted if and only if it can be read to its last byte, with no
\* type twice, with the network key, and with the lengths Thread gives them.
AcceptsWellFormed ==
    checking \in {"accepted", "rejected"} =>
        (checking = "accepted" <=>
            /\ raw # NotHex /\ Len(raw) <= Limit
            /\ \E headers \in SUBSET (0 .. Len(raw) - 1) :
                  /\ Decomposes(headers)
                  /\ \A g, h \in headers : raw[g + 1] = raw[h + 1] => g = h
                  /\ Required \subseteq {raw[h + 1] : h \in headers}
                  /\ \A h \in headers : LengthAllowed(raw[h + 1], raw[h + 2]))
=============================================================================
