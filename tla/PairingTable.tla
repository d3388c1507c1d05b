---------------------------- MODULE PairingTable ----------------------------
(***************************************************************************)
(* The runtime pairing table (components/honeywell_activlink/pairing.cpp): *)
(* a fixed array of transmitter IDs, one per Home Assistant sub-device     *)
(* slot, and two bit masks that remember the LOWBAT flag of each slot.     *)
(*                                                                         *)
(* The table is a value and every method of the class an operator on it,   *)
(* so the same definitions serve the gateway's RAM, the record in flash    *)
(* and the proofs.  A mask is the set of the slots whose bit is set.       *)
(***************************************************************************)
EXTENDS Integers, FiniteSetsExt

CONSTANTS
    NumSlots,   \* MAX_PAIRED_BUTTONS
    Ids,        \* transmitter IDs that fit in 20 bits
    BadIds,     \* larger values: no frame carries one, a stored record may
    Empty       \* EMPTY_ACTIVLINK_ID

ASSUME TableAssumption ==
    /\ NumSlots \in Nat \ {0}
    /\ Empty \notin Ids \cup BadIds
    /\ Ids \cap BadIds = {}

Slots == 0 .. NumSlots - 1

(***************************************************************************)
(* Whatever the class can hold or be handed, valid or not.                 *)
(***************************************************************************)
Table == [ids   : [Slots -> Ids \cup BadIds \cup {Empty}],
          known : SUBSET Slots,
          low   : SUBSET Slots]

EmptyTable == [ids |-> [s \in Slots |-> Empty], known |-> {}, low |-> {}]

Occupied(t) == {s \in Slots : t.ids[s] # Empty}

Full(t) == Occupied(t) = Slots

Size(t) == Cardinality(Occupied(t))

HoldersOf(t, id) == {s \in Slots : t.ids[s] = id}

IsPaired(t, id) == HoldersOf(t, id) # {}

(***************************************************************************)
(* std::find stops at the first match.  Of an absent ID the code returns   *)
(* -1; the callers here test IsPaired first, as the callers in the code    *)
(* test for a negative index.                                              *)
(***************************************************************************)
Find(t, id) == Min(HoldersOf(t, id))

\* A bug to rule out: the slot before the first empty one.
FirstEmptyOffByOne(t) == IF Find(t, Empty) = 0 THEN 0 ELSE Find(t, Empty) - 1

FirstEmpty(t) == Find(t, Empty)

(***************************************************************************)
(* `add` answers with a result and a slot and may change the table.        *)
(***************************************************************************)
AddResult(t, id) ==
    IF id \notin Ids       THEN "INVALID"
    ELSE IF IsPaired(t, id) THEN "ALREADY_PAIRED"
    ELSE IF Full(t)         THEN "FULL"
    ELSE "ADDED"

\* A bug to rule out: a slot keeps the battery bits of its previous owner.
PutKeepingBattery(t, s, id) == [t EXCEPT !.ids[s] = id]

Put(t, s, id) ==
    [ids   |-> [t.ids EXCEPT ![s] = id],
     known |-> t.known \ {s},
     low   |-> t.low \ {s}]

Add(t, id) ==
    IF AddResult(t, id) = "ADDED" THEN Put(t, FirstEmpty(t), id) ELSE t

Remove(t, id) ==
    IF IsPaired(t, id) THEN Put(t, Find(t, id), Empty) ELSE t

BatteryKnown(t, s) == s \in t.known

BatteryLow(t, s) == s \in t.low

(***************************************************************************)
(* `update_battery` reports whether the remembered state changed; the      *)
(* caller writes flash only then.                                          *)
(***************************************************************************)
BatteryChanges(t, s, low) ==
    /\ t.ids[s] # Empty
    /\ ~BatteryKnown(t, s) \/ BatteryLow(t, s) # low

\* A bug to rule out: the known mask follows the flag instead of being set.
UpdateBatteryKnownIfLow(t, s, low) ==
    IF low THEN [t EXCEPT !.known = @ \cup {s}, !.low = @ \cup {s}]
    ELSE [t EXCEPT !.known = @ \ {s}, !.low = @ \ {s}]

UpdateBattery(t, s, low) ==
    IF t.ids[s] = Empty THEN t
    ELSE [t EXCEPT !.known = @ \cup {s},
                   !.low   = IF low THEN @ \cup {s} ELSE @ \ {s}]

(***************************************************************************)
(* The checks of `restore`, which accepts a stored record or leaves the    *)
(* table as it was.                                                        *)
(***************************************************************************)
Restorable(t) ==
    /\ t.low \subseteq t.known
    /\ t.known \subseteq Occupied(t)
    /\ \A s \in Occupied(t) : t.ids[s] \in Ids
    /\ \A r, s \in Occupied(t) : r # s => t.ids[r] # t.ids[s]

(***************************************************************************)
(* What one slot shows of a table: its owner and its battery.              *)
(***************************************************************************)
BatteryOf(t, s) ==
    IF s \notin t.known THEN "unknown" ELSE IF s \in t.low THEN "low" ELSE "ok"
=============================================================================
