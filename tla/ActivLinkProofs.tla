--------------------------- MODULE ActivLinkProofs ---------------------------
(***************************************************************************)
(* Proofs about the gateway component, for any number of slots, any set of *)
(* transmitters and frames, any content of flash, any pattern of failed    *)
(* saves and any time windows.                                             *)
(***************************************************************************)
EXTENDS ActivLink, Extrema, FiniteSetTheorems

(***************************************************************************)
(* The pairing table: what its methods return and preserve, for every      *)
(* number of slots and every set of IDs.                                   *)
(***************************************************************************)

\* find() of an ID that is in the table returns a slot that holds it.
LEMMA FindHolds ==
    ASSUME NEW t \in Table, NEW id, IsPaired(t, id)
    PROVE  Find(t, id) \in Slots /\ t.ids[Find(t, id)] = id
<1>1. HoldersOf(t, id) \in SUBSET Nat
    BY TableAssumption DEF HoldersOf, Slots
<1>2. Find(t, id) \in HoldersOf(t, id)
    BY <1>1, MinInSet DEF Find, IsPaired
<1>3. QED
    BY <1>2 DEF HoldersOf

\* A table that is not full has a first empty slot.
LEMMA FirstEmptyIsEmpty ==
    ASSUME NEW t \in Table, ~Full(t)
    PROVE  FirstEmpty(t) \in Slots /\ t.ids[FirstEmpty(t)] = Empty
<1>1. IsPaired(t, Empty)
    BY DEF Full, Occupied, IsPaired, HoldersOf
<1>2. QED
    BY <1>1, FindHolds DEF FirstEmpty

LEMMA EmptyTableRestorable ==
    EmptyTable \in Table /\ Restorable(EmptyTable)
BY DEF EmptyTable, Table, Restorable, Occupied

\* Writing a fresh ID into a slot, or emptying it, leaves a table that
\* restore() accepts.
LEMMA PutRestorable ==
    ASSUME NEW t \in Table, Restorable(t), NEW s \in Slots,
           NEW id \in Ids \cup {Empty},
           id = Empty \/ ~IsPaired(t, id)
    PROVE  /\ Put(t, s, id) \in Table
           /\ Restorable(Put(t, s, id))
<1> DEFINE p == Put(t, s, id)
<1>1. /\ p.ids = [t.ids EXCEPT ![s] = id]
      /\ p.known = t.known \ {s}
      /\ p.low = t.low \ {s}
    BY DEF Put
<1>2. p \in Table
    BY DEF Put, Table
<1>3. /\ p.low \subseteq p.known
      /\ p.known \subseteq Occupied(p)
    BY <1>1, <1>2 DEF Table, Restorable, Occupied
<1>4. \A r \in Occupied(p) : p.ids[r] \in Ids
    BY <1>1, <1>2 DEF Table, Restorable, Occupied
<1>5. \A q, r \in Occupied(p) : q # r => p.ids[q] # p.ids[r]
    BY <1>1, <1>2 DEF Table, Restorable, Occupied, IsPaired, HoldersOf
<1>6. QED
    BY <1>2, <1>3, <1>4, <1>5 DEF Restorable

\* update_battery() leaves a table that restore() accepts and owners alone.
LEMMA UpdateBatteryRestorable ==
    ASSUME NEW t \in Table, Restorable(t), NEW s \in Slots, NEW low \in BOOLEAN
    PROVE  /\ UpdateBattery(t, s, low) \in Table
           /\ Restorable(UpdateBattery(t, s, low))
           /\ UpdateBattery(t, s, low).ids = t.ids
           /\ \A r \in Slots \ {s} :
                  BatteryOf(UpdateBattery(t, s, low), r) = BatteryOf(t, r)
<1> DEFINE u == UpdateBattery(t, s, low)
<1>1. CASE t.ids[s] = Empty
    BY <1>1 DEF UpdateBattery
<1>2. CASE t.ids[s] # Empty
    <2>1. /\ u.ids = t.ids
          /\ u.known = t.known \cup {s}
          /\ u.low = IF low THEN t.low \cup {s} ELSE t.low \ {s}
        BY <1>2 DEF UpdateBattery, Table
    <2>2. u \in Table
        BY <1>2 DEF UpdateBattery, Table
    <2>3. Restorable(u)
        BY <1>2, <2>1, <2>2 DEF Restorable, Occupied, Table
    <2>4. \A r \in Slots \ {s} : BatteryOf(u, r) = BatteryOf(t, r)
        BY <2>1 DEF BatteryOf
    <2>5. QED
        BY <2>1, <2>2, <2>3, <2>4
<1>3. QED
    BY <1>1, <1>2

(***************************************************************************)
(* Every method of the class keeps the table one that restore() accepts,   *)
(* so whatever is saved can be loaded again.                               *)
(***************************************************************************)
THEOREM MethodsKeepRestorable ==
    ASSUME NEW t \in Table, Restorable(t)
    PROVE  /\ \A id \in Ids \cup BadIds : Restorable(Add(t, id))
           /\ \A id \in Ids \cup BadIds : Restorable(Remove(t, id))
           /\ \A s \in Slots, low \in BOOLEAN : Restorable(UpdateBattery(t, s, low))
<1>1. ASSUME NEW id \in Ids \cup BadIds PROVE Restorable(Add(t, id))
    <2>1. CASE AddResult(t, id) = "ADDED"
        <3>1. id \in Ids /\ ~IsPaired(t, id) /\ ~Full(t)
            BY <2>1 DEF AddResult
        <3>2. FirstEmpty(t) \in Slots
            BY <3>1, FirstEmptyIsEmpty
        <3>3. QED
            BY <2>1, <3>1, <3>2, PutRestorable DEF Add
    <2>2. CASE AddResult(t, id) # "ADDED"
        BY <2>2 DEF Add
    <2>3. QED
        BY <2>1, <2>2
<1>2. ASSUME NEW id \in Ids \cup BadIds PROVE Restorable(Remove(t, id))
    <2>1. CASE IsPaired(t, id)
        <3>1. Find(t, id) \in Slots
            BY <2>1, FindHolds
        <3>2. QED
            BY <2>1, <3>1, PutRestorable DEF Remove
    <2>2. CASE ~IsPaired(t, id)
        BY <2>2 DEF Remove
    <2>3. QED
        BY <2>1, <2>2
<1>3. QED
    BY <1>1, <1>2, UpdateBatteryRestorable

-----------------------------------------------------------------------------
(***************************************************************************)
(* Operators.                                                              *)
(***************************************************************************)
LEMMA SizeType ==
    ASSUME NEW t \in Table
    PROVE  Size(t) \in Nat
<1>1. IsFiniteSet(Slots)
    BY FS_Interval, TableAssumption DEF Slots
<1>2. IsFiniteSet(Occupied(t))
    BY <1>1, FS_Subset DEF Occupied
<1>3. QED
    BY <1>2, FS_CardinalityType DEF Size

LEMMA HorizonType == Horizon \in Nat
BY WindowAssumption DEF Horizon

LEMMA MemoryTypes ==
    /\ ResetMemory \in Memory
    /\ \A m \in Memory, secret \in BOOLEAN : Record(m, secret) \in Memory
    /\ \A m \in Memory : Older(m) \in Memory
<1>1. ResetMemory \in Memory
    BY HorizonType DEF ResetMemory, Memory, Forgotten
<1>2. ASSUME NEW m \in Memory, NEW secret \in BOOLEAN
      PROVE  Record(m, secret) \in Memory
    BY HorizonType DEF Record, Memory
<1>3. ASSUME NEW m \in Memory
      PROVE  Older(m) \in Memory
    <2>1. \A secret \in BOOLEAN :
              (IF m[secret] < Horizon THEN m[secret] + 1 ELSE Horizon) \in 0 .. Horizon
        BY HorizonType DEF Memory
    <2>2. QED
        BY <2>1 DEF Older, Memory
<1>4. QED
    BY <1>1, <1>2, <1>3

LEMMA TimerTypes ==
    \A n \in {PairingTimeout, RefreshDelay, RadioCooldown, BootTime} :
        n \in Nat /\ 0 \in 0 .. n /\ n \in 0 .. n
BY ActivLinkAssumption

LEMMA LeftType ==
    ASSUME NEW n \in Nat, NEW timer \in 0 .. n
    PROVE  Left(timer) \in 0 .. n
BY DEF Left

LEMMA BatteryOfType ==
    ASSUME NEW t, NEW s
    PROVE  BatteryOf(t, s) \in {"unknown", "low", "ok"}
BY DEF BatteryOf

\* What is loaded from flash is a table restore() accepts, whatever is there.
LEMMA DecodeRestorable ==
    ASSUME NEW r \in StoredRecord
    PROVE  Decode(r) \in Table /\ Restorable(Decode(r))
<1>1. r.table \in Table
    BY DEF StoredRecord
<1>2. Legacy(r.table) \in Table
    BY <1>1 DEF Legacy, Table
<1>3. QED
    BY <1>1, <1>2, EmptyTableRestorable DEF Decode

\* What is saved is loaded again unchanged.
LEMMA DecodeSaved ==
    ASSUME NEW t \in Table, Restorable(t)
    PROVE  Record2(t) \in StoredRecord /\ Decode(Record2(t)) = t
BY DEF Record2, StoredRecord, Decode

LEMMA NoRecordStored == NoRecord \in StoredRecord
BY EmptyTableRestorable DEF NoRecord, StoredRecord

\* A table restore() accepts holds no overlong ID and can be shown.
LEMMA ShownTypes ==
    ASSUME NEW t \in Table, Restorable(t), shown \in Shown, NEW s \in Slots
    PROVE  /\ t.ids \in [Slots -> Ids \cup {Empty}]
           /\ NothingShown \in Shown
           /\ ShowAll(t) \in Shown
           /\ ShowSlot(s, t) \in Shown
           /\ \A low \in BOOLEAN : ShowBattery(s, low) \in Shown
<1>1. t.ids \in [Slots -> Ids \cup {Empty}]
    BY DEF Table, Restorable, Occupied
<1>2. Size(t) \in Nat
    BY SizeType
<1>3. NothingShown \in Shown
    BY DEF NothingShown, Shown
<1>4. ShowAll(t) \in Shown
    BY <1>1, <1>2, BatteryOfType DEF ShowAll, Shown
<1>5. ShowSlot(s, t) \in Shown
    <2>1. t.ids[s] \in Ids \cup {Empty}
        BY <1>1
    <2>2. BatteryOf(t, s) \in {"unknown", "low", "ok"}
        BY BatteryOfType
    <2>3. QED
        BY <1>2, <2>1, <2>2 DEF ShowSlot, Shown
<1>6. ASSUME NEW low \in BOOLEAN PROVE ShowBattery(s, low) \in Shown
    <2>1. (IF low THEN "low" ELSE "ok") \in {"unknown", "low", "ok"}
        OBVIOUS
    <2>2. QED
        BY <2>1 DEF ShowBattery, Shown
<1>7. QED
    BY <1>1, <1>3, <1>4, <1>5, <1>6

-----------------------------------------------------------------------------
(***************************************************************************)
(* Type correctness.                                                       *)
(***************************************************************************)
LEMMA InitType == Init => TypeOK
<1> SUFFICES ASSUME Init PROVE TypeOK
    OBVIOUS
<1>1. nvs \in StoredRecord
    BY ActivLinkAssumption DEF Init
<1>2. table \in Table /\ Restorable(table)
    BY <1>1, DecodeRestorable DEF Init
<1>3. dedup \in [Slots -> Memory]
    BY MemoryTypes DEF Init
<1>4. shown \in Shown
    BY DEF Init, NothingShown, Shown
<1>5. /\ bootIn \in 0 .. BootTime
      /\ deadline \in 0 .. PairingTimeout
      /\ refreshIn \in 0 .. RefreshDelay
      /\ cooldown \in 0 .. RadioCooldown
    BY TimerTypes DEF Init
<1>6. QED
    BY <1>1, <1>2, <1>3, <1>4, <1>5, NoRecordStored DEF Init, TypeOK

\* A save or its undoing leaves storage and table well typed.
LEMMA CommitType ==
    ASSUME TypeOK, NEW t \in Table, Restorable(t), NEW outcome \in SaveOutcomes,
           Commit(t, outcome)
    PROVE  /\ nvs' \in StoredRecord
           /\ staged' \in StoredRecord
           /\ saveFailed' \in BOOLEAN
           /\ unsaved' \subseteq Table
           /\ table' \in Table
           /\ Restorable(table')
<1>1. Record2(t) \in StoredRecord
    BY DecodeSaved
<1>2. outcome \in {"ok", "save_failed", "sync_failed"}
    BY ActivLinkAssumption
<1>3. CASE outcome = "ok"
    BY <1>1, <1>3, NoRecordStored DEF Commit, Save, TypeOK
<1>4. CASE outcome # "ok"
    BY <1>1, <1>2, <1>4 DEF Commit, Save, TypeOK
<1>5. QED
    BY <1>3, <1>4

\* The table, the slot and the memory of every change of owners.
LEMMA ChangeOwnersType ==
    ASSUME TypeOK, NEW t \in Table, Restorable(t), NEW s \in Slots, NEW m \in Memory,
           NEW outcome \in SaveOutcomes, ChangeOwners(t, s, m, outcome)
    PROVE  TypeOK'
<1>1. /\ nvs' \in StoredRecord
      /\ staged' \in StoredRecord
      /\ saveFailed' \in BOOLEAN
      /\ unsaved' \subseteq Table
      /\ table' \in Table
      /\ Restorable(table')
    BY CommitType DEF ChangeOwners
<1>2. UNCHANGED <<up, bootIn, advertised, recoveryPending, cooldown, apiKey, deadline>>
    BY DEF ChangeOwners, Leave, power, radio
<1>3. /\ mode' \in {"idle", "pair", "remove"}
      /\ status' \in {"idle", "pair", "remove", "saved", "unsaved"}
    BY DEF ChangeOwners, Leave
<1>4. dedup' \in [Slots -> Memory]
    BY DEF ChangeOwners, TypeOK
<1>5. shown' \in Shown
    BY ShownTypes DEF ChangeOwners, TypeOK
<1>6. refreshPending' \in BOOLEAN /\ refreshIn' \in 0 .. RefreshDelay
    <2>1. CASE outcome = "ok"
        BY <2>1, TimerTypes DEF ChangeOwners, ScheduleRefresh, TypeOK
    <2>2. CASE outcome # "ok"
        BY <2>2 DEF ChangeOwners, refresh, TypeOK
    <2>3. QED
        BY <2>1, <2>2
<1>7. QED
    BY <1>1, <1>2, <1>3, <1>4, <1>5, <1>6 DEF TypeOK

\* The tables that the handlers try to save are ones restore() accepts.
LEMMA RemoveRestorable ==
    ASSUME NEW t \in Table, Restorable(t), NEW id, IsPaired(t, id)
    PROVE  /\ Find(t, id) \in Slots
           /\ Remove(t, id) = Put(t, Find(t, id), Empty)
           /\ Remove(t, id) \in Table
           /\ Restorable(Remove(t, id))
<1>1. Find(t, id) \in Slots
    BY FindHolds
<1>2. QED
    BY <1>1, PutRestorable DEF Remove

LEMMA PairRestorable ==
    ASSUME NEW t \in Table, Restorable(t), NEW id \in Ids, NEW low \in BOOLEAN,
           AddResult(t, id) = "ADDED"
    PROVE  /\ FirstEmpty(t) \in Slots
           /\ t.ids[FirstEmpty(t)] = Empty
           /\ Add(t, id) = Put(t, FirstEmpty(t), id)
           /\ UpdateBattery(Add(t, id), FirstEmpty(t), low) \in Table
           /\ Restorable(UpdateBattery(Add(t, id), FirstEmpty(t), low))
           /\ UpdateBattery(Add(t, id), FirstEmpty(t), low).ids
                  = [t.ids EXCEPT ![FirstEmpty(t)] = id]
<1>1. ~IsPaired(t, id) /\ ~Full(t)
    BY DEF AddResult
<1>2. FirstEmpty(t) \in Slots /\ t.ids[FirstEmpty(t)] = Empty
    BY <1>1, FirstEmptyIsEmpty
<1>3. Add(t, id) = Put(t, FirstEmpty(t), id)
    BY DEF Add
<1>4. Add(t, id) \in Table /\ Restorable(Add(t, id))
    BY <1>1, <1>2, <1>3, PutRestorable
<1>5. Add(t, id).ids = [t.ids EXCEPT ![FirstEmpty(t)] = id]
    BY <1>3 DEF Put
<1>6. QED
    BY <1>2, <1>3, <1>4, <1>5, UpdateBatteryRestorable

LEMMA ControlsType ==
    ASSUME TypeOK, Controls
    PROVE  TypeOK'
<1> USE TimerTypes
<1>1. CASE StartPairing
    BY <1>1 DEF StartPairing, Leave, Enter, TypeOK, storage, power, entities, refresh, radio
<1>2. CASE StartRemoval
    BY <1>2 DEF StartRemoval, Leave, Enter, TypeOK, storage, power, entities, refresh, radio
<1>3. CASE CancelPairing
    BY <1>3 DEF CancelPairing, Leave, TypeOK, storage, power, entities, refresh, radio
<1>4. ASSUME NEW s \in Slots, NEW outcome \in SaveOutcomes, ForgetSlot(s, outcome)
      PROVE  TypeOK'
    <2>1. CASE table.ids[s] = Empty
        BY <1>4, <2>1 DEF ForgetSlot, Leave, TypeOK, storage, power, entities, refresh, radio
    <2>2. CASE table.ids[s] # Empty
        <3>1. IsPaired(table, table.ids[s])
            BY DEF IsPaired, HoldersOf
        <3>2. /\ Remove(table, table.ids[s]) \in Table
              /\ Restorable(Remove(table, table.ids[s]))
            BY <3>1, RemoveRestorable DEF TypeOK
        <3>3. ChangeOwners(Remove(table, table.ids[s]), s, ResetMemory, outcome)
            BY <1>4, <2>2 DEF ForgetSlot
        <3>4. QED
            BY <3>2, <3>3, ChangeOwnersType, MemoryTypes
    <2>3. QED
        BY <2>1, <2>2
<1>5. QED
    BY <1>1, <1>2, <1>3, <1>4 DEF Controls

\* The frame handlers that change no owner: they may save a battery state.
LEMMA RememberBatteryType ==
    ASSUME TypeOK, NEW s \in Slots, NEW low \in BOOLEAN, NEW outcome \in SaveOutcomes,
           RememberBattery(s, low, outcome)
    PROVE  /\ nvs' \in StoredRecord
           /\ staged' \in StoredRecord
           /\ saveFailed' \in BOOLEAN
           /\ unsaved' \subseteq Table
           /\ table' \in Table
           /\ Restorable(table')
<1>1. CASE BatteryChanges(table, s, low)
    <2>1. /\ UpdateBattery(table, s, low) \in Table
          /\ Restorable(UpdateBattery(table, s, low))
        BY UpdateBatteryRestorable DEF TypeOK
    <2>2. Commit(UpdateBattery(table, s, low), outcome)
        BY <1>1 DEF RememberBattery
    <2>3. QED
        BY <2>1, <2>2, CommitType
<1>2. CASE ~BatteryChanges(table, s, low)
    BY <1>2 DEF RememberBattery, TypeOK, storage
<1>3. QED
    BY <1>1, <1>2

LEMMA FrameFields ==
    ASSUME NEW f \in Frame
    PROVE  f.id \in Ids /\ f.secret \in BOOLEAN /\ f.relay \in BOOLEAN /\ f.low \in BOOLEAN
BY DEF Frame

LEMMA FramesAreFrames == Frames \subseteq Frame
BY ActivLinkAssumption

LEMMA OnReceiveType ==
    ASSUME TypeOK, NEW f \in Frame, NEW outcome \in SaveOutcomes, OnReceive(f, outcome)
    PROVE  TypeOK'
<1> USE FrameFields
<1>1. CASE AlreadyPaired(f, outcome)
    <2> DEFINE s == Find(table, f.id)
    <2>1. s \in Slots
        <3>1. IsPaired(table, f.id)
            BY <1>1 DEF AlreadyPaired, AddResult
        <3>2. QED
            BY <3>1, FindHolds DEF TypeOK
    <2>2. /\ nvs' \in StoredRecord
          /\ staged' \in StoredRecord
          /\ saveFailed' \in BOOLEAN
          /\ unsaved' \subseteq Table
          /\ table' \in Table
          /\ Restorable(table')
        BY <1>1, <2>1, RememberBatteryType DEF AlreadyPaired
    <2>3. dedup' \in [Slots -> Memory]
        <3>1. Record(dedup[s], f.secret) \in Memory
            BY <2>1, MemoryTypes DEF TypeOK
        <3>2. dedup' = [dedup EXCEPT ![s] = Record(dedup[s], f.secret)]
            BY <1>1 DEF AlreadyPaired
        <3>3. QED
            BY <3>1, <3>2 DEF TypeOK
    <2>4. shown' \in Shown
        BY <1>1, <2>1, ShownTypes DEF AlreadyPaired, TypeOK
    <2>5. QED
        BY <1>1, <2>2, <2>3, <2>4 DEF AlreadyPaired, Leave, TypeOK, power, refresh, radio
<1>2. CASE PairButton(f, outcome)
    <2> DEFINE s == FirstEmpty(table)
               t == UpdateBattery(Add(table, f.id), s, f.low)
    <2>1. CASE AddResult(table, f.id) = "ADDED"
        <3>1. s \in Slots /\ t \in Table /\ Restorable(t)
            BY <2>1, PairRestorable DEF TypeOK
        <3>2. Record(dedup[s], f.secret) \in Memory
            BY <3>1, MemoryTypes DEF TypeOK
        <3>3. ChangeOwners(t, s, Record(dedup[s], f.secret), outcome)
            BY <1>2, <2>1 DEF PairButton
        <3> HIDE DEF s, t
        <3>4. QED
            BY <3>1, <3>2, <3>3, ChangeOwnersType
    <2>2. CASE AddResult(table, f.id) # "ADDED"
        BY <1>2, <2>2 DEF PairButton, Leave, TypeOK, storage, power, entities, refresh, radio
    <2>3. QED
        BY <2>1, <2>2
<1>3. CASE RemoveButton(f, outcome)
    <2>1. /\ Find(table, f.id) \in Slots
          /\ Remove(table, f.id) \in Table
          /\ Restorable(Remove(table, f.id))
        BY <1>3, RemoveRestorable DEF RemoveButton, TypeOK
    <2>2. QED
        BY <1>3, <2>1, ChangeOwnersType, MemoryTypes DEF RemoveButton
<1>4. CASE RemoveUnpaired(f)
    BY <1>4 DEF RemoveUnpaired, TypeOK, storage, power, entities, refresh, radio
<1>5. CASE SlotFrame(f, outcome)
    <2> DEFINE s == Find(table, f.id)
    <2>1. s \in Slots
        BY <1>5, FindHolds DEF SlotFrame, TypeOK
    <2>2. /\ nvs' \in StoredRecord
          /\ staged' \in StoredRecord
          /\ saveFailed' \in BOOLEAN
          /\ unsaved' \subseteq Table
          /\ table' \in Table
          /\ Restorable(table')
        BY <1>5, <2>1, RememberBatteryType DEF SlotFrame
    <2>3. dedup' \in [Slots -> Memory]
        <3>1. Record(dedup[s], f.secret) \in Memory
            BY <2>1, MemoryTypes DEF TypeOK
        <3>2. dedup' = [dedup EXCEPT ![s] = Record(dedup[s], f.secret)] \/ dedup' = dedup
            BY <1>5 DEF SlotFrame
        <3>3. QED
            BY <3>1, <3>2 DEF TypeOK
    <2>4. shown' \in Shown
        BY <1>5, <2>1, ShownTypes DEF SlotFrame, TypeOK
    <2>5. QED
        BY <1>5, <2>2, <2>3, <2>4 DEF SlotFrame, TypeOK, power, pairing, refresh, radio
<1>6. QED
    BY <1>1, <1>2, <1>3, <1>4, <1>5 DEF OnReceive

LEMMA RestartType ==
    ASSUME TypeOK, Restart, nvs' \in StoredRecord
    PROVE  TypeOK'
<1>1. NothingShown \in Shown
    BY DEF NothingShown, Shown
<1>2. dedup' \in [Slots -> Memory]
    BY MemoryTypes DEF Restart
<1>3. /\ bootIn' \in 0 .. BootTime
      /\ deadline' \in 0 .. PairingTimeout
      /\ refreshIn' \in 0 .. RefreshDelay
      /\ cooldown' \in 0 .. RadioCooldown
    BY TimerTypes DEF Restart
<1>4. QED
    BY <1>1, <1>2, <1>3, NoRecordStored DEF Restart, TypeOK

LEMMA NextType == TypeOK /\ [Next]_vars => TypeOK'
<1> SUFFICES ASSUME TypeOK, [Next]_vars PROVE TypeOK'
    OBVIOUS
<1>1. CASE Controls
    BY <1>1, ControlsType
<1>2. CASE Receive
    BY <1>2, OnReceiveType, FramesAreFrames DEF Receive
<1>3. CASE ReceiveUndecoded
    BY <1>3 DEF ReceiveUndecoded, OnReceiveUndecoded, TypeOK, storage, power, pairing,
                entities, refresh
<1>4. CASE LoopKeyNotSaved
    BY <1>4 DEF LoopKeyNotSaved, TypeOK, storage, power, pairing, entities, refresh, radio
<1>5. CASE Loop
    <2>1. cooldown' \in 0 .. RadioCooldown
        BY <1>5, TimerTypes DEF Loop, TypeOK
    <2>2. /\ mode' \in {"idle", "pair", "remove"}
          /\ deadline' \in 0 .. PairingTimeout
          /\ status' \in {"idle", "pair", "remove", "saved", "unsaved"}
        BY <1>5 DEF Loop, Leave, TypeOK, pairing
    <2>3. QED
        BY <1>5, <2>1, <2>2 DEF Loop, TypeOK, storage, power, entities, refresh
<1>6. CASE Boot
    <2> PICK outcome \in SaveOutcomes : Setup(outcome)
        BY <1>6 DEF Boot
    <2> DEFINE t == Decode(nvs)
    <2>1. t \in Table /\ Restorable(t)
        BY DecodeRestorable DEF TypeOK
    <2>2. /\ nvs' \in StoredRecord
          /\ staged' \in StoredRecord
          /\ saveFailed' \in BOOLEAN
          /\ unsaved' \subseteq Table
        <3>1. CASE Migrates(nvs)
            <4>1. Save(t, outcome)
                BY <3>1 DEF Setup
            <4>2. Record2(t) \in StoredRecord
                BY <2>1, DecodeSaved
            <4> HIDE DEF t
            <4>3. QED
                BY <2>1, <4>1, <4>2, NoRecordStored DEF Save, TypeOK
        <3>2. CASE ~Migrates(nvs)
            BY <3>2 DEF Setup, TypeOK
        <3>3. QED
            BY <3>1, <3>2
    <2>3. shown' \in Shown
        <3>1. ShowAll(t) \in Shown
            <4>1. PICK s \in Slots : TRUE
                BY TableAssumption DEF Slots
            <4> HIDE DEF t
            <4>2. QED
                BY <2>1, <4>1, ShownTypes DEF TypeOK
        <3>2. QED
            BY <3>1 DEF Setup
    <2>4. table' \in Table /\ Restorable(table')
        BY <2>1 DEF Setup
    <2>5. advertised' \subseteq Slots
        BY DEF Setup, Occupied
    <2>6. QED
        BY <2>2, <2>3, <2>4, <2>5 DEF Setup, TypeOK, pairing, refresh, radio
<1>7. CASE Reboot
    BY <1>7, RestartType DEF Reboot, TypeOK
<1>8. CASE Crash
    BY <1>8, RestartType DEF Crash, TypeOK
<1>9. CASE BackgroundSync
    BY <1>9, NoRecordStored DEF BackgroundSync, TypeOK, power, pairing, entities, refresh, radio
<1>10. CASE Tick
    <2>1. /\ bootIn' \in 0 .. BootTime
          /\ deadline' \in 0 .. PairingTimeout
          /\ refreshIn' \in 0 .. RefreshDelay
          /\ cooldown' \in 0 .. RadioCooldown
        BY <1>10, TimerTypes, LeftType DEF Tick, TypeOK
    <2>2. dedup' \in [Slots -> Memory]
        BY <1>10, MemoryTypes DEF Tick, TypeOK
    <2>3. QED
        BY <1>10, <2>1, <2>2 DEF Tick, TypeOK, storage, entities
<1>11. CASE UNCHANGED vars
    BY <1>11 DEF vars, TypeOK, storage, power, pairing, entities, refresh, radio
<1>12. QED
    BY <1>1, <1>2, <1>3, <1>4, <1>5, <1>6, <1>7, <1>8, <1>9, <1>10, <1>11 DEF Next

(***************************************************************************)
(* TypeOK holds in every reachable state, in particular its conjunct that  *)
(* the table in RAM never holds an ID twice or a battery bit of an empty   *)
(* slot: whatever flash held, whichever saves failed, however handlers and *)
(* restarts interleave.                                                    *)
(***************************************************************************)
THEOREM TypeCorrect == Spec => []TypeOK
<1>1. Init => TypeOK
    BY InitType
<1>2. TypeOK /\ [Next]_vars => TypeOK'
    BY NextType
<1>3. QED
    BY <1>1, <1>2, PTL DEF Spec

-----------------------------------------------------------------------------
(***************************************************************************)
(* Storage.  First, the tables the handlers try to save are one slot apart *)
(* from the table in RAM, and one operation ahead of it: b pairs a button  *)
(* in a slot empty in a, removes one, or has heard its battery.            *)
(***************************************************************************)
Advances(a, b) ==
    \E s \in Slots :
        /\ \A r \in Slots \ {s} :
               a.ids[r] = b.ids[r] /\ BatteryOf(a, r) = BatteryOf(b, r)
        /\ \/ b.ids[s] = Empty
           \/ a.ids[s] \in {b.ids[s], Empty} /\ BatteryOf(b, s) # "unknown"
           \/ a.ids[s] = b.ids[s] /\ BatteryOf(a, s) = BatteryOf(b, s)

LEMMA ApartReflexive ==
    ASSUME NEW t
    PROVE  OneSlotApart(t, t) /\ Advances(t, t)
<1>1. PICK s \in Slots : TRUE
    BY TableAssumption DEF Slots
<1>2. QED
    BY <1>1 DEF OneSlotApart, Advances

LEMMA PutApart ==
    ASSUME NEW t \in Table, NEW s \in Slots, NEW id,
           id = Empty \/ t.ids[s] = Empty
    PROVE  /\ \A r \in Slots \ {s} : /\ Put(t, s, id).ids[r] = t.ids[r]
                                     /\ BatteryOf(Put(t, s, id), r) = BatteryOf(t, r)
           /\ Put(t, s, id).ids[s] = id
           /\ OneSlotApart(Put(t, s, id), t)
           /\ id = Empty => Advances(t, Put(t, s, id))
<1>1. /\ Put(t, s, id).ids = [t.ids EXCEPT ![s] = id]
      /\ Put(t, s, id).known = t.known \ {s}
      /\ Put(t, s, id).low = t.low \ {s}
    BY DEF Put
<1>2. Put(t, s, id).ids[s] = id
    BY <1>1 DEF Table
<1>3. ASSUME NEW r \in Slots \ {s}
      PROVE  /\ Put(t, s, id).ids[r] = t.ids[r]
             /\ BatteryOf(Put(t, s, id), r) = BatteryOf(t, r)
    BY <1>1 DEF Table, BatteryOf
<1>4. QED
    BY <1>2, <1>3 DEF OneSlotApart, Advances

LEMMA UpdateBatteryApart ==
    ASSUME NEW t \in Table, Restorable(t), NEW s \in Slots, NEW low \in BOOLEAN
    PROVE  /\ OneSlotApart(UpdateBattery(t, s, low), t)
           /\ Advances(t, UpdateBattery(t, s, low))
<1> DEFINE u == UpdateBattery(t, s, low)
<1>1. /\ u.ids = t.ids
      /\ \A r \in Slots \ {s} : BatteryOf(u, r) = BatteryOf(t, r)
    BY UpdateBatteryRestorable
<1>2. t.ids[s] = Empty \/ BatteryOf(u, s) # "unknown"
    BY DEF UpdateBattery, BatteryOf, Table
<1> HIDE DEF u
<1>3. OneSlotApart(u, t) /\ Advances(t, u)
    BY <1>1, <1>2 DEF OneSlotApart, Advances
<1>4. QED
    BY <1>3 DEF u

LEMMA PairApart ==
    ASSUME NEW t \in Table, Restorable(t), NEW id \in Ids, NEW low \in BOOLEAN,
           AddResult(t, id) = "ADDED"
    PROVE  /\ OneSlotApart(UpdateBattery(Add(t, id), FirstEmpty(t), low), t)
           /\ Advances(t, UpdateBattery(Add(t, id), FirstEmpty(t), low))
<1> DEFINE s == FirstEmpty(t)
           p == Put(t, s, id)
           u == UpdateBattery(p, s, low)
<1>1. s \in Slots /\ t.ids[s] = Empty /\ Add(t, id) = p
    BY PairRestorable
<1>2. p \in Table /\ Restorable(p)
    BY <1>1, PutRestorable DEF AddResult
<1>3. \A r \in Slots \ {s} : p.ids[r] = t.ids[r] /\ BatteryOf(p, r) = BatteryOf(t, r)
    BY <1>1, PutApart
<1>4. \A r \in Slots \ {s} : u.ids[r] = t.ids[r] /\ BatteryOf(u, r) = BatteryOf(t, r)
    <2> HIDE DEF p, s
    <2>1. QED
        BY <1>1, <1>2, <1>3, UpdateBatteryRestorable
<1>5. BatteryOf(u, s) # "unknown"
    <2>1. p.ids[s] # Empty
        BY <1>1, TableAssumption DEF Put, Table
    <2>2. QED
        BY <1>2, <2>1 DEF UpdateBattery, BatteryOf, Table
<1> HIDE DEF s, u
<1>6. OneSlotApart(u, t) /\ Advances(t, u)
    BY <1>1, <1>4, <1>5 DEF OneSlotApart, Advances
<1>7. QED
    BY <1>1, <1>6 DEF s, u

(***************************************************************************)
(* The ways a step can touch storage and the table.                        *)
(***************************************************************************)
Untouched ==
    /\ UNCHANGED <<nvs, staged, saveFailed, unsaved, up, table>>
    /\ status' # status => status' # "saved"

CommitsOwners ==
    \E t \in Table, outcome \in SaveOutcomes :
        /\ Restorable(t)
        /\ OneSlotApart(t, table)
        /\ Advances(table, t)
        /\ Commit(t, outcome)
        /\ UNCHANGED up
        /\ status' = IF outcome = "ok" THEN "saved" ELSE "unsaved"

CommitsBattery ==
    \E t \in Table, outcome \in SaveOutcomes :
        /\ Restorable(t)
        /\ t.ids = table.ids
        /\ OneSlotApart(t, table)
        /\ Advances(table, t)
        /\ Commit(t, outcome)
        /\ UNCHANGED up
        /\ status' # status => status' # "saved"

Restarts ==
    /\ nvs' = nvs \/ (staged # NoRecord /\ nvs' = staged)
    /\ Restart

StorageStep ==
    \/ Untouched
    \/ up /\ CommitsOwners
    \/ up /\ CommitsBattery
    \/ Boot
    \/ Restarts
    \/ BackgroundSync

LEMMA RememberBatteryStep ==
    ASSUME TypeOK, NEW s \in Slots, NEW low \in BOOLEAN, NEW outcome \in SaveOutcomes,
           RememberBattery(s, low, outcome), UNCHANGED up,
           status' # status => status' # "saved"
    PROVE  Untouched \/ CommitsBattery
<1>1. CASE BatteryChanges(table, s, low)
    <2> DEFINE t == UpdateBattery(table, s, low)
    <2>1. /\ t \in Table /\ Restorable(t) /\ t.ids = table.ids
          /\ OneSlotApart(t, table) /\ Advances(table, t)
        BY UpdateBatteryRestorable, UpdateBatteryApart DEF TypeOK
    <2>2. Commit(t, outcome)
        BY <1>1 DEF RememberBattery
    <2> HIDE DEF t
    <2>3. QED
        BY <2>1, <2>2 DEF CommitsBattery
<1>2. CASE ~BatteryChanges(table, s, low)
    BY <1>2 DEF RememberBattery, Untouched, storage
<1>3. QED
    BY <1>1, <1>2

LEMMA ChangeOwnersStep ==
    ASSUME NEW t \in Table, Restorable(t), OneSlotApart(t, table), Advances(table, t),
           NEW s, NEW m, NEW outcome \in SaveOutcomes, ChangeOwners(t, s, m, outcome)
    PROVE  CommitsOwners
<1>1. /\ Commit(t, outcome)
      /\ UNCHANGED up
      /\ status' = IF outcome = "ok" THEN "saved" ELSE "unsaved"
    BY DEF ChangeOwners, Leave, power
<1>2. QED
    BY <1>1 DEF CommitsOwners

LEMMA RemoveApart ==
    ASSUME NEW t \in Table, Restorable(t), NEW id, IsPaired(t, id)
    PROVE  OneSlotApart(Remove(t, id), t) /\ Advances(t, Remove(t, id))
BY RemoveRestorable, PutApart

LEMMA StorageSteps == TypeOK /\ [Next]_vars => StorageStep
<1> SUFFICES ASSUME TypeOK, [Next]_vars PROVE StorageStep
    OBVIOUS
<1> USE FrameFields, FramesAreFrames
<1>1. CASE StartPairing \/ StartRemoval \/ CancelPairing
    BY <1>1 DEF StartPairing, StartRemoval, CancelPairing, Leave, Enter, storage, power,
                StorageStep, Untouched
<1>2. ASSUME NEW s \in Slots, NEW outcome \in SaveOutcomes, ForgetSlot(s, outcome)
      PROVE  StorageStep
    <2>1. CASE table.ids[s] = Empty
        BY <1>2, <2>1 DEF ForgetSlot, Leave, storage, power, StorageStep, Untouched
    <2>2. CASE table.ids[s] # Empty
        <3>1. IsPaired(table, table.ids[s])
            BY DEF IsPaired, HoldersOf
        <3>2. /\ Remove(table, table.ids[s]) \in Table
              /\ Restorable(Remove(table, table.ids[s]))
              /\ OneSlotApart(Remove(table, table.ids[s]), table)
              /\ Advances(table, Remove(table, table.ids[s]))
            BY <3>1, RemoveRestorable, RemoveApart DEF TypeOK
        <3>3. up /\ ChangeOwners(Remove(table, table.ids[s]), s, ResetMemory, outcome)
            BY <1>2, <2>2 DEF ForgetSlot
        <3>4. QED
            BY <3>2, <3>3, ChangeOwnersStep DEF StorageStep
    <2>3. QED
        BY <2>1, <2>2
<1>3. ASSUME NEW f \in Frames, NEW outcome \in SaveOutcomes, OnReceive(f, outcome)
      PROVE  StorageStep
    <2>1. CASE AlreadyPaired(f, outcome)
        <3>1. Find(table, f.id) \in Slots
            BY <2>1, FindHolds DEF AlreadyPaired, AddResult, TypeOK
        <3>2. UNCHANGED up /\ (status' # status => status' # "saved")
            BY <2>1 DEF AlreadyPaired, Leave, power
        <3>3. QED
            BY <1>3, <2>1, <3>1, <3>2, RememberBatteryStep
            DEF AlreadyPaired, OnReceive, StorageStep
    <2>2. CASE PairButton(f, outcome)
        <3> DEFINE s == FirstEmpty(table)
                   t == UpdateBattery(Add(table, f.id), s, f.low)
        <3>1. CASE AddResult(table, f.id) = "ADDED"
            <4>1. t \in Table /\ Restorable(t) /\ OneSlotApart(t, table) /\ Advances(table, t)
                BY <3>1, PairRestorable, PairApart DEF TypeOK
            <4>2. ChangeOwners(t, s, Record(dedup[s], f.secret), outcome)
                BY <2>2, <3>1 DEF PairButton
            <4> HIDE DEF s, t
            <4>3. QED
                BY <1>3, <4>1, <4>2, ChangeOwnersStep DEF OnReceive, StorageStep
        <3>2. CASE AddResult(table, f.id) # "ADDED"
            BY <2>2, <3>2 DEF PairButton, Leave, storage, power, StorageStep, Untouched
        <3>3. QED
            BY <3>1, <3>2
    <2>3. CASE RemoveButton(f, outcome)
        <3>1. /\ Remove(table, f.id) \in Table
              /\ Restorable(Remove(table, f.id))
              /\ OneSlotApart(Remove(table, f.id), table)
              /\ Advances(table, Remove(table, f.id))
            BY <2>3, RemoveRestorable, RemoveApart DEF RemoveButton, TypeOK
        <3>2. QED
            BY <1>3, <2>3, <3>1, ChangeOwnersStep DEF RemoveButton, OnReceive, StorageStep
    <2>4. CASE RemoveUnpaired(f)
        BY <2>4 DEF RemoveUnpaired, storage, power, StorageStep, Untouched
    <2>5. CASE SlotFrame(f, outcome)
        <3>1. Find(table, f.id) \in Slots
            BY <2>5, FindHolds DEF SlotFrame, TypeOK
        <3>2. UNCHANGED up /\ (status' # status => status' # "saved")
            BY <2>5 DEF SlotFrame, power, pairing
        <3>3. QED
            BY <1>3, <2>5, <3>1, <3>2, RememberBatteryStep
            DEF SlotFrame, OnReceive, StorageStep
    <2>6. QED
        BY <1>3, <2>1, <2>2, <2>3, <2>4, <2>5 DEF OnReceive
<1>4. CASE ReceiveUndecoded \/ LoopKeyNotSaved \/ Loop \/ Tick \/ UNCHANGED vars
    BY <1>4 DEF ReceiveUndecoded, OnReceiveUndecoded, LoopKeyNotSaved, Loop, Leave, Tick, vars,
                storage, power, pairing, StorageStep, Untouched
<1>5. CASE Reboot
    BY <1>5 DEF Reboot, StorageStep, Restarts
<1>6. CASE Crash
    BY <1>6 DEF Crash, StorageStep, Restarts
<1>7. CASE Boot \/ BackgroundSync
    BY <1>7 DEF StorageStep
<1>8. QED
    BY <1>1, <1>2, <1>3, <1>4, <1>5, <1>6, <1>7 DEF Next, Controls, Receive

(***************************************************************************)
(* The inductive invariant: the three storage properties, and that nothing *)
(* of an earlier run of the firmware is left while it is down.             *)
(***************************************************************************)
DownIsClean ==
    ~up => staged = NoRecord /\ ~saveFailed /\ status # "saved"

StorageInv ==
    /\ RestartSafe
    /\ SavedUnlessFailed
    /\ ReportedChangeIsDurable
    /\ DownIsClean

LEMMA StorageInvInit == Init => StorageInv
<1> SUFFICES ASSUME Init PROVE StorageInv
    OBVIOUS
<1>1. OneSlotApart(Decode(nvs), table)
    BY ApartReflexive DEF Init
<1>2. QED
    BY <1>1 DEF Init, StorageInv, RestartSafe, SavedUnlessFailed, ReportedChangeIsDurable,
                DownIsClean

\* A committed table, saved or undone, preserves the invariant when the
\* status tells the truth about the owners.
LEMMA CommitKeepsStorageInv ==
    ASSUME TypeOK, StorageInv, up, up', NEW t \in Table, Restorable(t),
           OneSlotApart(t, table), NEW outcome \in SaveOutcomes, Commit(t, outcome),
           status' = "saved" =>
               outcome = "ok" \/ (t.ids = table.ids /\ status = "saved")
    PROVE  StorageInv'
<1>1. /\ Record2(t).format = "v2"
      /\ Record2(t).table = t
      /\ Decode(Record2(t)) = t
    BY DecodeSaved DEF Record2
<1>2. CASE outcome = "ok"
    <2>1. nvs' = Record2(t) /\ staged' = NoRecord /\ saveFailed' = FALSE /\ table' = t
        BY <1>2 DEF Commit, Save
    <2>2. Decode(nvs)' = table'
        BY <1>1, <2>1 DEF Decode
    <2>3. OneSlotApart(Decode(nvs), table)'
        BY <2>2, ApartReflexive DEF OneSlotApart
    <2>4. QED
        BY <2>1, <2>2, <2>3 DEF StorageInv, RestartSafe, SavedUnlessFailed,
                                ReportedChangeIsDurable, DownIsClean
<1>3. CASE outcome # "ok"
    <2>1. nvs' = nvs /\ saveFailed' = TRUE /\ table' = table
        BY <1>3 DEF Commit, Save
    <2>2. staged' = staged \/ staged' = Record2(t)
        BY <1>3, ActivLinkAssumption DEF Commit, Save
    <2>3. Decode(nvs)' = Decode(nvs)
        BY <2>1 DEF Decode
    <2>4. RestartSafe'
        BY <1>1, <2>1, <2>2, <2>3 DEF StorageInv, RestartSafe, OneSlotApart, BatteryOf, Restorable,
                                      Occupied
    <2>5. ReportedChangeIsDurable'
        BY <1>1, <1>3, <2>1, <2>2, <2>3 DEF StorageInv, ReportedChangeIsDurable
    <2>6. QED
        BY <2>1, <2>4, <2>5 DEF StorageInv, SavedUnlessFailed, DownIsClean
<1>4. QED
    BY <1>2, <1>3

LEMMA StorageInvStep == TypeOK /\ StorageInv /\ [Next]_vars => StorageInv'
<1> SUFFICES ASSUME TypeOK, StorageInv, [Next]_vars PROVE StorageInv'
    OBVIOUS
<1>1. CASE Untouched
    <2>1. Decode(nvs)' = Decode(nvs)
        BY <1>1 DEF Untouched, Decode
    <2>2. QED
        BY <1>1, <2>1 DEF Untouched, StorageInv, RestartSafe, SavedUnlessFailed,
                          ReportedChangeIsDurable, DownIsClean, OneSlotApart, BatteryOf,
                          Restorable, Occupied
<1>2. CASE up /\ CommitsOwners
    BY <1>2, CommitKeepsStorageInv DEF CommitsOwners
<1>3. CASE up /\ CommitsBattery
    BY <1>3, CommitKeepsStorageInv DEF CommitsBattery
<1>4. CASE Boot
    <2> PICK outcome \in SaveOutcomes : Setup(outcome)
        BY <1>4 DEF Boot
    <2> DEFINE t == Decode(nvs)
    <2>1. staged = NoRecord /\ status # "saved" /\ ~saveFailed
        BY DEF Setup, StorageInv, DownIsClean
    <2>2. t \in Table /\ Restorable(t) /\ OneSlotApart(t, t)
        BY DecodeRestorable, ApartReflexive DEF TypeOK
    <2>3. up' /\ table' = t /\ status' = status
        BY DEF Setup, pairing
    <2>4. CASE ~Migrates(nvs)
        <3>1. UNCHANGED <<nvs, staged, saveFailed>>
            BY <2>4 DEF Setup
        <3>2. Decode(nvs)' = t
            BY <3>1 DEF Decode
        <3> HIDE DEF t
        <3>3. QED
            BY <2>1, <2>2, <2>3, <3>1, <3>2
            DEF StorageInv, RestartSafe, SavedUnlessFailed, ReportedChangeIsDurable,
                DownIsClean, OneSlotApart, BatteryOf
    <2>5. CASE Migrates(nvs)
        <3>1. Save(t, outcome)
            BY <2>5 DEF Setup
        <3>2. /\ Record2(t).format = "v2"
              /\ Record2(t).table = t
              /\ Decode(Record2(t)) = t
            BY <2>2, DecodeSaved DEF Record2
        <3>3. /\ nvs' = nvs \/ nvs' = Record2(t)
              /\ staged' = NoRecord \/ staged' = Record2(t)
              /\ saveFailed' = FALSE => staged' = NoRecord
            BY <2>1, <3>1, ActivLinkAssumption DEF Save
        <3>4. Decode(nvs)' = t
            BY <3>2, <3>3 DEF Decode
        <3> HIDE DEF t
        <3>5. QED
            BY <2>1, <2>2, <2>3, <3>2, <3>3, <3>4
            DEF StorageInv, RestartSafe, SavedUnlessFailed, ReportedChangeIsDurable,
                DownIsClean, OneSlotApart, BatteryOf, TypeOK, Restorable, Occupied
    <2>6. QED
        BY <2>4, <2>5
<1>5. CASE Restarts
    <2>1. /\ staged' = NoRecord /\ saveFailed' = FALSE /\ up' = FALSE
          /\ status' = "idle" /\ table' = table
        BY <1>5 DEF Restarts, Restart
    <2>2. OneSlotApart(Decode(nvs)', table)
        <3>1. CASE nvs' = nvs
            <4>1. Decode(nvs)' = Decode(nvs)
                BY <3>1 DEF Decode
            <4>2. QED
                BY <4>1 DEF StorageInv, RestartSafe
        <3>2. CASE staged # NoRecord /\ nvs' = staged
            <4>1. Decode(nvs)' = staged.table
                BY <3>2 DEF StorageInv, RestartSafe, Decode
            <4>2. QED
                BY <3>2, <4>1 DEF StorageInv, RestartSafe
        <3>3. QED
            BY <1>5, <3>1, <3>2 DEF Restarts
    <2>3. OneSlotApart(Decode(nvs), table)'
        BY <2>1, <2>2 DEF OneSlotApart, BatteryOf
    <2>4. QED
        BY <2>1, <2>3 DEF StorageInv, RestartSafe, SavedUnlessFailed,
                          ReportedChangeIsDurable, DownIsClean
<1>6. CASE BackgroundSync
    <2>1. /\ staged # NoRecord /\ nvs' = staged /\ staged' = NoRecord
          /\ UNCHANGED <<saveFailed, up, table, status>>
        BY <1>6 DEF BackgroundSync, power, pairing
    <2>2. Decode(nvs)' = staged.table
        BY <2>1 DEF StorageInv, RestartSafe, Decode
    <2>3. OneSlotApart(Decode(nvs), table)'
        BY <2>1, <2>2 DEF StorageInv, RestartSafe, OneSlotApart, BatteryOf
    <2>4. QED
        BY <2>1, <2>2, <2>3 DEF StorageInv, RestartSafe, SavedUnlessFailed,
                                ReportedChangeIsDurable, DownIsClean
<1>7. QED
    BY <1>1, <1>2, <1>3, <1>4, <1>5, <1>6, StorageSteps DEF StorageStep

LEMMA StorageInvariant == Spec => [](TypeOK /\ StorageInv)
<1>1. Init => TypeOK /\ StorageInv
    BY InitType, StorageInvInit
<1>2. TypeOK /\ StorageInv /\ [Next]_vars => (TypeOK /\ StorageInv)'
    BY NextType, StorageInvStep
<1>3. QED
    BY <1>1, <1>2, PTL DEF Spec

(***************************************************************************)
(* However saves fail, staged records are flushed late, RAM is rolled back *)
(* and power is lost: what a restart would load is at most one slot away   *)
(* from the table the gateway works with.                                  *)
(***************************************************************************)
THEOREM RestartIsSafe == Spec => []RestartSafe
<1>1. TypeOK /\ StorageInv => RestartSafe
    BY DEF StorageInv
<1>2. QED
    BY <1>1, StorageInvariant, PTL

(***************************************************************************)
(* After a save that succeeded flash equals RAM.                           *)
(***************************************************************************)
THEOREM SavedIsDurable == Spec => []SavedUnlessFailed
<1>1. TypeOK /\ StorageInv => SavedUnlessFailed
    BY DEF StorageInv
<1>2. QED
    BY <1>1, StorageInvariant, PTL

(***************************************************************************)
(* A pairing, removal or forget that the Pairing state entity reports as   *)
(* done is in flash and nothing staged can undo it.                        *)
(***************************************************************************)
THEOREM ReportedIsDurable == Spec => []ReportedChangeIsDurable
<1>1. TypeOK /\ StorageInv => ReportedChangeIsDurable
    BY DEF StorageInv
<1>2. QED
    BY <1>1, StorageInvariant, PTL

(***************************************************************************)
(* What the next boot may load changes only with flash and the stage: to   *)
(* the saved table alone, by the table whose save failed at most, or to    *)
(* less when a staged record is written or lost.                           *)
(***************************************************************************)
LEMMA SaveMayLoad ==
    ASSUME NEW t \in Table, Restorable(t), NEW outcome \in SaveOutcomes, Save(t, outcome)
    PROVE  /\ outcome = "ok" => MayLoad' = {t}
           /\ outcome # "ok" => MayLoad' \subseteq MayLoad \cup {t}
<1>1. Decode(Record2(t)) = t
    BY DecodeSaved
<1>2. CASE outcome = "ok"
    BY <1>1, <1>2 DEF Save, MayLoad
<1>3. CASE outcome # "ok"
    <2>1. nvs' = nvs /\ (staged' = staged \/ staged' = Record2(t))
        BY <1>3, ActivLinkAssumption DEF Save
    <2>2. QED
        BY <1>1, <1>3, <2>1 DEF MayLoad
<1>4. QED
    BY <1>2, <1>3

LEMMA FlushedMayLoad ==
    ASSUME nvs' = nvs \/ (staged # NoRecord /\ nvs' = staged), staged' = NoRecord
    PROVE  MayLoad' \subseteq MayLoad
BY DEF MayLoad

LEMMA KeptMayLoad ==
    ASSUME UNCHANGED <<nvs, staged>>
    PROVE  MayLoad' = MayLoad
BY DEF MayLoad

LEMMA LosesNothingStep ==
    TypeOK /\ StorageInv /\ RestartLosesNothing /\ [Next]_vars => RestartLosesNothing'
<1> SUFFICES ASSUME TypeOK, StorageInv, RestartLosesNothing, [Next]_vars
             PROVE  RestartLosesNothing'
    OBVIOUS
<1>1. ASSUME NEW t \in Table, Restorable(t), NEW outcome \in SaveOutcomes, Commit(t, outcome)
      PROVE  RestartLosesNothing'
    <2>1. CASE outcome = "ok"
        BY <1>1, <2>1, SaveMayLoad DEF Commit, RestartLosesNothing
    <2>2. CASE outcome # "ok"
        <3>1. table' = table /\ unsaved' = (unsaved \cup {t}) \cap MayLoad'
            BY <1>1, <2>2 DEF Commit, Save
        <3>2. MayLoad' \subseteq MayLoad \cup {t}
            BY <1>1, <2>2, SaveMayLoad DEF Commit
        <3>3. QED
            BY <3>1, <3>2 DEF RestartLosesNothing
    <2>3. QED
        BY <2>1, <2>2
<1>2. CASE Untouched
    BY <1>2, KeptMayLoad DEF Untouched, RestartLosesNothing
<1>3. CASE CommitsOwners \/ CommitsBattery
    BY <1>1, <1>3 DEF CommitsOwners, CommitsBattery
<1>4. CASE Boot
    <2> PICK outcome \in SaveOutcomes : Setup(outcome)
        BY <1>4 DEF Boot
    <2>1. table' = Decode(nvs) /\ MayLoad = {Decode(nvs)}
        BY DEF Setup, StorageInv, DownIsClean, MayLoad
    <2>2. Decode(nvs) \in Table /\ Restorable(Decode(nvs))
        BY DecodeRestorable DEF TypeOK
    <2>3. CASE Migrates(nvs)
        BY <2>1, <2>2, <2>3, SaveMayLoad DEF Setup, RestartLosesNothing
    <2>4. CASE ~Migrates(nvs)
        BY <2>1, <2>4, KeptMayLoad DEF Setup, RestartLosesNothing
    <2>5. QED
        BY <2>3, <2>4
<1>5. CASE Restarts \/ BackgroundSync
    <2>1. MayLoad' \subseteq MayLoad
        BY <1>5, FlushedMayLoad DEF Restarts, Restart, BackgroundSync
    <2>2. table' = table /\ unsaved' = unsaved \cap MayLoad'
        BY <1>5 DEF Restarts, Restart, BackgroundSync
    <2>3. QED
        BY <2>1, <2>2 DEF RestartLosesNothing
<1>6. QED
    BY <1>2, <1>3, <1>4, <1>5, StorageSteps DEF StorageStep

(***************************************************************************)
(* A restart loads the table of RAM or one whose save was reported as      *)
(* failed, never the state before a change that was reported as saved.     *)
(***************************************************************************)
THEOREM RestartsLoseNothing == Spec => []RestartLosesNothing
<1>1. Init => RestartLosesNothing
    BY DEF Init, MayLoad, RestartLosesNothing
<1>2. TypeOK /\ StorageInv /\ RestartLosesNothing /\ [Next]_vars => RestartLosesNothing'
    BY LosesNothingStep
<1>3. QED
    BY <1>1, <1>2, StorageInvariant, PTL DEF Spec

(***************************************************************************)
(* A slot never passes from one transmitter to another without being empty *)
(* in between, restarts included.                                          *)
(***************************************************************************)
THEOREM SlotsKeepOwners == Spec => SlotsNeverChangeHands
<1> DEFINE Kept ==
        \A s \in Slots :
            \/ table'.ids[s] = table.ids[s]
            \/ table'.ids[s] = Empty
            \/ table.ids[s] = Empty
<1>1. TypeOK /\ StorageInv /\ [Next]_vars => [Kept]_vars
    <2> SUFFICES ASSUME TypeOK, StorageInv, [Next]_vars PROVE Kept
        OBVIOUS
    <2>1. CASE Untouched \/ Restarts \/ BackgroundSync
        BY <2>1 DEF Untouched, Restarts, Restart, BackgroundSync
    <2>2. ASSUME NEW t \in Table, NEW outcome \in SaveOutcomes,
                 OneSlotApart(t, table), Commit(t, outcome)
          PROVE  Kept
        BY <2>2 DEF Commit, OneSlotApart
    <2>3. CASE Boot
        <3>1. table' = Decode(nvs)
            BY <2>3 DEF Boot, Setup
        <3>2. OneSlotApart(Decode(nvs), table)
            BY DEF StorageInv, RestartSafe
        <3>3. QED
            BY <3>1, <3>2 DEF OneSlotApart
    <2>4. CASE CommitsOwners \/ CommitsBattery
        BY <2>2, <2>4 DEF CommitsOwners, CommitsBattery
    <2>5. QED
        BY <2>1, <2>3, <2>4, StorageSteps DEF StorageStep
<1>2. QED
    BY <1>1, StorageInvariant, PTL DEF Spec, SlotsNeverChangeHands
=============================================================================
