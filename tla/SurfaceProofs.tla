---------------------------- MODULE SurfaceProofs ----------------------------
(***************************************************************************)
(* Proofs about what users see of the gateway: the pairing mode and its    *)
(* status, the entities of the slots, API discovery, the memory of presses *)
(* that an empty slot must not have, and in the end the presses.           *)
(*                                                                         *)
(* A step keeps the owners of the slots, changes the owner of one slot,    *)
(* boots the gateway or restarts it.  The first part shows that; what      *)
(* follows has only these four cases to consider.                          *)
(***************************************************************************)
EXTENDS ActivLinkProofs, Presses

KeepsShown ==
    /\ table'.ids = table.ids
    /\ shown'.ids = shown.ids
    /\ shown'.count = shown.count
    /\ \A s \in Slots : Remembered(s)' =>
           \/ Remembered(s) /\ shown'.battery[s] = shown.battery[s]
           \/ shown'.battery[s] # "unknown"

KeepsMode ==
    \/ UNCHANGED <<mode, status>>
    \/ /\ up
       /\ \/ mode' = "idle" /\ status' \in {"idle", "unsaved"}
          \/ mode' = "pair" /\ status' = "pair" /\ ~Full(table)
          \/ mode' = "remove" /\ status' = "remove" /\ (mode = "remove" \/ Occupied(table) # {})

KeepsMemory ==
    \A s \in Slots :
        dedup[s] = ResetMemory =>
            dedup'[s] = ResetMemory \/ (up /\ s \in Occupied(table))

KeepsOwners ==
    /\ UNCHANGED <<up, advertised, refreshPending>>
    /\ KeepsShown
    /\ KeepsMode
    /\ KeepsMemory

ChangesOwner ==
    \E s \in Slots :
        /\ up /\ up'
        /\ \A r \in Slots \ {s} : table'.ids[r] = table.ids[r] /\ dedup'[r] = dedup[r]
        /\ table'.known \ {s} \subseteq table.known
        /\ MayLoad' = {table'}
        /\ table'.ids[s] = Empty => dedup'[s] = ResetMemory
        /\ shown' = ShowSlot(s, table')
        /\ mode' = "idle" /\ status' = "saved"
        /\ refreshPending'

Boots ==
    /\ ~up /\ up'
    /\ MayLoad' = {table'}
    /\ shown' = ShowAll(table')
    /\ advertised' = Occupied(table')
    /\ UNCHANGED <<mode, status, dedup>>

SurfaceStep == KeepsOwners \/ ChangesOwner \/ Boots \/ Restart

-----------------------------------------------------------------------------
LEMMA OlderReset == Older(ResetMemory) = ResetMemory
BY HorizonType DEF Older, ResetMemory, Forgotten

LEMMA KeptRemembered ==
    ASSUME UNCHANGED <<nvs, staged, table>>, NEW s
    PROVE  Remembered(s)' <=> Remembered(s)
BY KeptMayLoad DEF Remembered

\* A handler that remembers a slot's battery and shows it.
LEMMA ShowsBattery ==
    ASSUME TypeOK, NEW s \in Slots, NEW low \in BOOLEAN, NEW outcome \in SaveOutcomes,
           RememberBattery(s, low, outcome), shown' = ShowBattery(s, low)
    PROVE  KeepsShown
<1> DEFINE u == UpdateBattery(table, s, low)
<1>1. u.ids = table.ids /\ u.known \ {s} \subseteq table.known
    BY DEF UpdateBattery, TypeOK, Table
<1>2. table' = table \/ table' = u
    BY DEF RememberBattery, Commit
<1>3. /\ shown'.ids = shown.ids
      /\ shown'.count = shown.count
      /\ shown'.battery = [shown.battery EXCEPT ![s] = IF low THEN "low" ELSE "ok"]
    BY DEF ShowBattery, TypeOK, Shown
<1>4. \A r \in Slots \ {s} : shown'.battery[r] = shown.battery[r]
    BY <1>3 DEF TypeOK, Shown
<1>5. shown'.battery[s] # "unknown"
    BY <1>3 DEF TypeOK, Shown
<1>6. table'.ids = table.ids /\ table'.known \ {s} \subseteq table.known
    BY <1>1, <1>2
<1>7. MayLoad' \subseteq MayLoad \cup {u}
    <2>1. CASE BatteryChanges(table, s, low)
        <3>1. Commit(u, outcome) /\ u \in Table /\ Restorable(u)
            BY <2>1, UpdateBatteryRestorable DEF RememberBattery, TypeOK
        <3> HIDE DEF u
        <3>2. QED
            BY <3>1, SaveMayLoad DEF Commit
    <2>2. CASE ~BatteryChanges(table, s, low)
        BY <2>2, KeptMayLoad DEF RememberBattery, storage
    <2>3. QED
        BY <2>1, <2>2
<1> HIDE DEF u
<1>8. ASSUME NEW r \in Slots \ {s}, Remembered(r)'
      PROVE  Remembered(r)
    <2>1. PICK t \in {table'} \cup MayLoad' : r \in t.known /\ t.ids[r] = table'.ids[r]
        BY <1>8 DEF Remembered
    <2>2. CASE t \in {table'} \cup {u}
        BY <1>1, <1>2, <1>6, <2>1, <2>2 DEF Remembered
    <2>3. CASE t \in MayLoad
        BY <1>6, <2>1, <2>3 DEF Remembered
    <2>4. QED
        BY <1>7, <2>1, <2>2, <2>3
<1>9. QED
    BY <1>3, <1>4, <1>5, <1>6, <1>8 DEF KeepsShown

\* A change of one owner, saved or undone.
LEMMA ChangeOwnersSurface ==
    ASSUME TypeOK, up, NEW t \in Table, NEW s \in Slots, NEW m,
           NEW outcome \in SaveOutcomes, ChangeOwners(t, s, m, outcome),
           \A r \in Slots \ {s} : t.ids[r] = table.ids[r],
           t.known \ {s} \subseteq table.known, Restorable(t),
           t.ids[s] # table.ids[s],
           t.ids[s] = Empty => m = ResetMemory
    PROVE  KeepsOwners \/ ChangesOwner
<1>1. up' /\ UNCHANGED <<up, advertised>>
    BY DEF ChangeOwners, power
<1>2. CASE outcome = "ok"
    <2>1. /\ table' = t
          /\ mode' = "idle" /\ status' = "saved"
          /\ dedup' = [dedup EXCEPT ![s] = m]
          /\ shown' = ShowSlot(s, t)
          /\ refreshPending' = TRUE
        BY <1>2 DEF ChangeOwners, Commit, Leave, ScheduleRefresh
    <2>2. /\ dedup'[s] = m
          /\ \A r \in Slots \ {s} : dedup'[r] = dedup[r]
        BY <2>1 DEF TypeOK
    <2>3. MayLoad' = {table'}
        BY <1>2, <2>1, SaveMayLoad DEF ChangeOwners, Commit
    <2>4. QED
        BY <1>1, <2>1, <2>2, <2>3 DEF ChangesOwner
<1>3. CASE outcome # "ok"
    <2>1. /\ table' = table
          /\ mode' = "idle" /\ status' = "unsaved"
          /\ UNCHANGED <<dedup, shown, refreshPending>>
        BY <1>3 DEF ChangeOwners, Commit, Leave, refresh
    <2>2. MayLoad' \subseteq MayLoad \cup {t}
        BY <1>3, SaveMayLoad DEF ChangeOwners, Commit
    <2>3. ASSUME NEW r \in Slots, Remembered(r)'
          PROVE  Remembered(r)
        <3>1. PICK v \in {table} \cup MayLoad' : r \in v.known /\ v.ids[r] = table.ids[r]
            BY <2>1, <2>3 DEF Remembered
        <3>2. v = t => r # s /\ r \in table.known
            BY <3>1
        <3>3. QED
            BY <2>2, <3>1, <3>2 DEF Remembered
    <2>4. KeepsOwners
        BY <1>1, <2>1, <2>3 DEF KeepsOwners, KeepsShown, KeepsMode, KeepsMemory
    <2>5. QED
        BY <2>4
<1>4. QED
    BY <1>2, <1>3

LEMMA RemoveSurface ==
    ASSUME TypeOK, up, NEW id, id # Empty, IsPaired(table, id), NEW s, s = Find(table, id),
           NEW outcome \in SaveOutcomes,
           ChangeOwners(Remove(table, id), s, ResetMemory, outcome)
    PROVE  KeepsOwners \/ ChangesOwner
<1> DEFINE t == Remove(table, id)
<1>1. s \in Slots /\ t = Put(table, s, Empty) /\ t \in Table /\ Restorable(t)
    BY RemoveRestorable DEF TypeOK
<1>2. /\ \A r \in Slots \ {s} : t.ids[r] = table.ids[r]
      /\ t.known \ {s} \subseteq table.known
      /\ t.ids[s] = Empty
    BY <1>1 DEF Put, TypeOK, Table
<1>3. table.ids[s] # Empty
    BY FindHolds DEF TypeOK
<1> HIDE DEF t
<1>4. QED
    BY <1>1, <1>2, <1>3, ChangeOwnersSurface DEF t

LEMMA PairSurface ==
    ASSUME TypeOK, up, NEW f \in Frames, NEW outcome \in SaveOutcomes, PairButton(f, outcome)
    PROVE  KeepsOwners \/ ChangesOwner
<1> USE FrameFields, FramesAreFrames
<1> DEFINE s == FirstEmpty(table)
           t == UpdateBattery(Add(table, f.id), s, f.low)
<1>1. CASE AddResult(table, f.id) = "ADDED"
    <2>1. /\ s \in Slots /\ t \in Table /\ Restorable(t) /\ table.ids[s] = Empty
          /\ t.ids = [table.ids EXCEPT ![s] = f.id]
          /\ Add(table, f.id) = Put(table, s, f.id)
        BY <1>1, PairRestorable DEF TypeOK
    <2>2. \A r \in Slots \ {s} : t.ids[r] = table.ids[r]
        BY <2>1 DEF TypeOK, Table
    <2>3. t.ids[s] # Empty
        BY <2>1, TableAssumption DEF TypeOK, Table
    <2>4. t.known \ {s} \subseteq table.known
        BY <2>1 DEF Put, UpdateBattery, TypeOK, Table
    <2>5. ChangeOwners(t, s, Record(dedup[s], f.secret), outcome)
        BY <1>1 DEF PairButton
    <2> HIDE DEF s, t
    <2>6. QED
        BY <2>1, <2>2, <2>3, <2>4, <2>5, ChangeOwnersSurface
<1>2. CASE AddResult(table, f.id) # "ADDED"
    BY <1>2, KeptRemembered
    DEF PairButton, storage, Leave, power, entities, refresh, KeepsOwners, KeepsShown,
        KeepsMode, KeepsMemory
<1>3. QED
    BY <1>1, <1>2

\* The press of a paired button that is not about to be removed.
LEMMA SlotFrameSurface ==
    ASSUME TypeOK, up, NEW f \in Frames, NEW outcome \in SaveOutcomes,
           AlreadyPaired(f, outcome) \/ SlotFrame(f, outcome)
    PROVE  KeepsOwners
<1> USE FrameFields, FramesAreFrames
<1> DEFINE s == Find(table, f.id)
<1>1. IsPaired(table, f.id)
    BY DEF AlreadyPaired, SlotFrame, AddResult
<1>2. s \in Slots /\ s \in Occupied(table)
    BY <1>1, FindHolds, TableAssumption DEF TypeOK, Occupied
<1>3. RememberBattery(s, f.low, outcome) /\ shown' = ShowBattery(s, f.low)
    BY DEF AlreadyPaired, SlotFrame
<1>4. dedup' = dedup \/ dedup' = [dedup EXCEPT ![s] = Record(@, f.secret)]
    BY DEF AlreadyPaired, SlotFrame
<1>5. KeepsMode /\ UNCHANGED <<up, advertised, refreshPending>>
    BY DEF AlreadyPaired, SlotFrame, Leave, KeepsMode, power, pairing, refresh
<1> HIDE DEF s
<1>6. KeepsShown
    BY <1>2, <1>3, ShowsBattery
<1>7. KeepsMemory
    BY <1>2, <1>4 DEF KeepsMemory, TypeOK
<1>8. QED
    BY <1>5, <1>6, <1>7 DEF KeepsOwners

LEMMA SurfaceSteps == TypeOK /\ StorageInv /\ [Next]_vars => SurfaceStep
<1> SUFFICES ASSUME TypeOK, StorageInv, [Next]_vars PROVE SurfaceStep
    OBVIOUS
<1> USE DEF SurfaceStep
<1>1. CASE StartPairing \/ StartRemoval \/ CancelPairing
    BY <1>1, KeptRemembered
    DEF StartPairing, StartRemoval, CancelPairing, Leave, Enter, storage, power, entities,
        refresh, KeepsOwners, KeepsShown, KeepsMode, KeepsMemory
<1>2. ASSUME NEW s \in Slots, NEW outcome \in SaveOutcomes, ForgetSlot(s, outcome)
      PROVE  SurfaceStep
    <2>1. CASE table.ids[s] = Empty
        BY <1>2, <2>1, KeptRemembered
        DEF ForgetSlot, Leave, storage, power, entities, refresh, KeepsOwners, KeepsShown,
            KeepsMode, KeepsMemory
    <2>2. CASE table.ids[s] # Empty
        <3>1. IsPaired(table, table.ids[s])
            BY DEF IsPaired, HoldersOf
        <3>2. s = Find(table, table.ids[s])
            BY <2>2, <3>1, FindHolds DEF TypeOK, Restorable, Occupied
        <3>3. up /\ ChangeOwners(Remove(table, table.ids[s]), s, ResetMemory, outcome)
            BY <1>2, <2>2 DEF ForgetSlot
        <3>4. QED
            BY <2>2, <3>1, <3>2, <3>3, RemoveSurface
    <2>3. QED
        BY <2>1, <2>2
<1>3. ASSUME NEW f \in Frames, NEW outcome \in SaveOutcomes, OnReceive(f, outcome)
      PROVE  SurfaceStep
    <2>1. up
        BY <1>3 DEF OnReceive
    <2>2. CASE AlreadyPaired(f, outcome) \/ SlotFrame(f, outcome)
        BY <2>1, <2>2, SlotFrameSurface
    <2>3. CASE PairButton(f, outcome)
        BY <2>1, <2>3, PairSurface
    <2>4. CASE RemoveButton(f, outcome)
        <3>1. f.id \in Ids
            BY FrameFields, FramesAreFrames
        <3>2. f.id # Empty
            BY <3>1, TableAssumption
        <3>3. QED
            BY <2>1, <2>4, <3>2, RemoveSurface DEF RemoveButton
    <2>5. CASE RemoveUnpaired(f)
        BY <2>1, <2>5, KeptRemembered
        DEF RemoveUnpaired, storage, power, entities, refresh, KeepsOwners, KeepsShown,
            KeepsMode, KeepsMemory
    <2>6. QED
        BY <1>3, <2>2, <2>3, <2>4, <2>5 DEF OnReceive
<1>4. CASE Tick
    <2>1. \A s \in Slots : dedup'[s] = Older(dedup[s])
        BY <1>4 DEF Tick
    <2>2. KeepsMemory
        BY <2>1, OlderReset DEF KeepsMemory
    <2>3. QED
        BY <1>4, <2>2, KeptRemembered DEF Tick, storage, entities, KeepsOwners, KeepsShown, KeepsMode
<1>5. CASE ReceiveUndecoded \/ LoopKeyNotSaved \/ Loop \/ UNCHANGED vars
    BY <1>5, KeptRemembered
    DEF ReceiveUndecoded, OnReceiveUndecoded, LoopKeyNotSaved, Loop, Leave, vars, storage,
        power, pairing, entities, refresh, KeepsOwners, KeepsShown, KeepsMode, KeepsMemory
<1>6. CASE BackgroundSync
    <2>1. MayLoad' \subseteq MayLoad /\ table' = table
        BY <1>6, FlushedMayLoad DEF BackgroundSync
    <2>2. \A s \in Slots : Remembered(s)' => Remembered(s)
        BY <2>1 DEF Remembered
    <2>3. QED
        BY <1>6, <2>2 DEF BackgroundSync, power, pairing, entities, refresh, KeepsOwners,
                          KeepsShown, KeepsMode, KeepsMemory
<1>7. CASE Boot
    <2> PICK outcome \in SaveOutcomes : Setup(outcome)
        BY <1>7 DEF Boot
    <2>1. MayLoad = {table'} /\ table' \in Table /\ Restorable(table')
        BY DecodeRestorable DEF Setup, StorageInv, DownIsClean, MayLoad, TypeOK
    <2>2. MayLoad' = {table'}
        <3>1. CASE Migrates(nvs)
            <4>1. Save(table', outcome)
                BY <3>1 DEF Setup
            <4>2. MayLoad' \subseteq {table'}
                BY <2>1, <4>1, SaveMayLoad
            <4>3. QED
                BY <2>1, <4>2 DEF MayLoad
        <3>2. CASE ~Migrates(nvs)
            BY <2>1, <3>2, KeptMayLoad DEF Setup
        <3>3. QED
            BY <3>1, <3>2
    <2>3. QED
        BY <2>2 DEF Setup, pairing, Boots
<1>8. CASE Reboot \/ Crash
    BY <1>8 DEF Reboot, Crash
<1>9. QED
    BY <1>1, <1>2, <1>3, <1>4, <1>5, <1>6, <1>7, <1>8 DEF Next, Controls, Receive

-----------------------------------------------------------------------------
(***************************************************************************)
(* The inductive invariant.  While the gateway is down it is idle and      *)
(* remembers no press, so a boot that loads another table than RAM held    *)
(* cannot leave a mode or a memory that does not fit the new one.          *)
(***************************************************************************)
DownIsIdle ==
    ~up => mode = "idle" /\ status = "idle" /\ \A s \in Slots : dedup[s] = ResetMemory

SurfaceInv ==
    /\ ModeCanSucceed
    /\ StatusReportsMode
    /\ EntitiesMirrorTable
    /\ BatteryNotUnshown
    /\ StaleDiscoveryPending
    /\ EmptySlotRemembersNothing
    /\ DownIsIdle

LEMMA SurfaceInit == Init => SurfaceInv
BY DEF Init, SurfaceInv, ModeCanSucceed, StatusReportsMode, EntitiesMirrorTable,
       BatteryNotUnshown, StaleDiscoveryPending, EmptySlotRemembersNothing, DownIsIdle

LEMMA KeepingOwners ==
    ASSUME TypeOK, SurfaceInv, KeepsOwners
    PROVE  SurfaceInv'
<1>1. /\ Occupied(table)' = Occupied(table)
      /\ Full(table)' = Full(table)
      /\ Size(table)' = Size(table)
    BY DEF KeepsOwners, KeepsShown, Occupied, Full, Size
<1>2. ModeCanSucceed' /\ StatusReportsMode'
    BY <1>1 DEF KeepsOwners, KeepsMode, SurfaceInv, ModeCanSucceed, StatusReportsMode
<1>3. EntitiesMirrorTable' /\ BatteryNotUnshown' /\ StaleDiscoveryPending'
    BY <1>1 DEF KeepsOwners, KeepsShown, SurfaceInv, EntitiesMirrorTable, BatteryNotUnshown,
                StaleDiscoveryPending
<1>4. EmptySlotRemembersNothing' /\ DownIsIdle'
    BY <1>1 DEF KeepsOwners, KeepsMode, KeepsMemory, SurfaceInv, EmptySlotRemembersNothing,
                DownIsIdle
<1>5. QED
    BY <1>2, <1>3, <1>4 DEF SurfaceInv

LEMMA ChangingOwner ==
    ASSUME TypeOK, TypeOK', SurfaceInv, ChangesOwner
    PROVE  SurfaceInv'
<1> PICK s \in Slots :
        /\ up /\ up'
        /\ \A r \in Slots \ {s} : table'.ids[r] = table.ids[r] /\ dedup'[r] = dedup[r]
        /\ table'.known \ {s} \subseteq table.known
        /\ MayLoad' = {table'}
        /\ table'.ids[s] = Empty => dedup'[s] = ResetMemory
        /\ shown' = ShowSlot(s, table')
        /\ mode' = "idle" /\ status' = "saved"
        /\ refreshPending'
    BY DEF ChangesOwner
<1>1. /\ shown'.ids = [shown.ids EXCEPT ![s] = table'.ids[s]]
      /\ shown'.battery = [shown.battery EXCEPT ![s] = BatteryOf(table', s)]
      /\ shown'.count = Size(table')
    BY DEF ShowSlot, TypeOK, Shown
<1>2. shown'.ids = table'.ids
    <2>1. shown.ids = table.ids
        BY DEF SurfaceInv, EntitiesMirrorTable
    <2>2. table.ids \in [Slots -> Ids \cup BadIds \cup {Empty}]
          /\ table'.ids \in [Slots -> Ids \cup BadIds \cup {Empty}]
        BY DEF TypeOK, Table
    <2>3. QED
        BY <1>1, <2>1, <2>2
<1>3. EntitiesMirrorTable'
    BY <1>1, <1>2 DEF EntitiesMirrorTable, Size, Occupied
<1>4. BatteryNotUnshown'
    <2> SUFFICES ASSUME NEW r \in Slots, Remembered(r)' PROVE shown'.battery[r] # "unknown"
        BY DEF BatteryNotUnshown
    <2>1. r \in table'.known
        BY DEF Remembered
    <2>2. CASE r = s
        BY <1>1, <2>1, <2>2 DEF BatteryOf, TypeOK, Shown
    <2>3. CASE r # s
        BY <1>1, <2>1, <2>3 DEF SurfaceInv, BatteryNotUnshown, Remembered, TypeOK, Shown
    <2>4. QED
        BY <2>2, <2>3
<1>5. EmptySlotRemembersNothing'
    BY DEF SurfaceInv, EmptySlotRemembersNothing, Occupied
<1>6. ModeCanSucceed' /\ StatusReportsMode' /\ StaleDiscoveryPending' /\ DownIsIdle'
    BY DEF ModeCanSucceed, StatusReportsMode, StaleDiscoveryPending, DownIsIdle
<1>7. QED
    BY <1>3, <1>4, <1>5, <1>6 DEF SurfaceInv

LEMMA Booting ==
    ASSUME TypeOK', SurfaceInv, Boots
    PROVE  SurfaceInv'
<1>1. EntitiesMirrorTable' /\ StaleDiscoveryPending'
    BY DEF Boots, ShowAll, EntitiesMirrorTable, StaleDiscoveryPending, Size, Occupied
<1>2. BatteryNotUnshown'
    BY DEF Boots, ShowAll, BatteryOf, BatteryNotUnshown, Remembered, TypeOK, Table
<1>3. ModeCanSucceed' /\ StatusReportsMode' /\ EmptySlotRemembersNothing' /\ DownIsIdle'
    BY DEF Boots, SurfaceInv, DownIsIdle, ModeCanSucceed, StatusReportsMode,
           EmptySlotRemembersNothing
<1>4. QED
    BY <1>1, <1>2, <1>3 DEF SurfaceInv

LEMMA Restarting ==
    ASSUME Restart
    PROVE  SurfaceInv'
BY DEF Restart, SurfaceInv, ModeCanSucceed, StatusReportsMode, EntitiesMirrorTable,
       BatteryNotUnshown, StaleDiscoveryPending, EmptySlotRemembersNothing, DownIsIdle

LEMMA SurfaceInvariant == Spec => []SurfaceInv
<1>1. Init => SurfaceInv
    BY SurfaceInit
<1>2. TypeOK /\ StorageInv /\ SurfaceInv /\ [Next]_vars => SurfaceInv'
    <2> SUFFICES ASSUME TypeOK, StorageInv, SurfaceInv, [Next]_vars PROVE SurfaceInv'
        OBVIOUS
    <2>1. TypeOK'
        BY NextType
    <2>2. QED
        BY <2>1, SurfaceSteps, KeepingOwners, ChangingOwner, Booting, Restarting
        DEF SurfaceStep
<1>3. QED
    BY <1>1, <1>2, StorageInvariant, PTL DEF Spec

(***************************************************************************)
(* While pairing is on a slot is free, and while removal is on a button is *)
(* paired, whatever is forgotten or restarted meanwhile.                   *)
(***************************************************************************)
THEOREM ModesCanSucceed == Spec => []ModeCanSucceed
BY SurfaceInvariant, PTL DEF SurfaceInv

(***************************************************************************)
(* The Pairing state entity announces a mode exactly while it is active.   *)
(***************************************************************************)
THEOREM StatusIsTruthful == Spec => []StatusReportsMode
BY SurfaceInvariant, PTL DEF SurfaceInv

(***************************************************************************)
(* The entities of the slots show the owners in RAM at all times, and how  *)
(* many there are.                                                         *)
(***************************************************************************)
THEOREM EntitiesAreTruthful == Spec => []EntitiesMirrorTable
BY SurfaceInvariant, PTL DEF SurfaceInv

(***************************************************************************)
(* The battery of a paired button is not shown as unknown while RAM, flash *)
(* or the staged record has a state of it, whichever writes fail.          *)
(***************************************************************************)
THEOREM BatteriesAreShown == Spec => []BatteryNotUnshown
BY SurfaceInvariant, PTL DEF SurfaceInv

(***************************************************************************)
(* Discovery that no longer matches the table is always about to be        *)
(* corrected by a restart.                                                 *)
(***************************************************************************)
THEOREM DiscoveryIsPending == Spec => []StaleDiscoveryPending
BY SurfaceInvariant, PTL DEF SurfaceInv

(***************************************************************************)
(* An empty slot has no memory that could swallow its next owner's presses.*)
(***************************************************************************)
THEOREM EmptySlotsForget == Spec => []EmptySlotRemembersNothing
BY SurfaceInvariant, PTL DEF SurfaceInv

-----------------------------------------------------------------------------
(***************************************************************************)
(* The presses of the buttons.                                             *)
(*                                                                         *)
(* The gateway covers a broadcast while it remembers, for the slot of its  *)
(* button, an event at least as young as the broadcast: no copy that may   *)
(* still arrive then rings.                                                *)
(***************************************************************************)
CoveredBy(s, b) == table.ids[s] = b.id /\ dedup[s][b.secret] <= b.age

Covered(b) == up /\ \E s \in Slots : CoveredBy(s, b)

\* The inductive invariant: a broadcast that has rung or identified its
\* button is covered until the gateway discards what it remembers.
PressesInv ==
    /\ TypeOK
    /\ air \subseteq Broadcast
    /\ \A b \in air : ~b.cleared =>
           /\ b.fate \in {"unheard", "rang", "identified"}
           /\ b.fate # "unheard" => Covered(b)

\* The slot keeps its owner, and forgets nothing of its presses.
SlotKept(s) ==
    /\ table'.ids[s] = table.ids[s]
    /\ \A secret \in BOOLEAN : dedup'[s][secret] <= dedup[s][secret]

\* A step without time in it, while the gateway stays up, touches one slot.
MemoryStep ==
    up /\ up' =>
        \E s \in Slots :
            /\ \A r \in Slots \ {s} : SlotKept(r)
            /\ SlotKept(s) \/ table.ids[s] = Empty \/ table'.ids[s] = Empty

LEMMA HorizonIsRelayWindow == Horizon = RelayWindow /\ Horizon \in Nat \ {0}
BY WindowAssumption, PressesAssumption DEF Horizon

LEMMA MemoryAge ==
    ASSUME TypeOK, NEW s \in Slots, NEW secret \in BOOLEAN
    PROVE  dedup[s][secret] \in 0 .. Horizon
BY DEF TypeOK, Memory

LEMMA CopyFields ==
    ASSUME NEW b \in Broadcast, NEW relay \in BOOLEAN
    PROVE  /\ Copy(b, relay) \in Frame
           /\ Copy(b, relay).id = b.id /\ Copy(b, relay).secret = b.secret
           /\ Copy(b, relay).relay = relay
BY PressesAssumption DEF Copy, Frame, Broadcast

LEMMA UntouchedMemory ==
    ASSUME TypeOK, table'.ids = table.ids, dedup' = dedup
    PROVE  MemoryStep
<1>1. \A s \in Slots : SlotKept(s)
    BY MemoryAge, HorizonType DEF SlotKept
<1>2. \E s \in Slots : TRUE
    BY TableAssumption DEF Slots
<1>3. QED
    BY <1>1, <1>2 DEF MemoryStep

\* A change of the owner of a slot, saved or not.
LEMMA ChangeOwnersMemory ==
    ASSUME TypeOK, NEW t \in Table, NEW s \in Slots, NEW m,
           NEW outcome \in SaveOutcomes, ChangeOwners(t, s, m, outcome),
           \A r \in Slots \ {s} : t.ids[r] = table.ids[r],
           table.ids[s] = Empty \/ t.ids[s] = Empty
    PROVE  MemoryStep
<1>1. CASE outcome = "ok"
    <2>1. table' = t /\ dedup' = [dedup EXCEPT ![s] = m]
        BY <1>1 DEF ChangeOwners, Commit
    <2>2. \A r \in Slots \ {s} : dedup'[r] = dedup[r]
        BY <2>1 DEF TypeOK
    <2>3. \A r \in Slots \ {s} : SlotKept(r)
        BY <2>1, <2>2, MemoryAge, HorizonType DEF SlotKept
    <2>4. QED
        BY <2>1, <2>3 DEF MemoryStep
<1>2. CASE outcome # "ok"
    <2>1. table' = table /\ dedup' = dedup
        BY <1>2 DEF ChangeOwners, Commit
    <2>2. QED
        BY <2>1, UntouchedMemory
<1>3. QED
    BY <1>1, <1>2

LEMMA RemoveMemory ==
    ASSUME TypeOK, NEW id, IsPaired(table, id), NEW m, NEW outcome \in SaveOutcomes,
           ChangeOwners(Remove(table, id), Find(table, id), m, outcome)
    PROVE  MemoryStep
<1> DEFINE s == Find(table, id)
           t == Remove(table, id)
<1>1. s \in Slots /\ t \in Table
    BY RemoveRestorable DEF TypeOK
<1>2. t.ids = [table.ids EXCEPT ![s] = Empty]
    BY DEF Remove, Put
<1>3. t.ids[s] = Empty /\ \A r \in Slots \ {s} : t.ids[r] = table.ids[r]
    BY <1>1, <1>2 DEF TypeOK, Table
<1> HIDE DEF s, t
<1>4. ChangeOwners(t, s, m, outcome)
    BY DEF s, t
<1>5. QED
    BY <1>1, <1>3, <1>4, ChangeOwnersMemory

LEMMA PairMemory ==
    ASSUME TypeOK, NEW f \in Frame, NEW outcome \in SaveOutcomes, PairButton(f, outcome)
    PROVE  /\ MemoryStep
           /\ IsPaired(table', f.id) =>
                  \E s \in Slots : table'.ids[s] = f.id /\ dedup'[s][f.secret] = 0
<1> USE FrameFields
<1>1. CASE AddResult(table, f.id) = "ADDED"
    <2> DEFINE s == FirstEmpty(table)
               t == UpdateBattery(Add(table, f.id), s, f.low)
               m == Record(dedup[s], f.secret)
    <2>1. s \in Slots /\ t \in Table /\ table.ids[s] = Empty /\ Add(table, f.id) = Put(table, s, f.id)
        BY <1>1, PairRestorable DEF TypeOK
    <2>2. t.ids = [table.ids EXCEPT ![s] = f.id]
        BY <2>1 DEF UpdateBattery, Put
    <2>3. \A r \in Slots \ {s} : t.ids[r] = table.ids[r]
        BY <2>1, <2>2 DEF TypeOK, Table
    <2>4. t.ids[s] = f.id
        BY <2>1, <2>2 DEF TypeOK, Table
    <2>5. m[f.secret] = 0
        BY <2>1 DEF Record, TypeOK, Memory
    <2>6. ChangeOwners(t, s, m, outcome)
        BY <1>1 DEF PairButton
    <2>7. ~IsPaired(table, f.id)
        BY <1>1 DEF AddResult
    <2> HIDE DEF s, t, m
    <2>8. MemoryStep
        BY <2>1, <2>3, <2>6, ChangeOwnersMemory
    <2>9. IsPaired(table', f.id) => table' = t /\ dedup' = [dedup EXCEPT ![s] = m]
        BY <2>6, <2>7 DEF ChangeOwners, Commit
    <2>10. QED
        BY <2>1, <2>4, <2>5, <2>8, <2>9 DEF TypeOK
<1>2. CASE AddResult(table, f.id) # "ADDED"
    <2>1. table' = table /\ dedup' = dedup
        BY <1>2 DEF PairButton
    <2>2. ~IsPaired(table, f.id)
        BY <1>2 DEF PairButton, AddResult
    <2>3. QED
        BY <2>1, <2>2, UntouchedMemory
<1>3. QED
    BY <1>1, <1>2

\* The press of a paired button that is not about to be removed.
LEMMA SlotFrameMemory ==
    ASSUME TypeOK, NEW f \in Frame, NEW outcome \in SaveOutcomes,
           AlreadyPaired(f, outcome) \/ SlotFrame(f, outcome)
    PROVE  /\ MemoryStep
           /\ AlreadyPaired(f, outcome) \/ Rings(f) =>
                  \E s \in Slots : table'.ids[s] = f.id /\ dedup'[s][f.secret] = 0
<1> USE FrameFields
<1> DEFINE s == Find(table, f.id)
           m == Record(dedup[s], f.secret)
<1>1. IsPaired(table, f.id)
    BY DEF AlreadyPaired, SlotFrame, AddResult
<1>2. s \in Slots /\ table.ids[s] = f.id
    BY <1>1, FindHolds DEF TypeOK
<1>3. table'.ids = table.ids
    <2>1. RememberBattery(s, f.low, outcome)
        BY DEF AlreadyPaired, SlotFrame
    <2>2. UpdateBattery(table, s, f.low).ids = table.ids
        BY <1>2, UpdateBatteryRestorable DEF TypeOK
    <2>3. QED
        BY <2>1, <2>2 DEF RememberBattery, Commit
<1>4. dedup' = dedup \/ dedup' = [dedup EXCEPT ![s] = m]
    BY DEF AlreadyPaired, SlotFrame
<1>5. AlreadyPaired(f, outcome) \/ Rings(f) => dedup' = [dedup EXCEPT ![s] = m]
    BY DEF AlreadyPaired, SlotFrame, Rings
<1>6. /\ m[f.secret] = 0
      /\ \A secret \in BOOLEAN : m[secret] <= dedup[s][secret]
    <2>1. dedup[s] \in [BOOLEAN -> 0 .. Horizon]
        BY <1>2 DEF TypeOK, Memory
    <2>2. \A secret \in BOOLEAN : m[secret] = IF secret = f.secret THEN 0 ELSE dedup[s][secret]
        BY <2>1 DEF Record
    <2>3. QED
        BY <2>1, <2>2, HorizonType
<1> HIDE DEF s, m
<1>7. \A r \in Slots : SlotKept(r)
    <2>1. \A r \in Slots : dedup'[r] = dedup[r] \/ (r = s /\ dedup'[r] = m)
        BY <1>2, <1>4 DEF TypeOK
    <2>2. QED
        BY <1>3, <1>6, <2>1, MemoryAge, HorizonType DEF SlotKept
<1>8. QED
    BY <1>2, <1>3, <1>5, <1>6, <1>7 DEF MemoryStep, TypeOK

LEMMA OnReceiveMemory ==
    ASSUME TypeOK, NEW f \in Frame, NEW outcome \in SaveOutcomes, OnReceive(f, outcome)
    PROVE  MemoryStep /\ up /\ up'
<1>1. up /\ up'
    BY DEF OnReceive, AlreadyPaired, PairButton, RemoveButton, RemoveUnpaired, SlotFrame,
           ChangeOwners, power
<1>2. CASE AlreadyPaired(f, outcome) \/ SlotFrame(f, outcome)
    BY <1>1, <1>2, SlotFrameMemory
<1>3. CASE PairButton(f, outcome)
    BY <1>1, <1>3, PairMemory
<1>4. CASE RemoveButton(f, outcome)
    BY <1>1, <1>4, RemoveMemory DEF RemoveButton
<1>5. CASE RemoveUnpaired(f)
    BY <1>1, <1>5, UntouchedMemory DEF RemoveUnpaired
<1>6. QED
    BY <1>1, <1>2, <1>3, <1>4, <1>5 DEF OnReceive

LEMMA ControlsMemory ==
    ASSUME TypeOK, Controls
    PROVE  MemoryStep
<1>1. CASE StartPairing \/ StartRemoval \/ CancelPairing
    BY <1>1, UntouchedMemory DEF StartPairing, StartRemoval, CancelPairing
<1>2. ASSUME NEW s \in Slots, NEW outcome \in SaveOutcomes, ForgetSlot(s, outcome)
      PROVE  MemoryStep
    <2>1. CASE table.ids[s] = Empty
        BY <1>2, <2>1, UntouchedMemory DEF ForgetSlot
    <2>2. CASE table.ids[s] # Empty
        <3>1. IsPaired(table, table.ids[s])
            BY DEF IsPaired, HoldersOf
        <3>2. s = Find(table, table.ids[s])
            BY <2>2, <3>1, FindHolds DEF TypeOK, Restorable, Occupied
        <3>3. QED
            BY <1>2, <2>2, <3>1, <3>2, RemoveMemory DEF ForgetSlot
    <2>3. QED
        BY <2>1, <2>2
<1>3. QED
    BY <1>1, <1>2 DEF Controls

LEMMA GatewayMemory ==
    ASSUME TypeOK, Gateway
    PROVE  MemoryStep /\ TypeOK'
<1>1. TypeOK'
    BY NextType DEF Gateway, Next
<1>2. CASE Controls
    BY <1>1, <1>2, ControlsMemory
<1>3. CASE LoopKeyNotSaved \/ Loop \/ BackgroundSync
    BY <1>1, <1>3, UntouchedMemory DEF LoopKeyNotSaved, Loop, BackgroundSync
<1>4. CASE Boot
    BY <1>1, <1>4 DEF Boot, Setup, MemoryStep
<1>5. CASE Reboot \/ Crash
    BY <1>1, <1>5 DEF Reboot, Crash, Restart, MemoryStep
<1>6. QED
    BY <1>1, <1>2, <1>3, <1>4, <1>5 DEF Gateway

(***************************************************************************)
(* A broadcast stays covered unless the gateway restarts or its button     *)
(* loses its slot.                                                         *)
(***************************************************************************)
LEMMA StaysCovered ==
    ASSUME TypeOK, TypeOK', MemoryStep, NEW b \in Broadcast, Covered(b), ~Discards(b)
    PROVE  up' /\ \E s \in Slots : table'.ids[s] = b.id /\ dedup'[s][b.secret] <= b.age
<1>1. PICK s \in Slots : CoveredBy(s, b)
    BY DEF Covered
<1>2. up /\ up'
    BY DEF Covered, Discards, TypeOK
<1>3. PICK q \in Slots :
          /\ \A r \in Slots \ {q} : SlotKept(r)
          /\ SlotKept(q) \/ table.ids[q] = Empty \/ table'.ids[q] = Empty
    BY <1>2 DEF MemoryStep
<1>4. b.id \in Ids /\ b.id # Empty /\ b.secret \in BOOLEAN /\ b.age \in Nat
    BY TableAssumption, PressesAssumption, HorizonType DEF Broadcast
<1>5. IsPaired(table, b.id)
    BY <1>1 DEF IsPaired, HoldersOf, CoveredBy
<1>6. PICK p \in Slots : table'.ids[p] = b.id
    BY <1>5 DEF Discards, IsPaired, HoldersOf
<1>7. \A r \in Slots : table.ids[r] = b.id => r = s
    BY <1>1, <1>4 DEF CoveredBy, TypeOK, Restorable, Occupied
<1>8. SlotKept(s)
    <2> SUFFICES ASSUME ~SlotKept(s) PROVE FALSE
        OBVIOUS
    <2>1. s = q /\ table'.ids[s] = Empty
        BY <1>1, <1>3, <1>4 DEF CoveredBy
    <2>2. p # s /\ SlotKept(p)
        BY <1>3, <1>4, <1>6, <2>1
    <2>3. QED
        BY <1>6, <1>7, <2>2 DEF SlotKept
<1>9. dedup'[s][b.secret] <= dedup[s][b.secret] /\ dedup[s][b.secret] <= b.age
    BY <1>1, <1>4, <1>8 DEF SlotKept, CoveredBy
<1>10. dedup'[s][b.secret] \in Int /\ dedup[s][b.secret] \in Int
    BY <1>4, HorizonType DEF TypeOK, Memory
<1>11. QED
    BY <1>1, <1>2, <1>4, <1>8, <1>9, <1>10 DEF SlotKept, CoveredBy

\* No copy of a covered broadcast rings: a direct one comes within the repeat
\* window, a relayed one within the relay window.
LEMMA CoveredIsSilent ==
    ASSUME TypeOK, NEW b \in Broadcast, NEW relay \in BOOLEAN, Covered(b), Arrives(b, relay)
    PROVE  ~Rings(Copy(b, relay))
<1> DEFINE f == Copy(b, relay)
<1>1. PICK s \in Slots : CoveredBy(s, b)
    BY DEF Covered
<1>2. b.id \in Ids /\ b.id # Empty /\ b.secret \in BOOLEAN /\ b.age \in 0 .. Horizon - 1
    BY TableAssumption, PressesAssumption DEF Broadcast
<1>3. f.id = b.id /\ f.secret = b.secret /\ f.relay = relay
    BY CopyFields
<1>4. Find(table, b.id) = s
    <2>1. IsPaired(table, b.id)
        BY <1>1 DEF IsPaired, HoldersOf, CoveredBy
    <2>2. QED
        BY <1>1, <1>2, <2>1, FindHolds DEF CoveredBy, TypeOK, Restorable, Occupied
<1>5. dedup[s][b.secret] \in Int /\ dedup[s][b.secret] <= b.age
    BY <1>1, <1>2, MemoryAge DEF CoveredBy
<1>6. ~ShouldPublish(dedup[s], b.secret, relay)
    BY <1>2, <1>5, HorizonIsRelayWindow, WindowAssumption DEF ShouldPublish, Arrives
<1> HIDE DEF f
<1>7. QED
    BY <1>3, <1>4, <1>6 DEF Rings, f

\* What the invariant says of one broadcast.
Accounted(b) ==
    ~b.cleared =>
        /\ b.fate \in {"unheard", "rang", "identified"}
        /\ b.fate # "unheard" => Covered(b)

\* The broadcast as it is after the step.
MarkedOne(b) == [b EXCEPT !.cleared = @ \/ Discards(b)]

LEMMA MarkedFields ==
    ASSUME NEW b \in Broadcast
    PROVE  /\ MarkedOne(b) \in Broadcast
           /\ MarkedOne(b).id = b.id /\ MarkedOne(b).secret = b.secret
           /\ MarkedOne(b).age = b.age /\ MarkedOne(b).fate = b.fate
           /\ ~MarkedOne(b).cleared => ~b.cleared /\ ~Discards(b)
<1>1. (b.cleared \/ Discards(b)) \in BOOLEAN
    OBVIOUS
<1>2. PICK cleared \in BOOLEAN : cleared = (b.cleared \/ Discards(b))
    BY <1>1
<1>3. QED
    BY <1>2 DEF MarkedOne, Broadcast

LEMMA MarkedAccounted ==
    ASSUME NEW b \in Broadcast, NEW d, d = MarkedOne(b),
           ~b.cleared /\ ~Discards(b) =>
               /\ b.fate \in {"unheard", "rang", "identified"}
               /\ b.fate # "unheard" =>
                      up' /\ \E s \in Slots : table'.ids[s] = b.id /\ dedup'[s][b.secret] <= b.age
    PROVE  d \in Broadcast /\ Accounted(d)'
<1>1. /\ d \in Broadcast /\ d.id = b.id /\ d.secret = b.secret
      /\ d.age = b.age /\ d.fate = b.fate
    BY MarkedFields
<1>2. ASSUME ~d.cleared
      PROVE  /\ d.fate \in {"unheard", "rang", "identified"}
             /\ d.fate # "unheard" => Covered(d)'
    <2>1. ~b.cleared /\ ~Discards(b)
        BY <1>2, MarkedFields
    <2>2. QED
        BY <1>1, <2>1 DEF Covered, CoveredBy
<1>3. QED
    BY <1>1, <1>2 DEF Accounted

\* A broadcast of which no copy is heard in this step.
LEMMA UnheardAccounted ==
    ASSUME TypeOK, TypeOK', MemoryStep, NEW b \in Broadcast, Accounted(b),
           NEW d, d = MarkedOne(b)
    PROVE  d \in Broadcast /\ Accounted(d)'
BY StaysCovered, MarkedAccounted DEF Accounted

LEMMA HearKeeps ==
    ASSUME PressesInv, NEW b \in air, NEW relay \in BOOLEAN, NEW outcome \in SaveOutcomes,
           Hear(b, relay, outcome)
    PROVE  PressesInv'
<1> DEFINE f == Copy(b, relay)
<1>1. b \in Broadcast /\ Accounted(b) /\ TypeOK
    BY DEF PressesInv, Accounted
<1>2. f \in Frame /\ f.id = b.id /\ f.secret = b.secret
    BY <1>1, CopyFields
<1>3. OnReceive(f, outcome) /\ Arrives(b, relay)
    BY DEF Hear
<1> HIDE DEF f
<1>4. TypeOK' /\ MemoryStep /\ up'
    BY <1>1, <1>2, <1>3, OnReceiveType, OnReceiveMemory
<1>5. Fate(b, f) \in {"unheard", "rang", "identified", "rang_twice", "rang_after"}
    BY <1>1 DEF Fate, Broadcast
<1>0. PICK nb : nb = [b EXCEPT !.fate = Fate(b, f)]
    OBVIOUS
<1>6. /\ nb \in Broadcast
      /\ nb.id = b.id /\ nb.secret = b.secret /\ nb.age = b.age /\ nb.cleared = b.cleared
      /\ nb.fate = Fate(b, f)
    BY <1>0, <1>1, <1>5 DEF Broadcast
<1>7. Discards(nb) <=> Discards(b)
    BY <1>6 DEF Discards
<1>8. b.age \in Nat
    BY <1>1, HorizonType DEF Broadcast
<1>9. ASSUME Rings(f)
      PROVE  \E s \in Slots : table'.ids[s] = b.id /\ dedup'[s][b.secret] <= b.age
    <2>1. SlotFrame(f, outcome)
        BY <1>3, <1>9 DEF OnReceive, Rings, AlreadyPaired, PairButton, RemoveButton, RemoveUnpaired
    <2>2. QED
        BY <1>1, <1>2, <1>8, <1>9, <2>1, SlotFrameMemory
<1>10. ASSUME Identifies(f), ~Discards(b)
       PROVE  \E s \in Slots : table'.ids[s] = b.id /\ dedup'[s][b.secret] <= b.age
    <2>1. mode = "pair" /\ IsPaired(table', f.id)
        BY <1>2, <1>10 DEF Identifies, Discards
    <2>2. AlreadyPaired(f, outcome) \/ PairButton(f, outcome)
        BY <1>3, <2>1 DEF OnReceive, RemoveButton, RemoveUnpaired, SlotFrame
    <2>3. QED
        BY <1>1, <1>2, <1>8, <2>1, <2>2, SlotFrameMemory, PairMemory
<1>11. ASSUME ~b.cleared, ~Discards(b)
       PROVE  /\ Fate(b, f) \in {"unheard", "rang", "identified"}
              /\ Fate(b, f) # "unheard" =>
                     \E s \in Slots : table'.ids[s] = b.id /\ dedup'[s][b.secret] <= b.age
    <2>1. CASE b.fate = "unheard"
        BY <1>9, <1>10, <1>11, <2>1 DEF Fate
    <2>2. CASE b.fate # "unheard"
        <3>1. Covered(b) /\ b.fate \in {"rang", "identified"}
            BY <1>1, <1>11, <2>2 DEF Accounted
        <3>2. ~Rings(f)
            BY <1>1, <1>3, <3>1, CoveredIsSilent DEF f
        <3>3. QED
            BY <1>1, <1>4, <1>11, <3>1, <3>2, StaysCovered DEF Fate
    <2>3. QED
        BY <2>1, <2>2
<1>12. ASSUME NEW d, d = MarkedOne(nb)
       PROVE  d \in Broadcast /\ Accounted(d)'
    BY <1>4, <1>6, <1>7, <1>11, <1>12, MarkedAccounted
<1>13. ASSUME NEW c \in air, NEW d, d = MarkedOne(c)
       PROVE  d \in Broadcast /\ Accounted(d)'
    BY <1>4, <1>13, UnheardAccounted DEF PressesInv, Accounted
<1>14. air' = {MarkedOne(c) : c \in (air \ {b}) \cup {nb}}
    BY <1>0 DEF Hear, Marked, MarkedOne, f
<1>15. \A d \in air' : d \in Broadcast /\ Accounted(d)'
    BY <1>12, <1>13, <1>14
<1>16. QED
    BY <1>4, <1>15 DEF PressesInv, Accounted

LEMMA GatewayKeeps ==
    ASSUME PressesInv, Gateway
    PROVE  PressesInv'
<1>1. TypeOK /\ TypeOK' /\ MemoryStep
    BY GatewayMemory DEF PressesInv
<1>2. ASSUME NEW c \in air, NEW d, d = MarkedOne(c)
      PROVE  d \in Broadcast /\ Accounted(d)'
    BY <1>1, <1>2, UnheardAccounted DEF PressesInv, Accounted
<1>3. air' = {MarkedOne(c) : c \in air}
    BY DEF Gateway, Marked, MarkedOne
<1>4. \A d \in air' : d \in Broadcast /\ Accounted(d)'
    BY <1>2, <1>3
<1>5. QED
    BY <1>1, <1>4 DEF PressesInv, Accounted

\* Broadcasts and memories age together.
LEMMA PassKeeps ==
    ASSUME PressesInv, Pass
    PROVE  PressesInv'
<1>1. TypeOK /\ TypeOK'
    BY NextType DEF PressesInv, Pass, Next
<1>2. ASSUME NEW c \in air, c.age + 1 < Horizon,
             NEW d, d = [c EXCEPT !.age = @ + 1]
      PROVE  d \in Broadcast /\ Accounted(d)'
    <2>1. c \in Broadcast /\ Accounted(c) /\ c.age \in Nat
        BY HorizonType DEF PressesInv, Accounted, Broadcast
    <2>2. /\ d \in Broadcast
          /\ d.id = c.id /\ d.secret = c.secret /\ d.age = c.age + 1
          /\ d.fate = c.fate /\ d.cleared = c.cleared
        BY <1>2, <2>1, HorizonType DEF Broadcast
    <2>3. Covered(c) => Covered(d)'
        <3> SUFFICES ASSUME Covered(c) PROVE Covered(d)'
            OBVIOUS
        <3>1. PICK s \in Slots : CoveredBy(s, c)
            BY DEF Covered
        <3>2. /\ table' = table /\ up' = up
              /\ dedup'[s] = Older(dedup[s])
            BY DEF Pass, Tick
        <3>3. c.secret \in BOOLEAN
            BY <2>1, PressesAssumption DEF Broadcast
        <3>4. dedup'[s][c.secret] <= dedup[s][c.secret] + 1
            BY <1>1, <3>2, <3>3, MemoryAge, HorizonType DEF Older
        <3>5. dedup[s][c.secret] \in Int /\ dedup'[s][c.secret] \in Int
            BY <1>1, <3>3, HorizonType DEF TypeOK, Memory
        <3>6. dedup'[s][d.secret] <= d.age
            BY <2>1, <2>2, <3>1, <3>4, <3>5 DEF CoveredBy
        <3>7. QED
            BY <2>2, <3>1, <3>2, <3>6 DEF Covered, CoveredBy
    <2>4. QED
        BY <2>1, <2>2, <2>3 DEF Accounted
<1>3. air' = {[c EXCEPT !.age = @ + 1] : c \in {c \in air : c.age + 1 < Horizon}}
    BY DEF Pass
<1>4. \A d \in air' : d \in Broadcast /\ Accounted(d)'
    BY <1>2, <1>3
<1>5. QED
    BY <1>1, <1>4 DEF PressesInv, Accounted

LEMMA PressesStep ==
    ASSUME PressesInv, [PressesNext]_allVars
    PROVE  PressesInv'
<1>1. ASSUME NEW id \in Ids, NEW secret \in Secrets, Press(id, secret)
      PROVE  PressesInv'
    <2> DEFINE b == [id |-> id, secret |-> secret, age |-> 0, fate |-> "unheard", cleared |-> FALSE]
    <2>1. b \in Broadcast /\ b.fate = "unheard"
        BY HorizonIsRelayWindow DEF Broadcast
    <2>2. UNCHANGED vars /\ air' = air \cup {b}
        BY <1>1 DEF Press
    <2>3. TypeOK'
        BY <2>2, NextType DEF PressesInv
    <2> HIDE DEF b
    <2>4. QED
        BY <2>1, <2>2, <2>3 DEF PressesInv, Covered, CoveredBy, vars, power
<1>2. CASE UNCHANGED allVars
    <2>1. TypeOK'
        BY <1>2, NextType DEF PressesInv, allVars
    <2>2. QED
        BY <1>2, <2>1 DEF PressesInv, Covered, CoveredBy, allVars, vars, power
<1>3. QED
    BY <1>1, <1>2, HearKeeps, PassKeeps, GatewayKeeps DEF PressesNext

LEMMA PressesAlways == PressesSpec => []PressesInv
<1>1. PressesInit => PressesInv
    BY InitType DEF PressesInit, PressesInv
<1>2. QED
    BY <1>1, PressesStep, PTL DEF PressesSpec

(***************************************************************************)
(* For any number of buttons, slots and broadcasts in the air, any failed  *)
(* saves and any restarts: a press rings at most once as long as the       *)
(* gateway keeps its memory of the slot.                                   *)
(***************************************************************************)
THEOREM PressesRingOnce == PressesSpec => []PressRingsOnce
<1>1. PressesInv => PressRingsOnce
    BY DEF PressesInv, PressRingsOnce
<1>2. QED
    BY <1>1, PressesAlways, PTL

(***************************************************************************)
(* Likewise, the press that paired a button does not ring as well.         *)
(***************************************************************************)
THEOREM PairingPressesAreSilent == PressesSpec => []IdentifyingPressIsSilent
<1>1. PressesInv => IdentifyingPressIsSilent
    BY DEF PressesInv, IdentifyingPressIsSilent
<1>2. QED
    BY <1>1, PressesAlways, PTL
=============================================================================
