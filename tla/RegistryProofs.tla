--------------------------- MODULE RegistryProofs ----------------------------
(***************************************************************************)
(* The gateway implements the abstract registry of module PairingRegistry. *)
(*                                                                         *)
(* Handlers change the table by one operation of the registry.  A boot may *)
(* load another table than the one RAM held; that it is one operation of   *)
(* the registry away is an invariant on what flash and the staged record   *)
(* hold.  That a boot does not undo a saved change is no matter of the     *)
(* registry: RestartsLoseNothing of ActivLinkProofs shows it.              *)
(***************************************************************************)
EXTENDS ActivLinkProofs

\* What the registry knows when the table is t.
Batteries(t) == [id \in PairedIds(t) |-> BatteryOf(t, Find(t, id))]

\* A button is found in the one slot it owns.
LEMMA FindOwner ==
    ASSUME NEW t \in Table, Restorable(t)
    PROVE  /\ \A s \in Occupied(t) : t.ids[s] \in PairedIds(t) /\ Find(t, t.ids[s]) = s
           /\ \A id \in PairedIds(t) :
                  Find(t, id) \in Occupied(t) /\ t.ids[Find(t, id)] = id
<1>1. ASSUME NEW id \in PairedIds(t)
      PROVE  Find(t, id) \in Occupied(t) /\ t.ids[Find(t, id)] = id
    <2>1. IsPaired(t, id) /\ id # Empty
        BY DEF PairedIds, IsPaired, HoldersOf, Occupied
    <2>2. QED
        BY <2>1, FindHolds DEF Occupied
<1>2. ASSUME NEW s \in Occupied(t)
      PROVE  t.ids[s] \in PairedIds(t) /\ Find(t, t.ids[s]) = s
    <2>1. t.ids[s] \in PairedIds(t)
        BY DEF PairedIds
    <2>2. QED
        BY <1>1, <2>1 DEF Restorable
<1>3. QED
    BY <1>1, <1>2

\* There are at most as many paired buttons as occupied slots.
LEMMA PairedCount ==
    ASSUME NEW t \in Table
    PROVE  /\ IsFiniteSet(PairedIds(t))
           /\ Cardinality(PairedIds(t)) \in Nat
           /\ Cardinality(PairedIds(t)) <= NumSlots
           /\ ~Full(t) => Cardinality(PairedIds(t)) < NumSlots
<1>1. IsFiniteSet(Slots) /\ Cardinality(Slots) = NumSlots
    BY FS_Interval, TableAssumption DEF Slots
<1>2. Occupied(t) \subseteq Slots
    BY DEF Occupied
<1>3. /\ IsFiniteSet(Occupied(t))
      /\ Cardinality(Occupied(t)) <= NumSlots
      /\ Occupied(t) # Slots => Cardinality(Occupied(t)) < NumSlots
    <2>1. IsFiniteSet(Slots) /\ Cardinality(Slots) = NumSlots
        BY <1>1
    <2> DEFINE O == Occupied(t)
    <2>2. O \in SUBSET Slots
        BY <1>2
    <2> HIDE DEF O
    <2>3. /\ IsFiniteSet(O)
          /\ Cardinality(O) <= Cardinality(Slots)
          /\ Cardinality(O) = Cardinality(Slots) => O = Slots
        BY <2>1, <2>2, FS_Subset
    <2>4. Cardinality(O) \in Nat
        BY <2>3, FS_CardinalityType
    <2>5. QED
        BY <2>1, <2>3, <2>4, TableAssumption DEF O
<1>4. /\ IsFiniteSet(PairedIds(t))
      /\ Cardinality(PairedIds(t)) <= Cardinality(Occupied(t))
    <2> DEFINE owner == [s \in Occupied(t) |-> t.ids[s]]
    <2>1. owner \in Surjection(Occupied(t), PairedIds(t))
        BY DEF PairedIds, Surjection
    <2> HIDE DEF owner
    <2>2. QED
        BY <1>3, <2>1, FS_Surjection
<1>5. QED
    BY <1>3, <1>4, FS_CardinalityType, TableAssumption DEF Full

-----------------------------------------------------------------------------
(***************************************************************************)
(* One operation on the table is one of the registry, or none.             *)
(***************************************************************************)
RegistryStep(a, b) ==
    \E id \in Ids :
        \/ /\ id \notin PairedIds(a)
           /\ Cardinality(PairedIds(a)) < NumSlots
           /\ \E state \in {"low", "ok"} :
                  Batteries(b) = [i \in PairedIds(a) \cup {id} |->
                                     IF i = id THEN state ELSE Batteries(a)[i]]
        \/ /\ id \in PairedIds(a)
           /\ Batteries(b) = [i \in PairedIds(a) \ {id} |-> Batteries(a)[i]]
        \/ /\ id \in PairedIds(a)
           /\ \E state \in {"low", "ok"} :
                  Batteries(b) = [i \in PairedIds(a) \cup {id} |->
                                     IF i = id THEN state ELSE Batteries(a)[i]]

LEMMA AdvancesRegistry ==
    ASSUME NEW a \in Table, Restorable(a), NEW b \in Table, Restorable(b), Advances(a, b)
    PROVE  RegistryStep(a, b) \/ Batteries(b) = Batteries(a)
<1> PICK s \in Slots :
        /\ \A r \in Slots \ {s} :
               a.ids[r] = b.ids[r] /\ BatteryOf(a, r) = BatteryOf(b, r)
        /\ \/ b.ids[s] = Empty
           \/ a.ids[s] \in {b.ids[s], Empty} /\ BatteryOf(b, s) # "unknown"
           \/ a.ids[s] = b.ids[s] /\ BatteryOf(a, s) = BatteryOf(b, s)
    BY DEF Advances
\* Buttons of the other slots.
<1> DEFINE Rest == {a.ids[r] : r \in Occupied(a) \ {s}}
<1>1. /\ Rest = {b.ids[r] : r \in Occupied(b) \ {s}}
      /\ \A id \in Rest : Batteries(a)[id] = Batteries(b)[id]
    <2>1. Occupied(a) \ {s} = Occupied(b) \ {s}
        BY DEF Occupied
    <2>2. Rest = {b.ids[r] : r \in Occupied(b) \ {s}}
        BY <2>1 DEF Occupied
    <2>3. ASSUME NEW r \in Occupied(a) \ {s}
          PROVE  Batteries(a)[a.ids[r]] = Batteries(b)[a.ids[r]]
        <3>1. r \in Slots /\ r \in Occupied(b) /\ a.ids[r] = b.ids[r]
            BY <2>1 DEF Occupied
        <3>2. Batteries(a)[a.ids[r]] = BatteryOf(a, r)
            BY FindOwner DEF Batteries
        <3>3. Batteries(b)[a.ids[r]] = BatteryOf(b, r)
            BY <3>1, FindOwner DEF Batteries
        <3>4. QED
            BY <3>1, <3>2, <3>3
    <2>4. QED
        BY <2>2, <2>3
<1>2. ASSUME NEW t \in {a, b}
      PROVE  /\ s \notin Occupied(t) => PairedIds(t) = Rest
             /\ s \in Occupied(t) => /\ PairedIds(t) = Rest \cup {t.ids[s]}
                                     /\ t.ids[s] \notin Rest
                                     /\ t.ids[s] \in Ids
                                     /\ Batteries(t)[t.ids[s]] = BatteryOf(t, s)
    <2>1. t \in Table /\ Restorable(t)
        OBVIOUS
    <2>2. Rest = {t.ids[r] : r \in Occupied(t) \ {s}}
        BY <1>1
    <2> HIDE DEF Rest
    <2>3. CASE s \notin Occupied(t)
        BY <2>2, <2>3 DEF PairedIds
    <2>4. CASE s \in Occupied(t)
        <3>1. PairedIds(t) = Rest \cup {t.ids[s]}
            BY <2>2, <2>4 DEF PairedIds
        <3>2. t.ids[s] \notin Rest /\ t.ids[s] \in Ids
            BY <2>1, <2>2, <2>4 DEF Restorable
        <3>3. Batteries(t)[t.ids[s]] = BatteryOf(t, s)
            BY <2>1, <2>4, FindOwner DEF Batteries
        <3>4. QED
            BY <2>4, <3>1, <3>2, <3>3
    <2>5. QED
        BY <2>3, <2>4
<1>3. \A t \in {a, b} : Batteries(t) = [id \in PairedIds(t) |-> Batteries(t)[id]]
    BY DEF Batteries
<1>4. \A t \in {a, b} : s \in Occupied(t) <=> t.ids[s] # Empty
    BY DEF Occupied
<1>5. BatteryOf(b, s) \in {"unknown", "low", "ok"}
    BY BatteryOfType
<1> HIDE DEF Rest
<1>6. CASE s \notin Occupied(a) /\ s \notin Occupied(b)
    BY <1>1, <1>2, <1>3, <1>6
<1>7. CASE s \in Occupied(a) /\ s \notin Occupied(b)
    <2>1. PairedIds(b) = PairedIds(a) \ {a.ids[s]}
        BY <1>2, <1>7
    <2>2. Batteries(b) = [i \in PairedIds(a) \ {a.ids[s]} |-> Batteries(a)[i]]
        BY <1>1, <1>2, <1>3, <1>7, <2>1
    <2>3. a.ids[s] \in Ids /\ a.ids[s] \in PairedIds(a)
        BY <1>2, <1>7
    <2>4. QED
        BY <2>2, <2>3 DEF RegistryStep
<1>8. CASE s \notin Occupied(a) /\ s \in Occupied(b)
    <2> DEFINE id == b.ids[s]
    <2>1. id \in Ids /\ id \notin PairedIds(a) /\ PairedIds(b) = PairedIds(a) \cup {id}
        BY <1>2, <1>8
    <2>2. BatteryOf(b, s) \in {"low", "ok"}
        BY <1>4, <1>5, <1>8
    <2>3. Batteries(b) = [i \in PairedIds(a) \cup {id} |->
                             IF i = id THEN BatteryOf(b, s) ELSE Batteries(a)[i]]
        BY <1>1, <1>2, <1>3, <1>8, <2>1
    <2>4. Cardinality(PairedIds(a)) < NumSlots
        BY <1>8, PairedCount DEF Full
    <2>5. QED
        BY <2>1, <2>2, <2>3, <2>4 DEF RegistryStep
<1>9. CASE s \in Occupied(a) /\ s \in Occupied(b)
    <2> DEFINE id == b.ids[s]
    <2>1. a.ids[s] = id
        BY <1>4, <1>9
    <2>2. id \in Ids /\ id \in PairedIds(a) /\ PairedIds(b) = PairedIds(a)
        BY <1>2, <1>9, <2>1
    <2>3. \A i \in PairedIds(a) \ {id} : Batteries(b)[i] = Batteries(a)[i]
        BY <1>1, <1>2, <1>9, <2>1
    <2>4. Batteries(b)[id] = BatteryOf(b, s) /\ Batteries(a)[id] = BatteryOf(a, s)
        BY <1>2, <1>9, <2>1
    <2>5. CASE BatteryOf(a, s) = BatteryOf(b, s)
        BY <1>3, <2>2, <2>3, <2>4, <2>5
    <2>6. CASE BatteryOf(b, s) # "unknown"
        <3>1. BatteryOf(b, s) \in {"low", "ok"}
            BY <1>5, <2>6
        <3>2. Batteries(b) = [i \in PairedIds(a) \cup {id} |->
                                 IF i = id THEN BatteryOf(b, s) ELSE Batteries(a)[i]]
            BY <1>3, <2>2, <2>3, <2>4
        <3>3. QED
            BY <2>2, <3>1, <3>2 DEF RegistryStep
    <2>7. QED
        BY <1>4, <1>9, <2>5, <2>6
<1>10. QED
    BY <1>6, <1>7, <1>8, <1>9

-----------------------------------------------------------------------------
(***************************************************************************)
(* The inductive invariant: flash and the staged record hold the table in  *)
(* RAM, or that table with one operation of the registry applied to it.    *)
(***************************************************************************)
FlashOneStepOff ==
    /\ Advances(table, Decode(nvs))
    /\ staged # NoRecord => Advances(table, staged.table)

LEMMA FlashOneStepOffInit == Init => FlashOneStepOff
BY ApartReflexive DEF Init, FlashOneStepOff

LEMMA CommitKeepsStepOff ==
    ASSUME TypeOK, FlashOneStepOff, NEW t \in Table, Restorable(t), Advances(table, t),
           NEW outcome \in SaveOutcomes, Commit(t, outcome)
    PROVE  FlashOneStepOff'
<1>1. Decode(Record2(t)) = t /\ Record2(t).table = t
    BY DecodeSaved DEF Record2
<1>2. CASE outcome = "ok"
    <2>1. nvs' = Record2(t) /\ staged' = NoRecord /\ table' = t
        BY <1>2 DEF Commit, Save
    <2>2. Decode(nvs)' = t
        BY <1>1, <2>1 DEF Decode
    <2>3. Advances(table', Decode(nvs)')
        BY <2>1, <2>2, ApartReflexive
    <2>4. QED
        BY <2>1, <2>3 DEF FlashOneStepOff, Advances, BatteryOf
<1>3. CASE outcome # "ok"
    <2>1. /\ nvs' = nvs /\ table' = table
          /\ staged' = staged \/ staged' = Record2(t)
        BY <1>3, ActivLinkAssumption DEF Commit, Save
    <2>2. Decode(nvs)' = Decode(nvs)
        BY <2>1 DEF Decode
    <2>3. QED
        BY <1>1, <2>1, <2>2 DEF FlashOneStepOff, Advances, BatteryOf
<1>4. QED
    BY <1>2, <1>3

\* Setup, restarts and late flushes move only what flash already had, or what
\* was staged, into the place of the other.
LEMMA FlashOneStepOffStep ==
    TypeOK /\ StorageInv /\ FlashOneStepOff /\ [Next]_vars => FlashOneStepOff'
<1> SUFFICES ASSUME TypeOK, StorageInv, FlashOneStepOff, [Next]_vars PROVE FlashOneStepOff'
    OBVIOUS
<1>1. CASE Untouched
    <2>1. Decode(nvs)' = Decode(nvs)
        BY <1>1 DEF Untouched, Decode
    <2>2. QED
        BY <1>1, <2>1 DEF Untouched, FlashOneStepOff, Advances, BatteryOf
<1>2. CASE CommitsOwners \/ CommitsBattery
    BY <1>2, CommitKeepsStepOff DEF CommitsOwners, CommitsBattery
<1>3. CASE Boot
    <2> PICK outcome \in SaveOutcomes : Setup(outcome)
        BY <1>3 DEF Boot
    <2> DEFINE t == Decode(nvs)
    <2>1. t \in Table /\ Restorable(t) /\ Advances(t, t) /\ staged = NoRecord /\ table' = t
        BY DecodeRestorable, ApartReflexive DEF TypeOK, Setup, StorageInv, DownIsClean
    <2>2. Decode(Record2(t)) = t /\ Record2(t).table = t
        BY <2>1, DecodeSaved DEF Record2
    <2>3. /\ nvs' = nvs \/ nvs' = Record2(t)
          /\ staged' = NoRecord \/ staged' = Record2(t)
        BY <2>1, ActivLinkAssumption DEF Setup, Save, storage
    <2>4. Decode(nvs)' = t
        BY <2>2, <2>3 DEF Decode
    <2> HIDE DEF t
    <2>5. QED
        BY <2>1, <2>2, <2>3, <2>4 DEF FlashOneStepOff, Advances, BatteryOf
<1>4. ASSUME staged # NoRecord, nvs' = staged, staged' = NoRecord, table' = table
      PROVE  FlashOneStepOff'
    <2>1. Decode(nvs)' = staged.table
        BY <1>4 DEF StorageInv, RestartSafe, Decode
    <2>2. QED
        BY <1>4, <2>1 DEF FlashOneStepOff, Advances, BatteryOf
<1>5. CASE Restarts
    <2>1. staged' = NoRecord /\ table' = table
        BY <1>5 DEF Restarts, Restart
    <2>2. CASE nvs' = nvs
        <3>1. Decode(nvs)' = Decode(nvs)
            BY <2>2 DEF Decode
        <3>2. QED
            BY <2>1, <3>1 DEF FlashOneStepOff, Advances, BatteryOf
    <2>3. QED
        BY <1>4, <1>5, <2>1, <2>2 DEF Restarts
<1>6. CASE BackgroundSync
    BY <1>4, <1>6 DEF BackgroundSync
<1>7. QED
    BY <1>1, <1>2, <1>3, <1>5, <1>6, StorageSteps DEF StorageStep

LEMMA FlashOneStepOffInvariant == Spec => [](TypeOK /\ StorageInv /\ FlashOneStepOff)
<1>1. Init => FlashOneStepOff
    BY FlashOneStepOffInit
<1>2. TypeOK /\ StorageInv /\ FlashOneStepOff /\ [Next]_vars => FlashOneStepOff'
    BY FlashOneStepOffStep
<1>3. QED
    BY <1>1, <1>2, StorageInvariant, PTL DEF Spec

-----------------------------------------------------------------------------
\* The two modules count alike.
LEMMA SameCardinality == \A S : Registry!Cardinality(S) = Cardinality(S)
BY DEF Cardinality, Registry!Cardinality

\* The initial states map to those of the registry.
LEMMA InitImplements == Init => Registry!Init
<1> SUFFICES ASSUME Init PROVE Registry!Init
    OBVIOUS
<1>1. table \in Table /\ Restorable(table)
    BY InitType DEF TypeOK
<1>2. PairedIds(table) \subseteq Ids
    BY <1>1 DEF PairedIds, Restorable
<1>3. Cardinality(PairedIds(table)) <= NumSlots
    BY <1>1, PairedCount
<1>4. Batteries(table) \in [PairedIds(table) -> {"low", "ok"} \cup {"unknown"}]
    BY BatteryOfType DEF Batteries
<1>5. QED
    BY <1>2, <1>3, <1>4, SameCardinality DEF Registry!Init, Registry!Heard, Batteries

\* Every step maps to a step of the registry or to a stutter.
LEMMA StepImplements ==
    TypeOK /\ FlashOneStepOff /\ [Next]_vars =>
        [Registry!Next]_([id \in PairedIds(table) |-> BatteryOf(table, Find(table, id))])
<1> SUFFICES ASSUME TypeOK, FlashOneStepOff, [Next]_vars
             PROVE  Registry!Next \/ Batteries(table)' = Batteries(table)
    BY DEF Batteries
<1>1. table' \in Table /\ Restorable(table)' /\ table \in Table /\ Restorable(table)
    BY NextType DEF TypeOK
<1>2. table' = table \/ Advances(table, table')
    <2>1. CASE Untouched \/ Restarts \/ BackgroundSync
        BY <2>1 DEF Untouched, Restarts, Restart, BackgroundSync
    <2>2. CASE CommitsOwners \/ CommitsBattery
        BY <2>2 DEF CommitsOwners, CommitsBattery, Commit
    <2>3. CASE Boot
        BY <2>3 DEF Boot, Setup, FlashOneStepOff
    <2>4. QED
        BY <2>1, <2>2, <2>3, StorageSteps DEF StorageStep
<1>3. Batteries(table)' = Batteries(table')
    BY DEF Batteries, PairedIds, Occupied, BatteryOf, Find, HoldersOf
<1>4. RegistryStep(table, table') \/ Batteries(table') = Batteries(table)
    <2>1. Restorable(table')
        BY <1>1 DEF Restorable, Occupied
    <2>2. QED
        BY <1>1, <1>2, <2>1, AdvancesRegistry
<1>5. ASSUME RegistryStep(table, table') PROVE Registry!Next
    BY <1>3, <1>5, SameCardinality DEF RegistryStep, Registry!Next, Registry!Pair, Registry!Unpair,
                      Registry!Learn, Registry!With, Registry!Heard, Batteries
<1>6. QED
    BY <1>3, <1>4, <1>5

(***************************************************************************)
(* The gateway implements the registry: with all its failed saves, late    *)
(* flushes, crashes and restarts a step pairs one button within the        *)
(* capacity, removes one or learns the battery of one; it never does two   *)
(* of these at once and forgets no battery of a button that stays paired.  *)
(***************************************************************************)
THEOREM GatewayImplementsRegistry == Spec => ImplementsRegistry
<1>1. Init => Registry!Init
    BY InitImplements
<1>2. TypeOK /\ StorageInv /\ FlashOneStepOff /\ [Next]_vars =>
          [Registry!Next]_([id \in PairedIds(table) |-> BatteryOf(table, Find(table, id))])
    BY StepImplements
<1>3. QED
    BY <1>1, <1>2, FlashOneStepOffInvariant, PTL DEF Spec, ImplementsRegistry, Registry!Spec
=============================================================================
