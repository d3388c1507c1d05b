------------------------------ MODULE ActivLink ------------------------------
(***************************************************************************)
(* The gateway component                                                   *)
(* (components/honeywell_activlink/honeywell_activlink.cpp).               *)
(*                                                                         *)
(* ESPHome runs every handler of the component on one main loop, so each   *)
(* handler is one atomic action: the four buttons, a decoded doorbell      *)
(* frame, an undecodable capture, loop(), setup() and the discovery        *)
(* restart.  Between them time passes, power may fail, and ESPHome may     *)
(* write a staged preference to flash.                                     *)
(*                                                                         *)
(* Time is relative: instead of millis() and deadlines the variables hold  *)
(* the ticks left of each timer, and the deduplicators the ticks since an  *)
(* event.  The frames that may arrive are a constant; module Presses says  *)
(* which physical button presses they come from.                           *)
(***************************************************************************)
EXTENDS PairingTable, EventDeduplicator

CONSTANTS
    Frames,          \* the decoded frames that may arrive
    Captures,        \* the undecodable captures that may arrive
    StoredRecords,   \* what flash may hold before the first boot
    SaveOutcomes,    \* how a call of save_pairings_ may end
    KeyOutcomes,     \* how save_noise_psk may end
    HasApiKey,       \* the image carries an API key to persist
    PairingTimeout,  \* pairing_timeout_ms
    RefreshDelay,    \* the 750 ms before the discovery restart
    RadioCooldown,   \* RADIO_RECOVERY_COOLDOWN_MS
    BootTime         \* least time between a restart and setup()

Frame == [id : Ids, type : {"doorbell", "other"}, secret : BOOLEAN,
          relay : BOOLEAN, low : BOOLEAN]

(***************************************************************************)
(* A record in flash: StoredPairings ("v2"), StoredPairingsV1 ("v1"), one  *)
(* with a wrong magic or version ("foreign"), or none.                     *)
(***************************************************************************)
Record2(t) == [format |-> "v2", table |-> t]

NoRecord == [format |-> "none", table |-> EmptyTable]

StoredRecord == [format : {"none", "foreign", "v1", "v2"}, table : Table]

ASSUME ActivLinkAssumption ==
    /\ Frames \subseteq Frame
    /\ Captures \subseteq {"noise", "plausible", "collapsed"}
    /\ StoredRecords \subseteq StoredRecord
    /\ SaveOutcomes \subseteq {"ok", "save_failed", "sync_failed"}
    /\ KeyOutcomes \subseteq {"saved", "failed"}
    /\ SaveOutcomes # {} /\ KeyOutcomes # {}
    /\ HasApiKey \in BOOLEAN
    /\ {PairingTimeout, RefreshDelay, RadioCooldown, BootTime} \subseteq Nat

VARIABLES
    nvs,              \* the record in flash
    staged,           \* the record save() staged and no sync() has written
    saveFailed,       \* history: the last save_pairings_ since boot failed
    unsaved,          \* history: the tables of failed saves that a boot may load
    up,               \* setup() has run since power-on
    bootIn,           \* ticks left before setup() may run
    table,            \* pairings_; while down, its value at power-off
    mode,             \* pairing_mode_
    deadline,         \* ticks left until pairing_deadline_ms_
    status,           \* what the Pairing state entity reports
    dedup,            \* event_deduplicator of each slot
    shown,            \* the last published states of the slots' entities
    advertised,       \* the slots API discovery lists
    refreshPending,   \* discovery_refresh_pending_
    refreshIn,        \* ticks left of the activlink_discovery_refresh timeout
    recoveryPending,  \* radio_recovery_pending_
    cooldown,         \* ticks left before another radio recovery
    apiKey            \* the API key persisting of loop()

storage == <<nvs, staged, saveFailed, unsaved>>
power == <<up, bootIn>>
pairing == <<mode, deadline, status>>
entities == <<shown, advertised>>
refresh == <<refreshPending, refreshIn>>
radio == <<recoveryPending, cooldown>>

vars == <<storage, power, table, pairing, dedup, entities, refresh, radio, apiKey>>

-----------------------------------------------------------------------------
(***************************************************************************)
(* Flash.  A preference is staged by save() and written by sync(), which   *)
(* flushes whatever any component staged; either may fail.                 *)
(***************************************************************************)
Legacy(t) == [t EXCEPT !.known = {}, !.low = {}]

Decode(r) ==
    IF r.format = "v2" /\ Restorable(r.table) THEN r.table
    ELSE IF r.format = "v1" /\ Restorable(Legacy(r.table)) THEN Legacy(r.table)
    ELSE EmptyTable

\* The tables that the next boot may load: a staged record may still be written.
MayLoad == {Decode(nvs)} \cup (IF staged = NoRecord THEN {} ELSE {Decode(staged)})

Migrates(r) == r.format = "v1" /\ Restorable(Legacy(r.table))

\* A bug to rule out: a save that succeeds leaves an older staged record.
SaveBesideStaged(t, outcome) ==
    /\ nvs' = IF outcome = "ok" THEN Record2(t) ELSE nvs
    /\ staged' = IF outcome = "sync_failed" THEN Record2(t) ELSE staged
    /\ saveFailed' = (outcome # "ok")
    /\ unsaved' = IF outcome = "ok" THEN {} ELSE (unsaved \cup {t}) \cap MayLoad'

Save(t, outcome) ==
    /\ nvs' = IF outcome = "ok" THEN Record2(t) ELSE nvs
    /\ staged' = CASE outcome = "ok"          -> NoRecord
                   [] outcome = "save_failed" -> staged
                   [] OTHER                   -> Record2(t)
    /\ saveFailed' = (outcome # "ok")
    /\ unsaved' = IF outcome = "ok" THEN {} ELSE (unsaved \cup {t}) \cap MayLoad'

\* A bug to rule out: a change whose save failed stays in RAM.
CommitWithoutUndo(t, outcome) ==
    /\ Save(t, outcome)
    /\ table' = t

(***************************************************************************)
(* The pattern of every change of the table: save it, or put `previous`    *)
(* back.                                                                   *)
(***************************************************************************)
Commit(t, outcome) ==
    /\ Save(t, outcome)
    /\ table' = IF outcome = "ok" THEN t ELSE table

\* A bug to rule out: the battery state is remembered in RAM only.
RememberBatteryInRam(s, low, outcome) ==
    /\ table' = UpdateBattery(table, s, low)
    /\ UNCHANGED storage

RememberBattery(s, low, outcome) ==
    IF BatteryChanges(table, s, low)
    THEN Commit(UpdateBattery(table, s, low), outcome)
    ELSE UNCHANGED <<storage, table>>

-----------------------------------------------------------------------------
(***************************************************************************)
(* Entities.  A slot without an owner shows "Unpaired" and no battery.     *)
(* The paired sensor and the transmitter ID are published together.        *)
(***************************************************************************)
Shown == [ids     : [Slots -> Ids \cup {Empty}],
          battery : [Slots -> {"unknown", "low", "ok"}],
          count   : Nat]

NothingShown == [ids     |-> [s \in Slots |-> Empty],
                 battery |-> [s \in Slots |-> "unknown"],
                 count   |-> 0]

ShowSlot(s, t) == [shown EXCEPT !.ids[s] = t.ids[s],
                                !.battery[s] = BatteryOf(t, s),
                                !.count = Size(t)]

ShowBattery(s, low) == [shown EXCEPT !.battery[s] = IF low THEN "low" ELSE "ok"]

\* A bug to rule out: at boot the batteries are not published.
ShowAllButBatteries(t) ==
    [ids     |-> t.ids,
     battery |-> [s \in Slots |-> "unknown"],
     count   |-> Size(t)]

ShowAll(t) == [ids     |-> t.ids,
               battery |-> [s \in Slots |-> BatteryOf(t, s)],
               count   |-> Size(t)]

\* A bug to rule out: the timeout is set but not marked as pending.
ScheduleRefreshUnmarked ==
    /\ refreshIn' = RefreshDelay
    /\ UNCHANGED refreshPending

ScheduleRefresh ==
    /\ refreshPending' = TRUE
    /\ refreshIn' = IF refreshPending THEN refreshIn ELSE RefreshDelay

-----------------------------------------------------------------------------
(***************************************************************************)
(* The controls: the BOOT button and the Home Assistant buttons.           *)
(***************************************************************************)
Enter(m) ==
    /\ mode' = m
    /\ deadline' = PairingTimeout
    /\ status' = m

\* A bug to rule out: the mode ends without a word to the status entity.
LeaveSilently(result) ==
    /\ mode' = "idle"
    /\ UNCHANGED <<deadline, status>>

Leave(result) ==
    /\ mode' = "idle"
    /\ status' = result
    /\ UNCHANGED deadline

StartPairing ==
    /\ up
    /\ IF Full(table) THEN Leave("idle") ELSE Enter("pair")
    /\ UNCHANGED <<storage, power, table, dedup, entities, refresh, radio, apiKey>>

StartRemoval ==
    /\ up
    /\ IF Occupied(table) = {} THEN Leave("idle") ELSE Enter("remove")
    /\ UNCHANGED <<storage, power, table, dedup, entities, refresh, radio, apiKey>>

CancelPairing ==
    /\ up
    /\ Leave("idle")
    /\ UNCHANGED <<storage, power, table, dedup, entities, refresh, radio, apiKey>>

\* A bug to rule out: the mode goes on after the change.
ChangeOwnersInMode(t, s, m, outcome) ==
    /\ Commit(t, outcome)
    /\ dedup' = IF outcome = "ok" THEN [dedup EXCEPT ![s] = m] ELSE dedup
    /\ shown' = IF outcome = "ok" THEN ShowSlot(s, t) ELSE shown
    /\ IF outcome = "ok" THEN ScheduleRefresh ELSE UNCHANGED refresh
    /\ UNCHANGED <<power, pairing, advertised, radio, apiKey>>

\* A bug to rule out: the slot is published before the save is known to hold.
ChangeOwnersShownFirst(t, s, m, outcome) ==
    /\ Commit(t, outcome)
    /\ shown' = ShowSlot(s, t)
    /\ IF outcome = "ok"
       THEN Leave("saved") /\ dedup' = [dedup EXCEPT ![s] = m] /\ ScheduleRefresh
       ELSE Leave("unsaved") /\ UNCHANGED <<dedup, refresh>>
    /\ UNCHANGED <<power, advertised, radio, apiKey>>

(***************************************************************************)
(* A change of the owners of the slots: t is the new table and s the slot  *)
(* that changed.  Only a change that was saved is shown, remembered (as m) *)
(* and followed by a discovery restart.                                    *)
(***************************************************************************)
ChangeOwners(t, s, m, outcome) ==
    /\ Commit(t, outcome)
    /\ IF outcome = "ok"
       THEN /\ Leave("saved")
            /\ dedup' = [dedup EXCEPT ![s] = m]
            /\ shown' = ShowSlot(s, t)
            /\ ScheduleRefresh
       ELSE /\ Leave("unsaved")
            /\ UNCHANGED <<dedup, shown, refresh>>
    /\ UNCHANGED <<power, advertised, radio, apiKey>>

ForgetSlot(s, outcome) ==
    /\ up
    /\ IF table.ids[s] = Empty
       THEN /\ Leave("idle")
            /\ UNCHANGED <<storage, power, table, dedup, entities, refresh, radio, apiKey>>
       ELSE ChangeOwners(Remove(table, table.ids[s]), s, ResetMemory, outcome)

-----------------------------------------------------------------------------
(***************************************************************************)
(* A decoded frame.  on_receive drops frames of other device types, hands  *)
(* every doorbell frame to the pairing mode when one is active, and else   *)
(* looks for the slot.  A frame of an unpaired button is only counted.     *)
(***************************************************************************)
\* A bug to rule out: the press that met a paired button is not recorded.
AlreadyPairedUnrecorded(f, outcome) ==
    LET s == Find(table, f.id) IN
    /\ mode = "pair"
    /\ AddResult(table, f.id) = "ALREADY_PAIRED"
    /\ Leave("idle")
    /\ RememberBattery(s, f.low, outcome)
    /\ shown' = ShowBattery(s, f.low)
    /\ UNCHANGED <<power, dedup, advertised, refresh, radio, apiKey>>

AlreadyPaired(f, outcome) ==
    LET s == Find(table, f.id) IN
    /\ mode = "pair"
    /\ AddResult(table, f.id) = "ALREADY_PAIRED"
    /\ Leave("idle")
    /\ dedup' = [dedup EXCEPT ![s] = Record(@, f.secret)]
    /\ RememberBattery(s, f.low, outcome)
    /\ shown' = ShowBattery(s, f.low)
    /\ UNCHANGED <<power, advertised, refresh, radio, apiKey>>

PairButton(f, outcome) ==
    LET s == FirstEmpty(table) IN
    /\ mode = "pair"
    /\ AddResult(table, f.id) # "ALREADY_PAIRED"
    /\ IF AddResult(table, f.id) = "ADDED"
       THEN ChangeOwners(UpdateBattery(Add(table, f.id), s, f.low), s,
                         Record(dedup[s], f.secret), outcome)
       ELSE /\ Leave("idle")
            /\ UNCHANGED <<storage, power, table, dedup, entities, refresh, radio, apiKey>>

\* A bug to rule out: the freed slot records the press that removed its owner.
RemoveButtonRecorded(f, outcome) ==
    LET s == Find(table, f.id) IN
    /\ mode = "remove"
    /\ IsPaired(table, f.id)
    /\ ChangeOwners(Remove(table, f.id), s, Record(dedup[s], f.secret), outcome)

RemoveButton(f, outcome) ==
    /\ mode = "remove"
    /\ IsPaired(table, f.id)
    /\ ChangeOwners(Remove(table, f.id), Find(table, f.id), ResetMemory, outcome)

\* Still waiting for a paired button: the mode stays, a new status is shown.
RemoveUnpaired(f) ==
    /\ mode = "remove"
    /\ ~IsPaired(table, f.id)
    /\ status' = "remove"
    /\ UNCHANGED <<storage, power, table, mode, deadline, dedup, entities, refresh,
                   radio, apiKey>>

\* Whether the frame is a new press of a paired button, so that the slot's
\* Press entity triggers.
Rings(f) ==
    /\ up
    /\ f.type = "doorbell"
    /\ mode = "idle"
    /\ IsPaired(table, f.id)
    /\ ShouldPublish(dedup[Find(table, f.id)], f.secret, f.relay)

\* Whether the active pairing mode takes the frame.
Consumes(f) == up /\ f.type = "doorbell" /\ mode # "idle"

SlotFrame(f, outcome) ==
    LET s == Find(table, f.id) IN
    /\ mode = "idle"
    /\ IsPaired(table, f.id)
    /\ RememberBattery(s, f.low, outcome)
    /\ shown' = ShowBattery(s, f.low)
    /\ dedup' = IF Rings(f) THEN [dedup EXCEPT ![s] = Record(@, f.secret)] ELSE dedup
    /\ UNCHANGED <<power, pairing, advertised, refresh, radio, apiKey>>

OnReceive(f, outcome) ==
    /\ up
    /\ f.type = "doorbell"
    /\ \/ AlreadyPaired(f, outcome)
       \/ PairButton(f, outcome)
       \/ RemoveButton(f, outcome)
       \/ RemoveUnpaired(f)
       \/ SlotFrame(f, outcome)

(***************************************************************************)
(* A capture without a frame.  Only one that is plausible and shows the    *)
(* demodulator's collapse asks for a recovery, and not during one or       *)
(* within its cooldown.                                                    *)
(***************************************************************************)
OnReceiveUndecoded(capture) ==
    /\ up
    /\ capture = "collapsed"
    /\ ~recoveryPending
    /\ cooldown = 0
    /\ recoveryPending' = TRUE
    /\ UNCHANGED <<storage, power, table, pairing, dedup, entities, refresh, cooldown, apiKey>>

-----------------------------------------------------------------------------
(***************************************************************************)
(* loop().  A failure to persist the API key ends this call of it; the     *)
(* attempt is not repeated before the next boot.                           *)
(***************************************************************************)
LoopKeyNotSaved ==
    /\ up
    /\ apiKey = "pending"
    /\ "failed" \in KeyOutcomes
    /\ apiKey' = "failed"
    /\ UNCHANGED <<storage, power, table, pairing, dedup, entities, refresh, radio>>

\* A bug to rule out: a radio recovery ends this call of loop().
LoopRecoveryReturns ==
    /\ up
    /\ apiKey = "pending" => "saved" \in KeyOutcomes
    /\ apiKey' = IF apiKey = "pending" THEN "saved" ELSE apiKey
    /\ recoveryPending' = FALSE
    /\ cooldown' = IF recoveryPending THEN RadioCooldown ELSE cooldown
    /\ IF mode # "idle" /\ deadline = 0 /\ ~recoveryPending
       THEN Leave("idle") ELSE UNCHANGED pairing
    /\ UNCHANGED <<storage, power, table, dedup, entities, refresh>>

\* A bug to rule out: no radio recovery while a pairing mode is active.
LoopRecoversWhenIdle ==
    /\ up
    /\ apiKey = "pending" => "saved" \in KeyOutcomes
    /\ apiKey' = IF apiKey = "pending" THEN "saved" ELSE apiKey
    /\ recoveryPending' = (recoveryPending /\ mode # "idle")
    /\ cooldown' = IF recoveryPending /\ mode = "idle" THEN RadioCooldown ELSE cooldown
    /\ IF mode # "idle" /\ deadline = 0 THEN Leave("idle") ELSE UNCHANGED pairing
    /\ UNCHANGED <<storage, power, table, dedup, entities, refresh>>

Loop ==
    /\ up
    /\ apiKey = "pending" => "saved" \in KeyOutcomes
    /\ apiKey' = IF apiKey = "pending" THEN "saved" ELSE apiKey
    /\ recoveryPending' = FALSE
    /\ cooldown' = IF recoveryPending THEN RadioCooldown ELSE cooldown
    /\ IF mode # "idle" /\ deadline = 0 THEN Leave("idle") ELSE UNCHANGED pairing
    /\ UNCHANGED <<storage, power, table, dedup, entities, refresh>>

(***************************************************************************)
(* setup(): load the record, migrate a legacy one, decide what discovery   *)
(* lists and publish every entity.                                         *)
(***************************************************************************)
Setup(outcome) ==
    LET t == Decode(nvs) IN
    /\ ~up
    /\ bootIn = 0
    /\ up' = TRUE
    /\ table' = t
    /\ IF Migrates(nvs) THEN Save(t, outcome)
       ELSE UNCHANGED <<nvs, staged, saveFailed>> /\ unsaved' = {}
    /\ advertised' = Occupied(t)
    /\ shown' = ShowAll(t)
    /\ apiKey' = IF HasApiKey THEN "pending" ELSE "none"
    /\ UNCHANGED <<bootIn, pairing, dedup, refresh, radio>>

(***************************************************************************)
(* Losing RAM.  The object is constructed anew; `table` keeps what RAM     *)
(* held, to compare it with what the next boot loads.                      *)
(***************************************************************************)
Restart ==
    /\ up' = FALSE
    /\ bootIn' = BootTime
    /\ staged' = NoRecord
    /\ saveFailed' = FALSE
    /\ unsaved' = unsaved \cap MayLoad'
    /\ mode' = "idle"
    /\ deadline' = 0
    /\ status' = "idle"
    /\ dedup' = [s \in Slots |-> ResetMemory]
    /\ shown' = NothingShown
    /\ advertised' = {}
    /\ refreshPending' = FALSE
    /\ refreshIn' = 0
    /\ recoveryPending' = FALSE
    /\ cooldown' = 0
    /\ apiKey' = "none"
    /\ UNCHANGED table

\* App.safe_reboot(), whose shutdown hooks may still write a staged record.
Reboot ==
    /\ up
    /\ refreshPending
    /\ refreshIn = 0
    /\ nvs' \in {nvs} \cup (IF staged = NoRecord THEN {} ELSE {staged})
    /\ Restart

Crash ==
    /\ up
    /\ UNCHANGED nvs
    /\ Restart

\* Any later sync(), of another component or of ESPHome's own timer.
BackgroundSync ==
    /\ staged # NoRecord
    /\ nvs' = staged
    /\ staged' = NoRecord
    /\ unsaved' = unsaved \cap MayLoad'
    /\ UNCHANGED <<saveFailed, power, table, pairing, dedup, entities, refresh, radio, apiKey>>

Left(timer) == IF timer > 0 THEN timer - 1 ELSE 0

Tick ==
    /\ bootIn' = Left(bootIn)
    /\ deadline' = Left(deadline)
    /\ refreshIn' = Left(refreshIn)
    /\ cooldown' = Left(cooldown)
    /\ dedup' = [s \in Slots |-> Older(dedup[s])]
    /\ UNCHANGED <<storage, up, table, mode, status, entities, refreshPending,
                   recoveryPending, apiKey>>

-----------------------------------------------------------------------------
Init ==
    /\ nvs \in StoredRecords
    /\ staged = NoRecord
    /\ saveFailed = FALSE
    /\ unsaved = {}
    /\ up = FALSE
    /\ bootIn = BootTime
    /\ table = Decode(nvs)
    /\ mode = "idle"
    /\ deadline = 0
    /\ status = "idle"
    /\ dedup = [s \in Slots |-> ResetMemory]
    /\ shown = NothingShown
    /\ advertised = {}
    /\ refreshPending = FALSE
    /\ refreshIn = 0
    /\ recoveryPending = FALSE
    /\ cooldown = 0
    /\ apiKey = "none"

Controls ==
    \/ StartPairing
    \/ StartRemoval
    \/ CancelPairing
    \/ \E s \in Slots, outcome \in SaveOutcomes : ForgetSlot(s, outcome)

Receive == \E f \in Frames, outcome \in SaveOutcomes : OnReceive(f, outcome)

ReceiveUndecoded == \E capture \in Captures : OnReceiveUndecoded(capture)

Boot == \E outcome \in SaveOutcomes : Setup(outcome)

Next ==
    \/ Controls
    \/ Receive
    \/ ReceiveUndecoded
    \/ LoopKeyNotSaved
    \/ Loop
    \/ Boot
    \/ Reboot
    \/ Crash
    \/ BackgroundSync
    \/ Tick

(***************************************************************************)
(* Fairness: time passes, the main loop keeps calling loop(), a due        *)
(* timeout is run and a powered gateway boots.  Nothing is assumed of      *)
(* users, of radio traffic or of background writes.                        *)
(***************************************************************************)
Fairness ==
    /\ WF_vars(Tick)
    /\ WF_vars(LoopKeyNotSaved \/ Loop)
    /\ WF_vars(Reboot)
    /\ WF_vars(Boot)

Spec == Init /\ [][Next]_vars /\ Fairness

-----------------------------------------------------------------------------
(***************************************************************************)
(* Types.                                                                  *)
(***************************************************************************)

\* Every variable has its type, and the table in RAM is one that restore()
\* would accept: no ID in two slots, no battery bit of an empty slot.  What
\* save_pairings_ writes can therefore be loaded at the next boot.
TypeOK ==
    /\ nvs \in StoredRecord
    /\ staged \in StoredRecord
    /\ saveFailed \in BOOLEAN
    /\ unsaved \subseteq Table
    /\ up \in BOOLEAN
    /\ bootIn \in 0 .. BootTime
    /\ table \in Table
    /\ Restorable(table)
    /\ mode \in {"idle", "pair", "remove"}
    /\ deadline \in 0 .. PairingTimeout
    /\ status \in {"idle", "pair", "remove", "saved", "unsaved"}
    /\ dedup \in [Slots -> Memory]
    /\ shown \in Shown
    /\ advertised \subseteq Slots
    /\ refreshPending \in BOOLEAN
    /\ refreshIn \in 0 .. RefreshDelay
    /\ recoveryPending \in BOOLEAN
    /\ cooldown \in 0 .. RadioCooldown
    /\ apiKey \in {"none", "pending", "saved", "failed"}

-----------------------------------------------------------------------------
(***************************************************************************)
(* Storage.                                                                *)
(***************************************************************************)

\* The two tables differ in one slot at most, and not by another owner.
OneSlotApart(a, b) ==
    \E s \in Slots :
        /\ \A r \in Slots \ {s} :
               /\ a.ids[r] = b.ids[r]
               /\ BatteryOf(a, r) = BatteryOf(b, r)
        /\ a.ids[s] = b.ids[s] \/ a.ids[s] = Empty \/ b.ids[s] = Empty

\* Whatever sequence of saves failed, was staged, was flushed late or was
\* undone in RAM: the record in flash, and the one that may still be written
\* there, load to the table in RAM or to one a single operation away from it.
\* A restart at any point is therefore at most one operation off; which way is
\* the matter of RestartLosesNothing.
RestartSafe ==
    /\ OneSlotApart(Decode(nvs), table)
    /\ staged # NoRecord =>
           /\ staged.format = "v2"
           /\ Restorable(staged.table)
           /\ OneSlotApart(staged.table, table)

\* While the last save succeeded, flash holds exactly the table in RAM and
\* no older record waits to overwrite it.
SavedUnlessFailed ==
    up /\ ~saveFailed => Decode(nvs) = table /\ staged = NoRecord

\* A restart, now or at any later point before the next save, loads the table
\* of RAM or one whose save was reported as failed since the last boot or the
\* last save that succeeded: it never brings back an owner or a battery state
\* from before a change that save_pairings_ reported as saved, however many
\* failed saves, late flushes and undone changes lie around that change.
RestartLosesNothing == MayLoad \subseteq {table} \cup unsaved

\* "Paired", "Removed" and "Forgot", once shown by the Pairing state entity,
\* stay true of flash for as long as they are shown: later failed battery
\* writes and late flushes cannot bring an old owner back.
ReportedChangeIsDurable ==
    status = "saved" =>
        /\ Decode(nvs).ids = table.ids
        /\ staged # NoRecord => staged.table.ids = table.ids

\* A slot goes from one transmitter to another only by being empty in
\* between, also across restarts that load an older or a newer record.
SlotsNeverChangeHands ==
    [][\A s \in Slots :
          \/ table'.ids[s] = table.ids[s]
          \/ table'.ids[s] = Empty
          \/ table.ids[s] = Empty]_vars

(***************************************************************************)
(* The abstract registry, read off the table in RAM.                       *)
(***************************************************************************)
PairedIds(t) == {t.ids[s] : s \in Occupied(t)}

Registry == INSTANCE PairingRegistry WITH
    Buttons  <- Ids,
    Capacity <- NumSlots,
    battery  <- [id \in PairedIds(table) |-> BatteryOf(table, Find(table, id))]

\* The gateway, with all its failed saves, late flushes and restarts, only
\* ever takes steps of the registry: no handler and no restart pairs, removes
\* or learns more than one thing at a time, swaps one button for another, pairs
\* beyond the capacity, or forgets the battery of a button that stays paired.
\* That a restart does not undo a saved change is RestartLosesNothing's to say.
ImplementsRegistry == Registry!Spec

-----------------------------------------------------------------------------
(***************************************************************************)
(* Pairing mode.                                                           *)
(***************************************************************************)

\* While pairing is on there is a slot to pair into, and while removal is on
\* a button to remove: whatever is forgotten, paired or restarted meanwhile,
\* a frame in pairing mode never meets the FULL branch of add().
ModeCanSucceed ==
    /\ mode = "pair" => ~Full(table)
    /\ mode = "remove" => Occupied(table) # {}

\* The Pairing state entity announces a mode exactly while it is active, on
\* every path that enters or leaves one.
StatusReportsMode ==
    \A m \in {"pair", "remove"} : status = m <=> mode = m

-----------------------------------------------------------------------------
(***************************************************************************)
(* Entities, discovery and deduplication of the slots.                     *)
(***************************************************************************)

\* The paired, transmitter ID and count entities show the table in RAM at
\* all times, also after a change that was undone because it was not saved.
EntitiesMirrorTable ==
    up => shown.ids = table.ids /\ shown.count = Size(table)

\* RAM, or a record that the next boot may load, has the battery state of the
\* button that is paired in the slot.
Remembered(s) ==
    \E t \in {table} \cup MayLoad : s \in t.known /\ t.ids[s] = table.ids[s]

\* A battery state that RAM, flash or the staged record has of a paired button
\* is never shown as unknown, also where writing it failed, was undone in RAM
\* and reaches flash late.  (A button whose pairing failed has no slot.)
BatteryNotUnshown ==
    up => \A s \in Slots : Remembered(s) => shown.battery[s] # "unknown"

\* API discovery, fixed at boot, lists exactly the paired slots unless the
\* restart that will correct it is already scheduled.
StaleDiscoveryPending ==
    up /\ advertised # Occupied(table) => refreshPending

\* An empty slot remembers no event, so that a button paired into it later
\* is not taken for a copy of its predecessor's presses.
EmptySlotRemembersNothing ==
    \A s \in Slots \ Occupied(table) : dedup[s] = ResetMemory

-----------------------------------------------------------------------------
(***************************************************************************)
(* Liveness.                                                               *)
(***************************************************************************)

\* Pairing and removal mode end by themselves unless a user keeps renewing
\* them: the timeout of loop() is never starved by radio recoveries, by a
\* failed API key write or by frames of unpaired buttons.
ModeEnds ==
    <>[][~(StartPairing \/ StartRemoval)]_vars => []<>(mode = "idle")

\* Discovery that no longer matches the table is corrected.
DiscoveryCatchesUp ==
    advertised # Occupied(table) ~> advertised = Occupied(table)

\* A radio recovery that was asked for happens, or the gateway restarts.
RecoveryHappens == recoveryPending ~> ~recoveryPending
=============================================================================
