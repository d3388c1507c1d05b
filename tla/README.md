# Verification of esphome-activlink

TLA+ models of the ActivLink gateway firmware (`components/honeywell_activlink/`),
of its Thread diagnostics, and of the scripts that build, check, release and
provision it; their TLC configurations; and theorems about them checked by
TLAPS. Line numbers refer to the commit this directory sits beside; paths are under `src/`, and the
short names `honeywell_activlink.cpp`, `pairing.cpp`, `event_deduplicator.cpp`
and `protocol.cpp` are files of `src/components/honeywell_activlink/`.

## The system

A Wi-Fi or Thread gateway (ESP32-C6 with a CC1101 radio) receives the 868 MHz
broadcasts of Honeywell ActivLink bell pushes, learns up to eight of them, and
publishes their presses to Home Assistant.

| Component | State | Operations |
|---|---|---|
| `PairingTable` (`pairing.cpp`) | eight IDs, two battery masks | `add`, `remove`, `find`, `restore`, `update_battery`, `clear` |
| `EventDeduplicator` (`event_deduplicator.cpp`) | for each kind of press, the time of the last event | `should_publish`, `record`, `reset` |
| `ActivLinkComponent` (`honeywell_activlink.cpp`) | the table, its flash record, pairing mode and deadline, a deduplicator and entities per slot, discovery, radio recovery, API key | `setup`, `loop`, `on_receive`, the three pairing controls, forget, the discovery restart |
| `ActivLinkBurstDecoder` (`protocol.cpp`) | eight candidates: frame, count, emitted, last seen | `decode`, `reset` |
| Row decoding, capture classification (`protocol.cpp`) | none | timings to frames, plausibility and collapse heuristics |
| `ThreadDiagnostics` (`thread_diagnostics.cpp`) | the entities, a warning status; OpenThread's state behind its lock | `update` |
| Firmware security checks (`scripts/firmware_security.py`) | none; reads a build directory | `verify_build`, `partition_layout`, `validate_private_inputs`, `assert_matching_partitions`, `validate_thread_dataset_tlv` |
| Provisioning set and release (`scripts/prepare_provisioning.py`, `prepare_release.py`) | build directories, artifacts and manifest, site and downloads | `prepare`; `build_firmware`, `prepare_assets` |
| Provisioning (`scripts/provision_device.py`) | receipt file, artifact set, eFuses, flash | seven commands that check or write a device |
| API patch, code generation | ESPHome's API sources, the generated code | patch at build time, or refuse |
| HTTP shim, packages | build time only | |

How they interact. The radio delivers a capture to `on_receive`; the burst
decoder may return a frame; the frame goes either to the active pairing mode,
which changes the table and saves it, or to the slot that owns its ID, whose
deduplicator decides whether the Press entity triggers. A change of owners that
was saved is published, recorded in the slot's deduplicator and followed, 750 ms
later, by a restart, because API discovery is fixed at boot. All handlers run on
one main loop, so each is atomic; the interleavings that matter are of
handlers, of time, of power failures, and of other components' `sync()` calls,
which flush whatever anybody staged.

Before all that a host provisions the device over USB: a private bootstrap image
creates the NVS key and takes the credentials, a receipt on the host records that
they were verified, and only then the production image enables Secure Boot,
which cannot be undone. Host and device share nothing but the flash and the eFuses.

The images come from ESPHome, which fills one directory for each profile; the
scripts do not trust it. They check what it left there, work out from the
partition table where NVS lies, and copy the images to where the next script
finds them: a manifest with hashes is all that passes from one to the other.

What is hard here, and what should be true of it:

- **Storage.** `save()` may fail; `sync()` may fail after `save()` staged the
  record, which then reaches flash at any later moment or never. RAM is rolled
  back meanwhile. A restart at any point must lose or repeat one operation at
  most, a change announced as saved must stay saved, and no sequence may produce
  a record that the next boot rejects (that would lose every pairing).
- **Pairing modes** are entered and left by users, frames, timeouts and other
  changes. A mode must always be able to succeed, must end, and must be the one
  announced.
- **Discovery and entities** are published at different moments from the table
  they describe.
- **Presses** are heard as several copies: repeated, lost, relayed a second
  later, interleaved with another press, with pairing, and with restarts.
- **Consensus** spans captures, competes for eight candidates and expires.
- **Provisioning** is a protocol over a file and a device that may be
  swapped, rebooted or left half written between any two commands. A checkpoint
  must never speak for a device or artifacts it does not belong to.
- **Building** is a long sequence of files, any of which may be missing, stale,
  or half written, by scripts that verify paths and copy contents later. What is
  accepted in the end must be one faultless whole.
- **The clock** has 32 bits and wraps after 49.7 days, on a gateway meant to
  run for years.
- **The OpenThread lock** belongs to another task. The main loop must not wait
  for it for ever, nor keep it, nor show two moments as one.

`PROJECT.json` lists each such hazard at its line, with the properties that
would show it going wrong, or why none does yet.

## Modules

| Module | Models | Notes |
|---|---|---|
| `PairingTable` | `pairing.cpp` | every method, as an operator on a table value |
| `EventDeduplicator` | `event_deduplicator.cpp` | a slot's two memories, by age |
| `ActivLink` | `honeywell_activlink.cpp` | one action per handler, with its saves, entities and timers |
| `PairingRegistry` | the promise | pairings without slots, flash or modes |
| `Presses` | `ActivLink` with buttons around it | pairs each physical press with what became of its copies |
| `BurstDecoder` | `ActivLinkBurstDecoder` | `decode()` row by row, with the rows it considered as history |
| `HeardBursts` | what was on the air | `BurstDecoder` with every row of every capture as history, dropped ones too |
| `Reception` | burst decoder, then deduplicator | the path of a press of a paired button through `on_receive` |
| `LoopTimers` | the timers of `honeywell_activlink.cpp` and `event_deduplicator.cpp` | as stamps of a clock that wraps, beside the time that really passed; nothing else of the handlers |
| `ThreadDiagnostics` | `thread_diagnostics.cpp`, its `__init__.py` | `update()` call by call, and OpenThread's task |
| `Provisioning` | `provision_device.py` | the commands, the receipt, and the devices as the scripts see them |
| `FirmwareBuild` | `firmware_security.py` | what a build is, and the checks as operators on it |
| `PartitionLayout` | `partition_layout` | row by row |
| `ThreadDataset` | `validate_thread_dataset_tlv` | type by type |
| `Preparation` | `prepare_provisioning.py`, `prepare_release.py`, the API patch | extends the two above; one step per compilation, row and file |
| `MCActivLink`, `MCPresses`, `MCHeardBursts`, `MCReception`, `MCProvisioning`, `MCBuild`, `MCMainLoop` | | instances for TLC |
| `Extrema`, `ActivLinkProofs`, `RegistryProofs`, `SurfaceProofs`, `ReceptionProofs`, `MainLoopProofs`, `ProvisioningProofs`, `BuildProofs` | | lemmas and theorems |

### From code to model

- **Handlers.** `ActivLink` has `StartPairing`, `StartRemoval`, `CancelPairing`
  and `ForgetSlot` for the controls; `OnReceive` for a decoded frame, whose
  disjuncts are the paths of `handle_pairing_frame_` and of a slot's frame;
  `OnReceiveUndecoded` for a capture without one; `Loop` and `LoopKeyNotSaved`
  (the early return of line 71) for `loop()`; `Setup`; and `Reboot` for the
  callback of the discovery timeout. `RememberBattery`, `Commit`, `ChangeOwners`
  and `ShowSlot` are the private methods the handlers call, inside the same
  step.
- **Flash.** `nvs` is the record in flash, `staged` what `save()` staged and no
  `sync()` wrote. `Save` has the three outcomes of `save_pairings_`;
  `BackgroundSync` is any later `sync()`, and `Reboot` may flush because ESPHome's
  shutdown hooks do. A crash within a handler adds nothing: before `sync()` it
  is a crash before the handler; after it, what flash holds is what an outcome
  `sync_failed` followed by `BackgroundSync` and `Crash` leaves. ESPHome's
  preference backend is external to the repository; this staging behaviour is
  what the code's own handling of a failed `sync()` relies on. `MayLoad` is what
  a boot may find; `unsaved` is history, the tables of failed saves that are still
  among it.
- **RAM.** `Restart` gives every variable its constructor's value. `table` alone
  keeps its value while the gateway is down, so that `RestartSafe`,
  `SlotsNeverChangeHands` and the refinement can compare what a boot loads with what
  was lost.
- **Time** is relative: ticks left of each timer, ticks since each event. That
  is exact for `now - last < window` up to the wrap of the 32-bit clock. `LoopTimers`
  has the clock: it keeps what the code keeps, `millis()` modulo `Wrap`, and as
  history the ticks that passed since, so that `TimersTellTime` can compare the two.
  A slot's memory there is set by `Press` (`should_publish`), by `Identify` (`record` in a
  pairing mode, which tests no window) and cleared by `Forget` (`reset`). Only the first
  `loop()` after a boot can return early, as it clears the flag that makes it (line 67);
  that is in `ActivLink`, and behaviours of `LoopTimers` begin after it.
- **Tables and masks.** A table is a record of the owners of the slots and two
  sets of slots for the two bit masks. `BadIds` are IDs above 0xFFFFF, which only
  a stored record can hold.
- **Burst decoder.** A call of `decode()` is `Decode` (the expiry loop) and one
  `ConsiderRow` per row, while time stands still, as the code reads the clock once.
  The first emission drops the remaining rows. `Replacement` is the outcome of
  the search loop: the last free candidate, or the first of least count.
  `burst` is a history variable: how many rows of each frame `decode()` considered
  without a gap, and how often they made it emit the frame. The rows that it drops are
  not in it. `HeardBursts` counts all the rows of a capture when it arrives, in
  `heard`, and marks a burst of which some came behind the emission of another frame
  (`cut`) or whose candidate was given to another frame (`evicted`).
- **Presses.** `air` holds the broadcasts of which a copy may still come, each
  with what the gateway has made of it so far. `cleared` marks a press of which
  the gateway has discarded its memory: it restarted, or the button lost its
  slot.
- **Provisioning.** A command's checks and its `write_factory` are one action;
  `SaveReceipt` is the `save_state` after it, so that the host may fail
  (`LoseReceipt`) or the device boot in between. `WriteFactory` may fail halfway and
  leave no bootable image. `save_state` writes in place, so that dying in it leaves
  `TornReceipt`, which `load_state` raises on ever after. An artifact set stands
  for the hash of its manifest. Each set has the NVS offset of its partition
  table, and flash may hold credentials at any of them: an image finds what lies at
  its own (`Finds`) and overwrites what lies before its end (`Overwrite`).
  Secure Boot, the secure download mode and the digest of the key, which the script checks
  one by one (lines 243-264), are one flag, `locked`, since the first boot of production
  sets them together and no property tells them apart.
  `Boot` is external: what each image does with the NVS key, the API key and
  Secure Boot is taken from docs/secure-wifi-provisioning.md and the profiles' packages.
  The operator gives commands in any order and plugs in any device, but not during a
  command, and passes `--confirm-nvs-retained` only if the credentials are there.
  `Interruptible` names the commands that may fail after they began to write.
- **Builds.** A build is a record of what `verify_build` looks at: the settings,
  the markers it searches for, which images are signed, the table, and the run
  each binary comes from. `run` stands for contents: two images are equal if they
  are of the same run and profile. `fault` is history, what ESPHome did wrong;
  `AcceptedSetIsSound` says that no image with a fault is ever accepted. `Compile`
  leaves in the tree of its profile a good build or one with a single fault.
  Every copy and every text file may come out `Torn`, `rmtree` may keep anything,
  and `Fail` ends a script anywhere.
- **Partition tables.** A row has a name, a type, an offset that may be left
  out, and a size with its suffix. Numbers are not negative; the alignment is
  the division that the mask does for powers of two.
- **Thread diagnostics.** `moment` is history: OpenThread's state when `update()`
  got the lock. Each call that reads the stack is a step, and so is every
  change of the stack by its own task while that holds the lock.

Left out: the diagnostic counters and their publication, the capture summary,
logging and `dump_config`, since nothing reads what they write; the FULL branch
of `add()` in pairing mode is modelled and shown unreachable (`ModeCanSucceed`).
Of the build scripts, the temporary configuration files, file modes and the
text of the pages; of the Thread diagnostics, the format of what is shown.

## Runs

| Run | Distinct states | Shows |
|---|---|---|
| `storage` | 64 359 | storage, modes, entities and discovery, for every outcome of every save; no restart undoes a saved change; `ActivLink` implements `PairingRegistry` |
| `live` | 20 202 | modes end, discovery is corrected, radio recoveries happen |
| `presses` | 384 719 | two buttons, both kinds of press, saves that may fail: a press rings at most once, an identifying press is silent while saves succeed, an empty slot remembers nothing |
| `presses_restart` | violation | a finding, see below |
| `bursts` | 2 767 093 (with symmetry) | eviction never emits what was not heard; no count leaves its type; a frame that keeps its candidate and loses no row behind an emission is emitted exactly once in each burst with enough rows on the air |
| `reception_spaced` | 12 932 | decoder and deduplicator together neither hide nor double a press |
| `reception_rapid` | violation | a finding |
| `provisioning` | 167 959 (with symmetry) | the receipt is true of its device, and only a provisioned device locks |
| `provisioning_interrupted` | violation | a finding |
| `provisioning_relaid` | violation | a finding |
| `build` | 686 851 | an accepted provisioning set and a successful release are sound; partitions never overlap; only well-formed datasets pass |
| `mainloop` | 253 074 | the timers tell the time whatever the clock says; the Thread diagnostics show one moment, give the lock back and return |

**Bounds.** Two slots and two transmitters are enough for every interaction of
slots that the code has: a full table, an empty one, a duplicate ID, the first
empty slot after a removal, and the other slot that must not change. The
storage run starts from a new gateway, from good records of both formats and
from one record for each reason to reject one. `MaxAir = 2` broadcasts give
every pair of overlapping presses; `PressRingsOnce` speaks of one press, and a
second is what can disturb it. The repeat window is 1 tick, the relay window 2 in
`presses` and 3 in `presses_restart` (where the restart has to fit into it), so that a
copy may fall before, between and after them. In `bursts` three frames meet two
candidates, which two of them may have to themselves as well; a capture has up to three
rows, so that rows are dropped behind an emission, which takes two; counts go to 3, so that
saturation is reached. `reception_*` uses the code's own
numbers: a tick of 250 ms, eight candidates, a gap of 6 ticks, four rows, windows
of 1 and 16 ticks, relayed copies 4 to 6 ticks after the press (README.md
says 1.0 to 1.35 s). `provisioning` has two devices and two artifact sets, one
of each that the receipt is about and one that it is not; nothing is bounded, its
states are finite.

`build` runs two scripts (`MaxRuns`), in any order, since the second meets all
that the first may leave behind; two versions, one of them below the minimum.
Its builds are each good table and each bad one, and each fault that a check is
there for. One fault is in the trees at a time: the checks are a
conjunction, so that a second fault could only help to refuse; what is left to
find is a check that is missing or bypassed. Tables of up to three rows in any
combination of fields are enough for a row to meet the one before it and the one
before that; addresses are scaled down (alignments 2 and 4, K is 2). Datasets
have up to six bytes of values 0 to 3, which gives up to three entries, every
truncation, a repeated type and each bad length. `mainloop` has a clock that
wraps at 8, all windows shorter than that and the deadline shorter than half of
it, as the code needs; every state of the timers meets the wrap. Its stack has
two networks and five roles, and five entities, one for each kind of condition.
In `MCBuild` and `MCMainLoop` a behaviour is of one of several parts that share no
state, with the others at rest.

**Fairness** (`Spec` of `ActivLink`). Weak fairness of `Tick`, since time passes;
of `loop()`, which ESPHome's main loop calls for ever; of `Reboot`, since the
scheduler runs a due timeout; and of `Boot`, since a powered gateway starts.
Nothing is assumed of users, radio traffic, background writes or the outcome of
a save. `ModeEnds` is therefore conditional on users ceasing to start modes.
The Thread diagnostics assume weak fairness of `Wait`, since ticks pass, and of
`UpdateNext`, since the main loop's task runs; nothing of OpenThread, whose task
may keep its lock for ever. `LoopTimers` states safety only, but bounds how late
`loop()` may be (`MaxDelay`), as the task watchdog does. The other specifications
state safety only.

## Proofs

Proved for any number of slots, candidates, transmitters, buttons and frames, any
partition tables, datasets, windows, timeouts and clock widths, any stored records and any
outcomes of saves. The only assumptions are the named `ASSUME`s of the modules and the
hypotheses that four theorems state: two about provisioning, that the initial erase is not
interrupted; `EnoughCandidatesAreExact`, that the frames fit into the candidates;
`PressesAreHeardOnce`, that two do and that presses are far enough apart.
Every safety property that a passing run checks is stated by a theorem.

| Theorem | Says |
|---|---|
| `MethodsKeepRestorable` | each method of the table maps a table `restore()` accepts to another |
| `TypeCorrect` | `Spec => []TypeOK`, which includes that the table in RAM can be restored |
| `RestartIsSafe`, `SavedIsDurable`, `ReportedIsDurable`, `RestartsLoseNothing` | the four storage invariants |
| `SlotsKeepOwners` | `SlotsNeverChangeHands`, an action property |
| `GatewayImplementsRegistry` | `Spec => ImplementsRegistry`, the refinement of `PairingRegistry` |
| `ModesCanSucceed`, `StatusIsTruthful` | a mode can always succeed and is announced exactly while active |
| `EntitiesAreTruthful`, `BatteriesAreShown`, `DiscoveryIsPending` | entities mirror the table, no battery that RAM, flash or the staged record has of a paired button is shown as unknown, stale discovery is about to be corrected |
| `EmptySlotsForget` | an empty slot remembers no press |
| `PressesRingOnce`, `PairingPressesAreSilent` | `PressRingsOnce` and `IdentifyingPressIsSilent`, for any number of buttons and of broadcasts in the air |
| `DecoderTypeCorrect` | `DecoderTypeOK`: no count leaves a `uint8_t` |
| `OnlyHeardIsEmitted` | `EmittedOnlyHeard`, with any number of competing frames |
| `EnoughCandidatesAreExact` | `HearingSpec => [](ExactConsensus /\ NoneEvicted)`, when there are no more frames than candidates |
| `PressesAreHeardOnce` | `EveryPressRingsOnce`, if two candidates fit and presses are spaced |
| `TimersAreRight`, `NothingComesTooSoon` | `TimersTellTime` and `NothingTooSoon`, for every `Wrap` |
| `OneMomentIsShown`, `LockIsGivenBack` | `SurfaceOfOneMoment` and `LockGivenBack`, for any entities |
| `ProvisioningTypeCorrect` | `ProvisioningTypeOK`: nothing comes from an unusable manifest |
| `ProvisioningSetsAreSound`, `ReleasesAreSound` | `AcceptedSetIsSound` and `ReleaseIsSound`, for any tables and any fault of the list |
| `ChecksDatasets` | `AcceptsWellFormed`, for any bytes and lengths |
| `LayoutIsApart`, `ImplicitRowsAlwaysFit` | `PartitionsApart` and `ImplicitRowsFit`, for any table and any alignments |
| `ReceiptIsTruthful`, `OnlyProvisionedLock` | `ReceiptTruthful` and `LocksOnlyProvisioned`, unless `flash-bootstrap` is interrupted |

**Storage.** The first three storage invariants are proved together, as `StorageInv`.
None is inductive alone. A failed `sync()` leaves RAM and flash one operation
apart, so a later change could leave them two apart: `RestartSafe` survives it
because every save that succeeds overwrites flash with RAM and clears `staged`,
and every one that fails puts RAM back. What is missing is that nothing is staged
and no failure is recorded while the gateway is down (`DownIsClean`); with it,
what `Setup` loads is what flash holds. `SlotsNeverChangeHands` then follows
from `RestartSafe` for the boot, and from the lemmas about `Put` for the other steps.
`RestartSafe` has no direction: flash one operation behind RAM would satisfy it, too.
`RestartLosesNothing` has one: whatever a boot may load is RAM's table or one of a
failed save (`unsaved`), which only a save that succeeds, or a boot, empties. It is
inductive beside `StorageInv`; what it needs is that a save that fails adds the table that
it may leave in flash, and that RAM's own table is left there or undone to.

**Refinement.** The registry has one variable, the battery state of each paired
button, mapped to what the table in RAM says. A step of the registry is a
table that `Advances` the old one by one operation. Handlers do that by
construction of the tables they save; a boot does because of `FlashOneStepOff`:
flash, and the staged record, hold RAM's table or one that a single operation makes of
it. `RestartSafe` is too weak here, as it lets a battery be forgotten. The registry lets a
boot pair or remove one button, as a late flush of a failed save does; it
does not say that the boot loses no saved change, which is `RestartLosesNothing`.

**What users see.** `SurfaceInv` joins the six properties with `DownIsIdle`: while
the gateway is down no mode is active and no press remembered, so that loading
another table than RAM held cannot leave a mode that must fail or a memory in
an empty slot. Its proof classifies the steps first: one keeps the owners,
changes one of them, boots or restarts.

**Presses.** `PressesInv` says that a broadcast that rang or identified its button is
`Covered` until the gateway discards what it remembers: the gateway is up, and the slot of
that button remembers an event of that kind at least as young as the broadcast. So the window of
every copy that may still come is open: direct copies come within the repeat window
of the press, relayed ones within the relay window. That needs
`RepeatWindow <= RelayWindow`; `RelayWindow > 0` excludes the configuration in which
nothing is remembered at all and a broadcast has no age (`PressesAssumption`).

**Burst decoder.** `CandidatesHeard` ties each candidate in use to the burst of
its frame: their ages agree, it counts no more than was heard, and no two
candidates share a frame. The age makes both expire in the same `Decode`; the
count makes an emission mean that enough was heard. For exactness
`NothingEvicted` adds that every burst has a candidate, which counts exactly;
that a new frame finds a free candidate is the pigeonhole principle. That is exact about
the rows considered (`ConsideredExactly`). `HearingInv` carries it over to the rows on the
air: where a burst is not `cut`, what was considered of it and what is still to be considered
is all that was heard. A `cut` burst is left open; Known limits says why.
TLC checked these strengthenings before they were proved.

**Decoder and deduplicator.** `ReceptionInv` builds on that exactness: what `decode()`
returns can be read off `burst`; its captures hold one frame each, so that nothing of
another frame is dropped. The rows under consideration are all of one frame
(`Considers`). Those of a press find the last burst over (`BurstEnds`) and the repeat window
of the last event past (`WindowEnds`), so that the row that completes the burst rings; those
of a relayed copy find the relay window open if the press rang (`WindowOpen`). The
hypothesis `PressesSpaced` says that presses are further apart than `BurstGap` and than
the last relayed copy, and come no sooner than a repeat window after it. `reception_spaced`
satisfies it with nothing to spare: with presses one tick nearer TLC finds a hidden press.

**Timers.** `TimersInv` says that each stamp is the clock of its event, `age` ticks
ago, modulo `Wrap`, and bounds the ages of the timers that `loop()` serves by their
period and the time since it ran. The rest is arithmetic: `now - stamp` modulo `Wrap` is
the age while that is below `Wrap`, and the deadline's test of the sign bit needs
half of that.

**Thread diagnostics.** `ThreadInv` says that `update()` holds the lock exactly while it
reads, that OpenThread is then still as it was at `moment`, and that what was read so far is
right for that moment; published, it stays so until the next update that gets the lock.

**Builds.** `PreparationInv` follows a script from stage to stage: what is verified so far is
good, which profiles those are, and how far the copies have come; the manifest, once it loads,
speaks of what lies beside it. At its heart is `FaultsAreSeen`: `verify_build` refuses a
build with any fault of the list, whatever its table makes of the partitions. `BuildsAreGood`
speaks of every layout that would pass, so it is out of TLC's reach and was only
proved. `PreparationAssumption` says that the faults of an instance are those of the list.

**Datasets.** `DatasetInv` keeps the headers read so far: they lead to the cursor, and
every way to decompose the dataset begins with them. The verdict is therefore about the
only decomposition there is. `DatasetAssumption` says that the bytes are numbers.

**Provisioning.** `ReceiptTruthful` is silent while a command has written and not
saved. `SavingIsTruthful` says that what it is about to save is true already, and
that flash-production still holds the checkpoint it started from, to which a host
failure returns. `ProductionIsReady` says that a device with production in its
flash may boot it at any moment; together they give `LocksOnlyProvisioned`.
The assumption is needed: without it `provisioning_interrupted` is the counterexample.
That credentials are counted at the offset of the image's own set needs
`ProvisioningAssumption`: no image reaches the NVS offset of its set, which
`verify_build` checks and `AcceptedSetIsSound` shows of every set it accepts.

**Partitions.** `PartitionsApart` is not inductive: the next partition starts at
the cursor or behind it, and is clear of the others only because all of them
end there or before (`PlacedBefore`). `ImplicitRowsAlwaysFit` rests on two lemmas
of arithmetic: `Align` rounds up, and to a multiple.

**Model-checked only.** Liveness (`ModeEnds`, `DiscoveryCatchesUp`, `RecoveryHappens`,
`UpdateReturns`), since TLAPS does not reach fairness. The violations under Findings
are counterexamples of TLC.

## Findings

1. `presses_restart`. README.md:223-225: "Pairing and removal consume the
   identifying RF press rather than emitting a doorbell event." A successful
   pairing restarts the gateway 750 ms later and the deduplicator's record of
   the identifying press is lost; a relayed copy decoded after the boot rings.
   `IdentifyingPressIsSilent` shows that, while saves succeed, nothing else breaks
   the promise. (A removal whose save fails does: honeywell_activlink.cpp:376-380
   puts the pairing back without recording the press. It is listed as a hazard.)
2. `provisioning_relaid`. docs/secure-wifi-provisioning.md:142 says of a locked device restored
   with a newly built artifact set: "The retained API key and ActivLink pairings
   survive." `restore-production` compares the set with nothing on the device, and no
   script checks that NVS is at 0x390000, which line 24 of that document promises.
   A set built with another partition layout looks for NVS elsewhere or runs over it.
3. `reception_rapid`. README.md:117-119 has the 250 ms filter "so genuine rapid
   presses are not hidden". The burst decoder hides a second press that comes
   within 1.5 s of the rows of the first, before that filter is asked.
   `reception_spaced` shows that presses further apart are neither hidden nor doubled.
4. `provisioning_interrupted`. provision_device.py:214 calls the checkpoint proof that
   "the encrypted NVS key and provisioned credentials survived a reboot." A repeated
   `flash-bootstrap` erases the device at line 189 and replaces the receipt only
   after the write; interrupted in between it leaves the old checkpoint, and
   `flash-production` then locks a device without credentials. (They can still be
   restored with `flash-recovery`.)

## Known limits

Shown while modelling, and not counted as findings:

- protocol.h:47-50 promises that "A long gap between sightings of the same frame starts a
  new burst; within a burst, each distinct frame is emitted at most once." There are two
  ways around it, the two exceptions of `ExactConsensus`. With more distinct frames than
  candidates an emitted candidate may be evicted and its frame come back; that takes nine
  parity-valid frames in 1.5 s. And `decode()` returns at an emission and drops the rows behind
  it, which do not renew their frame's `last_seen_ms`: a frame that was emitted, then came
  behind the emission of another one, and comes again less than a gap later is emitted twice,
  though it was never silent for a gap. The invariant that `emissions` stays below 2 has that
  as its counterexample, of 12 states with two frames and two candidates. A frame whose first
  rows are dropped so may also be emitted late, or not at all.
- About 49.7 days after an event of a slot, or a radio recovery, its window seems to
  run once more: `TimersTellTime` is restricted to less than one wrap, and no property
  rules out that this one time a press is suppressed or a recovery put off.
- A receipt that was torn is never replaced: each command that would do it reads it first.
  `ReceiptTruthful` is silent about it.
- What earlier releases, of other versions, left in site/ or release-assets/ is not
  looked at; `ReleaseIsSound` speaks of the files of the version released.
- `CONFIG_SCHEMA` accepts any positive periods. The deadline comparison needs
  `pairing_timeout` below 2^31 ms (`TimersAssumption`), and `PressRingsOnce` is
  stated for a relay window no shorter than the repeat window.
- docs/secure-wifi-provisioning.md:35 says the verifier checks the list above it.
  `verify_build` has no check of the BOOT-button authorizer, the
  provisioning window, the baud rate or the NVS address.
- partitions.csv and the binary partition table are taken to agree; `verify_build`
  reads the one and the device the other.

## Not modelled

- Row decoding and capture classification of `protocol.cpp`: arithmetic on timing
  vectors without state, which the repository's tests cover with recorded captures. In
  the models a capture is the frames its rows decode to, or a kind of failure.
- The diagnostic counters of `ActivLinkComponent`, and `reset()` of the burst decoder,
  which nothing calls.
- The HTTP shim, the packages and the wiring of entities in `__init__.py`: they keep no
  state. `.github/workflows/release.yml` is seen only as the caller of
  `prepare_release.py`.
- Two scripts at once on one checkout: nothing says they may be.

`validate_thread_dataset_tlv` is modelled although only tests call it.

## Plan

Done: all components of the inventory but those above, and the theorems above.
What a further step would take up, in this order:

1. The path of a press from end to end: `Presses` over the burst decoder instead of over
   decoded frames, as a refinement of the `Presses` of today.
2. An abstract specification of provisioning, a device that is open, provisioned or
   locked, which `Provisioning` implements.
3. Lemmas that bound what the code decides by numbers, such as the delay within which
   a late frame still pairs.
4. The counters of `ActivLinkComponent`.
