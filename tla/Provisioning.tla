---------------------------- MODULE Provisioning ----------------------------
(***************************************************************************)
(* Provisioning a device over USB (scripts/provision_device.py): the       *)
(* commands that flash and check it, the receipt file that remembers how   *)
(* far it has come, and the devices themselves.                            *)
(*                                                                         *)
(* A flash command checks, writes the device and then saves the receipt.   *)
(* The checks and the write are one action, saving the receipt another, so *)
(* that the write may fail and the host may die in between, and the device *)
(* may boot what was written.                                              *)
(***************************************************************************)
EXTENDS FiniteSets, Naturals

CONSTANTS
    Devices,
    Sets,           \* artifact sets, told apart by the hash of the manifest
    NoSet,          \* no usable manifest
    NvsOffset,      \* nvs_offset of each set, in some unit of flash
    Reach,          \* where the factory images of each set end
    Interruptible   \* the commands that may fail after they began to write

Commands == {"prepare", "flash-bootstrap", "verify-bootstrap", "flash-production",
             "verify-production", "flash-recovery", "restore-production"}

ASSUME ProvisioningAssumption ==
    /\ NoSet \notin Sets
    /\ Interruptible \subseteq Commands
    /\ NvsOffset \in [Sets -> Nat]
    /\ Reach \in [Sets -> Nat]
    /\ \A set \in Sets : Reach[set] <= NvsOffset[set]   \* verify_build

VARIABLES
    artifacts,   \* the artifact set in .provisioning/artifacts
    receipt,     \* device-state.json
    port,        \* the device on the serial port
    saving,      \* the command that has written and has yet to save
    image,       \* the factory image in the flash of each device
    nvs,         \* what each device holds where an NVS partition may be
    hmac,        \* devices whose eFuse BLOCK_KEY0 is HMAC_UP
    locked       \* devices with Secure Boot, a digest and Secure Download

provisioningVars == <<artifacts, receipt, port, saving, image, nvs, hmac, locked>>

hostVars == <<artifacts, receipt, port, saving>>

Credentials == {"api_key", "wifi"}

Offsets == {NvsOffset[set] : set \in Sets}

ErasedNvs == [offset \in Offsets |-> {}]

\* Flash without a complete image: blank, or a write that stopped halfway.
NoImage == [profile |-> "none", set |-> NoSet]

Image == [profile : {"bootstrap", "production", "recovery"}, set : Sets] \cup {NoImage}

NoReceipt == [stage |-> "none", mac |-> "none", set |-> NoSet]

\* The host died while save_state wrote the file: it is not JSON.
TornReceipt == [NoReceipt EXCEPT !.stage = "torn"]

Stages == {"bootstrap_flashed", "bootstrap_verified", "production_flashed", "complete"}

Receipt == [stage : Stages, mac : Devices, set : Sets]

-----------------------------------------------------------------------------
(***************************************************************************)
(* prepare_provisioning.py removes the old set before it writes the new.   *)
(***************************************************************************)
Prepare(set) ==
    /\ saving = "nothing"
    /\ artifacts' \in {set} \cup (IF "prepare" \in Interruptible THEN {NoSet} ELSE {})
    /\ UNCHANGED <<receipt, port, saving, image, nvs, hmac, locked>>

Connect(d) ==
    /\ saving = "nothing"
    /\ port' = d
    /\ UNCHANGED <<artifacts, receipt, saving, image, nvs, hmac, locked>>

\* A bug to rule out: the manifest is not checked.
LoadedUnchecked == saving = "nothing"

\* load_manifest() succeeds.
Loaded == saving = "nothing" /\ artifacts # NoSet

ReceiptAt(stage) == receipt.stage = stage /\ receipt.set = artifacts

\* save_state is no atomic write.
SaveState(new, command) ==
    receipt' \in {new} \cup (IF command \in Interruptible THEN {TornReceipt} ELSE {})

\* The checks that flash-recovery and restore-production share.
IsManaged(d) == d \in locked /\ d \in hmac

\* What an image of this set finds in its NVS partition.
Finds(d, set) == nvs[d][NvsOffset[set]]

\* A device ready for the transition that cannot be undone, under that set.
Provisioned(d, set) == d \in hmac /\ Finds(d, set) = Credentials

\* --erase-all, on the device at the port.
EraseAll == nvs' = [nvs EXCEPT ![port] = ErasedNvs]

\* A bug to rule out: the image ends where the partition does.
OverwriteNvs ==
    nvs' = [nvs EXCEPT ![port] =
               [offset \in Offsets |-> IF offset <= Reach[artifacts] THEN {} ELSE @[offset]]]

\* A factory image that is written from 0x0 replaces the flash up to its end.
Overwrite ==
    nvs' = [nvs EXCEPT ![port] =
               [offset \in Offsets |-> IF offset < Reach[artifacts] THEN {} ELSE @[offset]]]

(***************************************************************************)
(* write_factory.  A write that fails raises, and the command ends.        *)
(***************************************************************************)
WriteFactory(profile, command, next) ==
    \/ /\ image' = [image EXCEPT ![port] = [profile |-> profile, set |-> artifacts]]
       /\ saving' = next
    \/ /\ command \in Interruptible
       /\ image' = [image EXCEPT ![port] = NoImage]
       /\ saving' = "nothing"

-----------------------------------------------------------------------------
FlashBootstrap ==
    /\ Loaded
    /\ port \notin locked
    /\ WriteFactory("bootstrap", "flash-bootstrap", "flash-bootstrap")
    /\ EraseAll
    /\ UNCHANGED <<artifacts, receipt, port, hmac, locked>>

(***************************************************************************)
(* The operator confirms with --confirm-nvs-retained what the script can   *)
(* not see, that the credentials survived a reboot.  He does not lie.      *)
(***************************************************************************)
VerifyBootstrap ==
    /\ Loaded
    /\ ReceiptAt("bootstrap_flashed")
    /\ receipt.mac = port
    /\ port \in hmac \ locked
    /\ Finds(port, artifacts) = Credentials
    /\ SaveState([receipt EXCEPT !.stage = "bootstrap_verified"], "verify-bootstrap")
    /\ UNCHANGED <<artifacts, port, saving, image, nvs, hmac, locked>>

\* A bug to rule out: production goes to whatever device is there.
FlashProductionAnyDevice ==
    /\ Loaded
    /\ ReceiptAt("bootstrap_verified")
    /\ port \in hmac \ locked
    /\ WriteFactory("production", "flash-production", "flash-production")
    /\ Overwrite
    /\ UNCHANGED <<artifacts, receipt, port, hmac, locked>>

FlashProduction ==
    /\ Loaded
    /\ ReceiptAt("bootstrap_verified")
    /\ receipt.mac = port
    /\ port \in hmac \ locked
    /\ WriteFactory("production", "flash-production", "flash-production")
    /\ Overwrite
    /\ UNCHANGED <<artifacts, receipt, port, hmac, locked>>

(***************************************************************************)
(* save_state at the end of a flash command.  It reads the file before it  *)
(* writes it, so that a torn one is never replaced.                        *)
(***************************************************************************)
SaveReceipt ==
    /\ saving # "nothing"
    /\ IF receipt = TornReceipt
       THEN UNCHANGED receipt
       ELSE SaveState(IF saving = "flash-bootstrap"
                      THEN [stage |-> "bootstrap_flashed", mac |-> port, set |-> artifacts]
                      ELSE [receipt EXCEPT !.stage = "production_flashed"], saving)
    /\ saving' = "nothing"
    /\ UNCHANGED <<artifacts, port, image, nvs, hmac, locked>>

\* The host dies before it could save.
LoseReceipt ==
    /\ saving \in Interruptible
    /\ saving' = "nothing"
    /\ UNCHANGED <<artifacts, receipt, port, image, nvs, hmac, locked>>

\* It checks the device on the port, whichever that is.
VerifyProduction ==
    /\ Loaded
    /\ ReceiptAt("production_flashed")
    /\ IsManaged(port)
    /\ SaveState([receipt EXCEPT !.stage = "complete"], "verify-production")
    /\ UNCHANGED <<artifacts, port, saving, image, nvs, hmac, locked>>

FlashRecovery ==
    /\ Loaded
    /\ IsManaged(port)
    /\ WriteFactory("recovery", "flash-recovery", "nothing")
    /\ Overwrite
    /\ UNCHANGED <<artifacts, receipt, port, hmac, locked>>

RestoreProduction ==
    /\ Loaded
    /\ IsManaged(port)
    /\ WriteFactory("production", "restore-production", "nothing")
    /\ Overwrite
    /\ UNCHANGED <<artifacts, receipt, port, hmac, locked>>

-----------------------------------------------------------------------------
(***************************************************************************)
(* The devices.  Every image creates the NVS key if there is none; the two *)
(* private ones save the API key, and production locks the device.  Wi-Fi  *)
(* comes through BLE Improv, or has not come yet.                          *)
(***************************************************************************)
Saved(profile, onboarded) ==
    (IF profile = "production" THEN {} ELSE {"api_key"}) \cup (IF onboarded THEN {"wifi"} ELSE {})

Boot(d, onboarded) ==
    /\ image[d] # NoImage
    /\ hmac' = hmac \cup {d}
    /\ locked' = IF image[d].profile = "production" THEN locked \cup {d} ELSE locked
    /\ nvs' = [nvs EXCEPT ![d][NvsOffset[image[d].set]] =
                  @ \cup Saved(image[d].profile, onboarded)]
    /\ UNCHANGED <<hostVars, image>>

\* What the recovery image is for.
DamageNvs(d) ==
    /\ d \in locked
    /\ nvs' = [nvs EXCEPT ![d] = ErasedNvs]
    /\ UNCHANGED <<hostVars, image, hmac, locked>>

ProvisioningInit ==
    /\ artifacts = NoSet
    /\ receipt = NoReceipt
    /\ port \in Devices
    /\ saving = "nothing"
    /\ image = [d \in Devices |-> NoImage]
    /\ nvs = [d \in Devices |-> ErasedNvs]
    /\ hmac = {}
    /\ locked = {}

ProvisioningNext ==
    \/ \E set \in Sets : Prepare(set)
    \/ FlashBootstrap
    \/ VerifyBootstrap
    \/ FlashProduction
    \/ SaveReceipt
    \/ LoseReceipt
    \/ VerifyProduction
    \/ FlashRecovery
    \/ RestoreProduction
    \/ \E d \in Devices : Connect(d) \/ DamageNvs(d)
    \/ \E d \in Devices, onboarded \in BOOLEAN : Boot(d, onboarded)

ProvisioningSpec == ProvisioningInit /\ [][ProvisioningNext]_provisioningVars

-----------------------------------------------------------------------------
\* Every variable has its type; in particular no image and no receipt comes
\* from an artifact set that was never complete.
ProvisioningTypeOK ==
    /\ artifacts \in Sets \cup {NoSet}
    /\ receipt \in Receipt \cup {NoReceipt, TornReceipt}
    /\ port \in Devices
    /\ saving \in {"nothing", "flash-bootstrap", "flash-production"}
    /\ image \in [Devices -> Image]
    /\ nvs \in [Devices -> [Offsets -> SUBSET Credentials]]
    /\ hmac \subseteq Devices
    /\ locked \subseteq Devices

\* What the receipt says of its device is true of that device: whatever other
\* devices were connected, artifacts rebuilt and commands given out of order.
ReceiptTruthful ==
    receipt \in Receipt /\ saving = "nothing" =>
        LET d == receipt.mac IN
        /\ receipt.stage = "bootstrap_flashed" =>
               d \notin locked /\ image[d] = [profile |-> "bootstrap", set |-> receipt.set]
        /\ receipt.stage = "bootstrap_verified" => d \in locked \/ Provisioned(d, receipt.set)
        /\ receipt.stage \in {"production_flashed", "complete"} =>
               \/ d \in locked
               \/ /\ Provisioned(d, receipt.set)
                  /\ image[d] = [profile |-> "production", set |-> receipt.set]

\* The irreversible transition happens only to a device that has its NVS key,
\* its API key and its network: provision_device.py is there to "guard the
\* irreversible ESP32-C6 bootstrap-to-Secure-Boot transition."
LocksOnlyProvisioned ==
    [][\A d \in Devices : d \in locked' \ locked => Provisioned(d, image[d].set)]_provisioningVars

\* docs/secure-wifi-provisioning.md, of restore-production with a newly built
\* artifact set: "The retained API key and ActivLink pairings survive."
RestoredKeepsCredentials ==
    [][ RestoreProduction /\ image[port] # NoImage /\ image'[port] # NoImage =>
            Finds(port, image[port].set) \subseteq Finds(port, image[port].set)'
       ]_provisioningVars
=============================================================================
