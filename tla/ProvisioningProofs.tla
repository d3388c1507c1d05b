------------------------- MODULE ProvisioningProofs -------------------------
(***************************************************************************)
(* Theorems about provisioning, for any devices and any artifact sets.     *)
(***************************************************************************)
EXTENDS Provisioning, TLAPS

-----------------------------------------------------------------------------
(***************************************************************************)
(* Types, with any command interrupted.  A command that saves has loaded a *)
(* manifest, and flash-production has a receipt to update.                 *)
(***************************************************************************)
SavingHasManifest ==
    /\ saving # "nothing" => artifacts # NoSet
    /\ saving = "flash-production" => receipt \in Receipt

ProvisioningTypeInv == ProvisioningTypeOK /\ SavingHasManifest

\* The initial states have their types.
LEMMA InitTyped == ProvisioningInit => ProvisioningTypeInv
  BY DEF ProvisioningInit, ProvisioningTypeInv, ProvisioningTypeOK, SavingHasManifest,
         Receipt, NoReceipt, Image, NoImage, ErasedNvs

\* write_factory leaves each device with an image of its type.
LEMMA WriteTyped ==
    ASSUME ProvisioningTypeOK, artifacts # NoSet,
           NEW profile \in {"bootstrap", "production", "recovery"}, NEW command,
           NEW next \in {"nothing", "flash-bootstrap", "flash-production"},
           WriteFactory(profile, command, next)
    PROVE  /\ image' \in [Devices -> Image]
           /\ saving' \in {"nothing", next}
  BY DEF ProvisioningTypeOK, WriteFactory, Image, NoImage

\* save_state leaves a receipt of its type, or a torn one.
LEMMA SaveTyped ==
    ASSUME NEW new \in Receipt, NEW command, SaveState(new, command)
    PROVE  receipt' \in Receipt \cup {NoReceipt, TornReceipt}
  BY DEF SaveState

\* Both ways to write leave every NVS partition with its type.
LEMMA NvsTyped ==
    ASSUME ProvisioningTypeOK, EraseAll \/ Overwrite
    PROVE  nvs' \in [Devices -> [Offsets -> SUBSET Credentials]]
<1>1. nvs[port] \in [Offsets -> SUBSET Credentials]
  BY DEF ProvisioningTypeOK
<1>2. ErasedNvs \in [Offsets -> SUBSET Credentials]
  BY DEF ErasedNvs
<1>3. [offset \in Offsets |-> IF offset < Reach[artifacts] THEN {} ELSE nvs[port][offset]]
          \in [Offsets -> SUBSET Credentials]
  BY <1>1
<1> QED BY <1>2, <1>3 DEF EraseAll, Overwrite, ProvisioningTypeOK

\* Where the image on a device looks for its NVS.
LEMMA OffsetKnown ==
    ASSUME NEW set \in Sets
    PROVE  NvsOffset[set] \in Offsets
  BY DEF Offsets

\* A boot only adds credentials, where the image it starts has its NVS.
LEMMA BootAdds ==
    ASSUME ProvisioningTypeOK, NEW d \in Devices, NEW onboarded \in BOOLEAN, Boot(d, onboarded)
    PROVE  /\ nvs' \in [Devices -> [Offsets -> SUBSET Credentials]]
           /\ \A e \in Devices, offset \in Offsets : nvs[e][offset] \subseteq nvs'[e][offset]
<1> DEFINE new  == Saved(image[d].profile, onboarded)
           at   == NvsOffset[image[d].set]
           held == [nvs[d] EXCEPT ![at] = @ \cup new]
<1>1. image[d].set \in Sets
  BY DEF Boot, Image, ProvisioningTypeOK
<1>2. at \in Offsets
  BY <1>1, OffsetKnown
<1>3. new \subseteq Credentials
  BY DEF Credentials, Saved
<1>4. nvs' = [nvs EXCEPT ![d] = held]
  BY DEF Boot
<1>5. nvs[d] \in [Offsets -> SUBSET Credentials]
  BY DEF ProvisioningTypeOK
<1> HIDE DEF new, at
<1>6. held \in [Offsets -> SUBSET Credentials]
  BY <1>2, <1>3, <1>5
<1>7. \A offset \in Offsets : nvs[d][offset] \subseteq held[offset]
  BY <1>2, <1>5
<1> HIDE DEF held
<1> QED BY <1>4, <1>6, <1>7 DEF ProvisioningTypeOK

\* A receipt with a stage that save_state gives is a whole one.
LEMMA StageOfReceipt ==
    ASSUME ProvisioningTypeOK, receipt.stage \in Stages
    PROVE  receipt \in Receipt
  BY DEF ProvisioningTypeOK, Stages, NoReceipt, TornReceipt

\* Every step keeps the types.
LEMMA StepTyped == ProvisioningTypeInv /\ [ProvisioningNext]_provisioningVars => ProvisioningTypeInv'
<1> SUFFICES ASSUME ProvisioningTypeInv, [ProvisioningNext]_provisioningVars
             PROVE  ProvisioningTypeInv'
  OBVIOUS
<1> USE DEF ProvisioningTypeInv, ProvisioningTypeOK, SavingHasManifest
<1>1. ASSUME NEW set \in Sets, Prepare(set) PROVE ProvisioningTypeInv'
  BY <1>1 DEF Prepare
<1>2. CASE FlashBootstrap
  <2>1. image' \in [Devices -> Image] /\ saving' \in {"nothing", "flash-bootstrap"}
    BY <1>2, WriteTyped DEF FlashBootstrap, Loaded
  <2>2. nvs' \in [Devices -> [Offsets -> SUBSET Credentials]]
    BY <1>2, NvsTyped DEF FlashBootstrap
  <2> QED BY <2>1, <2>2, <1>2 DEF FlashBootstrap, Loaded
<1>3. CASE VerifyBootstrap
  <2>1. receipt \in Receipt
    BY <1>3, StageOfReceipt DEF VerifyBootstrap, ReceiptAt, Stages
  <2>2. [receipt EXCEPT !.stage = "bootstrap_verified"] \in Receipt
    BY <2>1 DEF Receipt, Stages
  <2> QED BY <1>3, <2>2, SaveTyped DEF VerifyBootstrap, Loaded
<1>4. CASE FlashProduction
  <2>1. image' \in [Devices -> Image] /\ saving' \in {"nothing", "flash-production"}
    BY <1>4, WriteTyped DEF FlashProduction, Loaded
  <2>2. receipt \in Receipt
    BY <1>4, StageOfReceipt DEF FlashProduction, ReceiptAt, Stages
  <2> QED BY <2>1, <2>2, <1>4, NvsTyped DEF FlashProduction, Loaded
<1>5. CASE SaveReceipt
  <2>1. receipt' \in Receipt \cup {NoReceipt, TornReceipt}
    <3>1. CASE saving = "flash-bootstrap"
      <4>1. [stage |-> "bootstrap_flashed", mac |-> port, set |-> artifacts] \in Receipt
        BY <3>1 DEF Receipt, Stages
      <4> QED BY <1>5, <3>1, <4>1, SaveTyped DEF SaveReceipt
    <3>2. CASE saving = "flash-production"
      <4>1. [receipt EXCEPT !.stage = "production_flashed"] \in Receipt
        BY <3>2 DEF Receipt, Stages
      <4> QED BY <1>5, <3>2, <4>1, SaveTyped DEF SaveReceipt
    <3> QED BY <1>5, <3>1, <3>2 DEF SaveReceipt
  <2> QED BY <2>1, <1>5 DEF SaveReceipt
<1>6. CASE LoseReceipt
  BY <1>6 DEF LoseReceipt
<1>7. CASE VerifyProduction
  <2>1. receipt \in Receipt
    BY <1>7, StageOfReceipt DEF VerifyProduction, ReceiptAt, Stages
  <2>2. [receipt EXCEPT !.stage = "complete"] \in Receipt
    BY <2>1 DEF Receipt, Stages
  <2> QED BY <1>7, <2>2, SaveTyped DEF VerifyProduction, Loaded
<1>8. CASE FlashRecovery
  <2>1. image' \in [Devices -> Image] /\ saving' = "nothing"
    BY <1>8, WriteTyped DEF FlashRecovery, Loaded
  <2> QED BY <2>1, <1>8, NvsTyped DEF FlashRecovery
<1>9. CASE RestoreProduction
  <2>1. image' \in [Devices -> Image] /\ saving' = "nothing"
    BY <1>9, WriteTyped DEF RestoreProduction, Loaded
  <2> QED BY <2>1, <1>9, NvsTyped DEF RestoreProduction
<1>10. ASSUME NEW d \in Devices, Connect(d) PROVE ProvisioningTypeInv'
  BY <1>10 DEF Connect
<1>11. ASSUME NEW d \in Devices, DamageNvs(d) PROVE ProvisioningTypeInv'
  BY <1>11 DEF DamageNvs, hostVars, ErasedNvs
<1>12. ASSUME NEW d \in Devices, NEW onboarded \in BOOLEAN, Boot(d, onboarded)
       PROVE  ProvisioningTypeInv'
  BY <1>12, BootAdds DEF Boot, hostVars
<1>13. CASE UNCHANGED provisioningVars
  BY <1>13 DEF provisioningVars
<1> QED
  BY <1>1, <1>2, <1>3, <1>4, <1>5, <1>6, <1>7, <1>8, <1>9, <1>10, <1>11, <1>12, <1>13
  DEF ProvisioningNext

\* Whatever fails, every variable of provision_device.py and of the devices
\* keeps its type, and no image or receipt comes from an unusable manifest.
THEOREM ProvisioningTypeCorrect == ProvisioningSpec => []ProvisioningTypeOK
<1>1. ProvisioningTypeInv => ProvisioningTypeOK
  BY DEF ProvisioningTypeInv
<1> QED BY <1>1, InitTyped, StepTyped, PTL DEF ProvisioningSpec

-----------------------------------------------------------------------------
(***************************************************************************)
(* Truth of the receipt, while the initial erase is not interrupted.  What *)
(* a flash command is about to save must be true already, since the device *)
(* may boot before it is saved, and a device that holds production must be *)
(* ready to lock at any moment.                                            *)
(***************************************************************************)
\* What the stages of a receipt say of a device and an artifact set.
HoldsBootstrap(d, set) ==
    d \notin locked /\ image[d] = [profile |-> "bootstrap", set |-> set]

HoldsProduction(d, set) ==
    \/ d \in locked
    \/ Provisioned(d, set) /\ image[d] = [profile |-> "production", set |-> set]

SavingIsTruthful ==
    /\ saving = "flash-bootstrap" => HoldsBootstrap(port, artifacts)
    /\ saving = "flash-production" =>
           /\ receipt.stage = "bootstrap_verified"
           /\ receipt.mac = port
           /\ receipt.set = artifacts
           /\ HoldsProduction(port, artifacts)

ProductionIsReady ==
    \A d \in Devices \ locked : image[d].profile = "production" => Provisioned(d, image[d].set)

TruthInv == SavingIsTruthful /\ ProductionIsReady /\ ReceiptTruthful

EraseCompletes == "flash-bootstrap" \notin Interruptible

\* Every step keeps the receipt true, and only ready devices lock.
LEMMA StepTruthful ==
    ASSUME EraseCompletes, ProvisioningTypeInv, TruthInv, [ProvisioningNext]_provisioningVars
    PROVE  TruthInv'
<1> USE DEF ProvisioningTypeInv, ProvisioningTypeOK, TruthInv
<1>1. ASSUME NEW set \in Sets, Prepare(set) PROVE TruthInv'
  BY <1>1 DEF Prepare, SavingIsTruthful, ProductionIsReady, ReceiptTruthful,
              HoldsBootstrap, HoldsProduction, Provisioned, Finds
<1>2. CASE FlashBootstrap
  <2>1. /\ image' = [image EXCEPT ![port] = [profile |-> "bootstrap", set |-> artifacts]]
        /\ saving' = "flash-bootstrap"
    BY <1>2 DEF FlashBootstrap, WriteFactory, EraseCompletes
  <2>2. SavingIsTruthful'
    BY <1>2, <2>1 DEF FlashBootstrap, SavingIsTruthful, HoldsBootstrap
  <2>3. ProductionIsReady'
    <3> SUFFICES ASSUME NEW e \in Devices \ locked, image'[e].profile = "production"
                 PROVE  Provisioned(e, image[e].set)'
      BY <1>2 DEF FlashBootstrap, ProductionIsReady
    <3>1. e # port
      BY <2>1
    <3> QED BY <1>2, <2>1, <3>1
            DEF FlashBootstrap, EraseAll, ProductionIsReady, Provisioned, Finds
  <2>4. ReceiptTruthful'
    BY <2>1 DEF ReceiptTruthful
  <2> QED BY <2>2, <2>3, <2>4
<1>3. CASE VerifyBootstrap
  <2>1. receipt \in Receipt /\ receipt.set = artifacts /\ receipt.mac = port
    BY <1>3, StageOfReceipt DEF VerifyBootstrap, ReceiptAt, Stages
  <2>2. Provisioned(port, artifacts)
    BY <1>3 DEF VerifyBootstrap, Provisioned
  <2>3. SavingIsTruthful' /\ ProductionIsReady'
    BY <1>3 DEF VerifyBootstrap, Loaded, SavingIsTruthful, ProductionIsReady, Provisioned, Finds
  <2>4. CASE receipt' = [receipt EXCEPT !.stage = "bootstrap_verified"]
    <3>1. ReceiptTruthful'
      BY <1>3, <2>1, <2>2, <2>4 DEF VerifyBootstrap, ReceiptTruthful, Receipt, Provisioned, Finds
    <3> QED BY <2>3, <3>1
  <2>5. CASE receipt' = TornReceipt
    BY <2>3, <2>5 DEF ReceiptTruthful, TornReceipt, NoReceipt
  <2> QED BY <1>3, <2>4, <2>5 DEF VerifyBootstrap, SaveState
<1>4. CASE FlashProduction
  <2>1. port \in hmac \ locked /\ Provisioned(port, artifacts) /\ artifacts \in Sets
    <3>1. receipt \in Receipt
      BY <1>4, StageOfReceipt DEF FlashProduction, ReceiptAt, Stages
    <3> QED BY <1>4, <3>1 DEF FlashProduction, Loaded, ReceiptAt, ReceiptTruthful
  <2>1a. /\ Provisioned(port, artifacts)'
         /\ \A e \in Devices \ {port}, set \in Sets :
                Provisioned(e, set) => Provisioned(e, set)'
    <3>1. ~(NvsOffset[artifacts] < Reach[artifacts])
      BY <2>1, ProvisioningAssumption
    <3> QED BY <1>4, <2>1, <3>1, OffsetKnown
            DEF FlashProduction, Overwrite, Provisioned, Finds
  <2>2. CASE /\ image' = [image EXCEPT ![port] = [profile |-> "production", set |-> artifacts]]
             /\ saving' = "flash-production"
    <3>1. SavingIsTruthful'
      BY <1>4, <2>1, <2>1a, <2>2 DEF FlashProduction, ReceiptAt, SavingIsTruthful, HoldsProduction
    <3>2. ProductionIsReady'
      BY <1>4, <2>1, <2>1a, <2>2 DEF FlashProduction, ProductionIsReady, Image, NoImage
    <3>3. ReceiptTruthful'
      BY <2>2 DEF ReceiptTruthful
    <3> QED BY <3>1, <3>2, <3>3
  <2>3. CASE image' = [image EXCEPT ![port] = NoImage] /\ saving' = "nothing"
    <3>1. SavingIsTruthful'
      BY <2>3 DEF SavingIsTruthful
    <3>2. ProductionIsReady'
      BY <1>4, <2>1a, <2>3 DEF FlashProduction, ProductionIsReady, Image, NoImage
    <3>3. ReceiptTruthful'
      BY <1>4, <2>1, <2>1a, <2>3 DEF FlashProduction, ReceiptAt, ReceiptTruthful
    <3> QED BY <3>1, <3>2, <3>3
  <2> QED BY <1>4, <2>2, <2>3 DEF FlashProduction, WriteFactory
<1>5. CASE SaveReceipt
  <2>1. ReceiptTruthful'
    <3>1. CASE receipt' = TornReceipt
      BY <3>1 DEF ReceiptTruthful, TornReceipt, NoReceipt
    <3>2. CASE /\ saving = "flash-bootstrap"
               /\ receipt' = [stage |-> "bootstrap_flashed", mac |-> port, set |-> artifacts]
      BY <1>5, <3>2 DEF SaveReceipt, SavingIsTruthful, HoldsBootstrap, ReceiptTruthful
    <3>3. CASE /\ saving = "flash-production"
               /\ receipt' = [receipt EXCEPT !.stage = "production_flashed"]
      BY <1>5, <3>3 DEF SaveReceipt, SavingIsTruthful, HoldsProduction, ReceiptTruthful,
                        Receipt, Provisioned, Finds
    <3> QED BY <1>5, <3>1, <3>2, <3>3 DEF SaveReceipt, SaveState
  <2> QED
    BY <2>1, <1>5 DEF SaveReceipt, SavingIsTruthful, ProductionIsReady, Provisioned, Finds
<1>6. CASE LoseReceipt
  BY <1>6 DEF LoseReceipt, EraseCompletes, SavingIsTruthful, HoldsProduction,
              ProductionIsReady, ReceiptTruthful, Provisioned, Finds
<1>7. CASE VerifyProduction
  <2>1. receipt \in Receipt
    BY <1>7, StageOfReceipt DEF VerifyProduction, ReceiptAt, Stages
  <2>2. SavingIsTruthful' /\ ProductionIsReady'
    BY <1>7 DEF VerifyProduction, Loaded, SavingIsTruthful, ProductionIsReady, Provisioned, Finds
  <2>3. CASE receipt' = [receipt EXCEPT !.stage = "complete"]
    <3>1. ReceiptTruthful'
      BY <1>7, <2>1, <2>3 DEF VerifyProduction, Loaded, ReceiptAt, ReceiptTruthful, Receipt,
                              Provisioned, Finds
    <3> QED BY <2>2, <3>1
  <2>4. CASE receipt' = TornReceipt
    BY <2>2, <2>4 DEF ReceiptTruthful, TornReceipt, NoReceipt
  <2> QED BY <1>7, <2>3, <2>4 DEF VerifyProduction, SaveState
<1>8. CASE FlashRecovery \/ RestoreProduction
  <2>1. /\ port \in locked
        /\ saving = "nothing" /\ saving' = "nothing"
        /\ UNCHANGED <<artifacts, receipt, port, hmac, locked>>
        /\ \A e \in Devices \ locked : image'[e] = image[e] /\ nvs'[e] = nvs[e]
    BY <1>8 DEF FlashRecovery, RestoreProduction, WriteFactory, Overwrite, IsManaged, Loaded
  <2>2. SavingIsTruthful' /\ ProductionIsReady'
    BY <2>1 DEF SavingIsTruthful, ProductionIsReady, Provisioned, Finds
  <2>3. ReceiptTruthful'
    BY <2>1 DEF ReceiptTruthful, Receipt, Provisioned, Finds
  <2> QED BY <2>2, <2>3
<1>9. ASSUME NEW d \in Devices, Connect(d) PROVE TruthInv'
  BY <1>9 DEF Connect, SavingIsTruthful, ProductionIsReady, ReceiptTruthful, Provisioned, Finds
<1>10. ASSUME NEW d \in Devices, DamageNvs(d) PROVE TruthInv'
  <2>1. /\ UNCHANGED <<artifacts, receipt, port, saving, image, hmac, locked>>
        /\ \A e \in Devices \ locked : nvs'[e] = nvs[e]
    BY <1>10 DEF DamageNvs, hostVars
  <2>2. SavingIsTruthful'
    BY <2>1 DEF SavingIsTruthful, HoldsBootstrap, HoldsProduction, Provisioned, Finds
  <2>3. ProductionIsReady'
    BY <2>1 DEF ProductionIsReady, Provisioned, Finds
  <2>4. ReceiptTruthful'
    BY <2>1 DEF ReceiptTruthful, Receipt, Provisioned, Finds
  <2> QED BY <2>2, <2>3, <2>4
<1>11. ASSUME NEW d \in Devices, NEW onboarded \in BOOLEAN, Boot(d, onboarded)
       PROVE  TruthInv'
  <2>1. /\ UNCHANGED <<artifacts, receipt, port, saving, image>>
        /\ hmac \subseteq hmac'
        /\ locked' = IF image[d].profile = "production" THEN locked \cup {d} ELSE locked
    BY <1>11 DEF Boot, hostVars
  <2>1a. \A e \in Devices, offset \in Offsets :
            nvs[e][offset] \subseteq nvs'[e][offset] /\ nvs'[e][offset] \subseteq Credentials
    <3>1. /\ nvs' \in [Devices -> [Offsets -> SUBSET Credentials]]
          /\ \A e \in Devices, offset \in Offsets : nvs[e][offset] \subseteq nvs'[e][offset]
      BY <1>11, BootAdds
    <3> QED BY <3>1
  <2>2. \A e \in Devices, set \in Sets : Provisioned(e, set) => Provisioned(e, set)'
    <3> SUFFICES ASSUME NEW e \in Devices, NEW set \in Sets, Provisioned(e, set)
                 PROVE  Provisioned(e, set)'
      OBVIOUS
    <3>1. NvsOffset[set] \in Offsets
      BY OffsetKnown
    <3>2. nvs'[e][NvsOffset[set]] = Credentials
      BY <2>1a, <3>1 DEF Provisioned, Finds
    <3> QED BY <2>1, <3>2 DEF Provisioned, Finds
  <2>3. SavingIsTruthful'
    <3>1. saving = "flash-bootstrap" => HoldsBootstrap(port, artifacts)'
      BY <2>1 DEF SavingIsTruthful, HoldsBootstrap
    <3>2. saving = "flash-production" => HoldsProduction(port, artifacts)'
      BY <2>1, <2>2 DEF SavingIsTruthful, SavingHasManifest, HoldsProduction
    <3> QED BY <2>1, <3>1, <3>2 DEF SavingIsTruthful
  <2>4. ProductionIsReady'
    BY <2>1, <2>2 DEF ProductionIsReady, Image, NoImage
  <2>5. ReceiptTruthful'
    BY <2>1, <2>2 DEF ReceiptTruthful, Receipt
  <2> QED BY <2>3, <2>4, <2>5
<1>12. CASE UNCHANGED provisioningVars
  BY <1>12 DEF provisioningVars, SavingIsTruthful, HoldsBootstrap, HoldsProduction,
               ProductionIsReady, ReceiptTruthful, Provisioned, Finds
<1> QED
  BY <1>1, <1>2, <1>3, <1>4, <1>5, <1>6, <1>7, <1>8, <1>9, <1>10, <1>11, <1>12
  DEF ProvisioningNext

\* The invariant holds.
LEMMA AlwaysTruthful ==
    ASSUME EraseCompletes
    PROVE  ProvisioningSpec => []TruthInv
<1>1. ProvisioningInit => TruthInv
  BY DEF ProvisioningInit, TruthInv, SavingIsTruthful, ProductionIsReady, ReceiptTruthful,
         NoImage, HoldsBootstrap, HoldsProduction, Receipt, NoReceipt
<1>2. ProvisioningTypeInv /\ TruthInv /\ [ProvisioningNext]_provisioningVars => TruthInv'
  BY StepTruthful
<1> QED BY <1>1, <1>2, InitTyped, StepTyped, PTL DEF ProvisioningSpec

\* As long as the initial erase is not interrupted, what the receipt says of
\* its device is true, whatever is connected, rebuilt, aborted or repeated.
THEOREM ReceiptIsTruthful ==
    ASSUME EraseCompletes
    PROVE  ProvisioningSpec => []ReceiptTruthful
<1>1. TruthInv => ReceiptTruthful
  BY DEF TruthInv
<1> QED BY <1>1, AlwaysTruthful, PTL

\* Under the same assumption Secure Boot is enabled only on a device that has
\* its NVS key, its API key and its network.
THEOREM OnlyProvisionedLock ==
    ASSUME EraseCompletes
    PROVE  ProvisioningSpec => LocksOnlyProvisioned
<1>1. TruthInv /\ [ProvisioningNext]_provisioningVars =>
          [\A d \in Devices : d \in locked' \ locked => Provisioned(d, image[d].set)]_provisioningVars
  <2> SUFFICES ASSUME ProductionIsReady, ProvisioningNext
               PROVE  \A d \in Devices : d \in locked' \ locked => Provisioned(d, image[d].set)
    BY DEF TruthInv
  <2>1. ASSUME NEW d \in Devices, NEW onboarded \in BOOLEAN, Boot(d, onboarded)
        PROVE  \A e \in Devices : e \in locked' \ locked => Provisioned(e, image[e].set)
    BY <2>1 DEF Boot, ProductionIsReady
  <2>2. CASE UNCHANGED locked
    BY <2>2
  <2> QED
    BY <2>1, <2>2 DEF ProvisioningNext, Prepare, FlashBootstrap, VerifyBootstrap,
       FlashProduction, SaveReceipt, LoseReceipt, VerifyProduction, FlashRecovery,
       RestoreProduction, Connect, DamageNvs
<1> QED
  BY <1>1, AlwaysTruthful, PTL DEF ProvisioningSpec, LocksOnlyProvisioned
=============================================================================
