--------------------------- MODULE FirmwareBuild ----------------------------
(***************************************************************************)
(* What a firmware build is made of and when it is good enough to be used  *)
(* (scripts/firmware_security.py).                                         *)
(*                                                                         *)
(* A build is the directory that ESPHome fills for one profile.  Of its    *)
(* files the model keeps what verify_build looks at: the settings of       *)
(* sdkconfig, the markers in the generated sources, which images are       *)
(* signed, and, for each binary, the run of the compiler it comes from;    *)
(* partitions.csv and the table made of it are taken to agree (`table`).   *)
(* `fault` is a history field: what is wrong with the build, if anything.  *)
(***************************************************************************)
EXTENDS Naturals

CONSTANTS
    NoFault,
    FactoryApp,   \* 0x10000, where the factory image holds the application
    Headroom      \* 0x8000

Profiles == {"bootstrap", "production", "recovery"}

\* BUILD_DIRECTORIES: a bug to rule out is one directory for all profiles.
OneTree(profile) == "production"

TreeOf(profile) == profile

-----------------------------------------------------------------------------
(***************************************************************************)
(* sdkconfig.  An option that the file does not mention is not set.        *)
(***************************************************************************)
CommonSettings ==
    [PARTITION_TABLE_OFFSET |-> "0xc000", NVS_ENCRYPTION |-> "y",
     NVS_SEC_KEY_PROTECT_USING_HMAC |-> "y", NVS_SEC_HMAC_EFUSE_KEY_ID |-> "0",
     SECURE_BOOT_BUILD_SIGNED_BINARIES |-> "y", SECURE_SIGNED_APPS_RSA_SCHEME |-> "y",
     SECURE_FLASH_ENC_ENABLED |-> "n"]

OpenSettings ==
    [SECURE_BOOT |-> "n", SECURE_SIGNED_APPS_NO_SECURE_BOOT |-> "y",
     SECURE_SIGNED_ON_UPDATE_NO_SECURE_BOOT |-> "y"]

LockedSettings ==
    [SECURE_BOOT |-> "y", SECURE_BOOT_V2_ENABLED |-> "y",
     SECURE_SIGNED_APPS_NO_SECURE_BOOT |-> "n", SECURE_SIGNED_ON_UPDATE_NO_SECURE_BOOT |-> "n",
     SECURE_BOOT_FLASH_BOOTLOADER_DEFAULT |-> "y", SECURE_ENABLE_SECURE_ROM_DL_MODE |-> "y",
     SECURE_BOOT_INSECURE |-> "n", SECURE_BOOT_ALLOW_JTAG |-> "n",
     SECURE_BOOT_V2_ALLOW_EFUSE_RD_DIS |-> "n",
     SECURE_BOOT_ENABLE_AGGRESSIVE_KEY_REVOKE |-> "n"]

Merged(settings, more) ==
    [option \in DOMAIN settings \cup DOMAIN more |->
        IF option \in DOMAIN settings THEN settings[option] ELSE more[option]]

RequiredSettings(profile) ==
    Merged(CommonSettings, IF profile = "bootstrap" THEN OpenSettings ELSE LockedSettings)

Setting(sdkconfig, option) == IF option \in DOMAIN sdkconfig THEN sdkconfig[option] ELSE "n"

CheckSdkconfig(profile, sdkconfig) ==
    \A option \in DOMAIN RequiredSettings(profile) :
        Setting(sdkconfig, option) = RequiredSettings(profile)[option]

-----------------------------------------------------------------------------
(***************************************************************************)
(* Markers in defines.h, main.cpp and the two API sources.                 *)
(***************************************************************************)
ApiMarkers == {"StaticVector_devices", "emplace_next"}

RequiredMarkers(profile) ==
    ApiMarkers \cup {"NAME_ADD_MAC_SUFFIX", "USE_WIFI", "USE_IMPROV"}
        \cup (IF profile = "production" THEN {"USER_DEFINED_ACTIONS"} ELSE {"set_api_encryption_key"})

ForbiddenMarkers(profile) ==
    {"USE_OPENTHREAD", "init_sta", "NOISE_PSK_FROM_YAML"}
        \cup (IF profile = "production" THEN {"set_api_encryption_key"} ELSE {})

\* A bug to rule out: the markers of the generated sources are not looked at.
VerifiesBinaries(profile, build, layout) ==
    /\ "ota" \in build.signed
    /\ build.application = build.ota
    /\ profile # "bootstrap" => "bootloader" \in build.signed
    /\ {"nvs", "app0"} \subseteq DOMAIN layout
    /\ build.size + Headroom <= layout["app0"].size
    /\ build.factory.end <= layout["nvs"].start

(***************************************************************************)
(* verify_build, given what partition_layout made of the build's table.    *)
(***************************************************************************)
VerifiesBuild(profile, build, layout) ==
    /\ build.complete
    /\ CheckSdkconfig(profile, build.sdkconfig)
    /\ "ota" \in build.signed
    /\ build.application = build.ota
    /\ profile # "bootstrap" => "bootloader" \in build.signed
    /\ RequiredMarkers(profile) \subseteq build.markers
    /\ ForbiddenMarkers(profile) \cap build.markers = {}
    /\ build.flashMap
    /\ {"nvs", "app0"} \subseteq DOMAIN layout
    /\ build.size + Headroom <= layout["app0"].size
    /\ build.factory.end <= layout["nvs"].start
    /\ build.factory.bootloader = build.bootloader
    /\ build.factory.partitions = build.partitions
    /\ build.factory.application = build.application /\ layout["app0"].start = FactoryApp

\* What verify_build returns; the images themselves are returned as paths.
VerifiedBuild(profile, build, layout) ==
    [profile |-> profile, partitions |-> build.table, nvs_offset |-> layout["nvs"].start]

AssertMatchingPartitions(builds) ==
    \A b, c \in builds : b.partitions = c.partitions /\ b.nvs_offset = c.nvs_offset

-----------------------------------------------------------------------------
(***************************************************************************)
(* validate_private_inputs: the signing key, its mode, and secrets.yaml.   *)
(***************************************************************************)
PrivateInputs ==
    [signing_key : {"absent", "readable by others", "private"}, secrets : {"absent", "no mapping", "mapping"},
     api_key : {"not base64", "zero or short", "32 bytes"}, ota_password : {"short", "long"}]

ValidInputs == [signing_key |-> "private", secrets |-> "mapping",
                api_key |-> "32 bytes", ota_password |-> "long"]

ValidatesPrivateInputs(inputs) ==
    /\ inputs.signing_key = ValidInputs.signing_key
    /\ inputs.secrets = ValidInputs.secrets
    /\ inputs.api_key = ValidInputs.api_key
    /\ inputs.ota_password = ValidInputs.ota_password

-----------------------------------------------------------------------------
(***************************************************************************)
(* What ESPHome makes of a profile, from the packages it includes.         *)
(***************************************************************************)
ConfiguredSettings(profile) ==
    Merged([PARTITION_TABLE_OFFSET |-> "0xc000", NVS_ENCRYPTION |-> "y",
            NVS_SEC_KEY_PROTECT_USING_HMAC |-> "y", NVS_SEC_HMAC_EFUSE_KEY_ID |-> "0",
            SECURE_BOOT_BUILD_SIGNED_BINARIES |-> "y", SECURE_SIGNED_APPS_RSA_SCHEME |-> "y"],
           IF profile = "bootstrap"
           THEN [SECURE_SIGNED_APPS_NO_SECURE_BOOT |-> "y",
                 SECURE_SIGNED_ON_UPDATE_NO_SECURE_BOOT |-> "y"]
           ELSE [SECURE_BOOT |-> "y", SECURE_BOOT_V2_ENABLED |-> "y",
                 SECURE_BOOT_FLASH_BOOTLOADER_DEFAULT |-> "y",
                 SECURE_ENABLE_SECURE_ROM_DL_MODE |-> "y"])

\* Settings that would weaken a device if they were switched on.
WeakSettings(profile) ==
    {"SECURE_FLASH_ENC_ENABLED"}
        \cup (IF profile = "bootstrap" THEN {"SECURE_BOOT"}
              ELSE {"SECURE_SIGNED_APPS_NO_SECURE_BOOT", "SECURE_BOOT_INSECURE",
                    "SECURE_SIGNED_ON_UPDATE_NO_SECURE_BOOT", "SECURE_BOOT_ALLOW_JTAG",
                    "SECURE_BOOT_V2_ALLOW_EFUSE_RD_DIS",
                    "SECURE_BOOT_ENABLE_AGGRESSIVE_KEY_REVOKE"})

\* The private profiles have the API key in their code (to_code), the managed
\* ones the recovery action.
GeneratedMarkers(profile) ==
    ApiMarkers \cup {"NAME_ADD_MAC_SUFFIX", "USE_WIFI", "USE_IMPROV"}
        \cup (IF profile = "production" THEN {} ELSE {"set_api_encryption_key"})
        \cup (IF profile = "bootstrap" THEN {} ELSE {"USER_DEFINED_ACTIONS"})

\* A build without a fault, of the given run and version, with the given table.
Built(profile, run, version, table, size) ==
    [profile     |-> profile, version |-> version, fault |-> NoFault, complete |-> TRUE,
     sdkconfig   |-> ConfiguredSettings(profile), markers |-> GeneratedMarkers(profile),
     signed      |-> {"ota", "bootloader"}, flashMap |-> TRUE, size |-> size,
     application |-> run, ota |-> run, bootloader |-> run, partitions |-> run, table |-> table,
     factory     |-> [bootloader |-> run, partitions |-> run, application |-> run,
                      end |-> FactoryApp + size]]
=============================================================================
