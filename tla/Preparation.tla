---------------------------- MODULE Preparation -----------------------------
(***************************************************************************)
(* Building, checking and laying out firmware images                       *)
(* (scripts/prepare_provisioning.py and scripts/prepare_release.py).       *)
(*                                                                         *)
(* Both scripts compile, verify what the compiler left in the build        *)
(* directory, and copy from there: the provisioning set for                *)
(* provision_device.py to accept or refuse (load_manifest), the release    *)
(* for GitHub Pages.  They keep paths of what they verified, not contents. *)
(* A step is one file, one compilation or one row of a partition table;    *)
(* a script may fail, or die, at any of them.  One script runs at a time.  *)
(***************************************************************************)
EXTENDS FirmwareBuild, FiniteSets, PartitionLayout

CONSTANTS
    Inputs,            \* private inputs that are tried
    Versions,
    MinimumVersion,    \* MINIMUM_RELEASE_VERSION
    Variants,          \* builds that are tried: a table, an application's size and a fault
    Upstreams,         \* the API sources of the ESPHome releases that are tried
    NoFile,
    Torn,              \* a file whose writer failed or died
    MaxRuns            \* bound: scripts that are run

ApiSources == {"api_pb2.h", "api_connection.cpp"}

\* What may be wrong with a build, and where.
Whats(profile, kind) ==
    CASE kind = "lost setting"  -> DOMAIN ConfiguredSettings(profile)
      [] kind = "weak setting"  -> WeakSettings(profile)
      [] kind = "lost marker"   -> GeneratedMarkers(profile) \cap RequiredMarkers(profile)
      [] kind = "leaked marker" -> ForbiddenMarkers(profile)
      [] kind = "unsigned"      -> {"ota"} \cup (IF profile = "bootstrap" THEN {} ELSE {"bootloader"})
      [] kind = "stale factory" -> {"bootloader", "partitions", "application"}
      [] OTHER                  -> {"any"}

FaultKinds == {"lost setting", "weak setting", "lost marker", "leaked marker", "unsigned",
               "missing file", "no flash map", "stale ota", "stale factory"}

\* What a build takes over from what it is made of.
InputFaults == {"api source gone", "placeholder key"}

FaultsOf(profile) ==
    UNION {[profile : {profile}, kind : {k}, what : Whats(profile, k)] : k \in FaultKinds}

Faults == UNION {FaultsOf(profile) : profile \in Profiles}

ASSUME PreparationAssumption ==
    /\ Inputs \subseteq PrivateInputs
    /\ \A v \in Variants : v.table \in Tables /\ v.size \in Nat /\ v.fault \in Faults \cup {NoFault}
    /\ NoFault \notin [profile : Profiles, kind : InputFaults, what : {"any"}]
    /\ Versions \subseteq Nat /\ MinimumVersion \in Nat
    /\ Upstreams \subseteq [ApiSources -> {"known", "changed", "gone"}]
    /\ MaxRuns \in Nat

VARIABLES
    upstream,    \* whether ESPHome's API sources are those the overlay knows
    runs,        \* the number of scripts run so far
    script,      \* the script that runs, and how far it is
    tree,        \* .esphome/build, by profile
    artifacts,   \* the images in .provisioning/artifacts
    manifest,    \* manifest.json beside them
    pages,       \* site/firmware: the images of each version, and the manifest
    downloads    \* release-assets

hostVars == <<upstream, runs, script, tree, artifacts, manifest, pages, downloads>>

preparationVars == <<hostVars, layoutVars>>

Order == <<"bootstrap", "production", "recovery">>

Kinds == {"ota", "factory"}

\* The order in which the images are copied.
KindOrder == <<"ota", "factory">>

FileOrder == [i \in 1 .. 6 |-> <<Order[(i + 1) \div 2], KindOrder[2 - (i % 2)]>>]

Idle == [name |-> "none", stage |-> "idle"]

NoBuild == [fault |-> NoFault]

-----------------------------------------------------------------------------
\* The profile that a script is at: release builds production only.
Current ==
    IF script.name = "release" THEN "production" ELSE Order[Cardinality(script.builds) + 1]

At(stage) == script.stage = stage

GoesTo(stage) == script' = [script EXCEPT !.stage = stage]

Ends(result) == script' = [Idle EXCEPT !.stage = result]

\* partition_layout keeps nothing when it has returned.
LayoutAtRest == table = <<>> /\ row = 1 /\ cursor = 0 /\ layout = <<>> /\ scan = "accepted"

LayoutIsOver ==
    table' = <<>> /\ row' = 1 /\ cursor' = 0 /\ layout' = <<>> /\ scan' = "accepted"

\* An image at the path that verify_build returned, as it is now.
ImageOf(profile, kind) ==
    LET b == tree[TreeOf(profile)] IN
    [profile |-> b.profile, kind |-> kind, version |-> b.version, fault |-> b.fault,
     run |-> IF kind = "ota" THEN b.ota ELSE b.factory.application,
     end |-> IF kind = "ota" THEN 0 ELSE b.factory.end]

\* A copy fails or is cut short.
CopyOf(profile, kind) == {ImageOf(profile, kind), Torn}

StartScript(name, version, key) ==
    /\ script.name = "none"
    /\ runs < MaxRuns
    /\ runs' = runs + 1
    /\ script' = [name |-> name, stage |-> "compile", version |-> version, api_key |-> key,
                  builds |-> {}]
    /\ UNCHANGED <<upstream, tree, artifacts, manifest, pages, downloads, layoutVars>>

StartProvisioning(version, inputs) ==
    /\ ValidatesPrivateInputs(inputs)
    /\ StartScript("provisioning", version, inputs.api_key)

StartRelease(version, inputs) ==
    /\ inputs.signing_key # "absent"
    /\ version >= MinimumVersion
    /\ StartScript("release", version, "unused")

-----------------------------------------------------------------------------
(***************************************************************************)
(* esphome compile.  The overlay patches the API sources if it finds its   *)
(* one match in each, and fails the build if a source is there and has     *)
(* changed; a source that is gone it never sees.                           *)
(***************************************************************************)
OverlayFails == "changed" \in {upstream[source] : source \in ApiSources}

FaultIn(build, kind) == [profile |-> build.profile, kind |-> kind, what |-> "any"]

\* What the overlay leaves in each of the sources.
MarkerOf(source) == IF source = "api_pb2.h" THEN "StaticVector_devices" ELSE "emplace_next"

\* Of a file that is gone, verify_build finds neither it nor its marker.
Overlaid(build) ==
    LET gone == {source \in ApiSources : upstream[source] = "gone"} IN
    IF gone = {} THEN build
    ELSE [build EXCEPT !.complete = FALSE, !.markers = @ \ {MarkerOf(source) : source \in gone},
                       !.fault = FaultIn(build, "api source gone")]

\* The private profiles hold the API key they were given.
Keyed(build) ==
    IF build.profile = "production" \/ script.api_key = "32 bytes" THEN build
    ELSE [build EXCEPT !.fault = FaultIn(build, "placeholder key")]

\* A build with one thing wrong.
Spoilt(build, fault) ==
    LET bad == [build EXCEPT !.fault = fault] IN
    CASE fault.kind = "lost setting" ->
             [bad EXCEPT !.sdkconfig = [o \in DOMAIN @ \ {fault.what} |-> @[o]]]
      [] fault.kind = "weak setting" ->
             [bad EXCEPT !.sdkconfig = [o \in DOMAIN @ \cup {fault.what} |->
                                           IF o = fault.what THEN "y" ELSE build.sdkconfig[o]]]
      [] fault.kind = "lost marker"   -> [bad EXCEPT !.markers = @ \ {fault.what}]
      [] fault.kind = "leaked marker" -> [bad EXCEPT !.markers = @ \cup {fault.what}]
      [] fault.kind = "unsigned"      -> [bad EXCEPT !.signed = @ \ {fault.what}]
      [] fault.kind = "missing file"  -> [bad EXCEPT !.complete = FALSE]
      [] fault.kind = "no flash map"  -> [bad EXCEPT !.flashMap = FALSE]
      [] fault.kind = "stale ota"     -> [bad EXCEPT !.ota = 0]
      [] fault.kind = "stale factory" -> [bad EXCEPT !.factory = [@ EXCEPT ![fault.what] = 0]]

\* A bound: one thing is wrong at a time, in all the directories together.
Compile(variant) ==
    LET built  == Keyed(Overlaid(Built(Current, runs, script.version, variant.table, variant.size)))
        others == {tree[profile].fault : profile \in Profiles \ {TreeOf(Current)}}
    IN  /\ At("compile")
        /\ ~OverlayFails
        /\ \/ variant.fault = NoFault /\ tree' = [tree EXCEPT ![TreeOf(Current)] = built]
           \/ /\ variant.fault # NoFault /\ variant.fault.profile = Current
              /\ built.fault = NoFault /\ others = {NoFault}
              /\ tree' = [tree EXCEPT ![TreeOf(Current)] = Spoilt(built, variant.fault)]
        /\ GoesTo("verify")
        /\ UNCHANGED <<upstream, runs, artifacts, manifest, pages, downloads, layoutVars>>

\* verify_build reads the partition table ...
BeginVerify ==
    LET begun == Begun(tree[TreeOf(Current)].table) IN
    /\ At("verify")
    /\ GoesTo("layout")
    /\ table' = begun.table
    /\ row' = begun.row
    /\ cursor' = begun.cursor
    /\ layout' = begun.layout
    /\ scan' = begun.scan
    /\ UNCHANGED <<upstream, runs, tree, artifacts, manifest, pages, downloads>>

ReadLayout ==
    /\ At("layout")
    /\ LayoutNext
    /\ UNCHANGED hostVars

\* ... and then knows whether the build will do.
FinishVerify ==
    LET build  == tree[TreeOf(Current)]
        builds == script.builds \cup {VerifiedBuild(Current, build, layout)}
    IN  /\ At("layout")
        /\ scan # "running"
        /\ IF scan = "accepted" /\ VerifiesBuild(Current, build, layout)
           THEN script' = [script EXCEPT !.builds = builds, !.stage =
                              IF script.name = "release" \/ Cardinality(builds) = 3
                              THEN "remove" ELSE "compile"]
           ELSE Ends("failed")
        /\ LayoutIsOver
        /\ UNCHANGED <<upstream, runs, tree, artifacts, manifest, pages, downloads>>

-----------------------------------------------------------------------------
(***************************************************************************)
(* prepare(): rmtree ignores its errors, mkdir does not.                   *)
(***************************************************************************)
RemoveArtifacts(kept, keptManifest) ==
    /\ At("remove") /\ script.name = "provisioning"
    /\ IF AssertMatchingPartitions(script.builds)
       THEN /\ artifacts' = [file \in kept |-> artifacts[file]]
            /\ manifest' = IF keptManifest THEN manifest ELSE NoFile
            /\ IF kept = {} /\ manifest' = NoFile THEN GoesTo("copy") ELSE Ends("failed")
       ELSE Ends("failed") /\ UNCHANGED <<artifacts, manifest>>
    /\ UNCHANGED <<upstream, runs, tree, pages, downloads, layoutVars>>

CopyArtifact ==
    LET next == FileOrder[Cardinality(DOMAIN artifacts) + 1] IN
    /\ At("copy") /\ script.name = "provisioning"
    /\ \E copy \in CopyOf(next[1], next[2]) :
          /\ artifacts' = With(artifacts, next, copy)
          /\ IF copy = Torn THEN Ends("failed")
             ELSE GoesTo(IF DOMAIN artifacts' = Profiles \X Kinds THEN "manifest" ELSE "copy")
    /\ UNCHANGED <<upstream, runs, tree, manifest, pages, downloads, layoutVars>>

WriteManifest ==
    /\ At("manifest") /\ script.name = "provisioning"
    /\ \/ /\ manifest' = [version |-> script.version, run |-> runs, files |-> artifacts,
                          nvs_offset |-> (CHOOSE b \in script.builds : TRUE).nvs_offset]
          /\ Ends("prepared")
       \/ manifest' = Torn /\ Ends("failed")
    /\ UNCHANGED <<upstream, runs, tree, artifacts, pages, downloads, layoutVars>>

\* load_manifest: every image is there and is the one that was hashed.
LoadsManifest ==
    /\ manifest \notin {NoFile, Torn}
    /\ Profiles \X Kinds \subseteq DOMAIN artifacts
    /\ \A file \in Profiles \X Kinds : artifacts[file] = manifest.files[file]
    /\ manifest.files[<<"production", "factory">>].end <= manifest.nvs_offset

-----------------------------------------------------------------------------
(***************************************************************************)
(* prepare_assets().  Of the site only the new version's directory must    *)
(* not be there yet; of release-assets everything must be gone.            *)
(***************************************************************************)
RemoveRelease(kept, keptManifest, keptDownloads) ==
    /\ At("remove") /\ script.name = "release"
    /\ pages' = [images   |-> [file \in kept |-> pages.images[file]],
                 manifest |-> IF keptManifest THEN pages.manifest ELSE NoFile]
    /\ downloads' = IF keptDownloads THEN downloads ELSE [images |-> <<>>, manifest |-> NoFile]
    /\ IF \E file \in kept : file[1] = script.version THEN Ends("failed")
       ELSE IF downloads'.images # <<>> \/ downloads'.manifest # NoFile THEN Ends("failed")
       ELSE GoesTo("copy")
    /\ UNCHANGED <<upstream, runs, tree, artifacts, manifest, layoutVars>>

\* An image goes to both places, the page first.
CopyRelease ==
    LET kind == KindOrder[Cardinality(DOMAIN downloads.images) + 1] IN
    /\ At("copy") /\ script.name = "release"
    /\ \E page, copy \in CopyOf("production", kind) :
          /\ pages' = [pages EXCEPT !.images = With(@, <<script.version, kind>>, page)]
          /\ downloads' = IF page = Torn THEN downloads
                          ELSE [downloads EXCEPT !.images = With(@, kind, copy)]
          /\ IF Torn \in {page, copy} THEN Ends("failed")
             ELSE GoesTo(IF DOMAIN downloads'.images = Kinds THEN "manifest" ELSE "copy")
    /\ UNCHANGED <<upstream, runs, tree, artifacts, manifest, layoutVars>>

\* Both get the same text: the version, and the digest of the OTA image.
WriteRelease ==
    LET text == [version |-> script.version, ota |-> ImageOf("production", "ota")] IN
    /\ At("manifest") /\ script.name = "release"
    /\ \E page, copy \in {text, Torn} :
          /\ pages' = [pages EXCEPT !.manifest = page]
          /\ downloads' = IF page = Torn THEN downloads ELSE [downloads EXCEPT !.manifest = copy]
          /\ Ends(IF Torn \in {page, copy} THEN "failed" ELSE "released")
    /\ UNCHANGED <<upstream, runs, tree, artifacts, manifest, layoutVars>>

-----------------------------------------------------------------------------
\* A compilation fails, a key is pressed, the host dies.
Fail ==
    /\ script.name # "none"
    /\ Ends("failed")
    /\ LayoutIsOver
    /\ UNCHANGED <<upstream, runs, tree, artifacts, manifest, pages, downloads>>

\* Another release of ESPHome is installed.
Upgrade(sources) ==
    /\ script.name = "none"
    /\ upstream' = sources
    /\ UNCHANGED <<runs, script, tree, artifacts, manifest, pages, downloads, layoutVars>>

PreparationInit ==
    /\ upstream = [source \in ApiSources |-> "known"]
    /\ runs = 0
    /\ script = Idle
    /\ tree = [profile \in Profiles |-> NoBuild]
    /\ artifacts = <<>>
    /\ manifest = NoFile
    /\ pages = [images |-> <<>>, manifest |-> NoFile]
    /\ downloads = [images |-> <<>>, manifest |-> NoFile]

Start ==
    \E version \in Versions, inputs \in Inputs :
        StartProvisioning(version, inputs) \/ StartRelease(version, inputs)

Build ==
    \/ \E variant \in Variants : Compile(variant)
    \/ BeginVerify
    \/ ReadLayout
    \/ FinishVerify

LayOut ==
    \/ \E kept \in SUBSET DOMAIN artifacts, keptManifest \in BOOLEAN :
          RemoveArtifacts(kept, keptManifest)
    \/ CopyArtifact
    \/ WriteManifest
    \/ \E kept \in SUBSET DOMAIN pages.images, keptManifest, keptDownloads \in BOOLEAN :
          RemoveRelease(kept, keptManifest, keptDownloads)
    \/ CopyRelease
    \/ WriteRelease

PreparationNext ==
    \/ Start
    \/ Build
    \/ LayOut
    \/ Fail
    \/ \E sources \in Upstreams : Upgrade(sources)

PreparationSpec == PreparationInit /\ LayoutAtRest /\ [][PreparationNext]_preparationVars

-----------------------------------------------------------------------------
\* Whatever fails, is interrupted or is left over: a provisioning set that
\* load_manifest accepts is complete, comes from one run, holds under each name
\* an image of that profile in the version of the manifest, of a build without
\* a fault, and all its factory images stop before NVS.
AcceptedSetIsSound ==
    LoadsManifest =>
        \A profile \in Profiles, kind \in Kinds :
            LET image == artifacts[<<profile, kind>>] IN
            /\ image.profile = profile /\ image.kind = kind
            /\ image.run = manifest.run /\ image.version = manifest.version
            /\ image.fault = NoFault
            /\ image.end <= manifest.nvs_offset

\* prepare_release.py, where it verifies: what it checks is "present in the
\* artifacts that will actually be released."  Whenever it has succeeded, page
\* and downloads hold the production image of one faultless build, in the
\* version of their manifests, which is no older than what is deployed.
ReleaseIsSound ==
    At("released") =>
        LET text == pages.manifest IN
        /\ downloads.manifest = text
        /\ text.version >= MinimumVersion
        /\ text.ota = pages.images[<<text.version, "ota">>]
        /\ \A kind \in Kinds :
              LET image == pages.images[<<text.version, kind>>] IN
              /\ downloads.images[kind] = image
              /\ image.profile = "production" /\ image.fault = NoFault
              /\ image.kind = kind /\ image.version = text.version
              /\ image.run = text.ota.run
=============================================================================
