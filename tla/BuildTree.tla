------------------------------ MODULE BuildTree -----------------------------
(***************************************************************************)
(* The native library in one working tree: the sources, what cargo has     *)
(* built of them, what scripts/build-host-jni.sh stages for the tests and  *)
(* scripts/build-android-jni.sh for the AAR, and what Gradle then tests    *)
(* and packs.  The scripts, Gradle and the developer's own edits and cargo *)
(* builds run side by side; a script fails or is killed at any point.      *)
(*                                                                         *)
(* A library is known by the version of the sources it was built from.     *)
(* Only the native sources are versioned: Gradle itself compiles the       *)
(* Kotlin ones in every build.  Not modelled: the same script twice at     *)
(* once.                                                                   *)
(*                                                                         *)
(* External, as the scripts use it: cargo (a build that succeeds leaves    *)
(* the library of the present sources, one that fails what there was),     *)
(* Gradle (a test task whose inputs are those of its last success is up to *)
(* date; the contents of java.library.path are no input).                  *)
(***************************************************************************)
EXTENDS Integers, Sequences, SequencesExt

CONSTANTS Abis,         \* the ABIs in the order of the script's loop
          LastVersion   \* bound: versions of the native sources

AbiSet   == Range(Abis)

ASSUME BuildAssumption == Abis \in Seq(AbiSet) \ {<< >>} /\ LastVersion \in Nat /\ LastVersion >= 2

Profiles == {"release", "debug"}
Missing  == 0           \* no file
Torn     == -1          \* a file whose copying was cut off

VARIABLES
  rust,         \* the version of the native sources
  cargo,        \* rust-jni/target: what is built for each profile and ABI
  staged,       \* src/main/resources/native/<os>/<arch>
  jniLibs,      \* build/android/jniLibs/<abi>
  host,         \* the host script: step, profile, sources at the start, and osArch:
                \*   is the machine's uname one of the four it stages a library for?
  android,      \* the Android script: step, ABIs to do, and the sources there were
                \*   when OUT_DIR was last found empty
  lastPass,     \* the last test run that passed: its staged input, what it loaded
  loaded,       \* what the last test run since the host script ended has loaded,
                \*   and cargo's release build then
  verdict,      \* what a passed ./gradlew test stands for since the host script ended
  aar           \* build/libs: its libraries, and what the release's gate has tested

vars == << rust, cargo, staged, jniLibs, host, android, lastPass, loaded, verdict, aar >>

Versions == 1 .. LastVersion
File     == Versions \cup {Missing, Torn}
NoPass   == [staged |-> Missing, loaded |-> Missing]
NoRun    == [lib |-> Missing, release |-> Missing]
NoAar    == [jni |-> [a \in AbiSet |-> Missing], tested |-> Missing]

(* A new checkout, with what a cache may have restored to target/. *)
Init ==
  /\ rust = 2
  /\ cargo \in {[t \in Profiles \cup AbiSet |-> Missing], [t \in Profiles \cup AbiSet |-> 1]}
  /\ staged = Missing
  /\ jniLibs = [a \in AbiSet |-> Missing]
  /\ host \in [at : {"idle"}, profile : {"release"}, from : {Missing}, osArch : BOOLEAN]
  /\ android = [at |-> "idle", todo |-> << >>, from |-> Missing]
  /\ lastPass = NoPass /\ loaded = NoRun /\ verdict = Missing
  /\ aar = NoAar

---------------------------------------------------------------------------
(* The developer. *)

Edit ==
  /\ rust < LastVersion
  /\ rust' = rust + 1
  /\ UNCHANGED << cargo, staged, jniLibs, host, android, lastPass, loaded, verdict, aar >>

CargoBuild(t) ==
  /\ cargo' = [cargo EXCEPT ![t] = rust]
  /\ UNCHANGED << rust, staged, jniLibs, host, android, lastPass, loaded, verdict, aar >>

---------------------------------------------------------------------------
(* build-host-jni.sh [--debug] *)

HostStart(profile) ==
  /\ host.at \in {"idle", "ended"}
  /\ host' = [host EXCEPT !.at = "cargo", !.profile = profile, !.from = rust]
  /\ UNCHANGED << rust, cargo, staged, jniLibs, android, lastPass, loaded, verdict, aar >>

HostCargo ==
  /\ host.at = "cargo"
  /\ cargo' = [cargo EXCEPT ![host.profile] = rust]
  /\ host' = [host EXCEPT !.at = "stage"]
  /\ UNCHANGED << rust, staged, jniLibs, android, lastPass, loaded, verdict, aar >>

HostEnds ==
  /\ host' = [host EXCEPT !.at = "ended"]
  /\ loaded' = NoRun /\ verdict' = Missing
  /\ UNCHANGED << rust, cargo, jniLibs, android, lastPass, aar >>

(* mutant: a library that is staged already is left alone *)
HostStageOnce ==
  /\ host.at = "stage" /\ host.osArch
  /\ staged' = IF staged = Missing THEN cargo[host.profile] ELSE staged
  /\ HostEnds

(* cp $LIB: what cargo has built last for the profile. *)
HostStage ==
  /\ host.at = "stage" /\ host.osArch
  /\ staged' = cargo[host.profile]
  /\ HostEnds

(* An unrecognised host: a warning, nothing staged, exit 0. *)
HostSkipsStaging ==
  /\ host.at = "stage" /\ ~host.osArch
  /\ UNCHANGED staged
  /\ HostEnds

(* A missing submodule or tool, a compile error, an unsupported OS, a      *)
(* kill; a kill in cp leaves a torn file.                                  *)
HostFails ==
  /\ host.at \in {"cargo", "stage"}
  /\ \/ UNCHANGED staged
     \/ host.at = "stage" /\ host.osArch /\ staged' = Torn
  /\ host' = [host EXCEPT !.at = "idle"]
  /\ UNCHANGED << rust, cargo, jniLibs, android, lastPass, loaded, verdict, aar >>

---------------------------------------------------------------------------
(* ./gradlew test: OnymJni loads the staged resource if there is one, else *)
(* by java.library.path what is in target/release.                         *)

Found == IF staged # Missing THEN staged ELSE cargo["release"]

(* mutant: where the library does not load, the tests are skipped *)
TestRunsLenient ==
  /\ loaded' = [lib |-> Found, release |-> cargo["release"]]
  /\ lastPass' = [staged |-> staged, loaded |-> Found] /\ verdict' = Found
  /\ UNCHANGED << rust, cargo, staged, jniLibs, host, android, aar >>

(* A library that does not load fails the tests, other things may. *)
TestRuns ==
  /\ loaded' = [lib |-> Found, release |-> cargo["release"]]
  /\ \/ /\ Found \in Versions
        /\ lastPass' = [staged |-> staged, loaded |-> Found] /\ verdict' = Found
     \/ lastPass' = NoPass /\ verdict' = Missing
  /\ UNCHANGED << rust, cargo, staged, jniLibs, host, android, aar >>

TestUpToDate ==
  /\ lastPass # NoPass /\ lastPass.staged = staged
  /\ verdict' = lastPass.loaded
  /\ UNCHANGED << rust, cargo, staged, jniLibs, host, android, lastPass, loaded, aar >>

---------------------------------------------------------------------------
(* build-android-jni.sh *)

(* NDK, submodule, host and toolchain are looked at before anything is     *)
(* touched: a script that stops there leaves what an earlier one staged.   *)
AndroidStart ==
  /\ android.at \in {"idle", "ended"}
  /\ android' = [android EXCEPT !.at = "clean"]
  /\ UNCHANGED << rust, cargo, staged, jniLibs, host, lastPass, loaded, verdict, aar >>

(* rm -rf $OUT_DIR takes the libraries away one by one, in any order. *)
AndroidRemove(abi) ==
  /\ android.at = "clean" /\ jniLibs[abi] # Missing
  /\ jniLibs' = [jniLibs EXCEPT ![abi] = Missing]
  /\ UNCHANGED << rust, cargo, staged, host, android, lastPass, loaded, verdict, aar >>

(* mutant: rm -rf ... || true, or none at all *)
AndroidMakeDirUnchecked ==
  /\ android.at = "clean"
  /\ android' = [at |-> "cargo", todo |-> Abis, from |-> rust]
  /\ UNCHANGED << rust, cargo, staged, jniLibs, host, lastPass, loaded, verdict, aar >>

(* The directory is gone: mkdir -p, then the loop over the ABIs. *)
AndroidMakeDir ==
  /\ android.at = "clean" /\ \A a \in AbiSet : jniLibs[a] = Missing
  /\ android' = [at |-> "cargo", todo |-> Abis, from |-> rust]
  /\ UNCHANGED << rust, cargo, staged, jniLibs, host, lastPass, loaded, verdict, aar >>

(* mutant: without set -e, a cargo build that fails is passed over *)
AndroidCargoUnchecked ==
  /\ android.at = "cargo"
  /\ cargo' = cargo \/ cargo' = [cargo EXCEPT ![Head(android.todo)] = rust]
  /\ android' = [android EXCEPT !.at = "copy"]
  /\ UNCHANGED << rust, staged, jniLibs, host, lastPass, loaded, verdict, aar >>

AndroidCargo ==
  /\ android.at = "cargo"
  /\ cargo' = [cargo EXCEPT ![Head(android.todo)] = rust]
  /\ android' = [android EXCEPT !.at = "copy"]
  /\ UNCHANGED << rust, staged, jniLibs, host, lastPass, loaded, verdict, aar >>

AndroidCopy ==
  /\ android.at = "copy"
  /\ LET abi == Head(android.todo)
     IN  jniLibs' = [jniLibs EXCEPT ![abi] = cargo[abi]]
  /\ android' = [android EXCEPT !.todo = Tail(@),
                                !.at = IF Len(android.todo) = 1 THEN "ended" ELSE "cargo"]
  /\ UNCHANGED << rust, cargo, staged, host, lastPass, loaded, verdict, aar >>

(* A check, a tool or cargo fails, or the script is killed, anywhere.      *)
AndroidFails ==
  /\ android.at \in {"clean", "cargo", "copy"}
  /\ \/ UNCHANGED jniLibs
     \/ android.at = "copy" /\ jniLibs' = [jniLibs EXCEPT ![Head(android.todo)] = Torn]
  /\ android' = [android EXCEPT !.at = "idle", !.todo = << >>]
  /\ UNCHANGED << rust, cargo, staged, host, lastPass, loaded, verdict, aar >>

---------------------------------------------------------------------------
(* ./gradlew bundleAar packs the libraries that are there.                 *)

(* As in release.yml, the host script, a test and the Android script have  *)
(* gone before, all of the present sources, on a machine that the host     *)
(* script stages for (ubuntu-latest is Linux/x86_64).                      *)
ReleaseOrder ==
  /\ host.at = "ended" /\ host.from = rust /\ host.osArch
  /\ android.at = "ended" /\ android.from = rust

BundleAar ==
  /\ aar' = [jni    |-> jniLibs,
             tested |-> IF ReleaseOrder THEN verdict ELSE Missing]
  /\ UNCHANGED << rust, cargo, staged, jniLibs, host, android, lastPass, loaded, verdict >>

Next ==
  \/ Edit \/ \E t \in Profiles : CargoBuild(t)
  \/ \E p \in Profiles : HostStart(p)
  \/ HostCargo \/ HostStage \/ HostSkipsStaging \/ HostFails
  \/ TestRuns \/ TestUpToDate
  \/ AndroidStart \/ (\E a \in AbiSet : AndroidRemove(a)) \/ AndroidMakeDir
  \/ AndroidCargo \/ AndroidCopy \/ AndroidFails
  \/ BundleAar

Spec == Init /\ [][Next]_vars

---------------------------------------------------------------------------
(* Type invariant. *)
TypeOK ==
  /\ rust \in Versions
  /\ cargo \in [Profiles \cup AbiSet -> Versions \cup {Missing}]
  /\ staged \in File
  /\ jniLibs \in [AbiSet -> File]
  /\ host \in [at : {"idle", "cargo", "stage", "ended"}, profile : Profiles,
               from : Versions \cup {Missing}, osArch : BOOLEAN]
  /\ android \in [at : {"idle", "clean", "cargo", "copy", "ended"}, todo : Seq(AbiSet),
                  from : Versions \cup {Missing}]
  /\ lastPass \in [staged : File, loaded : Versions \cup {Missing}]
  /\ loaded \in [lib : File, release : Versions \cup {Missing}]
  /\ verdict \in Versions \cup {Missing}
  /\ aar \in [jni : [AbiSet -> File], tested : Versions \cup {Missing}]

(***************************************************************************)
(* A test that passed after the host script ended - also one that Gradle   *)
(* took for up to date, also with --debug, also with an old library staged *)
(* before - stands for sources no older than those the script started      *)
(* from (build-host-jni.sh 62-76, release.yml 104-108).  Where the script  *)
(* stages nothing because it does not recognise the host, only a test that *)
(* Gradle ran after a release build does: an up-to-date one, or one after  *)
(* --debug, may stand for an old target/release.                           *)
(***************************************************************************)
GateSeesTheBuild ==
  host.at = "ended" /\ (host.osArch \/ (host.profile = "release" /\ loaded # NoRun))

GateTestsTheBuild == (GateSeesTheBuild /\ verdict # Missing) => verdict >= host.from

(***************************************************************************)
(* No library outlives the rm -rf of a script that gets past it, whatever  *)
(* fails or is killed afterwards, in that script or in the checks and the  *)
(* rm -rf of a later one: the libraries that are there were all built from *)
(* sources no older than those of that moment.  A script that ended has    *)
(* staged all ABIs (build-android-jni.sh 43-79, 103-171).                  *)
(***************************************************************************)
NoStaleAbi ==
  \A a \in AbiSet :
    /\ jniLibs[a] \in Versions => jniLibs[a] >= android.from
    /\ android.at = "ended" => jniLibs[a] \in Versions

(***************************************************************************)
(* In the release order, an AAR that is packed while the sources stand     *)
(* still ships to every ABI the very version that the gate tested          *)
(* (release.yml 104-124).                                                  *)
(***************************************************************************)
ShipsWhatWasTested ==
  aar.tested # Missing => \A a \in AbiSet : aar.jni[a] = aar.tested

(***************************************************************************)
(* What README.md 170-174 says: Gradle's test task points                  *)
(* java.library.path at rust-jni/target/release/ "so a fresh cargo build   *)
(* is picked up without re-staging".                                       *)
(***************************************************************************)
FreshCargoBuildIsPickedUp == loaded.lib \in Versions => loaded.lib >= loaded.release
=============================================================================
