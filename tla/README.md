# TLA+ verification of the Onym Kotlin SDK

The repository is a Kotlin library over a Rust JNI shim. The shim calls four
FFI crates (plonk proofs, Nostr signatures) that live in the git submodule
`External/onym-contracts` and are not part of the repository. Around the library
are a native-library loader, a host and an Android build, a script that publishes
an AAR to a static Maven branch, and a release workflow.

Paths below are relative to the repository; `OnymJni.kt` is
`src/main/kotlin/chat/onym/sdk/internal/OnymJni.kt`, `lib.rs` is `rust-jni/src/lib.rs`.

## 1. Inventory

| Component | State | Operations | Talks to |
|---|---|---|---|
| Namespaces `Common`, `Anarchy`, `OneOnOne`, `Tyranny` | none | 23 functions | `OnymJni`, by positional call |
| JNI shim (`lib.rs`) | per call: converted `Vec`s, out buffers, an error pointer, a pending exception; the native heap, shared by all threads | 23 exports, `jbytearray_to_vec`, `buffer_to_jbytearray`, `two_buffers_to_concat`, `throw_ffi_error` | JVM (`JNIEnv`), FFI crates |
| Two-buffer codec | none (a wire format) | encode in Rust, hand over as `byte[]`, decode in Kotlin | shim, wrappers |
| Native loader (`OnymJni.init`) | class state, temporary copy, DeleteOnExitHook list, libraries of the JVM | find, extract, load, fall back | JVM, file system |
| FFI crates (external) | native allocations they return | 23 functions and two `free`s | shim |
| Host build, dev loop (`build-host-jni.sh`, `build.gradle.kts`) | cargo output, staged resource, jar | build, stage, test | loader |
| Android build, AAR (`build-android-jni.sh`, `bundleAar`) | `build/android/jniLibs`, `build/libs` | cross-compile per ABI, stage, pack | Gradle, publish |
| Publish script | local clone, worktree, `releases` branch, its Maven tree and metadata | check out or orphan, overlay, regenerate, commit, push | git remote, consumers |
| Release workflow | tags, `releases`, GitHub release | validate, gate, build, publish, tag, release | all the above |
| CI workflow, `OnymSDK.VERSION`, keep-alive table, Gradle wrapper | none worth a model | | |

What makes each one correct, and what is hard about it:

* **Namespaces and shim.** A call answers what the FFI function makes of *its own*
  arguments, bound to the parameters they are named for, or throws. Hard: up to nine
  arguments of equal type travel by position through four declarations; `byte[]`
  arguments are copied while other threads may write them; a conversion that fails
  becomes an empty `Vec` and the FFI is called all the same; `null` is a sentinel and
  an empty array is not; five ways out of an export must each free exactly what the
  FFI allocated, on a heap all threads share and whose addresses are reused.
* **Codec.** Whatever pair goes in comes out, or an exception does. Hard: `as u32`,
  `as i32`, a signed decoder, and `4 + aLen` that wraps.
* **Loader.** One load per class loader however many threads come first; every touch
  is answered; a calm exit leaves nothing behind. Hard: class-initialisation
  locking, partial copies, exit while extracting, crashes, two class loaders.
* **Builds, publish, release.** The library under test is the one that was built; an
  Android script that ended has staged all ABIs, and an AAR packed in the release order
  ships to each of them what was tested (a manual `bundleAar` packs whatever is there);
  no published version is ever lost from the branch or from its metadata; a tag names
  the source of the published bytes. Hard: failures between steps, repeated and
  concurrent runs, failures conflated with absence.

The complete list of hazards, each at its line and with the properties that watch it,
is `hazards` in `PROJECT.json`.

## 2. Modules

    TwoBuffers ──────┬── TwoBufferChannel ── MCTwoBufferChannel
                     │            └───────── TwoBufferChannel_proofs
                     ├── TwoBuffers_proofs, which TwoBufferChannel_proofs and
                     │   BridgeRefinement_proofs extend
    EntryPoints ──┬──┴── JniBridge ───────── MCJniBridge
                  │            │   └──────── JniBridge_proofs ── BridgeRefinement_proofs
                  └─ SdkApi ───┘ (INSTANCE ... WITH)
    NativeLoader ─────┬── MCNativeLoader
                      └── NativeLoader_proofs

    BuildTree ────────┬── MCBuildTree
                      └── BuildTree_proofs

    MavenRepo ◄─ (INSTANCE ... WITH) ─ PublishScript ──┬── MCPublishScript
                                           │           └── PublishScript_proofs
                                           │                      │ EXTENDS
                                    ReleaseWorkflow ───┬── ReleaseWorkflow_proofs
                                                       └── MCReleaseWorkflow

**`EntryPoints`** is the table of the 23 functions. A row gives the wrapper's
parameters, the export's names for the same positions, the order in which the export
hands them to the FFI, and the names the FFI declares. `ParamInSlot` follows an
argument through the positions. `AsUsize` and `AsU64` are Rust's casts of `jint` and
`jlong`. `PtrMod` is the range of `usize`, which differs between the ABIs.

**`SdkApi`** is the abstract specification: what the namespaces promise. A call reads
its `byte[]` arguments, byte by byte, in any order, while others may write them;
then it answers with the FFI's result for the bytes it read, bound by *name*
(`Means`), or with an `OnymException` that carries the FFI's own message, or the JVM
fails. It knows no native memory, positions or wire format.

**`JniBridge`** is the detailed specification: any number of Java threads, each with
a program counter through one export and its wrapper.

| Action | Code |
|---|---|
| `Write`, `Invoke`, `Collect` | application threads and callers |
| `ConvertArgument`, `ConversionFails` | `jbytearray_to_vec` and its `unwrap_or_default`; `BeforeFirstByte` is the null sentinel of `anarchyProveUpdate` |
| `FfiAccepts`, `FfiRejects` | the FFI call: `Allocate` puts its results on the shared heap at any free address |
| `CopyBuffers`, `FreeFirst`, `FreeSecond`, `NewArray` | `buffer_to_jbytearray`, `two_buffers_to_concat` |
| `TakeMessage`, `FreeMessage`, `ThrowNew` | `throw_ffi_error` |
| `DiscardMessage` | the refusal path of `nostrVerifyEventSignature` |
| `ReturnToKotlin`, `SplitPair` | the return into the JVM (a pending exception wins), the wrapper's `splitTwoBuffers` |

`heap` is the contents of Java arrays, `memory` the live native allocations, and for
each thread `vec` its converted arguments, `ptr` the pointers of its frame, `out` what
it carries towards Kotlin, `exc` its pending exception, `reply` what the wrapper
answered. All payloads are opaque: an instance makes each one a record of the function
and the arguments it came from.

The FFI is external. Its contract, as `lib.rs` relies on it: on `true` the out buffers
are filled and `err` is left NULL; on `false` no buffer is filled and `err` is a message
or NULL; what is returned belongs to the caller. `FfiContract` adds what `lib.rs` never
checks: a function accepts no tier or index past the middle of a `usize` (where every
cast of a negative Int lands, lib.rs 459), nor an empty new roster (lib.rs 534-551,
AnarchyTests.kt 83-110), and it returns the buffers of its signature, which with their
header are shorter than 2^32 bytes (the casts to `u32` and `i32` would cut a longer one). `FfiAssumption` demands this
of whatever a call can have read of its arrays; each run evaluates it on its instance.
`CallsAssumption` says the Kotlin types do their work: `null` is passed only for the one
`ByteArray?`, and an Int fits a `usize` with its sign.

**`TwoBuffers`** has the codec's operators: `Concat` (lib.rs 717-744), `NewJavaArray`
(the jni crate's `byte_array_from_slice`), `Split` (OnymJni.kt 199-219), with `ToInt32`
for every place where an Int wraps. The header has four digits in base `Base`: 256 in
the code and in the theorems, 2 or 4 in a run. **`TwoBufferChannel`** sends one pair,
or any raw array, through them.

**`NativeLoader`** is one JVM: threads that touch `OnymJni` in several class loaders,
the class initialiser step by step (`FindResource`, `CreateTempDir`, `RegisterDir`,
`RegisterFile`, `OpenFile`, `CopyFile`, `LoadExtracted`, `Fallback`, and `IoFails` at
each file step), and the end of the JVM: `Exit`, then `HookDeletes` one entry at a time
while threads still run, then `Halt`; or a `Crash` at any step. `Init` has debris of an
earlier crash in the temporary directory. `calm` is a history variable.

**`MavenRepo`** is the abstract specification of the `releases` branch: a static Maven
repository to which whole releases are added one at a time, with metadata that always
fits the version directories.

**`PublishScript`** is `scripts/publish-to-releases-branch.sh` in any number of clones,
one run at a time in each. A clone in `Fresh` is made anew for each run, as
`actions/checkout` does; the others are kept, as a maintainer's is. A branch is the
sequence of its commits; a commit is the Maven tree it holds and the run that made it.
`remote` is the branch on origin, and each clone has its `local` branch, the `tree` of
its staging worktree and whether the HEAD of that worktree is `attached` to the branch.

| Action | Lines of the script |
|---|---|
| `Begin` | 47-66: the version directory is there, the old worktree goes |
| `FindBranch` | 68: `ls-remote`, of which any failure looks like an absent branch |
| `CheckOut` | 69-71: `fetch`, `worktree add -B` |
| `StartOrphan` | 72-97: `worktree add --detach`, `switch --orphan` whose failure is ignored, the files removed |
| `Overlay` | 99-103: the new version directory over what is there |
| `Regenerate` | 105-158: `maven-metadata.xml` from the directories |
| `Commit`, `NothingToCommit` | 161-168 |
| `Push`, `PushUnanswered` | 169-176: a fast-forward, a refusal, a push taken by origin whose answer is lost |
| `FailsOrIsKilled` | `set -e` or a kill at any step |

**`ReleaseWorkflow`** composes any number of runs of `release.yml` with the script:
each run is a fresh clone and publishes by the actions of `PublishScript`. A build is
known by the commit of main it was made from. `raced` is a history variable: the
versions that two runs had in hand at once.

| Action | Lines of release.yml |
|---|---|
| `MainMoves` | merges into main |
| `Dispatch` | 19-32: a new run from main's head, or a failed one again with its old commit |
| `Checkout` | 35-39: the clone and the tags it knows |
| `Validate` | 41-63: local tag, tag on origin, version in `build.gradle.kts` |
| `Build` | 104-124 |
| `Publish`, `PublishStep`, `ScriptEnds` | 131-135: the script, and its exit status |
| `PushTag` | 137-147 |
| `CreateRelease` | 149-160 |
| `RunFails` | a failing command, the timeout, a cancelled run |

**`BuildTree`** is one working tree: the native sources, cargo's output, the library
staged for the host, those staged for the AAR, Gradle's tests and the AAR. A library
is known by the version of the sources it was built from. The developer's edits and
cargo builds, the two scripts and Gradle interleave freely. `host.osArch` says whether
the machine is one of the four for which the host script stages a library; it is chosen
in `Init`. Where it is not, the script warns, stages nothing and exits 0.

| Action | Code |
|---|---|
| `Edit`, `CargoBuild` | the developer |
| `HostStart`, `HostCargo`, `HostStage`, `HostSkipsStaging`, `HostFails` | build-host-jni.sh 15-76; a kill in `cp` leaves a torn file |
| `Found` | OnymJni.kt 47-65: the staged resource first, then `java.library.path` |
| `TestRuns`, `TestUpToDate` | build.gradle.kts 36-51: the contents of `java.library.path` are no input of the task |
| `AndroidStart`, `AndroidRemove`, `AndroidMakeDir` | build-android-jni.sh 32-79: the checks, which touch nothing; `rm -rf`, library by library; `mkdir -p` |
| `AndroidCargo`, `AndroidCopy`, `AndroidFails` | build-android-jni.sh 103-171; `AndroidFails` also in the checks and inside `rm -rf` |
| `BundleAar` | build.gradle.kts 67-80; `aar.tested` is the verdict of the gate if the AAR came in `ReleaseOrder` (release.yml 104-124) |

## 3. Runs

| Run | Question | Properties | Bounds |
|---|---|---|---|
| `codec` | is a pair ever cut wrongly, at any length up to and past every limit? | `TypeOK`, `RoundTrip`, `NoMisSplit`, `SplitMeetsReference` | `Base = 2`: a u32 has 16 values, Int.MAX_VALUE is 7; buffers up to length 18 and every raw array of up to 7 bits |
| `bridge` | what can threads do to each other? | `TypeOK`, `NativeMemoryOwned`, `ImplementsApi` | 2 threads, 2 arrays, 4 addresses, one call of each shape (buffer, verdict, pair) |
| `entrypoints` | does each of the 23 functions do what its signature says? | `AnswersValueOrThrows`, `EmptyRosterNeverReused`, `NegativeIndexNeverProves`, `ImplementsApi` | 1 thread and a writer; for any two `byte[]` parameters some call passes different arrays; negative indexes, tiers and epochs, the null roster |
| `loader` | is the library loaded once, always answered for, and cleaned up? | `TypeOK`, `LoadedOnce`, `BundledLibraryLoads`, `CalmExitLeavesNothing`, `EveryTouchAnswered` | 2 threads, 2 class loaders, 2 new directories and 1 leftover, all 9 outcomes of the two tiers |
| `publish` | can clones, failures and retries take a release away or spoil the metadata? | `TypeOK`, `PublishedIsOnBranch`, `ImplementsMavenRepo`, `ListedStaysFetchable` | 2 fresh clones and a kept one, 2 versions, 2 builds, 3 runs of the script |
| `release` | do tags, branch and GitHub Releases fit together? | `WfTypeOK`, `TaggedIsPublished`, `ReleaseIsOfItsTag`, `OneSource` | 3 runs, 3 commits of main, the first two with the same version |
| `build` | when does a passed test stand for the build, which libraries survive a script, what is shipped? | `TypeOK`, `GateTestsTheBuild`, `NoStaleAbi`, `ShipsWhatWasTested` | 2 ABIs, 3 versions of the native sources, a recognised host and another |
| `verify_doc` | finding | `MalformedVerifyThrows` | as `entrypoints` |
| `loader_doc` | finding | `ThrowsOnlyIfNeitherResolves` | 1 thread, 1 class loader |
| `publish_doc` | finding | `PublishedAnywhereIsOnBranch` | as `publish` |
| `release_doc` | finding | `TagIsSourceOfRelease` | 2 runs, 2 commits of main |
| `build_doc` | finding | `FreshCargoBuildIsPickedUp` | as `build` |

Why the bounds are enough. *codec*: every constant of the codec scales with `Base`, so
the truncations and the sign change all happen within the run; the theorems then cover
`Base = 256`. *bridge*: two threads and four addresses are enough for every address to
be freed by one thread and given to the other while the first is still in its call. An
array holds at most one byte here, so a copy is never torn *within* an array; that two
arguments of one call are read at different times does happen. *entrypoints*: payloads
record their arguments, so a swap of any two is a different answer. `PtrMod = 8` and
`LongMod = 16` keep the casts of negative numbers apart from the small valid ones.
*loader*: a class loader makes at most one copy, so two directories suffice.
*publish*: three runs are enough for two publishers to race and a third to retry over
what they left, for an older version to follow a newer one, and for one version to be
published twice with different bytes. *release*: three runs let a failed one be run
again while another releases the same version from a newer commit, and a third follow.
Runs are interchangeable, so the run uses symmetry; it checks no liveness. *build*:
`Init` has sources of version 2 and perhaps a cache of version 1, so one edit reaches
the bound with a past, a present and a future version; with two ABIs a script can fail
or be overtaken by an edit between them, and can be killed between the two removals.
The properties of this run promise no more than the scripts keep. On an unrecognised host
the gate can really be fooled: an up-to-date test, or any test after `--debug`, passes
over an older `target/release`, so `GateTestsTheBuild` asks there for a test that Gradle
ran after a release build. And an Android script that stops in its checks leaves the
libraries of an earlier one, so `NoStaleAbi` measures them against the last time that
`OUT_DIR` was found empty. The theorems cover every value of these bounds.

`codec`, `entrypoints`, `bridge` and the build runs check deadlock. The others do not: a
JVM that has exited or crashed stops, and the number of script and workflow runs is
bounded.

Fairness. `NativeLoader!FairSpec`, the only specification with fairness, assumes that a
Java thread in a touch takes another step when it can (weak fairness of `Step(t)`), which
is what a JVM with native threads gives. Nothing is assumed of the application: it need
not touch or exit. An export has no loop, lock or wait of its own, so the shim has no
liveness property: the FFI call is one step, and that it returns is part of its contract.
Nothing is assumed of scripts and workflow runs, which may fail at any step:
their properties are safety properties.

## 4. Findings

* `verify_doc`: the comment above `nostrVerifyEventSignature` (lib.rs 408-412) and
  `OnymException.kt` say malformed inputs throw. The code discards the message and
  answers `false`, so a malformed key and a wrong signature look the same.
* `loader_doc`: the KDoc of `loadNativeLibrary` (OnymJni.kt 43) says it throws only if
  neither path resolves. When the bundled resource exists but does not load, the
  fallback is never tried.
* `publish_doc`: after a first run whose push failed, a clone that is kept has a local
  `releases` branch. If the next run finds no branch on origin, its `switch --orphan`
  fails behind `|| true` (script 75), the commit lands on a detached HEAD, and the push
  sends the old local branch. The script prints `Published <version>` (175) for a version
  it never pushed. In a clone made for the run this cannot happen
  (`PublishedIsOnBranch`, proved), so the workflow is not exposed to it.
* `release_doc`: two runs of one tag at once, from different commits, both pass the
  check of the tag. One publishes over the other's bytes, and the tag goes to the run
  that pushes it first: the tag's tree is then not "the actual source for that release"
  (release.yml 140-145). `OneSource` says that this needs a race: runs one after the
  other, failures and re-runs included, never do it.
* `build_doc`: README.md 170-174 promises that a fresh `cargo build` is picked up
  without re-staging. Once the host script has run, the staged library hides it.

## 5. Theorems

All proofs are checked by TLAPS to the last leaf. `TwoBuffers_proofs` assumes
`BaseAssumption` (an even base of at least 2); `TwoBufferChannel_proofs` adds
`BufferAssumption` (buffers are byte sequences; a raw array is no longer than a Java
array can be). The ownership theorems of
`JniBridge_proofs` hold for every value of the constants. `BridgeRefinement_proofs`
assumes `CallsAssumption`, `FfiAssumption` (section 2), `BaseAssumption`,
`WidthAssumption`, and `NullAssumption`: NULL is no address, no array, no byte string
and neither truth value. `NativeLoader_proofs` assumes `DirsAssumption`,
the one assumption of its module. `PublishScript_proofs` assumes
`VersionsAssumption` (versions are positive numbers, which orders them as `sort -V` does)
and `ClonesAssumption`; `ReleaseWorkflow_proofs` adds `ShasAssumption` (a build is a
commit) and `AllFreshAssumption` (every run has a clone of its own). `BuildTree_proofs`
assumes `BuildAssumption` (the loop has at least one ABI; there are at least the two
versions `Init` starts from).

* **`SplitIsReference`, `DecoderMeetsFormat`** (`Spec => []SplitMeetsReference`). For
  every array the decoder answers as an unsigned reader of the format would. The
  argument splits on where the header lies. Where `4 + aLen` does not wrap, the code is
  the reference. A header from 2^31 on is a negative Int: the bound check lets it pass
  and the first `copyOfRange` refuses its negative length. A header just below 2^31
  makes the sum wrap: the bound check passes too, the length of the first copy wraps
  back to a huge one, and the second `copyOfRange`, from a negative index, refuses.
* **`CodecIsFaithful`** (`Spec => [](RoundTrip /\ NoMisSplit)`). `ConcatParts` says
  what the wire holds, `HeaderRoundTrip` that four base-`Base` digits spell the length
  again. The invariant `Inv` ties the wire to the pair that was sent (`Wired`): without
  it nothing relates the answer to the pair.
  `PairsComeBack` is its first half, stated alone.
* **Types**: `TypeCorrect`, `LoaderTypeCorrect`, `PublishTypeCorrect`,
  `ReleaseTypeCorrect`, `BuildTypeCorrect`, one per module.
* **`OwnershipInvariant`, `NativeMemorySafe`** (`Spec => []NativeMemoryOwned`). No
  interleaving of calls leaks, frees twice or reads freed memory. `NativeMemoryOwned`
  alone is not inductive: it does not know that a frame is empty when the FFI fills
  it, nor that the last pointer is gone when the frame is forgotten at `ReturnToKotlin`.
  `FramesTidy` adds exactly that: `LiveSlots` names, for each program point, the slots
  that may still hold a pointer. Two lemmas do the work, one for a step that allocates,
  one for a step that frees; each action then only has to show its frame tidy.
* **`ArgumentsBoundByName`**. In each of the 23 functions, position leads every argument
  to the FFI parameter of its name. `RowNamed` is a condition on one row of the table,
  shown row by row; the macros of `lib.rs` make it a matter of fourteen rows. From it
  follows that position binds as `Api!ParamNamed` binds by name.
* **`DataInvariant`** (`Spec => []DataInv`). The properties of answers speak of the end
  of a call and say nothing of its way there, so none is inductive. `DataInv` says of
  each thread what its next step relies on: `VecOK`, that it has read a beginning of each
  array, and all of it once the FFI was called with no exception pending; `ResultOK`, the
  verdict that led to this step and where its results are, behind the frame's pointers,
  in `out` or on the wire; `Tidy`, where an exception or an answer can be at all;
  `AnswerOK`, what an answer is. A step of another thread keeps all that (`OthersKept`):
  what it allocates was free and what it frees is its own, which is `OwnershipInvariant`.
  A write keeps it because a Java array never changes its length.
  From it: **`AnswersAreWhole`** (`WireHandedOver`, `WireSplits`: the codec's theorem,
  used for the pair that the FFI returned), **`EmptyRosterRefused`** and
  **`NegativeIndexRefused`** (`AcceptedNotRefused`: a value comes back only if the FFI
  accepted what was read to the end, and `FfiContract` says what it then was).
* **`BridgeImplementsApi`** (`Spec => ImplementsApi`), the refinement. The answer of the
  API is the pending exception or else the reply; what the API has seen is `vec` until
  then. `Write`, `Invoke`, `Collect` map to the API's actions of those names and
  `ConvertArgument` to `Read`. `Answer` is taken where the answer is decided: by
  `ConversionFails`, a failing `NewArray`, `ThrowNew`, `ReturnToKotlin` with a value, or
  `SplitPair`. Every other step is none of the API's, and neither are these when an
  exception is pending already. `AnswersWith` is the one lemma behind all five.

* **`LoaderInvariant`**, and from it `LibraryLoadsOnce`, `BundledNeverFailsToLink`,
  `CalmExitIsClean`. A class that is initialising is in one thread's hands, and so is
  the directory it copies to (`Alone`). For the exit, the property says nothing of the
  time before it: `Covered` does. Every directory of this JVM is on the hook's list,
  with its file behind it if it has one, except between creation and registration. So
  the hook, which goes backwards, finds each directory empty. `calm` confines this to
  exits that meet no running initialiser; at any other exit it is false.
* **`PublishInvariant`**, and from it `FreshCloneTellsTheTruth`, `NothingListedIsLost` and
  the refinement **`BranchIsMavenRepo`** (`Spec => ImplementsMavenRepo`). A push without
  force takes a local branch only if it goes on from origin's. A local branch is never
  more than one commit ahead of a part of origin's (`Follows`), because a commit moves it
  only when HEAD is attached, which the script leaves it only on a branch origin has
  (`Part`). So a push adds at most one commit, and each commit adds one release to the one
  before (`Grown`). A kept clone whose HEAD is detached commits elsewhere, which is why it
  may lie about `Published` and yet do the branch no harm.
* **`WorkflowRunsTheScript`** (`WfSpec => Spec` of `PublishScript`) carries those results
  over: `WorkflowServesMavenRepo`. **`ReleaseInvariant`** gives `TagMeansPublished`,
  `ReleaseComesFromItsTag` and `BranchComesFromTheTag`. Two runs with one version in hand
  have raced for it (`Exclusive`). A version that was not raced for is touched by one run
  at a time, which has seen no tag for it. That a run is past its publish step only with a
  script that has published (`PastItsScript`) is part of the type invariant. `RunInv` follows it through the script: between
  checkout and commit the branch may grow, but not in that version.
* **`BuildInvariant`**, and from it `TheGateIsNotFooled`, `NoAbiIsStale`,
  `AarIsTheTestedBuild`. Cargo builds the present sources only, so nothing is newer than
  they are (`Present`). What the host script has built, and what it has staged where it
  stages at all, is no older than the sources it started from (`HostInv`); on another
  host only target/release after a release build is, which is why `TheGateIsNotFooled`
  needs a test that was run since. What an Android script has staged is no older than
  the moment it found `OUT_DIR` empty (`AndroidInv`), and a later script that stops in
  its checks or inside `rm -rf` only takes libraries away. A release order that finds
  those moments to be the present leaves one version.

Only model-checked: the liveness property `EveryTouchAnswered`, which is out of the
prover's reach. Every other property of a passing run is a theorem.
What the FFI functions compute and refuse is assumed, not proved: their source is not in
this repository. The findings are counterexamples of TLC.

## 6. Not modelled

* The cryptography of the FFI crates; `equals`/`hashCode` of results; the keep-alive table
  (dead code by design); CI (one stateless job); version constants; generated files.
* The loader on Windows, which refuses to delete a loaded library (the scripts build no
  Windows slice).
* Two runs of the publish script in one clone, which would share `build/releases-staging`,
  and the same build script twice at once in one working tree.
* A `workflow_dispatch` from another branch than main: every run of the model has a commit
  of main, the head of its dispatch or that of a failed run that is run again.
* A JVM of another architecture than its machine's `uname -m`, and slices copied into the
  resources by hand.
* What a Maven client sees between a metadata file and its checksum file, and what GitHub
  caches.
* Repeating a run that failed after it pushed the tag: the check of the tag refuses it and
  the GitHub Release has to be made by hand. The model has these states; no document
  promises more, so no property does.
* How the Android Gradle tooling packs the other entries of the AAR, the host's slice in
  the resources included, and the versions of the Kotlin sources, which Gradle compiles in
  every build.

## 7. Plan

Two runs of the publish script in one clone, with the shared worktree: the one
interleaving of the inventory that no module has.
