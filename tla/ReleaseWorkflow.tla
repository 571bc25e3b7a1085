--------------------------- MODULE ReleaseWorkflow --------------------------
(***************************************************************************)
(* .github/workflows/release.yml: any number of runs over one repository,  *)
(* at once or one after the other, each on a machine of its own that may   *)
(* fail or time out at any step.  A run publishes by the publish script,   *)
(* whose steps are those of PublishScript in the run's own new clone.      *)
(*                                                                         *)
(* What is published is known by its source: a build is the commit of main *)
(* that it was made from.                                                  *)
(*                                                                         *)
(* External, as the workflow uses it: GitHub (a run has the commit that    *)
(* was main's head when it was dispatched, also when it is run again), git *)
(* push of a tag without force, gh release create.                         *)
(***************************************************************************)
EXTENDS PublishScript

CONSTANTS LastSha,      \* bound: commits of main
          VersionAt     \* the version in build.gradle.kts at each of them

Shas == 1 .. LastSha

ASSUME ShasAssumption ==
  LastSha \in Nat \ {0} /\ Builds = Shas /\ VersionAt \in [Shas -> Versions]
ASSUME AllFreshAssumption == Fresh = Clones

VARIABLES
  main,         \* the head of main
  tags,         \* the tags on origin: version -> commit
  ghRelease,    \* the GitHub Releases: version -> commit its AAR was built from
  wf,           \* each run: its step
  input,        \* its commit, its version, and the tags its clone knows
  raced         \* history: versions that two runs had in hand at once

wfVars == << main, tags, ghRelease, wf, input, raced >>
vars   == << scriptVars, wfVars >>

NoInput == [sha |-> 0]

(* A run that may still publish or tag its version. *)
InHand(r, v) ==
  wf[r] \in {"validate", "build", "publish", "script", "tag"} /\ input[r].version = v

Put(f, v, s) == [w \in DOMAIN f \cup {v} |-> IF w = v THEN s ELSE f[w]]

WfInit ==
  /\ Init
  /\ main = 1 /\ tags = << >> /\ ghRelease = << >> /\ raced = {}
  /\ wf = [r \in Clones |-> "none"]
  /\ input = [r \in Clones |-> NoInput]

Proceed(r, step) == wf' = [wf EXCEPT ![r] = step]

(* A pull request is merged. *)
MainMoves ==
  /\ main < LastSha
  /\ main' = main + 1
  /\ UNCHANGED << scriptVars, tags, ghRelease, wf, input, raced >>

(* gh workflow run, or a failed run that is run again with its old commit. *)
Dispatch(r) ==
  /\ wf[r] = "none"
  /\ \E v \in Versions,
        s \in {main} \cup {input[q].sha : q \in {q \in Clones : wf[q] = "failed"}} :
       input' = [input EXCEPT ![r] = [sha |-> s, version |-> v, known |-> {}]]
  /\ Proceed(r, "checkout")
  /\ UNCHANGED << scriptVars, main, tags, ghRelease, raced >>

(* fetch-depth 0: the clone gets the tags there are. *)
Checkout(r) ==
  /\ wf[r] = "checkout"
  /\ input' = [input EXCEPT ![r].known = DOMAIN tags]
  /\ raced' = raced \cup {v \in {input[r].version} : \E q \in Clones : InHand(q, v)}
  /\ Proceed(r, "validate")
  /\ UNCHANGED << scriptVars, main, tags, ghRelease >>

(* mutant: an existing tag is no reason to refuse *)
ValidateVersionOnly(r) ==
  /\ wf[r] = "validate"
  /\ VersionAt[input[r].sha] = input[r].version
  /\ Proceed(r, "build")
  /\ UNCHANGED << scriptVars, main, tags, ghRelease, input, raced >>

(* A local tag or a wrong version is refused; so is a tag on origin, but a *)
(* failed ls-remote looks like no tag.  A refusal is a failure of the run. *)
Validate(r) ==
  /\ wf[r] = "validate"
  /\ LET good == /\ input[r].version \notin input[r].known
                 /\ VersionAt[input[r].sha] = input[r].version
     IN  \/ good /\ Proceed(r, "build")      \* no tag on origin, or no answer
         \/ (~good \/ input[r].version \in DOMAIN tags) /\ Proceed(r, "failed")
  /\ UNCHANGED << scriptVars, main, tags, ghRelease, input, raced >>

(* Host library and tests, the four ABIs, the AAR, the local Maven tree. *)
Build(r) ==
  /\ wf[r] = "build"
  /\ Proceed(r, "publish")
  /\ UNCHANGED << scriptVars, main, tags, ghRelease, input, raced >>

Publish(r) ==
  /\ wf[r] = "publish"
  /\ Begin(r, input[r].version, input[r].sha)
  /\ Proceed(r, "script")
  /\ UNCHANGED << main, tags, ghRelease, input, raced >>

PublishStep(r) == ScriptStep(r) /\ UNCHANGED wfVars

(* mutant: the script's exit status is not looked at *)
ScriptEndsUnchecked(r) ==
  /\ wf[r] = "script" /\ pc[r] \in {"published", "failed"}
  /\ Proceed(r, "tag")
  /\ UNCHANGED << scriptVars, main, tags, ghRelease, input, raced >>

ScriptEnds(r) ==
  /\ wf[r] = "script"
  /\ \/ pc[r] = "published" /\ Proceed(r, "tag")
     \/ pc[r] = "failed" /\ Proceed(r, "failed")
  /\ UNCHANGED << scriptVars, main, tags, ghRelease, input, raced >>

(* mutant: git push --force of the tag *)
PushTagForced(r) ==
  /\ wf[r] = "tag"
  /\ tags' = Put(tags, input[r].version, input[r].sha) /\ Proceed(r, "release")
  /\ UNCHANGED << scriptVars, main, ghRelease, input, raced >>

(* An annotated tag of the run's own; origin takes it only as a new one.   *)
(* The run may fail although it was taken.                                 *)
PushTag(r) ==
  /\ wf[r] = "tag"
  /\ LET v == input[r].version
     IN  \/ /\ v \notin DOMAIN tags
            /\ tags' = Put(tags, v, input[r].sha)
            /\ Proceed(r, "release") \/ Proceed(r, "failed")
         \/ v \in DOMAIN tags /\ Proceed(r, "failed") /\ UNCHANGED tags
  /\ UNCHANGED << scriptVars, main, ghRelease, input, raced >>

(* gh release create with the run's AAR; a release that is there is kept. *)
CreateRelease(r) ==
  /\ wf[r] = "release"
  /\ LET v == input[r].version
     IN  \/ /\ v \notin DOMAIN ghRelease
            /\ ghRelease' = Put(ghRelease, v, input[r].sha)
            /\ Proceed(r, "done")
         \/ v \in DOMAIN ghRelease /\ Proceed(r, "failed") /\ UNCHANGED ghRelease
  /\ UNCHANGED << scriptVars, main, tags, input, raced >>

(* Any step: a command fails, the 90 minutes are over, it is cancelled.    *)
(* While the script runs it is FailsOrIsKilled that does this.             *)
RunFails(r) ==
  /\ wf[r] \in {"checkout", "validate", "build", "publish", "tag", "release"}
  /\ Proceed(r, "failed")
  /\ UNCHANGED << scriptVars, main, tags, ghRelease, input, raced >>

RunStep(r) ==
  \/ Dispatch(r) \/ Checkout(r) \/ Validate(r) \/ Build(r)
  \/ Publish(r) \/ PublishStep(r) \/ ScriptEnds(r)
  \/ PushTag(r) \/ CreateRelease(r) \/ RunFails(r)

WfNext == MainMoves \/ \E r \in Clones : RunStep(r)

WfSpec == WfInit /\ [][WfNext]_vars

---------------------------------------------------------------------------
ByVersion == UNION {[V -> Shas] : V \in SUBSET Versions}

(* A run is past its publish step only with a script that ended with its   *)
(* 'Published': a step that exits non-zero ends the job (release.yml 131). *)
PastItsScript ==
  \A r \in Clones : wf[r] \in {"tag", "release", "done"} => pc[r] = "published"

(* Type invariant, the joint control state of runs and scripts included. *)
WfTypeOK ==
  /\ TypeOK
  /\ main \in Shas
  /\ tags \in ByVersion /\ ghRelease \in ByVersion
  /\ raced \subseteq Versions
  /\ wf \in [Clones -> {"none", "checkout", "validate", "build", "publish", "script",
                        "tag", "release", "done", "failed"}]
  /\ input \in [Clones -> {NoInput} \cup
                   [sha : Shas, version : Versions, known : SUBSET Versions]]
  /\ PastItsScript

OnBranch == AtHead(remote).files

(***************************************************************************)
(* Whoever finds a tag finds the version on the releases branch, whatever  *)
(* other runs do to it afterwards (release.yml 131-147).                   *)
(***************************************************************************)
TaggedIsPublished == DOMAIN tags \subseteq AtHead(remote).index \cap DOMAIN OnBranch

(***************************************************************************)
(* The AAR of a GitHub Release is made from the commit its tag names,      *)
(* however many runs of that tag there were (release.yml 146-160).         *)
(***************************************************************************)
ReleaseIsOfItsTag ==
  \A v \in DOMAIN ghRelease : v \in DOMAIN tags /\ ghRelease[v] = tags[v]

(***************************************************************************)
(* Repeated runs of a tag, from old commits or new, after failures at any  *)
(* step, leave the branch with what the tag is the source of - unless two  *)
(* of them had the version in hand at once (release.yml 49-56, 137-147).   *)
(***************************************************************************)
OneSource ==
  \A v \in DOMAIN tags \ raced : v \in DOMAIN OnBranch /\ OnBranch[v] = tags[v]

(***************************************************************************)
(* What the workflow says of a tag (release.yml 140-145): "consumers       *)
(* cloning the tag get the actual source for that release".                *)
(***************************************************************************)
TagIsSourceOfRelease ==
  \A v \in DOMAIN tags \cap DOMAIN OnBranch : OnBranch[v] = tags[v]
=============================================================================
