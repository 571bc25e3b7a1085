--------------------------- MODULE PublishScript ----------------------------
(***************************************************************************)
(* scripts/publish-to-releases-branch.sh, run in any number of clones of   *)
(* the repository, one run at a time in each: the git states a run goes    *)
(* through, what it commits, and what its push does to the branch that     *)
(* consumers read.  A run may fail or be killed at any point.              *)
(*                                                                         *)
(* A branch is the sequence of its commits, << >> when there is none; a    *)
(* commit is the Maven repository it holds and the number of the run that  *)
(* made it, which stands for its identity.  Not modelled: two runs in one  *)
(* clone, which would share the staging directory.                         *)
(*                                                                         *)
(* External, as the script uses it: git (fetch, worktree, switch, commit,  *)
(* push without force) and the branch on GitHub.                           *)
(***************************************************************************)
EXTENDS Integers, Sequences, SequencesExt, FiniteSetsExt

CONSTANTS Clones,
          Fresh,        \* those cloned anew for each run (actions/checkout)
          Versions,     \* version numbers, in the order of sort -V
          Builds,       \* what ./gradlew publishAarPublication... can have written
          MaxRuns       \* bound: runs of the script

ASSUME VersionsAssumption == Versions \subseteq Nat \ {0}
ASSUME ClonesAssumption == Fresh \subseteq Clones /\ MaxRuns \in Nat

VARIABLES
  remote,       \* the releases branch on origin
  local,        \* the releases branch of each clone
  attached,     \* is HEAD of the staging worktree on that branch?
  tree,         \* the Maven repository in the staging worktree
  job,          \* the run of each clone: number, version and build
  pc,           \* where it is
  runs          \* runs so far

scriptVars == << remote, local, attached, tree, job, pc, runs >>

Steps == {"find", "checkout", "orphan", "overlay", "metadata", "commit", "push"}
Running(c) == pc[c] \in Steps

NoFiles == [files |-> << >>, index |-> {}, latest |-> 0]
Repo    == [files : UNION {[V -> Builds] : V \in SUBSET Versions},
            index : SUBSET Versions, latest : Versions \cup {0}]
NoJob   == [run |-> 0]

(* The repository at the head of a branch. *)
AtHead(branch) == IF branch = << >> THEN NoFiles ELSE Last(branch).repo

Init ==
  /\ remote = << >>
  /\ local = [c \in Clones |-> << >>]
  /\ attached = [c \in Clones |-> FALSE]
  /\ tree = [c \in Clones |-> NoFiles]
  /\ job = [c \in Clones |-> NoJob]
  /\ pc = [c \in Clones |-> "idle"]
  /\ runs = 0

Goto(c, step) == pc' = [pc EXCEPT ![c] = step]

(* The version directory of build/maven-local is there, the worktree of an *)
(* earlier run is taken away.  A fresh clone knows no releases branch.     *)
Begin(c, v, b) ==
  /\ ~Running(c) /\ runs < MaxRuns
  /\ runs' = runs + 1
  /\ job' = [job EXCEPT ![c] = [run |-> runs + 1, version |-> v, build |-> b]]
  /\ local' = [local EXCEPT ![c] = IF c \in Fresh THEN << >> ELSE @]
  /\ attached' = [attached EXCEPT ![c] = FALSE]
  /\ tree' = [tree EXCEPT ![c] = NoFiles]
  /\ Goto(c, "find")
  /\ UNCHANGED remote

(* ls-remote: a failure of any kind is taken for an absent branch. *)
FindBranch(c) ==
  /\ pc[c] = "find"
  /\ \/ remote # << >> /\ Goto(c, "checkout")
     \/ Goto(c, "orphan")
  /\ UNCHANGED << remote, local, attached, tree, job, runs >>

(* fetch, then worktree add -B: the local branch is set to the remote one. *)
CheckOut(c) ==
  /\ pc[c] = "checkout"
  /\ local' = [local EXCEPT ![c] = remote]
  /\ attached' = [attached EXCEPT ![c] = TRUE]
  /\ tree' = [tree EXCEPT ![c] = AtHead(remote)]
  /\ Goto(c, "overlay")
  /\ UNCHANGED << remote, job, runs >>

(* switch --orphan refuses a name that is taken, and || true goes on with  *)
(* the detached HEAD; either way there are no version directories here.    *)
StartOrphan(c) ==
  /\ pc[c] = "orphan"
  /\ attached' = [attached EXCEPT ![c] = (local[c] = << >>)]
  /\ tree' = [tree EXCEPT ![c] = NoFiles]
  /\ Goto(c, "overlay")
  /\ UNCHANGED << remote, local, job, runs >>

Overlay(c) ==
  /\ pc[c] = "overlay"
  /\ tree' = [tree EXCEPT ![c].files =
                [v \in DOMAIN @ \cup {job[c].version} |->
                   IF v = job[c].version THEN job[c].build ELSE @[v]]]
  /\ Goto(c, "metadata")
  /\ UNCHANGED << remote, local, attached, job, runs >>

(* mutant: the version just published is added to the index as it was and  *)
(* taken for the latest                                                    *)
RegenerateAppending(c) ==
  /\ pc[c] = "metadata"
  /\ tree' = [tree EXCEPT ![c].index = @ \cup {job[c].version},
                          ![c].latest = job[c].version]
  /\ Goto(c, "commit")
  /\ UNCHANGED << remote, local, attached, job, runs >>

(* mutant: maven-metadata.xml itself is taken for a version *)
RegenerateUnfiltered(c) ==
  /\ pc[c] = "metadata"
  /\ LET versions == DOMAIN tree[c].files
     IN  tree' = [tree EXCEPT ![c].index = versions \cup {0}, ![c].latest = Max(versions)]
  /\ Goto(c, "commit")
  /\ UNCHANGED << remote, local, attached, job, runs >>

(* The index lists the version directories; sort -V | tail is the latest. *)
Regenerate(c) ==
  /\ pc[c] = "metadata"
  /\ LET versions == DOMAIN tree[c].files
     IN  tree' = [tree EXCEPT ![c].index = versions, ![c].latest = Max(versions)]
  /\ Goto(c, "commit")
  /\ UNCHANGED << remote, local, attached, job, runs >>

(* The commit moves the branch only if HEAD is on it. *)
Commit(c) ==
  /\ pc[c] = "commit"
  /\ local' = IF attached[c]
              THEN [local EXCEPT ![c] = Append(@, [repo |-> tree[c], run |-> job[c].run])]
              ELSE local
  /\ Goto(c, "push")
  /\ UNCHANGED << remote, attached, tree, job, runs >>

(* The same files as at the head, lastUpdated included: exit 0, no push. *)
NothingToCommit(c) ==
  /\ pc[c] = "commit" /\ attached[c] /\ local[c] # << >>
  /\ tree[c] = AtHead(local[c])
  /\ Goto(c, "published")
  /\ UNCHANGED << remote, local, attached, tree, job, runs >>

(* mutant: push --force *)
PushForced(c) ==
  /\ pc[c] = "push"
  /\ remote' = local[c]
  /\ Goto(c, "published")
  /\ UNCHANGED << local, attached, tree, job, runs >>

(* mutant: the failure of the push does not end the script *)
PushUnchecked(c) ==
  /\ pc[c] = "push"
  /\ remote' = IF IsPrefix(remote, local[c]) THEN local[c] ELSE remote
  /\ Goto(c, "published")
  /\ UNCHANGED << local, attached, tree, job, runs >>

(* A fast-forward, or nothing at all to push, or a refusal. *)
Push(c) ==
  /\ pc[c] = "push"
  /\ \/ IsPrefix(remote, local[c]) /\ remote' = local[c] /\ Goto(c, "published")
     \/ ~IsPrefix(remote, local[c]) /\ Goto(c, "failed") /\ UNCHANGED remote
  /\ UNCHANGED << local, attached, tree, job, runs >>

(* The push is done on the server, but the answer is lost. *)
PushUnanswered(c) ==
  /\ pc[c] = "push" /\ IsPrefix(remote, local[c])
  /\ remote' = local[c]
  /\ Goto(c, "failed")
  /\ UNCHANGED << local, attached, tree, job, runs >>

(* set -e, a lost connection, a full disk, a kill. *)
FailsOrIsKilled(c) ==
  /\ Running(c)
  /\ Goto(c, "failed")
  /\ UNCHANGED << remote, local, attached, tree, job, runs >>

ScriptStep(c) ==
  \/ FindBranch(c) \/ CheckOut(c) \/ StartOrphan(c)
  \/ Overlay(c) \/ Regenerate(c)
  \/ Commit(c) \/ NothingToCommit(c)
  \/ Push(c) \/ PushUnanswered(c) \/ FailsOrIsKilled(c)

Next ==
  \E c \in Clones :
    \/ \E v \in Versions, b \in Builds : Begin(c, v, b)
    \/ ScriptStep(c)

Spec == Init /\ [][Next]_scriptVars

---------------------------------------------------------------------------
Commits == [repo : Repo, run : 1 .. MaxRuns]
Jobs    == {NoJob} \cup [run : 1 .. MaxRuns, version : Versions, build : Builds]

(* Type invariant. *)
TypeOK ==
  /\ remote \in Seq(Commits)
  /\ local \in [Clones -> Seq(Commits)]
  /\ attached \in [Clones -> BOOLEAN]
  /\ tree \in [Clones -> Repo]
  /\ job \in [Clones -> Jobs]
  /\ pc \in [Clones -> Steps \cup {"idle", "published", "failed"}]
  /\ runs \in 0 .. MaxRuns

(* The repository that consumers see. *)
Served == INSTANCE MavenRepo WITH
            files  <- AtHead(remote).files,
            index  <- AtHead(remote).index,
            latest <- AtHead(remote).latest

(***************************************************************************)
(* Whatever clones, failures and retries do, what a consumer sees changes  *)
(* by one whole release at a time, with metadata that lists exactly the    *)
(* version directories and whose <latest> is the highest version, also     *)
(* after a fix to an older line (script 105-140).                          *)
(***************************************************************************)
ImplementsMavenRepo == Served!Spec

(***************************************************************************)
(* A version that a consumer has read in the metadata can be fetched from  *)
(* any later state of the branch: no run that took another for absent, or  *)
(* raced with it, takes a release away (script 68, 169).                   *)
(***************************************************************************)
ListedStaysFetchable ==
  [][AtHead(remote).index \subseteq DOMAIN AtHead(remote').files]_scriptVars

(* Some commit on the branch has the version with exactly these bytes. *)
WasPublished(v, b) ==
  \E i \in 1 .. Len(remote) :
    v \in DOMAIN remote[i].repo.files /\ remote[i].repo.files[v] = b

Truthful(c) == pc[c] = "published" => WasPublished(job[c].version, job[c].build)

(***************************************************************************)
(* In a clone made for the run, as in the release workflow, a script that  *)
(* ends with "Published" has put its build on the branch (script 172-176). *)
(***************************************************************************)
PublishedIsOnBranch == \A c \in Fresh : Truthful(c)

(***************************************************************************)
(* What the script prints, in any clone: "Published <version>" (script     *)
(* 175), and its header says it stages the publication output into the     *)
(* branch and pushes.                                                      *)
(***************************************************************************)
PublishedAnywhereIsOnBranch == \A c \in Clones : Truthful(c)
=============================================================================
