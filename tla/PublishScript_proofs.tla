------------------------ MODULE PublishScript_proofs ------------------------
(***************************************************************************)
(* Theorems about PublishScript, for any number of clones, versions and    *)
(* runs: the branch refines MavenRepo, what is listed stays, and a script  *)
(* in a new clone tells the truth.                                         *)
(*                                                                         *)
(* The argument: push without force takes a local branch only if it goes   *)
(* on from the remote one, and a local branch is never more than one       *)
(* commit ahead of a part of the remote one (Follows), because a commit    *)
(* moves it only when HEAD is attached, which CheckOut and StartOrphan     *)
(* leave it only on a branch that origin has (Part).  So a push adds one   *)
(* commit, and each commit adds one release to the one before (Grown).     *)
(***************************************************************************)
EXTENDS PublishScript, TLAPS

(* Metadata that fits the version directories. *)
Whole(r) ==
  /\ r.index = DOMAIN r.files
  /\ \A v \in DOMAIN r.files : v <= r.latest
  /\ DOMAIN r.files = {} => r.latest = 0
  /\ DOMAIN r.files # {} => r.latest \in DOMAIN r.files

With(f, v, b) == [w \in DOMAIN f \cup {v} |-> IF w = v THEN b ELSE f[w]]

(* s is r with one release more. *)
Adds(r, s, v, b) ==
  /\ s.files = With(r.files, v, b)
  /\ s.index = r.index \cup {v}
  /\ s.latest = IF v > r.latest THEN v ELSE r.latest

Before(h, i) == IF i = 1 THEN NoFiles ELSE h[i - 1].repo

(* Each commit of a branch adds one release. *)
Grown(h) ==
  \A i \in 1 .. Len(h) :
    /\ Whole(h[i].repo)
    /\ \E v \in Versions, b \in Builds : Adds(Before(h, i), h[i].repo, v, b)

(* h is a part of r; all of h but its last commit is. *)
Part(h, r)    == Len(h) <= Len(r) /\ \A i \in 1 .. Len(h) : h[i] = r[i]
Follows(h, r) == Len(h) - 1 <= Len(r) /\ \A i \in 1 .. Len(h) - 1 : h[i] = r[i]

(* What a run has started from. *)
Base(c) == IF attached[c] THEN AtHead(local[c]) ELSE NoFiles

Carries(r, c) ==
  job[c].version \in DOMAIN r.files /\ r.files[job[c].version] = job[c].build

CloneInv(c) ==
  /\ Grown(local[c]) /\ Follows(local[c], remote)
  /\ Running(c) => job[c] # NoJob
  /\ (attached[c] /\ pc[c] \in {"overlay", "metadata", "commit"}) => Part(local[c], remote)
  /\ pc[c] = "overlay" => tree[c] = Base(c)
  /\ pc[c] = "metadata" => tree[c].files = With(Base(c).files, job[c].version, job[c].build)
  /\ pc[c] = "commit" => /\ Adds(Base(c), tree[c], job[c].version, job[c].build)
                         /\ Whole(tree[c])
  /\ (pc[c] = "push" /\ attached[c]) =>
       /\ local[c] # << >>
       /\ Adds(Before(local[c], Len(local[c])), AtHead(local[c]), job[c].version, job[c].build)
  /\ c \in Fresh => /\ pc[c] \in {"find", "checkout", "orphan"} => local[c] = << >>
                    /\ pc[c] \in {"overlay", "metadata", "commit", "push"} => attached[c]
                    /\ Truthful(c)

(* The inductive invariant. *)
IInv == TypeOK /\ Grown(remote) /\ \A c \in Clones : CloneInv(c)

---------------------------------------------------------------------------
(* Sequences and repositories. *)

(* git's fast-forward test, commit by commit. *)
LEMMA PrefixIsPart ==
  ASSUME NEW S, NEW s \in Seq(S), NEW t \in Seq(S), IsPrefix(s, t)
  PROVE  Part(s, t)
<1>1. Len(s) <= Len(t) /\ SubSeq(s, 1, Len(s)) = SubSeq(t, 1, Len(s))
  BY DEF IsPrefix
<1>2. ASSUME NEW i \in 1 .. Len(s)
      PROVE  s[i] = t[i]
  <2>1. SubSeq(s, 1, Len(s))[i] = s[i] /\ SubSeq(t, 1, Len(s))[i] = t[i]
    BY <1>1
  <2> QED BY <1>1, <2>1
<1> QED BY <1>1, <1>2 DEF Part

LEMMA PartTransitive ==
  ASSUME NEW S, NEW s \in Seq(S), NEW t \in Seq(S), NEW u \in Seq(S), Part(t, u)
  PROVE  (Part(s, t) => Part(s, u)) /\ (Follows(s, t) => Follows(s, u))
BY DEF Part, Follows

LEMMA PartFollows ==
  ASSUME NEW S, NEW s \in Seq(S), NEW t \in Seq(S), NEW x \in S, Part(s, t)
  PROVE  Follows(s, t) /\ Follows(Append(s, x), t)
<1>1. /\ Len(Append(s, x)) = Len(s) + 1
      /\ \A i \in 1 .. Len(s) : Append(s, x)[i] = s[i]
  OBVIOUS
<1> QED BY <1>1 DEF Part, Follows

LEMMA RepoFacts ==
  ASSUME NEW r \in Repo
  PROVE  /\ DOMAIN r.files \subseteq Versions /\ r.files \in [DOMAIN r.files -> Builds]
         /\ r.index \subseteq Versions /\ r.latest \in Versions \cup {0}
         /\ DOMAIN r.files \subseteq Nat \ {0} /\ r.latest \in Nat
<1>1. PICK V \in SUBSET Versions : r.files \in [V -> Builds]
  BY DEF Repo
<1>2. DOMAIN r.files = V
  BY <1>1
<1> QED BY <1>1, <1>2, VersionsAssumption DEF Repo

(* The metadata that the script computes from the version directories.     *)
LEMMA MaxOfVersions ==
  ASSUME NEW r \in Repo, Whole(r), NEW v \in Versions
  PROVE  Max(DOMAIN r.files \cup {v}) = IF v > r.latest THEN v ELSE r.latest
<1> DEFINE D == DOMAIN r.files \cup {v}
           m == IF v > r.latest THEN v ELSE r.latest
<1>1. D \subseteq Nat /\ r.latest \in Nat /\ v > 0
  BY RepoFacts, VersionsAssumption
<1>2. m \in D /\ \A w \in D : m >= w
  BY <1>1 DEF Whole
<1>3. \A x \in D : (\A w \in D : x >= w) => x = m
  BY <1>1, <1>2
<1>4. (CHOOSE x \in D : \A w \in D : x >= w) = m
  BY <1>2, <1>3
<1> QED BY <1>4 DEF Max

LEMMA RepoOfNoFiles == NoFiles \in Repo /\ Whole(NoFiles)
<1>1. DOMAIN << >> = {} /\ << >> \in [{} -> Builds]
  OBVIOUS
<1> QED BY <1>1 DEF NoFiles, Repo, Whole

LEMMA HeadIsWhole ==
  ASSUME NEW h \in Seq(Commits), Grown(h)
  PROVE  AtHead(h) \in Repo /\ Whole(AtHead(h))
<1>2. CASE h = << >>
  BY RepoOfNoFiles, <1>2 DEF AtHead
<1>3. CASE h # << >>
  <2>1. Len(h) \in 1 .. Len(h) /\ h[Len(h)] \in Commits
    BY <1>3
  <2> QED BY <1>3, <2>1 DEF AtHead, Last, Grown, Commits
<1> QED BY <1>2, <1>3

LEMMA AddsIsWhole ==
  ASSUME NEW r \in Repo, Whole(r), NEW s \in Repo, NEW v \in Versions, NEW b,
         Adds(r, s, v, b)
  PROVE  Whole(s) /\ v \in DOMAIN s.files /\ s.files[v] = b
<1>1. DOMAIN s.files = DOMAIN r.files \cup {v} /\ s.files[v] = b
  BY DEF Adds, With
<1>2. DOMAIN r.files \subseteq Nat /\ r.latest \in Nat /\ v \in Nat /\ v > 0
  BY RepoFacts, VersionsAssumption
<1> QED BY <1>1, <1>2 DEF Whole, Adds

LEMMA GrownAppend ==
  ASSUME NEW h \in Seq(Commits), Grown(h), NEW r \in Repo, Whole(r), NEW n \in 1 .. MaxRuns,
         NEW v \in Versions, NEW b \in Builds, Adds(AtHead(h), r, v, b)
  PROVE  LET g == Append(h, [repo |-> r, run |-> n])
         IN  /\ g \in Seq(Commits) /\ g # << >> /\ Grown(g) /\ AtHead(g) = r
             /\ Before(g, Len(g)) = AtHead(h)
<1> DEFINE x == [repo |-> r, run |-> n]
           g == Append(h, x)
<1>1. x \in Commits /\ g \in Seq(Commits) /\ Len(g) = Len(h) + 1
  BY DEF Commits
<1>2. \A i \in 1 .. Len(h) : g[i] = h[i]
  BY <1>1
<1>3. g[Len(h) + 1] = x
  BY <1>1
<1>4. AtHead(g) = r
  BY <1>1, <1>3 DEF AtHead, Last
<1>5. Before(g, Len(g)) = AtHead(h)
  <2>1. CASE h = << >>
    BY <2>1, <1>1 DEF Before, AtHead
  <2>2. CASE h # << >>
    <3>1. Len(h) \in 1 .. Len(h) /\ Len(g) # 1 /\ Len(g) - 1 = Len(h)
      BY <2>2, <1>1
    <3>2. Before(g, Len(g)) = g[Len(h)].repo
      BY <3>1 DEF Before
    <3>3. g[Len(h)] = h[Len(h)]
      BY <3>1, <1>2
    <3> QED BY <3>2, <3>3, <2>2 DEF AtHead, Last
  <2> QED BY <2>1, <2>2
<1>6. ASSUME NEW i \in 1 .. Len(g)
      PROVE  /\ Whole(g[i].repo)
             /\ \E w \in Versions, c \in Builds : Adds(Before(g, i), g[i].repo, w, c)
  <2>1. CASE i \in 1 .. Len(h)
    <3>1. g[i] = h[i] /\ Before(g, i) = Before(h, i)
      BY <1>2, <2>1 DEF Before
    <3> QED BY <2>1, <3>1 DEF Grown
  <2>2. CASE i = Len(g)
    BY <2>2, <1>1, <1>3, <1>5
  <2> QED BY <1>1, <2>1, <2>2
<1> HIDE DEF g
<1>7. Grown(g)
  BY <1>6 DEF Grown
<1> QED BY <1>1, <1>4, <1>5, <1>7 DEF g

---------------------------------------------------------------------------
(* Steps. *)

(* What a step of another clone, or a growing branch, does to a clone. *)
Untouched(d) ==
  /\ local'[d] = local[d] /\ attached'[d] = attached[d] /\ tree'[d] = tree[d]
  /\ job'[d] = job[d] /\ pc'[d] = pc[d]

LEMMA OtherClones ==
  ASSUME TypeOK, TypeOK', Part(remote, remote'), NEW d \in Clones, CloneInv(d), Untouched(d)
  PROVE  CloneInv(d)'
<1>1. remote \in Seq(Commits) /\ remote' \in Seq(Commits) /\ local[d] \in Seq(Commits)
  BY DEF TypeOK
<1>2. Follows(local'[d], remote') /\ (Part(local[d], remote) => Part(local'[d], remote'))
  BY <1>1, PartTransitive DEF CloneInv, Untouched
<1>3. Base(d)' = Base(d) /\ Running(d)' = Running(d)
  BY DEF Base, Untouched, Running
<1>4. Truthful(d) => Truthful(d)'
  <2>1. ASSUME NEW v, NEW b, WasPublished(v, b)
        PROVE  WasPublished(v, b)'
    BY <1>1, <2>1 DEF WasPublished, Part
  <2> QED BY <2>1 DEF Truthful, Untouched
<1> QED BY <1>2, <1>3, <1>4 DEF CloneInv, Untouched, Carries

LEMMA OneClone ==
  ASSUME IInv, TypeOK', Grown(remote'), Part(remote, remote'), NEW c \in Clones,
         CloneInv(c)', \A d \in Clones \ {c} : Untouched(d)
  PROVE  IInv'
<1>1. \A d \in Clones \ {c} : CloneInv(d)'
  BY OtherClones DEF IInv
<1> QED BY <1>1 DEF IInv

LEMMA PartOfItself == ASSUME NEW S, NEW s \in Seq(S) PROVE Part(s, s)
BY DEF Part

LEMMA Initially == Init => IInv
<1> SUFFICES ASSUME Init PROVE IInv
  OBVIOUS
<1>2. TypeOK
  BY RepoOfNoFiles, ClonesAssumption DEF Init, TypeOK, Jobs, Steps
<1>3. Grown(<< >>) /\ Follows(<< >>, << >>)
  BY DEF Grown, Follows
<1>4. ASSUME NEW c \in Clones
      PROVE  CloneInv(c)
  BY <1>3 DEF Init, CloneInv, Running, Steps, Truthful
<1> QED BY <1>2, <1>3, <1>4 DEF IInv, Init

LEMMA BeginKeeps ==
  ASSUME IInv, NEW c \in Clones, NEW v \in Versions, NEW b \in Builds, Begin(c, v, b)
  PROVE  IInv'
<1> USE DEF Goto
<1>1. << >> \in Seq(Commits) /\ NoFiles \in Repo /\ Grown(<< >>) /\ Follows(<< >>, remote)
  BY RepoOfNoFiles DEF Grown, Follows, IInv, TypeOK
<1>2. TypeOK'
  <2>1. runs' \in 0 .. MaxRuns /\ runs + 1 \in 1 .. MaxRuns
    BY ClonesAssumption DEF IInv, TypeOK, Begin
  <2>2. job' \in [Clones -> Jobs]
    BY <2>1 DEF IInv, TypeOK, Begin, Jobs
  <2>3. local' \in [Clones -> Seq(Commits)]
    BY <1>1 DEF IInv, TypeOK, Begin
  <2> QED BY <1>1, <2>1, <2>2, <2>3 DEF IInv, TypeOK, Begin, Steps
<1>3. /\ local'[c] = (IF c \in Fresh THEN << >> ELSE local[c]) /\ remote' = remote
      /\ attached'[c] = FALSE /\ pc'[c] = "find"
      /\ job'[c] = [run |-> runs + 1, version |-> v, build |-> b]
  BY DEF IInv, TypeOK, Begin
<1>4. Grown(local'[c]) /\ Follows(local'[c], remote')
  BY <1>1, <1>3 DEF IInv, CloneInv
<1>5. job'[c] # NoJob
  <2>1. DOMAIN job'[c] # DOMAIN NoJob
    BY <1>3 DEF NoJob
  <2> QED BY <2>1
<1>6. CloneInv(c)'
  BY <1>3, <1>4, <1>5 DEF CloneInv, Truthful
<1>7. \A d \in Clones \ {c} : Untouched(d)
  BY DEF IInv, TypeOK, Begin, Untouched
<1> QED BY <1>2, <1>3, <1>6, <1>7, OneClone, PartOfItself DEF IInv, TypeOK

LEMMA FindBranchKeeps ==
  ASSUME IInv, NEW c \in Clones, FindBranch(c)
  PROVE  IInv'
<1> USE DEF Goto
<1>1. TypeOK'
  BY DEF IInv, TypeOK, FindBranch, Steps
<1>2. pc[c] = "find" /\ pc'[c] \in {"checkout", "orphan"}
  BY DEF IInv, TypeOK, FindBranch
<1>3. CloneInv(c)'
  BY <1>2 DEF IInv, CloneInv, FindBranch, Running, Steps, Truthful
<1>4. \A d \in Clones \ {c} : Untouched(d)
  BY DEF IInv, TypeOK, FindBranch, Untouched
<1> QED BY <1>1, <1>3, <1>4, OneClone, PartOfItself DEF IInv, TypeOK, FindBranch

LEMMA CheckOutKeeps ==
  ASSUME IInv, NEW c \in Clones, CheckOut(c)
  PROVE  IInv'
<1> USE DEF Goto
<1>1. AtHead(remote) \in Repo /\ remote \in Seq(Commits)
  BY HeadIsWhole DEF IInv, TypeOK
<1>2. TypeOK'
  BY <1>1 DEF IInv, TypeOK, CheckOut, Steps
<1>3. /\ pc[c] = "checkout" /\ pc'[c] = "overlay" /\ attached'[c] = TRUE
      /\ local'[c] = remote /\ tree'[c] = AtHead(remote) /\ remote' = remote /\ job' = job
  BY DEF IInv, TypeOK, CheckOut
<1>4. Part(remote, remote) /\ Follows(remote, remote)
  BY <1>1, PartOfItself DEF Part, Follows
<1>5. CloneInv(c)'
  BY <1>3, <1>4 DEF IInv, CloneInv, Running, Steps, Truthful, Base
<1>6. \A d \in Clones \ {c} : Untouched(d)
  BY DEF IInv, TypeOK, CheckOut, Untouched
<1> QED BY <1>2, <1>3, <1>4, <1>5, <1>6, OneClone DEF IInv

LEMMA StartOrphanKeeps ==
  ASSUME IInv, NEW c \in Clones, StartOrphan(c)
  PROVE  IInv'
<1> USE DEF Goto
<1>1. TypeOK'
  BY RepoOfNoFiles DEF IInv, TypeOK, StartOrphan, Steps
<1>2. /\ pc[c] = "orphan" /\ pc'[c] = "overlay" /\ attached'[c] = (local[c] = << >>)
      /\ tree'[c] = NoFiles /\ UNCHANGED << remote, local, job >>
  BY DEF IInv, TypeOK, StartOrphan
<1>3. Part(<< >>, remote)
  BY DEF Part, IInv, TypeOK
<1>4. tree'[c] = Base(c)'
  BY <1>2 DEF Base, AtHead
<1>5. CloneInv(c)'
  BY <1>2, <1>3, <1>4 DEF IInv, CloneInv, Running, Steps, Truthful
<1>6. \A d \in Clones \ {c} : Untouched(d)
  BY DEF IInv, TypeOK, StartOrphan, Untouched
<1> QED BY <1>1, <1>2, <1>5, <1>6, OneClone, PartOfItself DEF IInv, TypeOK

LEMMA JobOfRun ==
  ASSUME IInv, NEW c \in Clones, Running(c)
  PROVE  job[c].version \in Versions /\ job[c].build \in Builds /\ job[c].run \in 1 .. MaxRuns
BY DEF IInv, TypeOK, CloneInv, Jobs

LEMMA BaseIsWhole ==
  ASSUME IInv, NEW c \in Clones
  PROVE  Base(c) \in Repo /\ Whole(Base(c))
BY HeadIsWhole, RepoOfNoFiles DEF IInv, TypeOK, CloneInv, Base

LEMMA OverlayKeeps ==
  ASSUME IInv, NEW c \in Clones, Overlay(c)
  PROVE  IInv'
<1> USE DEF Goto
<1> DEFINE v == job[c].version
           b == job[c].build
           f == With(Base(c).files, v, b)
<1>1. pc[c] = "overlay" /\ tree[c] = Base(c) /\ v \in Versions /\ b \in Builds
  BY JobOfRun DEF Overlay, IInv, CloneInv, Running, Steps
<1>2. /\ tree'[c] = [tree[c] EXCEPT !.files = f] /\ pc'[c] = "metadata"
      /\ UNCHANGED << remote, local, attached, job >>
  BY <1>1 DEF IInv, TypeOK, Overlay, With
<1>3. tree'[c] \in Repo
  <2>1. f \in [DOMAIN Base(c).files \cup {v} -> Builds] /\ DOMAIN Base(c).files \cup {v} \subseteq Versions
    BY <1>1, BaseIsWhole, RepoFacts DEF With
  <2> QED BY <1>1, <1>2, <2>1, BaseIsWhole DEF Repo
<1>4. TypeOK'
  BY <1>3 DEF IInv, TypeOK, Overlay, Steps
<1>5. tree'[c].files = f /\ Base(c)' = Base(c)
  BY <1>2, <1>1, BaseIsWhole DEF Base, Repo
<1>6. CloneInv(c)'
  BY <1>1, <1>2, <1>5 DEF IInv, CloneInv, Running, Steps, Truthful
<1>7. \A d \in Clones \ {c} : Untouched(d)
  BY DEF IInv, TypeOK, Overlay, Untouched
<1> QED BY <1>2, <1>4, <1>6, <1>7, OneClone, PartOfItself DEF IInv, TypeOK

LEMMA RegenerateKeeps ==
  ASSUME IInv, NEW c \in Clones, Regenerate(c)
  PROVE  IInv'
<1> USE DEF Goto
<1> DEFINE v == job[c].version
           b == job[c].build
           r == Base(c)
           D == DOMAIN tree[c].files
<1>1. /\ pc[c] = "metadata" /\ tree[c].files = With(r.files, v, b)
      /\ v \in Versions /\ b \in Builds
  BY JobOfRun DEF Regenerate, IInv, CloneInv, Running, Steps
<1>2. D = DOMAIN r.files \cup {v} /\ r \in Repo /\ Whole(r)
  BY <1>1, BaseIsWhole DEF With
<1>3. Max(D) = IF v > r.latest THEN v ELSE r.latest
  BY <1>1, <1>2, MaxOfVersions
<1>4. /\ tree'[c] = [tree[c] EXCEPT !.index = D, !.latest = Max(D)] /\ pc'[c] = "commit"
      /\ UNCHANGED << remote, local, attached, job >>
  BY DEF IInv, TypeOK, Regenerate
<1>5. tree[c] \in Repo
  BY DEF IInv, TypeOK
<1>6. tree'[c] \in Repo
  BY <1>1, <1>2, <1>3, <1>4, <1>5, RepoFacts DEF Repo
<1>7. TypeOK'
  BY <1>6 DEF IInv, TypeOK, Regenerate, Steps
<1>8. Adds(r, tree'[c], v, b)
  BY <1>1, <1>2, <1>3, <1>4, <1>5 DEF Adds, Repo, Whole
<1>9. Whole(tree'[c])
  BY <1>1, <1>2, <1>6, <1>8, AddsIsWhole
<1>10. Base(c)' = r
  BY <1>4 DEF Base
<1>11. CloneInv(c)'
  BY <1>1, <1>4, <1>8, <1>9, <1>10 DEF IInv, CloneInv, Running, Steps, Truthful
<1>12. \A d \in Clones \ {c} : Untouched(d)
  BY DEF IInv, TypeOK, Regenerate, Untouched
<1> QED BY <1>4, <1>7, <1>11, <1>12, OneClone, PartOfItself DEF IInv, TypeOK

LEMMA CommitKeeps ==
  ASSUME IInv, NEW c \in Clones, Commit(c)
  PROVE  IInv'
<1> USE DEF Goto
<1> DEFINE v == job[c].version
           b == job[c].build
           x == [repo |-> tree[c], run |-> job[c].run]
<1>1. /\ pc[c] = "commit" /\ Adds(Base(c), tree[c], v, b) /\ Whole(tree[c])
      /\ v \in Versions /\ b \in Builds /\ job[c].run \in 1 .. MaxRuns
  BY JobOfRun DEF Commit, IInv, CloneInv, Running, Steps
<1>2. tree[c] \in Repo /\ local[c] \in Seq(Commits) /\ Grown(local[c])
  BY DEF IInv, TypeOK, CloneInv
<1>3. /\ local' = (IF attached[c] THEN [local EXCEPT ![c] = Append(local[c], x)] ELSE local)
      /\ pc'[c] = "push" /\ UNCHANGED << remote, attached, job, tree >>
  BY DEF IInv, TypeOK, Commit
<1>4. \A d \in Clones \ {c} : Untouched(d)
  BY DEF IInv, TypeOK, Commit, Untouched
<1>5. CASE attached[c]
  <2>1. Base(c) = AtHead(local[c])
    BY <1>5 DEF Base
  <2>2. /\ Append(local[c], x) \in Seq(Commits) /\ Append(local[c], x) # << >>
        /\ Grown(Append(local[c], x)) /\ AtHead(Append(local[c], x)) = tree[c]
        /\ Before(Append(local[c], x), Len(Append(local[c], x))) = Base(c)
    BY <1>1, <1>2, <2>1, GrownAppend
  <2>3. local'[c] = Append(local[c], x)
    BY <1>3, <1>5 DEF IInv, TypeOK
  <2>4. TypeOK'
    BY <1>5, <2>2 DEF IInv, TypeOK, Commit, Steps
  <2>5. Follows(local'[c], remote)
    <3>1. Part(local[c], remote)
      BY <1>1, <1>5 DEF IInv, CloneInv
    <3>2. x \in Commits /\ remote \in Seq(Commits)
      BY <1>1, <1>2 DEF Commits, IInv, TypeOK
    <3> QED BY <3>1, <3>2, <1>2, <2>3, PartFollows
  <2>6. CloneInv(c)'
    BY <1>1, <1>3, <2>2, <2>3, <2>5 DEF IInv, CloneInv, Running, Steps, Truthful
  <2> QED BY <1>3, <1>4, <2>4, <2>6, OneClone, PartOfItself DEF IInv, TypeOK
<1>6. CASE ~attached[c]
  <2>1. TypeOK'
    BY <1>6 DEF IInv, TypeOK, Commit, Steps
  <2>2. CloneInv(c)'
    BY <1>1, <1>3, <1>6 DEF IInv, CloneInv, Running, Steps, Truthful
  <2> QED BY <1>3, <1>4, <2>1, <2>2, OneClone, PartOfItself DEF IInv, TypeOK
<1> QED BY <1>5, <1>6

(* The head of a branch is one of its commits. *)
LEMMA HeadWasPublished ==
  ASSUME NEW h \in Seq(Commits), Part(h, remote), NEW v, NEW b,
         v \in DOMAIN AtHead(h).files, AtHead(h).files[v] = b
  PROVE  WasPublished(v, b)
<1>1. h # << >>
  BY DEF AtHead, NoFiles
<1>2. Len(h) \in 1 .. Len(remote) /\ remote[Len(h)] = h[Len(h)]
  BY <1>1 DEF Part
<1> QED BY <1>1, <1>2 DEF WasPublished, AtHead, Last

LEMMA NothingToCommitKeeps ==
  ASSUME IInv, NEW c \in Clones, NothingToCommit(c)
  PROVE  IInv'
<1> USE DEF Goto
<1>1. TypeOK'
  BY DEF IInv, TypeOK, NothingToCommit, Steps
<1>2. /\ pc[c] = "commit" /\ pc'[c] = "published" /\ attached[c] /\ tree[c] = AtHead(local[c])
      /\ UNCHANGED << remote, local, attached, job, tree >>
  BY DEF IInv, TypeOK, NothingToCommit
<1>3. Part(local[c], remote) /\ local[c] \in Seq(Commits) /\ Carries(tree[c], c)
  <2>1. /\ Adds(Base(c), tree[c], job[c].version, job[c].build) /\ tree[c] \in Repo
        /\ job[c].version \in Versions
    BY <1>2, JobOfRun DEF IInv, TypeOK, CloneInv, Running, Steps
  <2> QED BY <1>2, <2>1, BaseIsWhole, AddsIsWhole DEF IInv, TypeOK, CloneInv, Carries
<1>4. WasPublished(job[c].version, job[c].build)
  BY <1>2, <1>3, HeadWasPublished DEF Carries
<1>5. Truthful(c)'
  BY <1>2, <1>4 DEF Truthful, WasPublished
<1>6. CloneInv(c)'
  BY <1>2, <1>5 DEF IInv, CloneInv, Running, Steps
<1>7. \A d \in Clones \ {c} : Untouched(d)
  BY DEF IInv, TypeOK, NothingToCommit, Untouched
<1> QED BY <1>1, <1>2, <1>6, <1>7, OneClone, PartOfItself DEF IInv, TypeOK

LEMMA FailsKeeps ==
  ASSUME IInv, NEW c \in Clones, FailsOrIsKilled(c)
  PROVE  IInv'
<1> USE DEF Goto
<1>1. TypeOK'
  BY DEF IInv, TypeOK, FailsOrIsKilled, Steps
<1>2. pc'[c] = "failed" /\ UNCHANGED << remote, local, attached, job, tree >>
  BY DEF IInv, TypeOK, FailsOrIsKilled
<1>3. CloneInv(c)'
  BY <1>2 DEF IInv, CloneInv, Running, Steps, Truthful
<1>4. \A d \in Clones \ {c} : Untouched(d)
  BY DEF IInv, TypeOK, FailsOrIsKilled, Untouched
<1> QED BY <1>1, <1>2, <1>3, <1>4, OneClone, PartOfItself DEF IInv, TypeOK

(* The push is taken: whether its answer comes back or not. *)
LEMMA TakenPushKeeps ==
  ASSUME IInv, NEW c \in Clones, pc[c] = "push", IsPrefix(remote, local[c]),
         remote' = local[c], NEW s \in {"published", "failed"}, Goto(c, s),
         UNCHANGED << local, attached, tree, job, runs >>
  PROVE  IInv'
<1> USE DEF Goto
<1>1. remote \in Seq(Commits) /\ local[c] \in Seq(Commits)
  BY DEF IInv, TypeOK
<1>2. Part(remote, remote') /\ Part(local[c], remote')
  BY <1>1, PrefixIsPart, PartOfItself
<1>3. TypeOK'
  BY <1>1 DEF IInv, TypeOK, Steps
<1>4. pc'[c] = s
  BY DEF IInv, TypeOK
<1>5. Follows(local'[c], remote')
  BY <1>1, <1>2 DEF Part, Follows
<1>6. (c \in Fresh) => Truthful(c)'
  <2>1. ASSUME c \in Fresh
        PROVE  WasPublished(job[c].version, job[c].build)'
    <3>1. /\ Adds(Before(remote', Len(remote')), AtHead(remote'), job[c].version, job[c].build)
          /\ remote' # << >>
      BY <2>1 DEF IInv, CloneInv
    <3>2. Len(remote') \in 1 .. Len(remote')
      BY <1>1, <3>1
    <3>3. Carries(AtHead(remote'), c)
      BY <3>1 DEF Adds, With, Carries
    <3> QED BY <3>1, <3>2, <3>3 DEF Carries, WasPublished, AtHead, Last
  <2> QED BY <2>1 DEF Truthful
<1>7. CloneInv(c)'
  BY <1>4, <1>5, <1>6 DEF IInv, CloneInv, Running, Steps
<1>8. \A d \in Clones \ {c} : Untouched(d)
  BY DEF IInv, TypeOK, Untouched
<1>9. Grown(remote')
  BY DEF IInv, CloneInv
<1> QED BY <1>2, <1>3, <1>7, <1>8, <1>9, OneClone

LEMMA PushKeeps ==
  ASSUME IInv, NEW c \in Clones, Push(c) \/ PushUnanswered(c)
  PROVE  IInv'
<1>1. CASE /\ pc[c] = "push" /\ IsPrefix(remote, local[c]) /\ remote' = local[c]
           /\ Goto(c, "published") \/ Goto(c, "failed")
           /\ UNCHANGED << local, attached, tree, job, runs >>
  BY <1>1, TakenPushKeeps
<1>2. CASE /\ pc[c] = "push" /\ Goto(c, "failed")
           /\ UNCHANGED << remote, local, attached, tree, job, runs >>
  BY <1>2, FailsKeeps DEF FailsOrIsKilled, Running, Steps
<1> QED BY <1>1, <1>2 DEF Push, PushUnanswered

LEMMA NextKeeps == IInv /\ [Next]_scriptVars => IInv'
<1> SUFFICES ASSUME IInv, [Next]_scriptVars PROVE IInv'
  OBVIOUS
<1>1. ASSUME NEW c \in Clones, NEW v \in Versions, NEW b \in Builds, Begin(c, v, b)
      PROVE  IInv'
  BY <1>1, BeginKeeps
<1>2. ASSUME NEW c \in Clones, ScriptStep(c)
      PROVE  IInv'
  BY <1>2, FindBranchKeeps, CheckOutKeeps, StartOrphanKeeps, OverlayKeeps, RegenerateKeeps,
     CommitKeeps, NothingToCommitKeeps, PushKeeps, FailsKeeps DEF ScriptStep
<1>3. CASE UNCHANGED scriptVars
  <2>1. TypeOK'
    BY <1>3 DEF IInv, TypeOK, scriptVars
  <2>2. \A d \in Clones : CloneInv(d)'
    BY <1>3 DEF IInv, CloneInv, scriptVars, Running, Base, Carries, Truthful, WasPublished
  <2> QED BY <1>3, <2>1, <2>2 DEF IInv, scriptVars
<1> QED BY <1>1, <1>2, <1>3 DEF Next

(***************************************************************************)
(* The inductive invariant: origin's branch and every local one grow by    *)
(* whole releases, and no local branch is more than one commit ahead of    *)
(* what origin has (script 69-76, 161-169).                                *)
(***************************************************************************)
THEOREM PublishInvariant == Spec => []IInv
BY Initially, NextKeeps, PTL DEF Spec

(* The type invariant: the metadata names only versions that there are.    *)
THEOREM PublishTypeCorrect == Spec => []TypeOK
<1>1. IInv => TypeOK
  BY DEF IInv
<1> QED BY <1>1, PublishInvariant, PTL

(***************************************************************************)
(* In a clone made for the run, a script that ends with "Published" has    *)
(* put its build on the branch, whatever other clones do (script 172-176). *)
(***************************************************************************)
THEOREM FreshCloneTellsTheTruth == Spec => []PublishedIsOnBranch
<1>1. IInv => PublishedIsOnBranch
  BY ClonesAssumption DEF IInv, CloneInv, PublishedIsOnBranch
<1> QED BY <1>1, PublishInvariant, PTL

---------------------------------------------------------------------------
(* Refinement. *)

(* A local branch that origin takes goes on from the head that origin has. *)
LEMMA TakenBranch ==
  ASSUME IInv, NEW c \in Clones, IsPrefix(remote, local[c]), local[c] # remote
  PROVE  local[c] # << >> /\ Before(local[c], Len(local[c])) = AtHead(remote)
<1> DEFINE h == local[c]
<1>1. remote \in Seq(Commits) /\ h \in Seq(Commits) /\ Follows(h, remote) /\ Part(remote, h)
  BY PrefixIsPart DEF IInv, TypeOK, CloneInv
<1>2. Len(remote) \in Nat /\ Len(h) \in Nat /\ Len(remote) <= Len(h) /\ Len(h) - 1 <= Len(remote)
  BY <1>1 DEF Part, Follows
<1>3. Len(h) = Len(remote) + 1
  <2>1. Len(h) = Len(remote) => h = remote
    BY <1>1 DEF Part
  <2> QED BY <1>2, <2>1
<1>4. CASE remote = << >>
  BY <1>4, <1>3 DEF Before, AtHead
<1>5. CASE remote # << >>
  <2>1. Len(h) # 1 /\ Len(h) - 1 = Len(remote) /\ Len(remote) \in 1 .. Len(remote)
    BY <1>5, <1>1, <1>2, <1>3
  <2>2. h[Len(remote)] = remote[Len(remote)]
    BY <2>1, <1>1 DEF Part
  <2> QED BY <2>1, <2>2, <1>3, <1>5 DEF Before, AtHead, Last
<1> QED BY <1>4, <1>5

(* A push that is taken adds one release to what consumers see, or nothing. *)
LEMMA TakenPushAdds ==
  ASSUME IInv, NEW c \in Clones, IsPrefix(remote, local[c])
  PROVE  \/ local[c] = remote
         \/ \E v \in Versions, b \in Builds : Adds(AtHead(remote), AtHead(local[c]), v, b)
<1> SUFFICES ASSUME local[c] # remote
             PROVE  \E v \in Versions, b \in Builds : Adds(AtHead(remote), AtHead(local[c]), v, b)
  OBVIOUS
<1>1. local[c] # << >> /\ Before(local[c], Len(local[c])) = AtHead(remote)
  BY TakenBranch
<1>2. Len(local[c]) \in 1 .. Len(local[c]) /\ Grown(local[c])
  BY <1>1 DEF IInv, TypeOK, CloneInv
<1> QED BY <1>1, <1>2 DEF Grown, AtHead, Last

LEMMA StepServes == IInv /\ [Next]_scriptVars => [Served!Next]_(Served!vars)
<1> SUFFICES ASSUME IInv, [Next]_scriptVars
             PROVE  Served!Next \/ UNCHANGED AtHead(remote)
  BY DEF Served!vars
<1>1. CASE UNCHANGED remote
  BY <1>1
<1>2. CASE \E c \in Clones : IsPrefix(remote, local[c]) /\ remote' = local[c]
  <2>1. PICK c \in Clones : IsPrefix(remote, local[c]) /\ remote' = local[c]
    BY <1>2
  <2>2. CASE local[c] = remote
    BY <2>1, <2>2
  <2>3. CASE \E v \in Versions, b \in Builds : Adds(AtHead(remote), AtHead(local[c]), v, b)
    BY <2>1, <2>3 DEF Served!Next, Served!Publish, Adds, With
  <2> QED BY <2>1, <2>2, <2>3, TakenPushAdds
<1>3. ASSUME NEW c \in Clones, ScriptStep(c)
      PROVE  UNCHANGED remote \/ (IsPrefix(remote, local[c]) /\ remote' = local[c])
  BY <1>3 DEF ScriptStep, FindBranch, CheckOut, StartOrphan, Overlay, Regenerate, Commit,
     NothingToCommit, Push, PushUnanswered, FailsOrIsKilled
<1> QED BY <1>1, <1>2, <1>3 DEF Next, Begin, scriptVars

(***************************************************************************)
(* Whatever clones, failures and retries do, consumers see the promise of  *)
(* MavenRepo kept: whole releases, one at a time, with metadata to fit.    *)
(***************************************************************************)
THEOREM BranchIsMavenRepo == Spec => ImplementsMavenRepo
<1>1. Init => Served!Init
  BY DEF Init, Served!Init, AtHead, NoFiles
<1> QED BY <1>1, PublishInvariant, StepServes, PTL DEF Spec, ImplementsMavenRepo, Served!Spec

(***************************************************************************)
(* A version that a consumer found in the metadata can be fetched ever     *)
(* after (script 68-76, 169).                                              *)
(***************************************************************************)
THEOREM NothingListedIsLost == Spec => ListedStaysFetchable
<1>1. ASSUME IInv, [Next]_scriptVars
      PROVE  AtHead(remote).index \subseteq DOMAIN AtHead(remote').files
  <2>1. AtHead(remote).index = DOMAIN AtHead(remote).files
    BY <1>1, HeadIsWhole DEF IInv, TypeOK, Whole
  <2>2. [Served!Next]_(Served!vars)
    BY <1>1, StepServes
  <2> QED BY <2>1, <2>2 DEF Served!Next, Served!Publish, Served!vars
<1> QED BY <1>1, PublishInvariant, PTL DEF Spec, ListedStaysFetchable
=============================================================================
