----------------------- MODULE ReleaseWorkflow_proofs -----------------------
(***************************************************************************)
(* Theorems about ReleaseWorkflow, for any number of runs, commits and     *)
(* versions: tags, the releases branch and GitHub Releases fit together.   *)
(*                                                                         *)
(* The argument: two runs that have a version in hand at once have raced   *)
(* for it (Exclusive).  A version that was not raced for is touched by one *)
(* run at a time; such a run has seen that there is no tag, so what is on  *)
(* the branch under a tag is what the tagging run put there.  The work is  *)
(* in the publish script: between checkout and commit the branch may grow, *)
(* but not in the version of a run that is alone with it (RunInv).         *)
(***************************************************************************)
EXTENDS ReleaseWorkflow, PublishScript_proofs

V(r) == input[r].version

Holding == {"validate", "build", "publish", "script", "tag"}

Staging(r) ==
  wf[r] = "script" /\ attached[r] /\ pc[r] \in {"overlay", "metadata", "commit"}

RunInv(r) ==
  /\ wf[r] # "none" => input[r] # NoInput
  /\ wf[r] # "script" => ~Running(r)
  /\ wf[r] = "script" => job[r].version = V(r) /\ job[r].build = input[r].sha
  /\ (Staging(r) /\ V(r) \in DOMAIN AtHead(local[r]).files) =>
       /\ V(r) \in DOMAIN OnBranch
       /\ V(r) \notin raced => OnBranch[V(r)] = AtHead(local[r]).files[V(r)]
  /\ ((wf[r] = "script" /\ pc[r] = "published") \/ wf[r] = "tag") =>
       /\ V(r) \in DOMAIN OnBranch
       /\ V(r) \notin raced => OnBranch[V(r)] = input[r].sha
  /\ wf[r] = "release" => V(r) \in DOMAIN tags /\ tags[V(r)] = input[r].sha
  /\ (wf[r] \in Holding /\ V(r) \notin raced /\ V(r) \in DOMAIN tags) =>
       wf[r] = "validate" /\ V(r) \in input[r].known

(* Two runs with one version in hand have raced. *)
Exclusive ==
  \A q, r \in Clones :
    (q # r /\ wf[q] \in Holding /\ wf[r] \in Holding /\ V(q) = V(r)) => V(r) \in raced

(* The inductive invariant. *)
WfInv ==
  /\ WfTypeOK /\ IInv
  /\ DOMAIN tags \subseteq DOMAIN OnBranch
  /\ ReleaseIsOfItsTag /\ OneSource /\ Exclusive
  /\ \A r \in Clones : RunInv(r)

---------------------------------------------------------------------------
(* What a run of the publish script does to the branch. *)

LEMMA InputOfRun ==
  ASSUME WfInv, NEW r \in Clones, wf[r] # "none"
  PROVE  V(r) \in Versions /\ input[r].sha \in Shas /\ input[r].known \subseteq Versions
BY DEF WfInv, WfTypeOK, RunInv, V

LEMMA PushEffect ==
  ASSUME WfInv, NEW r \in Clones, wf[r] = "script", pc[r] = "push",
         IsPrefix(remote, local[r]), remote' = local[r]
  PROVE  /\ DOMAIN OnBranch \subseteq DOMAIN OnBranch'
         /\ \A v \in DOMAIN OnBranch : v # V(r) => OnBranch'[v] = OnBranch[v]
         /\ V(r) \in DOMAIN OnBranch' /\ OnBranch'[V(r)] = input[r].sha
<1>1. /\ attached[r] /\ local[r] # << >>
      /\ Adds(Before(local[r], Len(local[r])), AtHead(local[r]), V(r), input[r].sha)
  BY AllFreshAssumption DEF WfInv, IInv, CloneInv, RunInv
<1>2. V(r) \in DOMAIN OnBranch' /\ OnBranch'[V(r)] = input[r].sha
  BY <1>1 DEF OnBranch, Adds, With
<1>3. CASE local[r] = remote
  BY <1>2, <1>3 DEF OnBranch
<1>4. CASE local[r] # remote
  <2>1. Before(local[r], Len(local[r])) = AtHead(remote)
    BY <1>4, TakenBranch DEF WfInv
  <2> QED BY <1>1, <1>2, <2>1 DEF OnBranch, Adds, With
<1> QED BY <1>3, <1>4

LEMMA ScriptEffect ==
  ASSUME WfInv, NEW r \in Clones, ScriptStep(r)
  PROVE  /\ wf[r] = "script"
         /\ DOMAIN OnBranch \subseteq DOMAIN OnBranch'
         /\ \A v \in DOMAIN OnBranch : v # V(r) => OnBranch'[v] = OnBranch[v]
         /\ pc'[r] = "published" =>
              /\ V(r) \in DOMAIN OnBranch'
              /\ V(r) \notin raced => OnBranch'[V(r)] = input[r].sha
<1> USE DEF Goto
<1>1. wf[r] = "script"
  BY DEF WfInv, RunInv, ScriptStep, FindBranch, CheckOut, StartOrphan, Overlay, Regenerate,
     Commit, NothingToCommit, Push, PushUnanswered, FailsOrIsKilled, Running, Steps
<1>2. CASE /\ pc[r] = "push" /\ IsPrefix(remote, local[r]) /\ remote' = local[r]
  BY <1>1, <1>2, PushEffect
<1>3. CASE remote' = remote /\ pc'[r] # "published"
  BY <1>1, <1>3 DEF OnBranch
<1>4. CASE NothingToCommit(r)
  <2>1. /\ pc[r] = "commit" /\ attached[r] /\ tree[r] = AtHead(local[r]) /\ remote' = remote
    BY <1>4 DEF NothingToCommit
  <2>2. Adds(Base(r), tree[r], V(r), input[r].sha)
    BY <1>1, <2>1 DEF WfInv, IInv, CloneInv, RunInv
  <2>3. V(r) \in DOMAIN AtHead(local[r]).files /\ AtHead(local[r]).files[V(r)] = input[r].sha
    BY <2>1, <2>2 DEF Adds, With
  <2>4. /\ V(r) \in DOMAIN OnBranch
        /\ V(r) \notin raced => OnBranch[V(r)] = input[r].sha
    BY <1>1, <2>1, <2>3 DEF WfInv, RunInv, Staging
  <2> QED BY <1>1, <2>1, <2>4 DEF OnBranch
<1>5. pc'[r] \in {"checkout", "orphan", "overlay", "metadata", "commit", "push", "failed"} \/
      NothingToCommit(r) \/ (pc[r] = "push" /\ IsPrefix(remote, local[r]) /\ remote' = local[r])
  BY DEF WfInv, WfTypeOK, TypeOK, ScriptStep, FindBranch, CheckOut, StartOrphan, Overlay,
     Regenerate, Commit, Push, PushUnanswered, FailsOrIsKilled
<1>6. remote' = remote \/ (pc[r] = "push" /\ IsPrefix(remote, local[r]) /\ remote' = local[r])
  BY DEF ScriptStep, FindBranch, CheckOut, StartOrphan, Overlay, Regenerate,
     Commit, NothingToCommit, Push, PushUnanswered, FailsOrIsKilled
<1> QED BY <1>2, <1>3, <1>4, <1>5, <1>6

---------------------------------------------------------------------------
(* What a step of one run leaves to the others. *)

Idle(q) == Untouched(q) /\ wf'[q] = wf[q] /\ input'[q] = input[q]

(* The branch and the tags grow, and in no version but that of r. *)
GrowsFor(r) ==
  /\ DOMAIN OnBranch \subseteq DOMAIN OnBranch'
  /\ \A v \in DOMAIN OnBranch : v # V(r) => OnBranch'[v] = OnBranch[v]
  /\ DOMAIN tags \subseteq DOMAIN tags' /\ DOMAIN tags' \subseteq DOMAIN tags \cup {V(r)}
  /\ \A v \in DOMAIN tags : tags'[v] = tags[v]
  /\ raced \subseteq raced'
  /\ wf[r] \notin Holding => OnBranch' = OnBranch /\ tags' = tags

LEMMA OtherRuns ==
  ASSUME WfInv, NEW r \in Clones, GrowsFor(r), NEW q \in Clones \ {r}, Idle(q)
  PROVE  RunInv(q)'
<1>1. /\ V(q)' = V(q) /\ Running(q)' = Running(q) /\ Staging(q)' = Staging(q)
      /\ AtHead(local[q])' = AtHead(local[q])
  BY DEF Idle, Untouched, V, Running, Staging
<1>2. ASSUME wf[q] \in Holding, V(q) \notin raced'
      PROVE  /\ V(q) \in DOMAIN OnBranch => OnBranch'[V(q)] = OnBranch[V(q)]
             /\ V(q) \in DOMAIN tags' => V(q) \in DOMAIN tags
  <2>1. CASE wf[r] \in Holding
    <3>1. V(q) # V(r)
      BY <1>2, <2>1 DEF WfInv, Exclusive, GrowsFor
    <3> QED BY <3>1 DEF GrowsFor
  <2>2. CASE wf[r] \notin Holding
    BY <2>2 DEF GrowsFor
  <2> QED BY <2>1, <2>2
<1>3. RunInv(q)
  BY DEF WfInv
<1>4. /\ wf'[q] # "none" => input'[q] # NoInput
      /\ wf'[q] # "script" => ~Running(q)'
      /\ wf'[q] = "script" => job'[q].version = V(q)' /\ job'[q].build = input'[q].sha
  BY <1>1, <1>3 DEF RunInv, Idle, Untouched
<1>5. (Staging(q)' /\ V(q)' \in DOMAIN AtHead(local[q])'.files) =>
         /\ V(q)' \in DOMAIN OnBranch'
         /\ V(q)' \notin raced' => OnBranch'[V(q)'] = AtHead(local[q])'.files[V(q)']
  BY <1>1, <1>2, <1>3 DEF RunInv, Idle, GrowsFor, Staging, Holding
<1>6. ((wf'[q] = "script" /\ pc'[q] = "published") \/ wf'[q] = "tag") =>
         /\ V(q)' \in DOMAIN OnBranch'
         /\ V(q)' \notin raced' => OnBranch'[V(q)'] = input'[q].sha
  BY <1>1, <1>2, <1>3 DEF RunInv, Idle, Untouched, GrowsFor, Holding
<1>7. wf'[q] = "release" => V(q)' \in DOMAIN tags' /\ tags'[V(q)'] = input'[q].sha
  BY <1>1, <1>3 DEF RunInv, Idle, GrowsFor
<1>8. (wf'[q] \in Holding /\ V(q)' \notin raced' /\ V(q)' \in DOMAIN tags') =>
         wf'[q] = "validate" /\ V(q)' \in input'[q].known
  BY <1>1, <1>2, <1>3 DEF RunInv, Idle, GrowsFor
<1> QED BY <1>4, <1>5, <1>6, <1>7, <1>8 DEF RunInv

(* The invariant after a step of r, from what it says of r. *)
LEMMA OneRun ==
  ASSUME WfInv, WfTypeOK', IInv', NEW r \in Clones, GrowsFor(r),
         \A q \in Clones \ {r} : Idle(q),
         DOMAIN tags' \subseteq DOMAIN OnBranch', ReleaseIsOfItsTag', OneSource',
         wf'[r] \in Holding =>
           /\ V(r)' = V(r)
           /\ \/ wf[r] \in Holding
              \/ \A q \in Clones \ {r} :
                   (wf[q] \in Holding /\ V(q) = V(r)) => V(r) \in raced',
         RunInv(r)'
  PROVE  WfInv'
<1>1. \A q \in Clones : RunInv(q)'
  BY OtherRuns
<1>2. Exclusive'
  <2>1. \A q \in Clones \ {r} : V(q)' = V(q) /\ wf'[q] = wf[q]
    BY DEF Idle, V
  <2> QED BY <2>1 DEF WfInv, Exclusive, GrowsFor
<1> QED BY <1>1, <1>2 DEF WfInv

(* A step that leaves the branch, the tags and the releases alone. *)
LEMMA QuietRun ==
  ASSUME WfInv, NEW r \in Clones, UNCHANGED << scriptVars, tags, ghRelease, raced >>,
         WfTypeOK', \A q \in Clones \ {r} : wf'[q] = wf[q] /\ input'[q] = input[q],
         wf'[r] \in Holding => wf[r] \in Holding /\ V(r)' = V(r),
         RunInv(r)'
  PROVE  WfInv'
<1>1. UNCHANGED << remote, local, attached, tree, job, pc >>
  BY DEF scriptVars
<1>2. IInv'
  BY NextKeeps DEF WfInv
<1>3. OnBranch' = OnBranch
  BY <1>1 DEF OnBranch
<1>4. GrowsFor(r) /\ \A q \in Clones \ {r} : Idle(q)
  BY <1>1, <1>3 DEF GrowsFor, Idle, Untouched
<1>5. DOMAIN tags' \subseteq DOMAIN OnBranch' /\ ReleaseIsOfItsTag' /\ OneSource'
  BY <1>3 DEF WfInv, ReleaseIsOfItsTag, OneSource
<1> QED BY <1>2, <1>4, <1>5, OneRun

---------------------------------------------------------------------------
(* Steps. *)

LEMMA PutTyped ==
  ASSUME NEW f \in ByVersion, NEW v \in Versions, NEW s \in Shas
  PROVE  /\ Put(f, v, s) \in ByVersion /\ DOMAIN Put(f, v, s) = DOMAIN f \cup {v}
         /\ Put(f, v, s)[v] = s
         /\ \A w \in DOMAIN f : w # v => Put(f, v, s)[w] = f[w]
<1>1. PICK W \in SUBSET Versions : f \in [W -> Shas]
  BY DEF ByVersion
<1>2. DOMAIN f = W /\ W \cup {v} \in SUBSET Versions
  BY <1>1
<1>3. Put(f, v, s) \in [W \cup {v} -> Shas]
  BY <1>1, <1>2 DEF Put
<1> QED BY <1>2, <1>3 DEF Put, ByVersion

LEMMA WfInitially == WfInit => WfInv
<1> SUFFICES ASSUME WfInit PROVE WfInv
  OBVIOUS
<1>1. IInv
  BY Initially DEF WfInit
<1>2. << >> \in ByVersion /\ DOMAIN tags = {} /\ DOMAIN ghRelease = {}
  <2>1. << >> \in [{} -> Shas] /\ DOMAIN << >> = {}
    OBVIOUS
  <2> QED BY <2>1 DEF ByVersion, WfInit
<1>3. WfTypeOK
  BY <1>1, <1>2, ShasAssumption DEF WfInit, WfTypeOK, PastItsScript, IInv, Shas
<1>4. \A r \in Clones : RunInv(r)
  BY DEF WfInit, Init, RunInv, Running, Steps, Staging, Holding
<1>5. Exclusive
  BY DEF WfInit, Exclusive, Holding
<1> QED BY <1>1, <1>2, <1>3, <1>4, <1>5 DEF WfInv, ReleaseIsOfItsTag, OneSource

LEMMA MainMovesKeeps ==
  ASSUME WfInv, MainMoves
  PROVE  WfInv'
<1>1. UNCHANGED << scriptVars, tags, ghRelease, wf, input, raced >>
  BY DEF MainMoves
<1>2. UNCHANGED << remote, local, attached, tree, job, pc >>
  BY <1>1 DEF scriptVars
<1>3. IInv'
  BY <1>1, NextKeeps DEF WfInv
<1>4. WfTypeOK'
  BY <1>1, <1>2, <1>3, ShasAssumption DEF WfInv, WfTypeOK, PastItsScript, IInv, MainMoves, Shas
<1>5. \A r \in Clones : RunInv(r)'
  BY <1>1, <1>2 DEF WfInv, RunInv, Running, Staging, V, OnBranch
<1> QED BY <1>1, <1>2, <1>3, <1>4, <1>5
        DEF WfInv, ReleaseIsOfItsTag, OneSource, Exclusive, OnBranch, V

(* No step of a run takes it past a script that has not published. *)
LEMMA PastItsScriptKept ==
  ASSUME WfInv, NEW r \in Clones, RunStep(r)
  PROVE  PastItsScript'
<1> USE DEF Proceed, Goto
<1>1. CASE PublishStep(r)
  <2>1. ScriptStep(r) /\ wf' = wf
    BY <1>1 DEF PublishStep, wfVars
  <2>2. Running(r) /\ \A q \in Clones \ {r} : pc'[q] = pc[q]
    BY <2>1 DEF WfInv, IInv, TypeOK, Running, Steps, ScriptStep, FindBranch, CheckOut,
       StartOrphan, Overlay, Regenerate, Commit, NothingToCommit, Push, PushUnanswered,
       FailsOrIsKilled
  <2>3. wf[r] = "script"
    BY <2>2 DEF WfInv, RunInv
  <2> QED BY <2>1, <2>2, <2>3 DEF WfInv, WfTypeOK, PastItsScript
<1>2. CASE Publish(r)
  <2>1. wf'[r] = "script" /\ \A q \in Clones \ {r} : wf'[q] = wf[q] /\ pc'[q] = pc[q]
    BY <1>2 DEF WfInv, WfTypeOK, IInv, TypeOK, Publish, Begin
  <2> QED BY <2>1 DEF WfInv, WfTypeOK, PastItsScript
<1>3. CASE Dispatch(r) \/ Checkout(r) \/ Validate(r) \/ Build(r) \/ RunFails(r)
  <2>1. /\ pc' = pc /\ wf'[r] \notin {"tag", "release", "done"}
        /\ \A q \in Clones \ {r} : wf'[q] = wf[q]
    BY <1>3 DEF WfInv, WfTypeOK, Dispatch, Checkout, Validate, Build, RunFails, scriptVars
  <2> QED BY <2>1 DEF WfInv, WfTypeOK, PastItsScript
<1>4. CASE ScriptEnds(r) \/ PushTag(r) \/ CreateRelease(r)
  <2>1. /\ pc' = pc
        /\ wf'[r] # "failed" => pc[r] = "published"
        /\ \A q \in Clones \ {r} : wf'[q] = wf[q]
    BY <1>4 DEF WfInv, WfTypeOK, PastItsScript, ScriptEnds, PushTag, CreateRelease, scriptVars
  <2> QED BY <2>1 DEF WfInv, WfTypeOK, PastItsScript
<1> QED BY <1>1, <1>2, <1>3, <1>4 DEF RunStep

LEMMA DispatchKeeps ==
  ASSUME WfInv, NEW r \in Clones, Dispatch(r)
  PROVE  WfInv'
<1>0. PastItsScript'
  BY PastItsScriptKept DEF RunStep
<1> USE DEF Proceed
<1>1. PICK v \in Versions,
           s \in {main} \cup {input[q].sha : q \in {q \in Clones : wf[q] = "failed"}} :
        input' = [input EXCEPT ![r] = [sha |-> s, version |-> v, known |-> {}]]
  BY DEF Dispatch
<1>2. s \in Shas
  BY InputOfRun DEF WfInv, WfTypeOK
<1>3. /\ wf[r] = "none" /\ wf'[r] = "checkout"
      /\ input'[r] = [sha |-> s, version |-> v, known |-> {}]
      /\ \A q \in Clones \ {r} : wf'[q] = wf[q] /\ input'[q] = input[q]
      /\ UNCHANGED << scriptVars, main, tags, ghRelease, raced >>
  BY <1>1 DEF WfInv, WfTypeOK, Dispatch
<1>4. WfTypeOK'
  <2>1. input'[r] \in [sha : Shas, version : Versions, known : SUBSET Versions]
    BY <1>2, <1>3
  <2>2. IInv'
    BY <1>3, NextKeeps DEF WfInv
  <2>3. input' \in [Clones -> {NoInput} \cup
                       [sha : Shas, version : Versions, known : SUBSET Versions]]
    BY <1>1, <1>3, <2>1 DEF WfInv, WfTypeOK
  <2>4. wf' = [wf EXCEPT ![r] = "checkout"]
    BY DEF Dispatch
  <2> QED BY <1>0, <1>3, <2>2, <2>3, <2>4 DEF WfInv, WfTypeOK, IInv
<1>5. input'[r] # NoInput
  <2>1. DOMAIN input'[r] # DOMAIN NoInput
    BY <1>3 DEF NoInput
  <2> QED BY <2>1
<1>6. RunInv(r)'
  BY <1>3, <1>5 DEF WfInv, RunInv, Holding, Staging, Running, scriptVars
<1> QED BY <1>3, <1>4, <1>6, QuietRun DEF Holding

LEMMA ValidateKeeps ==
  ASSUME WfInv, NEW r \in Clones, Validate(r)
  PROVE  WfInv'
<1>0. PastItsScript'
  BY PastItsScriptKept DEF RunStep
<1> USE DEF Proceed
<1>1. /\ wf[r] = "validate" /\ wf'[r] \in {"build", "failed"}
      /\ wf'[r] = "build" => V(r) \notin input[r].known
      /\ \A q \in Clones \ {r} : wf'[q] = wf[q]
      /\ UNCHANGED << scriptVars, main, tags, ghRelease, input, raced >>
  BY DEF WfInv, WfTypeOK, Validate, V
<1>2. WfTypeOK'
  BY <1>0, <1>1, NextKeeps DEF WfInv, WfTypeOK, IInv, Validate
<1>3. RunInv(r)'
  BY <1>1 DEF WfInv, RunInv, Holding, Staging, Running, V, scriptVars
<1> QED BY <1>1, <1>2, <1>3, QuietRun DEF Holding, V

(* Build, ScriptEnds and RunFails only move the run on. *)
LEMMA ProceedKeeps ==
  ASSUME WfInv, NEW r \in Clones, Build(r) \/ ScriptEnds(r) \/ RunFails(r)
  PROVE  WfInv'
<1>0. PastItsScript'
  BY PastItsScriptKept DEF RunStep
<1> USE DEF Proceed
<1>1. /\ \A q \in Clones \ {r} : wf'[q] = wf[q]
      /\ UNCHANGED << scriptVars, main, tags, ghRelease, input, raced >>
      /\ wf[r] # "none"
      /\ \/ wf[r] = "build" /\ wf'[r] = "publish"
         \/ wf[r] = "script" /\ pc[r] = "published" /\ wf'[r] = "tag"
         \/ wf[r] = "script" /\ pc[r] = "failed" /\ wf'[r] = "failed"
         \/ wf[r] # "script" /\ wf'[r] = "failed"
  BY DEF WfInv, WfTypeOK, Build, ScriptEnds, RunFails
<1>2. WfTypeOK'
  <2>1. IInv' 
    BY <1>1, NextKeeps DEF WfInv
  <2> QED BY <1>0, <1>1, <2>1 DEF WfInv, WfTypeOK, IInv, Build, ScriptEnds, RunFails
<1>3. RunInv(r)'
  BY <1>1 DEF WfInv, RunInv, Holding, Staging, Running, Steps, V, OnBranch, scriptVars
<1> QED BY <1>1, <1>2, <1>3, QuietRun DEF Holding, V

LEMMA CheckoutKeeps ==
  ASSUME WfInv, NEW r \in Clones, Checkout(r)
  PROVE  WfInv'
<1>0. PastItsScript'
  BY PastItsScriptKept DEF RunStep
<1> USE DEF Proceed
<1>1. /\ wf[r] = "checkout" /\ wf'[r] = "validate"
      /\ input' = [input EXCEPT ![r].known = DOMAIN tags]
      /\ raced' = raced \cup {v \in {V(r)} : \E q \in Clones : InHand(q, v)}
      /\ \A q \in Clones \ {r} : wf'[q] = wf[q] /\ input'[q] = input[q]
      /\ UNCHANGED << scriptVars, main, tags, ghRelease >>
  BY DEF WfInv, WfTypeOK, Checkout, V
<1>2. UNCHANGED << remote, local, attached, tree, job, pc >>
  BY <1>1 DEF scriptVars
<1>3. input[r] \in [sha : Shas, version : Versions, known : SUBSET Versions]
  BY <1>1 DEF WfInv, WfTypeOK, RunInv
<1>4. DOMAIN tags \subseteq Versions
  BY DEF WfInv, WfTypeOK, ByVersion
<1>5. /\ input'[r] = [input[r] EXCEPT !.known = DOMAIN tags]
      /\ input'[r] \in [sha : Shas, version : Versions, known : SUBSET Versions]
  BY <1>1, <1>3, <1>4 DEF WfInv, WfTypeOK
<1>6. input'[r].version = V(r) /\ input'[r].known = DOMAIN tags /\ input'[r] # NoInput
  <2>1. input'[r].version = V(r) /\ input'[r].known = DOMAIN tags
    BY <1>3, <1>5 DEF V
  <2>2. DOMAIN input'[r] # DOMAIN NoInput
    BY <1>5 DEF NoInput
  <2> QED BY <2>1, <2>2
<1>7. IInv'
  BY <1>1, NextKeeps DEF WfInv
<1>8. WfTypeOK'
  <2>1. V(r) \in Versions
    BY <1>3 DEF V
  <2> QED BY <1>0, <1>1, <1>5, <1>7, <2>1 DEF WfInv, WfTypeOK, IInv, Checkout
<1>9. V(r)' = V(r) /\ OnBranch' = OnBranch
  BY <1>2, <1>6 DEF V, OnBranch
<1>10. GrowsFor(r) /\ \A q \in Clones \ {r} : Idle(q)
  BY <1>1, <1>2, <1>9 DEF GrowsFor, Idle, Untouched
<1>11. RunInv(r)'
  BY <1>1, <1>2, <1>6, <1>9 DEF WfInv, RunInv, Running, Staging
<1>12. \A q \in Clones \ {r} : (wf[q] \in Holding /\ V(q) = V(r)) => V(r) \in raced'
  BY <1>1 DEF Holding, InHand, V
<1>13. DOMAIN tags' \subseteq DOMAIN OnBranch' /\ ReleaseIsOfItsTag' /\ OneSource'
  BY <1>1, <1>9 DEF WfInv, ReleaseIsOfItsTag, OneSource
<1> QED BY <1>7, <1>8, <1>9, <1>10, <1>11, <1>12, <1>13, OneRun

LEMMA PublishKeeps ==
  ASSUME WfInv, NEW r \in Clones, Publish(r)
  PROVE  WfInv'
<1>0. PastItsScript'
  BY PastItsScriptKept DEF RunStep
<1> USE DEF Proceed, Goto
<1>1. /\ wf[r] = "publish" /\ wf'[r] = "script" /\ Begin(r, V(r), input[r].sha)
      /\ \A q \in Clones \ {r} : wf'[q] = wf[q]
      /\ UNCHANGED << main, tags, ghRelease, input, raced >>
  BY DEF WfInv, WfTypeOK, Publish, V
<1>2. IInv'
  <2>1. V(r) \in Versions /\ input[r].sha \in Builds
    BY <1>1, InputOfRun, ShasAssumption
  <2> QED BY <1>1, <2>1, BeginKeeps DEF WfInv
<1>3. /\ remote' = remote /\ pc'[r] = "find"
      /\ job'[r].version = V(r) /\ job'[r].build = input[r].sha
      /\ \A q \in Clones \ {r} : Untouched(q)
  BY <1>1 DEF WfInv, IInv, TypeOK, Begin, Untouched
<1>4. WfTypeOK'
  BY <1>0, <1>1, <1>2 DEF WfInv, WfTypeOK, IInv, Publish
<1>5. OnBranch' = OnBranch /\ V(r)' = V(r)
  BY <1>1, <1>3 DEF OnBranch, V
<1>6. GrowsFor(r) /\ \A q \in Clones \ {r} : Idle(q)
  BY <1>1, <1>3, <1>5 DEF GrowsFor, Idle
<1>7. RunInv(r)'
  BY <1>1, <1>3, <1>5 DEF WfInv, RunInv, Staging, Holding
<1>8. DOMAIN tags' \subseteq DOMAIN OnBranch' /\ ReleaseIsOfItsTag' /\ OneSource'
  BY <1>1, <1>5 DEF WfInv, ReleaseIsOfItsTag, OneSource
<1> QED BY <1>1, <1>2, <1>4, <1>5, <1>6, <1>7, <1>8, OneRun DEF Holding

(* Between checkout and commit: what the worktree grew from is published. *)
LEMMA StagingKept ==
  ASSUME WfInv, NEW r \in Clones, ScriptStep(r), wf' = wf, input' = input, raced' = raced,
         Staging(r)', V(r) \in DOMAIN AtHead(local'[r]).files
  PROVE  /\ V(r) \in DOMAIN OnBranch'
         /\ V(r) \notin raced => OnBranch'[V(r)] = AtHead(local'[r]).files[V(r)]
<1> USE DEF Goto
<1>1. CASE CheckOut(r)
  BY <1>1 DEF CheckOut, OnBranch, WfInv, IInv, TypeOK
<1>2. CASE StartOrphan(r)
  <2>1. local'[r] = << >>
    BY <1>2 DEF StartOrphan, Staging, WfInv, IInv, TypeOK
  <2> QED BY <2>1 DEF AtHead, NoFiles
<1>3. CASE Overlay(r) \/ Regenerate(r)
  <2>1. Staging(r) /\ UNCHANGED << remote, local >>
    BY <1>3 DEF Overlay, Regenerate, Staging
  <2> QED BY <2>1 DEF WfInv, RunInv, OnBranch
<1>4. CASE \/ FindBranch(r) \/ Commit(r) \/ NothingToCommit(r)
           \/ Push(r) \/ PushUnanswered(r) \/ FailsOrIsKilled(r)
  <2>1. pc'[r] \in {"checkout", "orphan", "push", "published", "failed"}
    BY <1>4 DEF WfInv, IInv, TypeOK, FindBranch, Commit, NothingToCommit, Push,
       PushUnanswered, FailsOrIsKilled
  <2> QED BY <2>1 DEF Staging
<1> QED BY <1>1, <1>2, <1>3, <1>4 DEF ScriptStep

LEMMA PublishStepKeeps ==
  ASSUME WfInv, NEW r \in Clones, PublishStep(r)
  PROVE  WfInv'
<1>0. PastItsScript'
  BY PastItsScriptKept DEF RunStep
<1> USE DEF Goto
<1>1. ScriptStep(r) /\ UNCHANGED << main, tags, ghRelease, wf, input, raced >>
  BY DEF PublishStep, wfVars
<1>2. IInv'
  BY <1>1, NextKeeps DEF WfInv, Next
<1>3. WfTypeOK'
  BY <1>0, <1>1, <1>2 DEF WfInv, WfTypeOK, IInv
<1>4. /\ wf[r] = "script" /\ V(r)' = V(r)
      /\ DOMAIN OnBranch \subseteq DOMAIN OnBranch'
      /\ \A v \in DOMAIN OnBranch : v # V(r) => OnBranch'[v] = OnBranch[v]
      /\ pc'[r] = "published" =>
           /\ V(r) \in DOMAIN OnBranch'
           /\ V(r) \notin raced => OnBranch'[V(r)] = input[r].sha
  BY <1>1, ScriptEffect DEF V
<1>5. job' = job /\ \A q \in Clones \ {r} : Untouched(q)
  BY <1>1 DEF WfInv, IInv, TypeOK, Untouched, ScriptStep, FindBranch, CheckOut, StartOrphan,
     Overlay, Regenerate, Commit, NothingToCommit, Push, PushUnanswered, FailsOrIsKilled
<1>6. GrowsFor(r) /\ \A q \in Clones \ {r} : Idle(q)
  BY <1>1, <1>4, <1>5 DEF GrowsFor, Idle, Holding
<1>7. V(r) \notin raced => V(r) \notin DOMAIN tags
  BY <1>4 DEF WfInv, RunInv, Holding
<1>8. RunInv(r)'
  <2>1. (Staging(r)' /\ V(r)' \in DOMAIN AtHead(local[r])'.files) =>
           /\ V(r)' \in DOMAIN OnBranch'
           /\ V(r)' \notin raced' => OnBranch'[V(r)'] = AtHead(local[r])'.files[V(r)']
    BY <1>1, <1>4, StagingKept
  <2> QED BY <1>1, <1>4, <1>5, <1>7, <2>1 DEF WfInv, RunInv
<1>9. DOMAIN tags' \subseteq DOMAIN OnBranch' /\ ReleaseIsOfItsTag'
  BY <1>1, <1>4 DEF WfInv, ReleaseIsOfItsTag
<1>10. OneSource'
  BY <1>1, <1>4, <1>7 DEF WfInv, OneSource
<1> QED BY <1>2, <1>3, <1>4, <1>6, <1>8, <1>9, <1>10, OneRun DEF Holding

LEMMA PushTagKeeps ==
  ASSUME WfInv, NEW r \in Clones, PushTag(r)
  PROVE  WfInv'
<1>0. PastItsScript'
  BY PastItsScriptKept DEF RunStep
<1> USE DEF Proceed
<1>1. /\ wf[r] = "tag" /\ \A q \in Clones \ {r} : wf'[q] = wf[q]
      /\ UNCHANGED << scriptVars, main, ghRelease, input, raced >>
      /\ V(r) \in Versions /\ input[r].sha \in Shas
  BY InputOfRun DEF WfInv, WfTypeOK, PushTag
<1>2. UNCHANGED << remote, local, attached, tree, job, pc >>
  BY <1>1 DEF scriptVars
<1>3. IInv'
  BY <1>1, NextKeeps DEF WfInv
<1>4. OnBranch' = OnBranch /\ V(r)' = V(r)
  BY <1>1, <1>2 DEF OnBranch, V
<1>5. CASE /\ V(r) \notin DOMAIN tags /\ tags' = Put(tags, V(r), input[r].sha)
           /\ Proceed(r, "release") \/ Proceed(r, "failed")
  <2>1. /\ tags' \in ByVersion /\ DOMAIN tags' = DOMAIN tags \cup {V(r)}
        /\ tags'[V(r)] = input[r].sha /\ \A w \in DOMAIN tags : tags'[w] = tags[w]
    <3>1. tags \in ByVersion /\ tags' = Put(tags, V(r), input[r].sha) /\ V(r) \notin DOMAIN tags
      BY <1>5 DEF WfInv, WfTypeOK
    <3> HIDE DEF Proceed
    <3> QED BY ONLY <1>1, <3>1, PutTyped
  <2>2. WfTypeOK'
    BY <1>0, <1>1, <1>3, <1>5, <2>1 DEF WfInv, WfTypeOK, IInv
  <2>3. GrowsFor(r) /\ \A q \in Clones \ {r} : Idle(q)
    BY <1>1, <1>2, <1>4, <2>1 DEF GrowsFor, Idle, Untouched, Holding
  <2>4. /\ V(r) \in DOMAIN OnBranch
        /\ V(r) \notin raced => OnBranch[V(r)] = input[r].sha
    BY <1>1 DEF WfInv, RunInv
  <2>5. DOMAIN tags' \subseteq DOMAIN OnBranch' /\ ReleaseIsOfItsTag' /\ OneSource'
    BY <1>1, <1>4, <2>1, <2>4 DEF WfInv, ReleaseIsOfItsTag, OneSource
  <2>6. wf'[r] \in {"release", "failed"}
    BY <1>5 DEF WfInv, WfTypeOK
  <2>7. RunInv(r)'
    BY <1>1, <1>2, <1>4, <2>1, <2>6 DEF WfInv, RunInv, Running, Staging, Holding
  <2> QED BY <1>3, <2>2, <2>3, <2>5, <2>6, <2>7, OneRun DEF Holding
<1>6. CASE Proceed(r, "failed") /\ UNCHANGED tags
  <2>1. wf'[r] = "failed"
    BY <1>6 DEF WfInv, WfTypeOK
  <2>2. WfTypeOK'
    BY <1>0, <1>1, <1>3, <1>6 DEF WfInv, WfTypeOK, IInv
  <2>3. RunInv(r)'
    BY <1>1, <1>2, <1>4, <2>1 DEF WfInv, RunInv, Running, Staging, Holding
  <2> QED BY <1>1, <1>6, <2>1, <2>2, <2>3, QuietRun DEF Holding
<1> QED BY <1>5, <1>6 DEF PushTag, V

LEMMA CreateReleaseKeeps ==
  ASSUME WfInv, NEW r \in Clones, CreateRelease(r)
  PROVE  WfInv'
<1>0. PastItsScript'
  BY PastItsScriptKept DEF RunStep
<1> USE DEF Proceed
<1>1. /\ wf[r] = "release" /\ \A q \in Clones \ {r} : wf'[q] = wf[q]
      /\ wf'[r] \in {"done", "failed"}
      /\ UNCHANGED << scriptVars, main, tags, input, raced >>
      /\ V(r) \in Versions /\ input[r].sha \in Shas
  BY InputOfRun DEF WfInv, WfTypeOK, CreateRelease
<1>2. UNCHANGED << remote, local, attached, tree, job, pc >>
  BY <1>1 DEF scriptVars
<1>3. IInv'
  BY <1>1, NextKeeps DEF WfInv
<1>4. OnBranch' = OnBranch /\ V(r)' = V(r)
  BY <1>1, <1>2 DEF OnBranch, V
<1>5. V(r) \in DOMAIN tags /\ tags[V(r)] = input[r].sha
  BY <1>1 DEF WfInv, RunInv
<1>6. \/ ghRelease' = ghRelease
      \/ V(r) \notin DOMAIN ghRelease /\ ghRelease' = Put(ghRelease, V(r), input[r].sha)
  BY DEF CreateRelease, V
<1>7. ghRelease' \in ByVersion /\ ReleaseIsOfItsTag'
  <2>1. ghRelease \in ByVersion /\ ReleaseIsOfItsTag
    BY DEF WfInv, WfTypeOK
  <2>2. CASE ghRelease' = ghRelease
    BY <1>1, <2>1, <2>2 DEF ReleaseIsOfItsTag
  <2>3. CASE V(r) \notin DOMAIN ghRelease /\ ghRelease' = Put(ghRelease, V(r), input[r].sha)
    <3>1. /\ ghRelease' \in ByVersion /\ DOMAIN ghRelease' = DOMAIN ghRelease \cup {V(r)}
          /\ ghRelease'[V(r)] = input[r].sha
          /\ \A w \in DOMAIN ghRelease : ghRelease'[w] = ghRelease[w]
      <4>1. V(r) \in Versions /\ input[r].sha \in Shas /\ ghRelease \in ByVersion
        BY <1>1, <2>1
      <4> QED BY ONLY <4>1, <2>3, PutTyped
    <3> QED BY <1>1, <1>5, <2>1, <3>1 DEF ReleaseIsOfItsTag
  <2> QED BY <1>6, <2>2, <2>3
<1>8. WfTypeOK'
  BY <1>0, <1>1, <1>3, <1>7 DEF WfInv, WfTypeOK, IInv, CreateRelease
<1>9. GrowsFor(r) /\ \A q \in Clones \ {r} : Idle(q)
  BY <1>1, <1>2, <1>4 DEF GrowsFor, Idle, Untouched
<1>10. DOMAIN tags' \subseteq DOMAIN OnBranch' /\ OneSource'
  BY <1>1, <1>4 DEF WfInv, OneSource
<1>11. RunInv(r)'
  BY <1>1, <1>2, <1>4 DEF WfInv, RunInv, Running, Staging, Holding
<1> QED BY <1>1, <1>3, <1>7, <1>8, <1>9, <1>10, <1>11, OneRun DEF Holding

LEMMA WfNextKeeps == WfInv /\ [WfNext]_vars => WfInv'
<1> SUFFICES ASSUME WfInv, [WfNext]_vars PROVE WfInv'
  OBVIOUS
<1>1. CASE MainMoves
  BY <1>1, MainMovesKeeps
<1>2. ASSUME NEW r \in Clones, RunStep(r)
      PROVE  WfInv'
  BY <1>2, DispatchKeeps, CheckoutKeeps, ValidateKeeps, ProceedKeeps, PublishKeeps,
     PublishStepKeeps, PushTagKeeps, CreateReleaseKeeps DEF RunStep
<1>3. CASE UNCHANGED vars
  <2>1. UNCHANGED << remote, local, attached, tree, job, pc, runs >> /\ UNCHANGED wfVars
    BY <1>3 DEF vars, scriptVars
  <2>2. IInv'
    BY <2>1, NextKeeps DEF WfInv, scriptVars
  <2>3. WfTypeOK' /\ OnBranch' = OnBranch
    BY <2>1, <2>2 DEF WfInv, WfTypeOK, PastItsScript, IInv, OnBranch, wfVars
  <2>4. \A r \in Clones : RunInv(r)'
    BY <2>1, <2>3 DEF WfInv, RunInv, Running, Staging, V, wfVars
  <2> QED BY <2>1, <2>2, <2>3, <2>4
          DEF WfInv, ReleaseIsOfItsTag, OneSource, Exclusive, V, wfVars
<1> QED BY <1>1, <1>2, <1>3 DEF WfNext

---------------------------------------------------------------------------
(***************************************************************************)
(* The inductive invariant: a version that was not raced for is in the     *)
(* hands of one run at a time, and only of runs that saw no tag for it     *)
(* (release.yml 49-65, 127-147).                                           *)
(***************************************************************************)
THEOREM ReleaseInvariant == WfSpec => []WfInv
BY WfInitially, WfNextKeeps, PTL DEF WfSpec

(* The type invariant of the workflow, with that of the script.            *)
THEOREM ReleaseTypeCorrect == WfSpec => []WfTypeOK
<1>1. WfInv => WfTypeOK
  BY DEF WfInv
<1> QED BY <1>1, ReleaseInvariant, PTL

(***************************************************************************)
(* A version that is tagged is on the releases branch, in its files and in *)
(* its metadata, however many runs there are (release.yml 131-147).        *)
(***************************************************************************)
THEOREM TagMeansPublished == WfSpec => []TaggedIsPublished
<1>1. WfInv => TaggedIsPublished
  BY HeadIsWhole DEF WfInv, IInv, TypeOK, Whole, OnBranch, TaggedIsPublished
<1> QED BY <1>1, ReleaseInvariant, PTL

(***************************************************************************)
(* The AAR of a GitHub Release is made from the commit that its tag names  *)
(* (release.yml 146-160).                                                  *)
(***************************************************************************)
THEOREM ReleaseComesFromItsTag == WfSpec => []ReleaseIsOfItsTag
<1>1. WfInv => ReleaseIsOfItsTag
  BY DEF WfInv
<1> QED BY <1>1, ReleaseInvariant, PTL

(***************************************************************************)
(* The branch holds what the tag is the source of, unless two runs had the *)
(* version in hand at once (release.yml 49-56, 137-147).                   *)
(***************************************************************************)
THEOREM BranchComesFromTheTag == WfSpec => []OneSource
<1>1. WfInv => OneSource
  BY DEF WfInv
<1> QED BY <1>1, ReleaseInvariant, PTL

(***************************************************************************)
(* What the workflow does to the branch is what the script alone may do,   *)
(* so that all that is proved of the script holds in the workflow: the     *)
(* branch keeps the promise of MavenRepo (release.yml 127-129).            *)
(***************************************************************************)
THEOREM WorkflowRunsTheScript == WfSpec => Spec
<1>1. WfInit => Init
  BY DEF WfInit
<1>2. ASSUME WfInv, [WfNext]_vars
      PROVE  [Next]_scriptVars
  <2>1. ASSUME NEW r \in Clones, Publish(r)
        PROVE  Next
    <3>1. V(r) \in Versions /\ input[r].sha \in Builds
      BY <2>1, <1>2, InputOfRun, ShasAssumption DEF Publish
    <3> QED BY <2>1, <3>1 DEF Publish, Next, V
  <2>2. ASSUME NEW r \in Clones, PublishStep(r)
        PROVE  Next
    BY <2>2 DEF PublishStep, Next
  <2>3. ASSUME NEW r \in Clones, RunStep(r)
        PROVE  Next \/ UNCHANGED scriptVars
    BY <2>1, <2>2, <2>3 DEF RunStep, Dispatch, Checkout, Validate, Build, ScriptEnds, PushTag,
       CreateRelease, RunFails
  <2> QED BY <1>2, <2>3 DEF WfNext, MainMoves, vars
<1> QED BY <1>1, <1>2, ReleaseInvariant, PTL DEF WfSpec, Spec

(* The branch of the workflow refines MavenRepo (script 105-140).          *)
THEOREM WorkflowServesMavenRepo == WfSpec => ImplementsMavenRepo
BY WorkflowRunsTheScript, BranchIsMavenRepo, PTL
=============================================================================
