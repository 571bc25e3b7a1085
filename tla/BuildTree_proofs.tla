-------------------------- MODULE BuildTree_proofs --------------------------
(***************************************************************************)
(* Theorems about BuildTree, for any ABIs and any number of edits, cargo   *)
(* builds, scripts and Gradle runs in any order.                           *)
(*                                                                         *)
(* The argument: cargo only ever builds the present sources, so nothing is *)
(* newer than they are and no build goes back (Present); what a script     *)
(* has built or staged is at least as new as the sources it started from   *)
(* (HostInv) or found when it had emptied OUT_DIR (AndroidInv).  Where a   *)
(* gate saw that these are the present ones, old and new meet in one       *)
(* version.                                                                *)
(***************************************************************************)
EXTENDS BuildTree, TLAPS

(* Nothing is newer than the sources. *)
Present ==
  /\ \A t \in Profiles \cup AbiSet : cargo[t] <= rust
  /\ staged <= rust /\ verdict <= rust /\ lastPass.loaded <= rust
  /\ \A a \in AbiSet : jniLibs[a] <= rust
  /\ host.from <= rust /\ android.from <= rust

HostInv ==
  /\ host.at = "stage" => cargo[host.profile] >= host.from /\ cargo[host.profile] # Missing
  /\ host.at = "ended" /\ host.osArch => staged >= host.from /\ staged \in Versions
  /\ host.at = "ended" /\ host.profile = "release" => cargo["release"] >= host.from
  /\ ~host.osArch => staged = Missing
  /\ lastPass # NoPass /\ lastPass.staged # Missing => lastPass.loaded = lastPass.staged
  /\ GateSeesTheBuild /\ ~host.osArch /\ lastPass # NoPass => lastPass.loaded >= host.from

AndroidInv ==
  /\ android.at \in {"cargo", "copy"} => android.todo # << >>
  /\ android.at = "copy" =>
       cargo[Head(android.todo)] >= android.from /\ cargo[Head(android.todo)] \in Versions
  /\ android.at = "ended" => android.todo = << >>
  /\ android.at \in {"cargo", "copy", "ended"} =>
       \A a \in AbiSet : a \in Range(android.todo) \/ jniLibs[a] \in Versions

(* The inductive invariant. *)
IInv ==
  /\ TypeOK /\ Present /\ HostInv /\ AndroidInv
  /\ GateTestsTheBuild /\ NoStaleAbi /\ ShipsWhatWasTested

---------------------------------------------------------------------------
LEMMA CargoBuilds ==
  ASSUME TypeOK, Present, NEW t \in Profiles \cup AbiSet, cargo' = [cargo EXCEPT ![t] = rust]
  PROVE  /\ cargo' \in [Profiles \cup AbiSet -> Versions \cup {Missing}]
         /\ cargo'[t] = rust /\ cargo'[t] # Missing
         /\ \A u \in Profiles \cup AbiSet :
              /\ cargo'[u] >= cargo[u] /\ cargo'[u] <= rust
              /\ cargo[u] # Missing => cargo'[u] # Missing
<1>1. rust \in Versions /\ rust # Missing
  BY BuildAssumption DEF TypeOK, Versions, Missing
<1>2. \A u \in Profiles \cup AbiSet : cargo[u] <= rust /\ cargo[u] \in Int /\ rust \in Int
  BY BuildAssumption DEF TypeOK, Present, Versions, Missing
<1>3. cargo' \in [Profiles \cup AbiSet -> Versions \cup {Missing}] /\ cargo'[t] = rust
      /\ \A u \in Profiles \cup AbiSet : u # t => cargo'[u] = cargo[u]
  BY <1>1 DEF TypeOK
<1> QED BY <1>1, <1>2, <1>3

LEMMA CargoKept ==
  ASSUME TypeOK, Present
  PROVE  \A u \in Profiles \cup AbiSet : cargo[u] >= cargo[u] /\ cargo[u] <= rust
BY BuildAssumption DEF TypeOK, Present, Versions, Missing

LEMMA Initially == Init => IInv
<1> SUFFICES ASSUME Init PROVE IInv
  OBVIOUS
<1> USE DEF Init, Missing, Versions, Torn, NoPass, NoRun, NoAar, File, Profiles
<1>1. TypeOK
  <2>1. 1 \in Versions /\ 2 \in Versions
    BY BuildAssumption
  <2>2. cargo \in [Profiles \cup AbiSet -> Versions \cup {Missing}]
    BY <2>1
  <2>3. /\ host \in [at : {"idle", "cargo", "stage", "ended"}, profile : Profiles,
                     from : Versions \cup {Missing}, osArch : BOOLEAN]
        /\ android \in [at : {"idle", "clean", "cargo", "copy", "ended"}, todo : Seq(AbiSet),
                        from : Versions \cup {Missing}]
    OBVIOUS
  <2>4. /\ lastPass \in [staged : File, loaded : Versions \cup {Missing}]
        /\ loaded \in [lib : File, release : Versions \cup {Missing}]
        /\ aar \in [jni : [AbiSet -> File], tested : Versions \cup {Missing}]
    OBVIOUS
  <2> QED BY <2>1, <2>2, <2>3, <2>4 DEF TypeOK
<1>2. Present
  BY <1>1 DEF Present, TypeOK
<1>3. HostInv /\ AndroidInv /\ GateTestsTheBuild /\ NoStaleAbi /\ ShipsWhatWasTested
  BY DEF HostInv, AndroidInv, GateTestsTheBuild, NoStaleAbi, ShipsWhatWasTested
<1> QED BY <1>1, <1>2, <1>3 DEF IInv

LEMMA DeveloperKeeps ==
  ASSUME IInv, Edit \/ \E t \in Profiles : CargoBuild(t)
  PROVE  IInv'
<1> USE DEF Versions, Missing, Torn, File
<1>1. /\ rust' \in Versions /\ rust' >= rust
      /\ cargo' \in [Profiles \cup AbiSet -> Versions \cup {Missing}]
      /\ \A t \in Profiles \cup AbiSet : cargo'[t] >= cargo[t] /\ cargo'[t] <= rust'
      /\ UNCHANGED << staged, jniLibs, host, android, lastPass, loaded, verdict, aar >>
  <2>1. CASE Edit
    <3>1. rust' = rust + 1 /\ rust \in Int /\ cargo' = cargo /\ rust' \in Versions
      BY <2>1, BuildAssumption DEF Edit, IInv, TypeOK
    <3>2. \A t \in Profiles \cup AbiSet : cargo[t] \in Int /\ cargo[t] <= rust
      BY BuildAssumption DEF IInv, TypeOK, Present
    <3> QED BY <2>1, <3>1, <3>2 DEF Edit, IInv, TypeOK
  <2>2. CASE \E t \in Profiles : CargoBuild(t)
    <3>1. PICK t \in Profiles : cargo' = [cargo EXCEPT ![t] = rust]
      BY <2>2 DEF CargoBuild
    <3>2. rust' = rust /\ rust \in Versions /\ rust >= rust
      BY <2>2, BuildAssumption DEF CargoBuild, IInv, TypeOK
    <3>3. UNCHANGED << staged, jniLibs, host, android, lastPass, loaded, verdict, aar >>
      BY <2>2 DEF CargoBuild
    <3> QED BY <3>1, <3>2, <3>3, CargoBuilds DEF IInv
  <2> QED BY <2>1, <2>2
<1>2. TypeOK'
  BY <1>1 DEF IInv, TypeOK
<1>3. Present'
  <2>1. \A x \in File \cup Versions \cup {Missing} : x <= rust => x <= rust'
    BY <1>1, BuildAssumption DEF IInv, TypeOK
  <2>2. /\ staged \in File /\ verdict \in Versions \cup {Missing}
        /\ lastPass.loaded \in Versions \cup {Missing} /\ \A a \in AbiSet : jniLibs[a] \in File
        /\ host.from \in Versions \cup {Missing} /\ android.from \in Versions \cup {Missing}
    BY DEF IInv, TypeOK
  <2> HIDE DEF File, Versions, Missing
  <2> QED BY <1>1, <2>1, <2>2 DEF IInv, Present
<1>4. HostInv'
  <2>1. "release" \in Profiles
    BY DEF Profiles
  <2> QED BY <1>1, <2>1 DEF IInv, TypeOK, HostInv, GateSeesTheBuild
<1>5. AndroidInv'
  <2>1. ASSUME android.at = "copy"
        PROVE  Head(android.todo) \in AbiSet
    BY <2>1 DEF IInv, TypeOK, AndroidInv
  <2> QED BY <1>1, <2>1 DEF IInv, TypeOK, AndroidInv
<1>6. GateTestsTheBuild' /\ NoStaleAbi' /\ ShipsWhatWasTested'
  BY <1>1 DEF IInv, GateTestsTheBuild, GateSeesTheBuild, NoStaleAbi, ShipsWhatWasTested
<1> QED BY <1>2, <1>3, <1>4, <1>5, <1>6 DEF IInv

LEMMA HostKeeps ==
  ASSUME IInv,
         \/ \E p \in Profiles : HostStart(p)
         \/ HostCargo \/ HostStage \/ HostSkipsStaging \/ HostFails
  PROVE  IInv'
<1> USE DEF Versions, Missing, Torn, File
<1> DEFINE HostType == [at : {"idle", "cargo", "stage", "ended"}, profile : Profiles,
                        from : Versions \cup {Missing}, osArch : BOOLEAN]
<1>1. UNCHANGED << rust, jniLibs, android, lastPass, aar >>
  BY DEF HostStart, HostCargo, HostStage, HostSkipsStaging, HostFails, HostEnds
<1>2. /\ host \in HostType /\ host.profile \in Profiles /\ host.profile \in Profiles \cup AbiSet
      /\ "release" \in Profiles \cup AbiSet
  BY DEF IInv, TypeOK, Profiles
<1>3. /\ cargo' \in [Profiles \cup AbiSet -> Versions \cup {Missing}]
      /\ \A t \in Profiles \cup AbiSet : cargo'[t] >= cargo[t] /\ cargo'[t] <= rust
  <2>1. CASE HostCargo
    BY <1>2, <2>1, CargoBuilds DEF HostCargo, IInv
  <2>2. CASE ~HostCargo
    BY <2>2, CargoKept DEF HostStart, HostStage, HostSkipsStaging, HostFails, HostEnds, IInv, TypeOK
  <2> QED BY <2>1, <2>2
<1>4. /\ host' \in HostType /\ host'.from <= rust
      /\ staged' \in File /\ staged' <= rust
      /\ loaded' \in {loaded, NoRun} /\ verdict' \in {verdict, Missing}
      /\ HostInv'
  <2>1. CASE \E p \in Profiles : HostStart(p)
    <3>1. PICK p \in Profiles : host' = [host EXCEPT !.at = "cargo", !.profile = p, !.from = rust]
      BY <2>1 DEF HostStart
    <3>2. UNCHANGED << cargo, staged, loaded, verdict >>
      BY <2>1 DEF HostStart
    <3>3. rust \in Versions /\ rust <= rust
      BY BuildAssumption DEF IInv, TypeOK
    <3>4. host' \in HostType /\ host'.at = "cargo" /\ host'.from = rust /\ host'.osArch = host.osArch
      BY <1>2, <3>1, <3>3
    <3>5. HostInv'
      BY <1>1, <3>2, <3>4 DEF IInv, HostInv, GateSeesTheBuild
    <3> QED BY <3>2, <3>3, <3>4, <3>5 DEF IInv, TypeOK, Present
  <2>2. CASE HostCargo
    <3>1. /\ host.at = "cargo" /\ host' = [host EXCEPT !.at = "stage"]
          /\ cargo' = [cargo EXCEPT ![host.profile] = rust]
          /\ UNCHANGED << staged, loaded, verdict >>
      BY <2>2 DEF HostCargo
    <3>2. /\ host' \in HostType /\ host'.at = "stage" /\ host'.from = host.from
          /\ host'.profile = host.profile /\ host'.osArch = host.osArch
      BY <1>2, <3>1
    <3>3. cargo'[host.profile] = rust /\ rust # Missing /\ host.from <= rust
      BY <1>2, <3>1 DEF IInv, TypeOK, Present
    <3>4. HostInv'
      BY <1>1, <3>1, <3>2, <3>3 DEF IInv, TypeOK, HostInv, GateSeesTheBuild
    <3> QED BY <3>1, <3>2, <3>4 DEF IInv, TypeOK, Present
  <2>3. CASE HostStage \/ HostSkipsStaging
    <3>1. /\ host.at = "stage" /\ host' = [host EXCEPT !.at = "ended"]
          /\ staged' = IF host.osArch THEN cargo[host.profile] ELSE staged
          /\ cargo' = cargo /\ loaded' = NoRun /\ verdict' = Missing
      BY <2>3 DEF HostStage, HostSkipsStaging, HostEnds
    <3>2. /\ host' \in HostType /\ host'.at = "ended" /\ host'.from = host.from
          /\ host'.profile = host.profile /\ host'.osArch = host.osArch
      BY <1>2, <3>1
    <3>3. /\ cargo[host.profile] >= host.from /\ cargo[host.profile] \in Versions
          /\ cargo[host.profile] <= rust
      BY <1>2, <3>1, CargoKept DEF IInv, TypeOK, HostInv
    <3>4. HostInv'
      BY <1>1, <3>1, <3>2, <3>3 DEF IInv, HostInv, GateSeesTheBuild
    <3> QED BY <3>1, <3>2, <3>3, <3>4 DEF IInv, TypeOK, Present
  <2>4. CASE HostFails
    <3>1. /\ host' = [host EXCEPT !.at = "idle"]
          /\ staged' = staged \/ (host.osArch /\ staged' = Torn)
          /\ UNCHANGED << cargo, loaded, verdict >>
      BY <2>4 DEF HostFails
    <3>2. /\ host' \in HostType /\ host'.at = "idle" /\ host'.from = host.from
          /\ host'.osArch = host.osArch
      BY <1>2, <3>1
    <3>3. staged' \in File /\ staged' <= rust
      BY <3>1 DEF IInv, TypeOK, Present
    <3>4. HostInv'
      BY <1>1, <3>1, <3>2 DEF IInv, HostInv, GateSeesTheBuild
    <3> QED BY <3>1, <3>2, <3>3, <3>4 DEF IInv, Present
  <2> QED BY <2>1, <2>2, <2>3, <2>4
<1>5. TypeOK'
  <2>1. loaded' \in [lib : File, release : Versions \cup {Missing}]
    BY <1>4 DEF IInv, TypeOK, NoRun
  <2> QED BY <1>1, <1>3, <1>4, <2>1 DEF IInv, TypeOK
<1>6. Present'
  <2>1. verdict' <= rust
    BY <1>4 DEF IInv, TypeOK, Present
  <2> QED BY <1>1, <1>3, <1>4, <2>1 DEF IInv, Present
<1>7. AndroidInv'
  <2>1. ASSUME android.at = "copy"
        PROVE  /\ Head(android.todo) \in AbiSet
               /\ cargo'[Head(android.todo)] \in Versions \cup {Missing}
    BY <1>5, <2>1 DEF IInv, TypeOK, AndroidInv
  <2> QED BY <1>1, <1>3, <2>1 DEF IInv, TypeOK, AndroidInv
<1>8. GateTestsTheBuild'
  <2>1. verdict' = Missing \/ host'.at # "ended"
    BY <1>2 DEF HostStart, HostCargo, HostStage, HostSkipsStaging, HostFails, HostEnds
  <2> QED BY <2>1 DEF GateTestsTheBuild, GateSeesTheBuild
<1>9. NoStaleAbi' /\ ShipsWhatWasTested'
  BY <1>1 DEF IInv, NoStaleAbi, ShipsWhatWasTested
<1> QED BY <1>4, <1>5, <1>6, <1>7, <1>8, <1>9 DEF IInv

LEMMA TestKeeps ==
  ASSUME IInv, TestRuns \/ TestUpToDate
  PROVE  IInv'
<1> USE DEF Versions, Missing, Torn, File
<1>1. UNCHANGED << rust, cargo, staged, jniLibs, host, android, aar >>
  BY DEF TestRuns, TestUpToDate
<1>2. "release" \in Profiles
  BY DEF Profiles
<1>3. Found \in File /\ Found <= rust
  BY <1>2 DEF Found, IInv, TypeOK, Present
<1>4. \/ Found \in Versions /\ lastPass' = [staged |-> staged, loaded |-> Found] /\ verdict' = Found
      \/ lastPass' = NoPass /\ verdict' = Missing
      \/ lastPass # NoPass /\ lastPass.staged = staged /\ verdict' = lastPass.loaded /\ lastPass' = lastPass
  BY DEF TestRuns, TestUpToDate
<1>5. TypeOK'
  <2>1. loaded' \in [lib : File, release : Versions \cup {Missing}]
    BY <1>2, <1>3 DEF TestRuns, TestUpToDate, IInv, TypeOK
  <2>2. lastPass' \in [staged : File, loaded : Versions \cup {Missing}] /\ verdict' \in Versions \cup {Missing}
    BY <1>3, <1>4 DEF IInv, TypeOK, NoPass
  <2> QED BY <1>1, <2>1, <2>2 DEF IInv, TypeOK
<1>6. Present'
  BY <1>1, <1>3, <1>4 DEF IInv, TypeOK, Present, NoPass
<1>7. HostInv'
  <2>1. CASE lastPass' = NoPass
    BY <1>1, <2>1 DEF IInv, HostInv
  <2>2. CASE loaded' = loaded /\ lastPass' = lastPass
    BY <1>1, <2>2 DEF IInv, HostInv, GateSeesTheBuild
  <2>3. CASE Found \in Versions /\ lastPass' = [staged |-> staged, loaded |-> Found]
    BY <1>1, <2>3 DEF IInv, HostInv, GateSeesTheBuild, Found
  <2> QED BY <2>1, <2>2, <2>3 DEF TestRuns, TestUpToDate
<1>8. AndroidInv' /\ NoStaleAbi' /\ ShipsWhatWasTested'
  BY <1>1 DEF IInv, AndroidInv, NoStaleAbi, ShipsWhatWasTested
<1>9. GateTestsTheBuild'
  <2> SUFFICES ASSUME GateSeesTheBuild', verdict' # Missing
               PROVE  verdict' >= host.from
    BY <1>1 DEF GateTestsTheBuild
  <2>1. lastPass' # NoPass /\ lastPass'.staged = staged /\ verdict' = lastPass'.loaded
    BY <1>4 DEF NoPass
  <2>2. CASE host.osArch
    BY <1>1, <1>7, <2>1, <2>2 DEF HostInv, GateSeesTheBuild
  <2>3. CASE ~host.osArch
    BY <1>1, <1>7, <2>1, <2>3 DEF HostInv
  <2> QED BY <2>2, <2>3
<1> QED BY <1>5, <1>6, <1>7, <1>8, <1>9 DEF IInv

LEMMA AndroidKeeps ==
  ASSUME IInv,
         \/ AndroidStart \/ (\E a \in AbiSet : AndroidRemove(a)) \/ AndroidMakeDir
         \/ AndroidCargo \/ AndroidCopy \/ AndroidFails
  PROVE  IInv'
<1> USE DEF Versions, Missing, Torn, File
<1> DEFINE abi == Head(android.todo)
<1>1. UNCHANGED << rust, staged, host, lastPass, loaded, verdict, aar >>
  BY DEF AndroidStart, AndroidRemove, AndroidMakeDir, AndroidCargo, AndroidCopy, AndroidFails
<1>2. HostInv' /\ GateTestsTheBuild' /\ ShipsWhatWasTested'
  <2>1. \A t \in Profiles \cup AbiSet :
          cargo'[t] >= cargo[t] /\ (cargo[t] # Missing => cargo'[t] # Missing)
    <3>1. CASE AndroidCargo
      <4>1. abi \in AbiSet
        BY <3>1 DEF AndroidCargo, IInv, TypeOK, AndroidInv
      <4> QED BY <3>1, <4>1, CargoBuilds DEF AndroidCargo, IInv
    <3>2. CASE ~AndroidCargo
      BY <3>2, CargoKept DEF AndroidStart, AndroidRemove, AndroidMakeDir, AndroidCopy, AndroidFails,
         IInv
    <3> QED BY <3>1, <3>2
  <2>2. /\ host.profile \in Profiles \cup AbiSet /\ "release" \in Profiles
        /\ cargo' \in [Profiles \cup AbiSet -> Versions \cup {Missing}]
    BY DEF AndroidStart, AndroidRemove, AndroidMakeDir, AndroidCargo, AndroidCopy, AndroidFails,
       IInv, TypeOK, Profiles
  <2> QED BY <1>1, <2>1, <2>2 DEF IInv, TypeOK, HostInv, GateTestsTheBuild, GateSeesTheBuild,
          ShipsWhatWasTested
<1>3. CASE AndroidStart
  <2>1. jniLibs' = jniLibs /\ cargo' = cargo /\ android' = [android EXCEPT !.at = "clean"]
    BY <1>3 DEF AndroidStart
  <2>2. TypeOK'
    <3>1. android' \in [at : {"idle", "clean", "cargo", "copy", "ended"}, todo : Seq(AbiSet),
                     from : Versions \cup {Missing}]
      BY <2>1 DEF IInv, TypeOK
    <3> QED BY <1>1, <2>1, <3>1 DEF IInv, TypeOK
  <2>3. Present'
    BY <1>1, <2>1 DEF IInv, TypeOK, Present
  <2>4. AndroidInv' /\ NoStaleAbi'
    BY <2>1 DEF IInv, TypeOK, AndroidInv, NoStaleAbi
  <2> QED BY <1>2, <2>2, <2>3, <2>4 DEF IInv
<1>4. CASE \E a \in AbiSet : AndroidRemove(a)
  <2>1. PICK a \in AbiSet : jniLibs' = [jniLibs EXCEPT ![a] = Missing]
    BY <1>4 DEF AndroidRemove
  <2>2. android.at = "clean" /\ android' = android /\ cargo' = cargo
    BY <1>4 DEF AndroidRemove
  <2>3. TypeOK'
    BY <1>1, <2>1, <2>2 DEF IInv, TypeOK
  <2>4. Present'
    <3>1. \A b \in AbiSet : jniLibs'[b] = jniLibs[b] \/ jniLibs'[b] = Missing
      BY <2>1 DEF IInv, TypeOK
    <3>2. Missing <= rust
      BY DEF IInv, TypeOK
    <3> QED BY <1>1, <2>2, <3>1, <3>2 DEF IInv, Present
  <2>5. AndroidInv' /\ NoStaleAbi'
    BY <2>1, <2>2 DEF IInv, TypeOK, AndroidInv, NoStaleAbi
  <2> QED BY <1>2, <2>3, <2>4, <2>5 DEF IInv
<1>5. CASE AndroidMakeDir
  <2>1. /\ \A a \in AbiSet : jniLibs'[a] = Missing
        /\ jniLibs' = jniLibs /\ cargo' = cargo
        /\ android' = [at |-> "cargo", todo |-> Abis, from |-> rust]
    BY <1>5 DEF AndroidMakeDir
  <2>2. TypeOK'
    BY <1>1, <2>1, BuildAssumption DEF IInv, TypeOK
  <2>3. Present'
    BY <1>1, <2>1 DEF IInv, TypeOK, Present
  <2>4. AndroidInv' /\ NoStaleAbi'
    BY <2>1, BuildAssumption DEF AndroidInv, NoStaleAbi, AbiSet
  <2> QED BY <1>2, <2>2, <2>3, <2>4 DEF IInv
<1>6. CASE AndroidCargo
  <2>1. /\ android.at = "cargo" /\ cargo' = [cargo EXCEPT ![abi] = rust]
        /\ android' = [android EXCEPT !.at = "copy"] /\ jniLibs' = jniLibs
    BY <1>6 DEF AndroidCargo
  <2>2. abi \in AbiSet
    BY <2>1 DEF IInv, TypeOK, AndroidInv
  <2>3. TypeOK'
    <3>1. android' \in [at : {"idle", "clean", "cargo", "copy", "ended"}, todo : Seq(AbiSet),
                     from : Versions \cup {Missing}]
      BY <2>1 DEF IInv, TypeOK
    <3>2. cargo' \in [Profiles \cup AbiSet -> Versions \cup {Missing}]
      BY <2>1 DEF IInv, TypeOK
    <3> QED BY <1>1, <2>1, <3>1, <3>2 DEF IInv, TypeOK
  <2>4. Present'
    BY <1>1, <2>1 DEF IInv, TypeOK, Present
  <2>5. AndroidInv' /\ NoStaleAbi'
    BY <2>1, <2>2 DEF IInv, TypeOK, Present, AndroidInv, NoStaleAbi
  <2> QED BY <1>2, <2>3, <2>4, <2>5 DEF IInv
<1>7. CASE AndroidCopy
  <2>1. /\ android.at = "copy" /\ jniLibs' = [jniLibs EXCEPT ![abi] = cargo[abi]] /\ cargo' = cargo
        /\ android' = [android EXCEPT !.todo = Tail(@),
                         !.at = IF Len(android.todo) = 1 THEN "ended" ELSE "cargo"]
    BY <1>7 DEF AndroidCopy
  <2>2. /\ android.todo \in Seq(AbiSet) /\ android.todo # << >> /\ abi \in AbiSet
        /\ cargo[abi] \in Versions /\ cargo[abi] >= android.from
    BY <2>1 DEF IInv, TypeOK, AndroidInv
  <2>3. Tail(android.todo) \in Seq(AbiSet) /\ (Tail(android.todo) = << >> <=> Len(android.todo) = 1)
    <3>1. ASSUME NEW S, NEW s \in Seq(S), s # << >>
          PROVE  /\ Tail(s) \in Seq(S) /\ Len(Tail(s)) = Len(s) - 1
                 /\ Tail(s) = << >> <=> Len(s) = 1
      <4>1. Tail(s) \in Seq(S) /\ Len(Tail(s)) = Len(s) - 1 /\ Len(s) \in Nat
        BY <3>1
      <4>2. \A q \in Seq(S) : q = << >> <=> Len(q) = 0
        OBVIOUS
      <4> QED BY <4>1, <4>2
    <3> QED BY <2>2, <3>1
  <2>4. Range(android.todo) \subseteq Range(Tail(android.todo)) \cup {abi}
    <3>1. ASSUME NEW i \in DOMAIN android.todo
          PROVE  android.todo[i] \in Range(Tail(android.todo)) \cup {abi}
      <4>1. CASE i = 1
        BY <2>2, <4>1
      <4>2. CASE i # 1
        <5>1. i - 1 \in DOMAIN Tail(android.todo) /\ Tail(android.todo)[i - 1] = android.todo[i]
          BY <2>2, <4>2
        <5> QED BY <5>1 DEF Range
      <4> QED BY <4>1, <4>2
    <3> QED BY <3>1 DEF Range
  <2>5. /\ android'.at \in {"cargo", "ended"} /\ android'.todo = Tail(android.todo)
        /\ android'.at = "ended" <=> Tail(android.todo) = << >>
        /\ android'.from = android.from
    BY <2>1, <2>3 DEF IInv, TypeOK
  <2>6. TypeOK'
    <3>1. jniLibs' \in [AbiSet -> File]
      BY <2>1, <2>2 DEF IInv, TypeOK
    <3>2. android' \in [at : {"idle", "clean", "cargo", "copy", "ended"}, todo : Seq(AbiSet),
                        from : Versions \cup {Missing}]
      BY <2>1, <2>3 DEF IInv, TypeOK
    <3> QED BY <1>1, <2>1, <3>1, <3>2 DEF IInv, TypeOK
  <2>7. Present'
    BY <1>1, <2>1, <2>2, <2>5 DEF IInv, TypeOK, Present
  <2>8. \A a \in AbiSet : jniLibs'[a] = IF a = abi THEN cargo[abi] ELSE jniLibs[a]
    BY <2>1 DEF IInv, TypeOK
  <2>9. \A a \in AbiSet : a \in Range(Tail(android.todo)) \/ jniLibs'[a] \in Versions
    BY <2>1, <2>2, <2>4, <2>8 DEF IInv, AndroidInv
  <2>10. AndroidInv'
    BY <2>5, <2>9 DEF AndroidInv
  <2>11. NoStaleAbi'
    <3>1. Range(<< >>) = {}
      BY DEF Range
    <3> QED BY <2>2, <2>5, <2>8, <2>9, <3>1 DEF IInv, NoStaleAbi
  <2> QED BY <1>2, <2>6, <2>7, <2>10, <2>11 DEF IInv
<1>8. CASE AndroidFails
  <2>1. /\ android' = [android EXCEPT !.at = "idle", !.todo = << >>] /\ cargo' = cargo
        /\ jniLibs' = jniLibs \/ jniLibs' = [jniLibs EXCEPT ![abi] = Torn]
    BY <1>8 DEF AndroidFails
  <2>2. TypeOK'
    <3>1. jniLibs' \in [AbiSet -> File]
      BY <2>1 DEF IInv, TypeOK
    <3>2. android' \in [at : {"idle", "clean", "cargo", "copy", "ended"}, todo : Seq(AbiSet),
                        from : Versions \cup {Missing}]
      <4>1. << >> \in Seq(AbiSet)
        OBVIOUS
      <4> QED BY <2>1, <4>1 DEF IInv, TypeOK
    <3> QED BY <1>1, <2>1, <3>1, <3>2 DEF IInv, TypeOK
  <2>3. Present'
    <3>1. /\ \A a \in AbiSet : jniLibs'[a] = jniLibs[a] \/ jniLibs'[a] = Torn
          /\ android'.from = android.from /\ Torn <= rust
      BY <2>1 DEF IInv, TypeOK
    <3> QED BY <1>1, <2>1, <3>1 DEF IInv, Present
  <2>4. AndroidInv' /\ NoStaleAbi'
    BY <2>1 DEF IInv, TypeOK, AndroidInv, NoStaleAbi
  <2> QED BY <1>2, <2>2, <2>3, <2>4 DEF IInv
<1> QED BY <1>3, <1>4, <1>5, <1>6, <1>7, <1>8

LEMMA BundleKeeps ==
  ASSUME IInv, BundleAar
  PROVE  IInv'
<1> USE DEF Versions, Missing, Torn, File
<1>1. /\ UNCHANGED << rust, cargo, staged, jniLibs, host, android, lastPass, loaded, verdict >>
      /\ aar' = [jni    |-> jniLibs,
                 tested |-> IF ReleaseOrder THEN verdict ELSE Missing]
  BY DEF BundleAar
<1>2. TypeOK'
  BY <1>1 DEF IInv, TypeOK
<1>3. Present' /\ HostInv' /\ AndroidInv' /\ GateTestsTheBuild' /\ NoStaleAbi'
  BY <1>1 DEF IInv, Present, HostInv, AndroidInv, GateTestsTheBuild, GateSeesTheBuild, NoStaleAbi
<1>4. ShipsWhatWasTested'
  <2>1. SUFFICES ASSUME ReleaseOrder, verdict # Missing, NEW a \in AbiSet
                 PROVE  jniLibs[a] = verdict
    BY <1>1 DEF ShipsWhatWasTested
  <2>2. verdict = rust
    BY <2>1 DEF IInv, TypeOK, Present, GateTestsTheBuild, GateSeesTheBuild, ReleaseOrder
  <2>3. jniLibs[a] = rust
    BY <2>1 DEF IInv, TypeOK, Present, NoStaleAbi, ReleaseOrder
  <2> QED BY <2>2, <2>3
<1> QED BY <1>2, <1>3, <1>4 DEF IInv

LEMMA NextKeeps == IInv /\ [Next]_vars => IInv'
<1> SUFFICES ASSUME IInv, [Next]_vars PROVE IInv'
  OBVIOUS
<1>1. CASE UNCHANGED vars
  BY <1>1 DEF vars, IInv, TypeOK, Present, HostInv, AndroidInv, GateTestsTheBuild,
     GateSeesTheBuild, NoStaleAbi, ShipsWhatWasTested
<1> QED BY <1>1, DeveloperKeeps, HostKeeps, TestKeeps, AndroidKeeps, BundleKeeps DEF Next

---------------------------------------------------------------------------
(***************************************************************************)
(* The inductive invariant: what the host script has built or staged is at *)
(* least as new as the sources it started from, and what the Android       *)
(* script has at least as new as those when OUT_DIR was last found empty;  *)
(* nothing is newer than the present ones; on a host that the script does  *)
(* not recognise nothing is staged at all (build-host-jni.sh 62-76,        *)
(* build-android-jni.sh 77-79, 103-171).                                   *)
(***************************************************************************)
THEOREM BuildInvariant == Spec => []IInv
BY Initially, NextKeeps, PTL DEF Spec

(* The type invariant of the working tree.                                 *)
THEOREM BuildTypeCorrect == Spec => []TypeOK
<1>1. IInv => TypeOK
  BY DEF IInv
<1> QED BY <1>1, BuildInvariant, PTL

(***************************************************************************)
(* After a host script that staged a library a passed test, also one that  *)
(* was up to date or came after --debug, stands for sources no older than  *)
(* the script's; after one that staged nothing, on a host it does not      *)
(* recognise, a test that Gradle ran after a release build does            *)
(* (build-host-jni.sh 62-76, release.yml 104-108).                         *)
(***************************************************************************)
THEOREM TheGateIsNotFooled == Spec => []GateTestsTheBuild
<1>1. IInv => GateTestsTheBuild
  BY DEF IInv
<1> QED BY <1>1, BuildInvariant, PTL

(***************************************************************************)
(* No library outlives the rm -rf of an Android script that gets past it,  *)
(* whatever fails before, in or after the rm -rf of this or of a later     *)
(* script; one that ended has staged all ABIs (build-android-jni.sh 43-79, *)
(* 103-171).                                                               *)
(***************************************************************************)
THEOREM NoAbiIsStale == Spec => []NoStaleAbi
<1>1. IInv => NoStaleAbi
  BY DEF IInv
<1> QED BY <1>1, BuildInvariant, PTL

(***************************************************************************)
(* An AAR packed in the release order ships to every ABI the version that  *)
(* the gate tested (release.yml 104-124).                                  *)
(***************************************************************************)
THEOREM AarIsTheTestedBuild == Spec => []ShipsWhatWasTested
<1>1. IInv => ShipsWhatWasTested
  BY DEF IInv
<1> QED BY <1>1, BuildInvariant, PTL
=============================================================================
