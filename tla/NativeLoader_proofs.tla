------------------------- MODULE NativeLoader_proofs ------------------------
(***************************************************************************)
(* Theorems about NativeLoader, for any number of threads, class loaders   *)
(* and directories: a library is loaded once, the bundled one does not     *)
(* fail to load, and a calm exit leaves nothing behind.                    *)
(*                                                                         *)
(* The argument: a class that is initialising is in the hands of one       *)
(* thread, and while the JVM runs a directory is in the hands of one too   *)
(* (Alone, ThreadInv).  Each directory of this JVM is on the hook's list,  *)
(* with its file behind it if it has one, except between its creation and  *)
(* its registration (Covered): so the hook, which goes backwards, finds    *)
(* each directory empty.                                                   *)
(***************************************************************************)
EXTENDS NativeLoader, TLAPS

Initialising(t) == pc[t] \in InitSteps
Copying(t)      == pc[t] \in {"markDir", "markFile", "open", "copy", "load"}

DirListed(d)  == \E i \in 1 .. Len(hooks) : hooks[i] = << "dir", d >>
FileListed(d) ==
  \E i, j \in 1 .. Len(hooks) : i < j /\ hooks[i] = << "dir", d >> /\ hooks[j] = << "file", d >>

ThreadInv(t) ==
  /\ pc[t] # "idle" => target[t] \in Loaders
  /\ Initialising(t) => cls[target[t]] = "initializing"
  /\ Copying(t) => dir[t] \in Dirs \ Debris
  /\ jvm = "running" =>
       /\ Copying(t) => dir[t] \in DOMAIN disk \ DOMAIN mapped
       /\ pc[t] = "copy" => disk[dir[t]] = "partial"
       /\ pc[t] = "load" => disk[dir[t]] = "whole"
       /\ pc[t] \in {"open", "copy", "load"} => FileListed(dir[t])
       /\ tier[1] = "loads" => answer[t] # "link"
  /\ tier[1] = "loads" => pc[t] # "fallback"

Alone ==
  \A t, u \in Threads :
    t # u => /\ Initialising(t) /\ Initialising(u) => target[t] # target[u]
             /\ jvm = "running" /\ Copying(t) /\ Copying(u) => dir[t] # dir[u]

Covered(d) ==
  /\ DirListed(d) \/ \E t \in Threads : pc[t] = "markDir" /\ dir[t] = d
  /\ disk[d] # "noFile" => FileListed(d)

DiskInv ==
  /\ disk = [d \in DOMAIN disk |-> disk[d]]
  /\ \A d \in Debris : d \in DOMAIN disk /\ disk[d] = "partial"
  /\ \A i \in 1 .. Len(hooks) : hooks[i][2] \notin Debris
  /\ jvm = "running" => DOMAIN mapped \subseteq DOMAIN disk \cup {LibPath}
  /\ (jvm = "running" \/ (calm /\ jvm # "crashed")) => \A d \in DOMAIN disk \ Debris : Covered(d)
  /\ (calm /\ jvm \in {"exiting", "exited"}) => \A t \in Threads : ~Initialising(t)
  /\ jvm = "exited" => hooks = << >>

(* The inductive invariant. *)
IInv == TypeOK /\ DiskInv /\ Alone /\ LoadedOnce /\ \A t \in Threads : ThreadInv(t)

---------------------------------------------------------------------------
(* The type invariant. *)

LEMMA TypeInitially == Init => TypeOK
<1> SUFFICES ASSUME Init PROVE TypeOK
  OBVIOUS
<1>1. DOMAIN mapped = {} /\ DOMAIN disk = Debris
  BY DEF Init, Nothing
<1> QED BY <1>1, DirsAssumption DEF Init, TypeOK

LEMMA TypeKept ==
  ASSUME TypeOK, NEW t \in Threads, ThreadInv(t), Step(t)
  PROVE  TypeOK'
<1> USE DEF TypeOK, At, Goto, Fails, Initialised, InitSteps
<1>0. pc[t] # "idle" => target[t] \in Loaders /\ (Copying(t) => dir[t] \in Dirs)
  BY DEF ThreadInv
<1>1. CASE Proceed(t) \/ FindResource(t) \/ IoFails(t)
  BY <1>0, <1>1 DEF Proceed, FindResource, IoFails
<1>2. CASE CreateTempDir(t)
  BY <1>2 DEF CreateTempDir
<1>3. CASE RegisterDir(t) \/ RegisterFile(t)
  <2>1. dir[t] \in Dirs
    BY <1>0, <1>3 DEF RegisterDir, RegisterFile, Copying
  <2>2. \A what \in {"dir", "file"} :
          Append(hooks, << what, dir[t] >>) \in Seq({"dir", "file"} \X Dirs)
    BY <2>1
  <2> QED BY <1>0, <1>3, <2>2 DEF RegisterDir, RegisterFile, Register
<1>4. CASE OpenFile(t)
  BY <1>0, <1>4 DEF OpenFile
<1>5. CASE CopyFile(t)
  BY <1>5 DEF CopyFile
<1>6. CASE LoadExtracted(t) \/ Fallback(t)
  <2>1. ASSUME NEW path \in Dirs \cup {LibPath}, NEW loads, Load(t, path, loads),
               target[t] \in Loaders
        PROVE  TypeOK'
    BY <2>1 DEF Load
  <2> QED BY <1>0, <1>6, <2>1 DEF LoadExtracted, Fallback, Copying
<1> QED BY <1>1, <1>2, <1>3, <1>4, <1>5, <1>6 DEF Step

---------------------------------------------------------------------------
(* What a step of one thread leaves to the others. *)

Idle(u) ==
  /\ pc'[u] = pc[u] /\ target'[u] = target[u]
  /\ dir'[u] = dir[u] /\ answer'[u] = answer[u]

(* t changes the class it initialises, or an untouched one; the directory  *)
(* it has, or a new one; and adds to the hook's list.                      *)
OwnOnly(t) ==
  /\ jvm' = jvm /\ tier' = tier
  /\ \A u \in Threads \ {t} : Idle(u)
  /\ \A l \in Loaders : cls[l] = "initializing" =>
        cls'[l] = "initializing" \/ (Initialising(t) /\ target[t] = l)
  /\ jvm = "running" =>
       /\ \A d \in DOMAIN disk :
            d \in DOMAIN disk' /\ (disk'[d] = disk[d] \/ (Copying(t) /\ dir[t] = d))
       /\ \A p \in DOMAIN mapped' :
            p \in DOMAIN mapped \/ p = LibPath \/ (Copying(t) /\ p = dir[t])
       /\ Len(hooks) <= Len(hooks') /\ \A i \in 1 .. Len(hooks) : hooks'[i] = hooks[i]

LEMMA ListedStays ==
  ASSUME TypeOK, TypeOK', Len(hooks) <= Len(hooks'),
         \A i \in 1 .. Len(hooks) : hooks'[i] = hooks[i], NEW d
  PROVE  (DirListed(d) => DirListed(d)') /\ (FileListed(d) => FileListed(d)')
<1>1. Len(hooks) \in Nat /\ Len(hooks') \in Nat /\ 1 .. Len(hooks) \subseteq 1 .. Len(hooks')
  BY DEF TypeOK
<1> QED BY <1>1 DEF DirListed, FileListed

LEMMA OtherThreads ==
  ASSUME IInv, TypeOK', NEW t \in Threads, OwnOnly(t), NEW u \in Threads \ {t}
  PROVE  ThreadInv(u)'
<1>1. Idle(u) /\ ThreadInv(u)
  BY DEF OwnOnly, IInv
<1>2. Initialising(u)' = Initialising(u) /\ Copying(u)' = Copying(u)
  BY <1>1 DEF Idle, Initialising, Copying
<1>3. Copying(u) => Initialising(u)
  BY DEF Copying, Initialising, InitSteps
<1>4. Copying(t) => Initialising(t)
  BY DEF Copying, Initialising, InitSteps
<1>5. Initialising(u) => target[u] \in Loaders /\ cls'[target[u]] = "initializing"
  BY <1>1 DEF OwnOnly, IInv, Alone, ThreadInv, Initialising, InitSteps
<1>6. LibPath \notin Dirs
  BY DirsAssumption
<1>7. (jvm = "running" /\ Copying(u)) =>
        /\ dir[u] \in DOMAIN disk' \ DOMAIN mapped'
        /\ disk'[dir[u]] = disk[dir[u]]
  BY <1>1, <1>6 DEF OwnOnly, IInv, Alone, ThreadInv
<1>8. (jvm = "running" /\ FileListed(dir[u])) => FileListed(dir[u])'
  BY <1>1, ListedStays DEF IInv, OwnOnly, FileListed, Idle
<1> QED BY <1>1, <1>2, <1>3, <1>5, <1>7, <1>8 DEF ThreadInv, Idle, OwnOnly, Copying

LEMMA OneThread ==
  ASSUME IInv, TypeOK', NEW t \in Threads, OwnOnly(t),
         Initialising(t)' =>
           \/ Initialising(t) /\ target'[t] = target[t]
           \/ \A u \in Threads \ {t} : Initialising(u) => target[u] # target'[t],
         (jvm = "running" /\ Copying(t)') =>
           \/ Copying(t) /\ dir'[t] = dir[t]
           \/ \A u \in Threads \ {t} : Copying(u) => dir[u] # dir'[t],
         DiskInv', LoadedOnce', ThreadInv(t)'
  PROVE  IInv'
<1>1. \A u \in Threads : ThreadInv(u)'
  BY OtherThreads
<1>2. \A u \in Threads \ {t} :
        /\ Initialising(u)' = Initialising(u) /\ Copying(u)' = Copying(u)
        /\ target'[u] = target[u] /\ dir'[u] = dir[u]
  BY DEF OwnOnly, Idle, Initialising, Copying
<1>3. Alone'
  BY <1>2 DEF IInv, Alone, OwnOnly
<1> QED BY <1>1, <1>3 DEF IInv

(* A step that leaves the directories and the libraries alone. *)
LEMMA DiskKept ==
  ASSUME IInv, NEW t \in Threads, OwnOnly(t), UNCHANGED << disk, hooks, mapped >>,
         calm' => calm, jvm = "running" => calm' = calm,
         pc[t] = "markDir" => jvm # "running",
         (jvm # "running" /\ Initialising(t)') => Initialising(t) \/ ~calm'
  PROVE  DiskInv'
<1>1. \A d : DirListed(d)' = DirListed(d) /\ FileListed(d)' = FileListed(d)
  BY DEF DirListed, FileListed
<1>2. \A u \in Threads \ {t} : Initialising(u)' = Initialising(u)
  BY DEF OwnOnly, Idle, Initialising
<1>3. pc[t] = "markDir" => Initialising(t)
  BY DEF Initialising, InitSteps
<1>4. ASSUME jvm = "running" \/ (calm' /\ jvm # "crashed"), NEW d \in DOMAIN disk \ Debris
      PROVE  Covered(d)'
  <2>1. Covered(d)
    BY <1>4 DEF IInv, DiskInv
  <2>2. pc[t] # "markDir"
    BY <1>3, <1>4 DEF IInv, DiskInv, TypeOK
  <2> QED BY <1>1, <2>1, <2>2 DEF Covered, OwnOnly, Idle
<1> QED BY <1>2, <1>4 DEF IInv, DiskInv, OwnOnly

LEMMA LoadsKept ==
  ASSUME IInv, UNCHANGED mapped, \A l \in Loaders : cls'[l] = "ready" <=> cls[l] = "ready"
  PROVE  LoadedOnce'
BY DEF IInv, LoadedOnce

---------------------------------------------------------------------------
(* Steps of a thread. *)

LEMMA Initially == Init => IInv
<1> SUFFICES ASSUME Init PROVE IInv
  OBVIOUS
<1>1. DOMAIN mapped = {} /\ DOMAIN disk = Debris /\ Len(hooks) = 0
  BY DEF Init, Nothing
<1>2. DiskInv
  BY <1>1 DEF Init, DiskInv
<1>3. Alone /\ \A t \in Threads : ThreadInv(t)
  BY DEF Init, Alone, ThreadInv, Initialising, Copying, InitSteps
<1>4. LoadedOnce
  BY <1>1 DEF Init, LoadedOnce
<1> QED BY <1>2, <1>3, <1>4, TypeInitially DEF IInv

LEMMA TouchKeeps ==
  ASSUME IInv, NEW t \in Threads, NEW l \in Loaders, Touch(t, l)
  PROVE  IInv'
<1> USE DEF Goto
<1>1. /\ jvm \in {"running", "exiting"} /\ pc[t] = "idle"
      /\ target'[t] = l /\ dir'[t] = dir[t] /\ answer' = answer
      /\ \A u \in Threads \ {t} : Idle(u)
      /\ UNCHANGED << jvm, tier, disk, hooks, mapped >>
      /\ \/ /\ cls[l] = "untouched" /\ cls' = [cls EXCEPT ![l] = "initializing"]
            /\ pc'[t] = "find" /\ calm' = (calm /\ jvm = "running")
         \/ cls[l] # "untouched" /\ pc'[t] = "wait" /\ cls' = cls /\ calm' = calm
  BY DEF Touch, Alive, Idle, IInv, TypeOK
<1>2. TypeOK'
  BY DEF Touch, IInv, TypeOK, InitSteps
<1>3. OwnOnly(t)
  BY <1>1 DEF OwnOnly, IInv, TypeOK
<1>4. DiskInv'
  <2>1. (jvm # "running" /\ Initialising(t)') => ~calm'
    BY <1>1 DEF Initialising, InitSteps
  <2>2. (calm' => calm) /\ (jvm = "running" => calm' = calm)
    BY <1>1 DEF IInv, TypeOK
  <2> QED BY <1>1, <1>3, <2>1, <2>2, DiskKept
<1>5. LoadedOnce'
  BY <1>1, LoadsKept DEF IInv, TypeOK
<1>6. Initialising(t)' => \A u \in Threads \ {t} : Initialising(u) => target[u] # target'[t]
  BY <1>1 DEF Initialising, InitSteps, IInv, ThreadInv
<1>7. ThreadInv(t)'
  BY <1>1 DEF IInv, TypeOK, ThreadInv, Initialising, Copying, InitSteps
<1> QED BY <1>1, <1>2, <1>3, <1>4, <1>5, <1>6, <1>7, OneThread DEF Copying

LEMMA ProceedKeeps ==
  ASSUME IInv, NEW t \in Threads, Proceed(t) \/ Collect(t) \/ FindResource(t)
  PROVE  IInv'
<1> USE DEF Goto, At
<1>1. /\ pc[t] \in {"wait", "done", "find"}
      /\ \A u \in Threads \ {t} : Idle(u)
      /\ UNCHANGED << jvm, calm, tier, disk, hooks, mapped, cls >>
      /\ \/ pc'[t] = "done" /\ answer'[t] # "link" /\ target'[t] = target[t]
         \/ pc'[t] = "idle" /\ answer'[t] # "link"
         \/ pc[t] = "find" /\ pc'[t] = "mkdir" /\ target' = target /\ answer' = answer
         \/ pc[t] = "find" /\ pc'[t] = "fallback" /\ target' = target /\ answer' = answer
            /\ tier[1] # "loads"
  BY DEF Proceed, Collect, FindResource, Idle, IInv, TypeOK
<1>2. TypeOK'
  <2>1. CASE Collect(t)
    BY <2>1 DEF Collect, IInv, TypeOK
  <2>2. CASE Proceed(t) \/ FindResource(t)
    BY <2>2, TypeKept DEF Step, IInv
  <2> QED BY <2>1, <2>2
<1>3. OwnOnly(t)
  BY <1>1 DEF OwnOnly, IInv, TypeOK
<1>4. Initialising(t)' => Initialising(t) /\ target'[t] = target[t]
  BY <1>1 DEF Initialising, InitSteps
<1>5. DiskInv'
  BY <1>1, <1>3, <1>4, DiskKept
<1>6. LoadedOnce'
  BY <1>1, LoadsKept
<1>7. ThreadInv(t)'
  BY <1>1, <1>4 DEF IInv, ThreadInv, Initialising, Copying, InitSteps
<1>8. ~Copying(t)'
  BY <1>1 DEF Copying
<1> QED BY <1>2, <1>3, <1>4, <1>5, <1>6, <1>7, <1>8, OneThread

(* The initialiser throws; while the JVM runs, no link error with tier 1.  *)
LEMMA FailsKeeps ==
  ASSUME IInv, NEW t \in Threads, TypeOK', Initialising(t), pc[t] = "markDir" => jvm # "running",
         NEW error, Fails(t, error), error = "link" => tier[1] # "loads" \/ jvm # "running",
         UNCHANGED << jvm, calm, tier, disk, hooks, mapped, target, dir >>
  PROVE  IInv'
<1> USE DEF Goto
<1>1. /\ pc'[t] = "done" /\ answer'[t] = error /\ cls' = [cls EXCEPT ![target[t]] = "erroneous"]
      /\ \A u \in Threads \ {t} : Idle(u)
  BY DEF Fails, Idle, IInv, TypeOK
<1>2. target[t] \in Loaders /\ cls[target[t]] = "initializing"
  BY DEF IInv, ThreadInv, Initialising, InitSteps
<1>3. OwnOnly(t)
  BY <1>1, <1>2 DEF OwnOnly, IInv, TypeOK
<1>4. ~Initialising(t)' /\ ~Copying(t)'
  BY <1>1 DEF Initialising, Copying, InitSteps
<1>5. DiskInv'
  BY <1>3, <1>4, DiskKept
<1>6. LoadedOnce'
  BY <1>1, <1>2, LoadsKept DEF IInv, TypeOK
<1>7. ThreadInv(t)'
  BY <1>1, <1>2, <1>4 DEF ThreadInv
<1> QED BY <1>3, <1>4, <1>5, <1>6, <1>7, OneThread

LEMMA IoFailsKeeps ==
  ASSUME IInv, NEW t \in Threads, IoFails(t)
  PROVE  IInv'
<1>1. TypeOK'
  BY TypeKept DEF Step, IInv
<1>2. Initialising(t) /\ pc[t] # "markDir"
  BY DEF IoFails, At, Initialising, InitSteps
<1> QED BY <1>1, <1>2, FailsKeeps DEF IoFails

LEMMA CreateTempDirKeeps ==
  ASSUME IInv, NEW t \in Threads, CreateTempDir(t)
  PROVE  IInv'
<1> USE DEF Goto, At
<1>1. PICK d \in Dirs \ DOMAIN disk :
        /\ dir' = [dir EXCEPT ![t] = d]
        /\ disk' = [e \in DOMAIN disk \cup {d} |-> IF e = d THEN "noFile" ELSE disk[e]]
  BY DEF CreateTempDir
<1>2. /\ jvm \in {"running", "exiting"} /\ pc[t] = "mkdir" /\ pc'[t] = "markDir" /\ dir'[t] = d
      /\ \A u \in Threads \ {t} : Idle(u)
      /\ UNCHANGED << jvm, calm, tier, hooks, mapped, cls, target, answer >>
  BY <1>1 DEF CreateTempDir, Alive, Idle, IInv, TypeOK
<1>3. TypeOK'
  BY TypeKept DEF Step, IInv
<1>4. OwnOnly(t)
  BY <1>1, <1>2 DEF OwnOnly, IInv, TypeOK
<1>5. Initialising(t) /\ Initialising(t)'
  BY <1>2 DEF Initialising, InitSteps
<1>6. d \notin Debris /\ d # LibPath /\ (jvm = "running" => d \notin DOMAIN mapped)
  BY DirsAssumption DEF IInv, DiskInv
<1>7. DiskInv'
  <2>1. ASSUME jvm = "running" \/ (calm /\ jvm # "crashed"), NEW e \in DOMAIN disk' \ Debris
        PROVE  Covered(e)'
    <3>1. jvm = "running"
      BY <1>2, <1>5, <2>1 DEF IInv, DiskInv
    <3>2. CASE e = d
      BY <1>1, <1>2, <3>2 DEF Covered
    <3>3. CASE e # d
      <4>1. Covered(e) /\ disk'[e] = disk[e]
        BY <1>1, <2>1, <3>1, <3>3 DEF IInv, DiskInv
      <4>2. DirListed(e)' = DirListed(e) /\ FileListed(e)' = FileListed(e)
        BY <1>2 DEF DirListed, FileListed
      <4> QED BY <1>2, <4>1, <4>2 DEF Covered, Idle
    <3> QED BY <3>2, <3>3
  <2>2. \A u \in Threads : Initialising(u)' = Initialising(u)
    BY <1>2, <1>5 DEF Idle, Initialising
  <2> QED BY <1>1, <1>2, <1>6, <2>1, <2>2 DEF IInv, DiskInv
<1>8. LoadedOnce'
  BY <1>2, LoadsKept
<1>9. ThreadInv(t)'
  BY <1>1, <1>2, <1>5, <1>6 DEF IInv, ThreadInv, Initialising, Copying
<1>10. jvm = "running" => \A u \in Threads \ {t} : Copying(u) => dir[u] # dir'[t]
  BY <1>1, <1>2 DEF IInv, ThreadInv
<1> QED BY <1>2, <1>3, <1>4, <1>5, <1>7, <1>8, <1>9, <1>10, OneThread

(* A new entry of the hook's list. *)
LEMMA Registered ==
  ASSUME TypeOK, NEW what \in {"dir", "file"}, NEW d \in Dirs,
         hooks' = Append(hooks, << what, d >>)
  PROVE  /\ Len(hooks) \in Nat /\ Len(hooks') = Len(hooks) + 1
         /\ \A i \in 1 .. Len(hooks) : hooks'[i] = hooks[i]
         /\ hooks'[Len(hooks) + 1] = << what, d >>
<1>1. hooks \in Seq({"dir", "file"} \X Dirs) /\ << what, d >> \in {"dir", "file"} \X Dirs
  BY DEF TypeOK
<1> QED BY <1>1

LEMMA RegisterKeeps ==
  ASSUME IInv, NEW t \in Threads, RegisterDir(t) \/ RegisterFile(t)
  PROVE  IInv'
<1> USE DEF Goto, At
<1> DEFINE d == dir[t]
<1>1. TypeOK'
  BY TypeKept DEF Step, IInv
<1>2. Initialising(t) /\ Copying(t) /\ d \in Dirs \ Debris
  BY DEF RegisterDir, RegisterFile, Initialising, Copying, InitSteps, IInv, ThreadInv
<1>3. CASE jvm # "running"
  <2>1. Fails(t, "initializer") /\ UNCHANGED << jvm, calm, tier, disk, hooks, mapped, target, dir >>
    BY <1>3 DEF RegisterDir, RegisterFile, Register
  <2> QED BY <1>1, <1>2, <1>3, <2>1, FailsKeeps
<1>4. CASE jvm = "running"
  <2>1. PICK what \in {"dir", "file"} :
          /\ hooks' = Append(hooks, << what, d >>)
          /\ what = "dir" => pc[t] = "markDir" /\ pc'[t] = "markFile"
          /\ what = "file" => pc[t] = "markFile" /\ pc'[t] = "open"
          /\ \A u \in Threads \ {t} : Idle(u)
          /\ UNCHANGED << jvm, calm, tier, disk, mapped, cls, target, dir, answer >>
    BY <1>4 DEF RegisterDir, RegisterFile, Register, Idle, IInv, TypeOK
  <2>2. /\ Len(hooks) \in Nat /\ Len(hooks') = Len(hooks) + 1
        /\ \A i \in 1 .. Len(hooks) : hooks'[i] = hooks[i]
        /\ hooks'[Len(hooks) + 1] = << what, d >>
    BY <1>2, <2>1, Registered DEF IInv
  <2>3. OwnOnly(t)
    BY <2>1, <2>2 DEF OwnOnly
  <2>4. \A e : (DirListed(e) => DirListed(e)') /\ (FileListed(e) => FileListed(e)')
    BY <1>1, <2>2, ListedStays DEF IInv
  <2>5. what = "dir" => DirListed(d)'
    <3>1. Len(hooks) + 1 \in 1 .. Len(hooks')
      BY <2>2
    <3> QED BY <2>1, <2>2, <3>1 DEF DirListed
  <2>6. what = "file" => FileListed(d)'
    <3>1. SUFFICES ASSUME what = "file"
                   PROVE  FileListed(d)'
      OBVIOUS
    <3>2. \A u \in Threads : ~(pc[u] = "markDir" /\ dir[u] = d)
      BY <1>2, <1>4, <2>1, <3>1 DEF IInv, Alone, Copying
    <3>3. d \in DOMAIN disk
      BY <1>2, <1>4 DEF IInv, ThreadInv
    <3>4. PICK i \in 1 .. Len(hooks) : hooks[i] = << "dir", d >>
      BY <1>2, <1>4, <3>2, <3>3 DEF IInv, DiskInv, Covered, DirListed
    <3>5. i \in 1 .. Len(hooks') /\ Len(hooks') \in 1 .. Len(hooks') /\ i < Len(hooks')
      BY <2>2
    <3>6. hooks'[i] = << "dir", d >> /\ hooks'[Len(hooks')] = << "file", d >>
      BY <2>2, <3>1, <3>4
    <3> QED BY <2>1, <3>5, <3>6 DEF FileListed
  <2>7. DiskInv'
    <3>1. ASSUME NEW e \in DOMAIN disk \ Debris
          PROVE  Covered(e)'
      <4>1. Covered(e)
        BY <1>4 DEF IInv, DiskInv
      <4>2. CASE DirListed(e)
        BY <2>1, <2>4, <4>1, <4>2 DEF Covered
      <4>3. CASE \E u \in Threads : pc[u] = "markDir" /\ dir[u] = e
        <5>1. PICK u \in Threads : pc[u] = "markDir" /\ dir[u] = e
          BY <4>3
        <5>2. CASE u = t
          BY <2>1, <2>4, <2>5, <4>1, <5>1, <5>2 DEF Covered
        <5>3. CASE u # t
          BY <2>1, <2>4, <4>1, <5>1, <5>3 DEF Covered, Idle
        <5> QED BY <5>2, <5>3
      <4> QED BY <4>1, <4>2, <4>3 DEF Covered
    <3>2. \A i \in 1 .. Len(hooks') : hooks'[i][2] \notin Debris
      <4>1. ASSUME NEW i \in 1 .. Len(hooks')
            PROVE  i \in 1 .. Len(hooks) \/ i = Len(hooks) + 1
        BY <2>2
      <4> QED BY <1>2, <2>2, <4>1 DEF IInv, DiskInv
    <3> QED BY <1>4, <2>1, <3>1, <3>2 DEF IInv, DiskInv
  <2>8. LoadedOnce'
    BY <2>1, LoadsKept
  <2>9. Initialising(t)' /\ Copying(t)'
    BY <2>1 DEF Initialising, Copying, InitSteps
  <2>10. ThreadInv(t)'
    BY <1>2, <1>4, <2>1, <2>6, <2>9 DEF IInv, ThreadInv
  <2> QED BY <1>1, <1>2, <2>1, <2>3, <2>7, <2>8, <2>9, <2>10, OneThread
<1> QED BY <1>3, <1>4

(* OpenFile and CopyFile: the contents of the thread's own file. *)
LEMMA FileStepKeeps ==
  ASSUME IInv, NEW t \in Threads, OpenFile(t) \/ CopyFile(t)
  PROVE  IInv'
<1> USE DEF Goto, At
<1> DEFINE d == dir[t]
<1>1. TypeOK'
  BY TypeKept DEF Step, IInv
<1>2. Initialising(t) /\ Copying(t) /\ d \in Dirs \ Debris /\ pc[t] # "markDir"
  BY DEF OpenFile, CopyFile, Initialising, Copying, InitSteps, IInv, ThreadInv
<1>3. CASE Fails(t, "initializer") /\ UNCHANGED << jvm, calm, tier, disk, hooks, mapped, target, dir >>
  BY <1>1, <1>2, <1>3, FailsKeeps
<1>4. CASE ~(Fails(t, "initializer") /\ UNCHANGED << jvm, calm, tier, disk, hooks, mapped, target, dir >>)
  <2>1. /\ jvm \in {"running", "exiting"} /\ \A u \in Threads \ {t} : Idle(u)
        /\ UNCHANGED << jvm, calm, tier, hooks, mapped, cls, target, dir, answer >>
        /\ DOMAIN disk' = DOMAIN disk /\ disk' = [e \in DOMAIN disk' |-> disk'[e]]
        /\ \A e \in DOMAIN disk : e # d => disk'[e] = disk[e]
        /\ \/ /\ pc[t] = "open" /\ pc'[t] = "copy"
              /\ d \in DOMAIN disk => disk'[d] = "partial"
           \/ /\ pc[t] = "copy" /\ pc'[t] = "load"
              /\ d \in DOMAIN disk /\ disk[d] = "partial" => disk'[d] = "whole"
    <3>1. CASE OpenFile(t)
      BY <1>4, <3>1 DEF OpenFile, Alive, Idle, IInv, TypeOK, DiskInv
    <3>2. CASE CopyFile(t)
      BY <3>2 DEF CopyFile, Alive, Idle, IInv, TypeOK
    <3> QED BY <3>1, <3>2
  <2>2. OwnOnly(t)
    BY <1>2, <2>1 DEF OwnOnly
  <2>3. Initialising(t)' /\ Copying(t)' /\ pc'[t] # "markDir"
    BY <2>1 DEF Initialising, Copying, InitSteps
  <2>4. \A e : DirListed(e)' = DirListed(e) /\ FileListed(e)' = FileListed(e)
    BY <2>1 DEF DirListed, FileListed
  <2>5. jvm = "running" => d \in DOMAIN disk /\ FileListed(d)
    BY <1>2, <2>1 DEF IInv, ThreadInv
  <2>6. DiskInv'
    <3>1. ASSUME jvm = "running" \/ (calm /\ jvm # "crashed"), NEW e \in DOMAIN disk' \ Debris
          PROVE  Covered(e)'
      <4>1. jvm = "running" /\ Covered(e)
        BY <1>2, <2>1, <3>1 DEF IInv, DiskInv
      <4>2. DirListed(e)' \/ \E u \in Threads : pc'[u] = "markDir" /\ dir'[u] = e
        BY <1>2, <2>1, <2>4, <4>1 DEF Covered, Idle
      <4> QED BY <2>1, <2>4, <2>5, <4>1, <4>2 DEF Covered
    <3>2. \A e \in Debris : e \in DOMAIN disk' /\ disk'[e] = "partial"
      BY <1>2, <2>1 DEF IInv, DiskInv
    <3>3. \A u \in Threads : Initialising(u)' = Initialising(u)
      BY <1>2, <2>1, <2>3 DEF Idle, Initialising
    <3> QED BY <2>1, <3>1, <3>2, <3>3 DEF IInv, DiskInv
  <2>7. LoadedOnce'
    BY <2>1, LoadsKept
  <2>8. ThreadInv(t)'
    <3>1. ThreadInv(t)
      BY DEF IInv
    <3> QED BY <1>2, <2>1, <2>3, <2>4, <2>5, <3>1 DEF ThreadInv
  <2> QED BY <1>1, <1>2, <2>1, <2>2, <2>3, <2>6, <2>7, <2>8, OneThread
<1> QED BY <1>3, <1>4

LEMMA LoadsKeeps ==
  ASSUME IInv, NEW t \in Threads, TypeOK', Initialising(t), pc[t] # "markDir",
         NEW path, Load(t, path, TRUE), path \notin DOMAIN mapped,
         path = LibPath \/ (Copying(t) /\ path = dir[t] /\ path \in DOMAIN disk)
  PROVE  IInv'
<1> USE DEF Goto
<1> DEFINE l == target[t]
<1>1. l \in Loaders /\ cls[l] = "initializing"
  BY DEF IInv, ThreadInv, Initialising, InitSteps
<1>2. /\ DOMAIN mapped' = DOMAIN mapped \cup {path} /\ mapped'[path] = l
      /\ \A p \in DOMAIN mapped : mapped'[p] = mapped[p]
      /\ cls' = [cls EXCEPT ![l] = "ready"] /\ pc'[t] = "done" /\ answer'[t] = "value"
      /\ \A u \in Threads \ {t} : Idle(u)
      /\ UNCHANGED << jvm, calm, tier, disk, hooks, target, dir >>
  BY DEF Load, Initialised, Idle, IInv, TypeOK
<1>3. OwnOnly(t)
  BY <1>1, <1>2 DEF OwnOnly, IInv, TypeOK
<1>4. ~Initialising(t)' /\ ~Copying(t)'
  BY <1>2 DEF Initialising, Copying, InitSteps
<1>5. DiskInv'
  <2>1. ASSUME jvm = "running" \/ (calm /\ jvm # "crashed"), NEW d \in DOMAIN disk \ Debris
        PROVE  Covered(d)'
    <3>1. Covered(d)
      BY <2>1 DEF IInv, DiskInv
    <3>2. DirListed(d)' = DirListed(d) /\ FileListed(d)' = FileListed(d)
      BY <1>2 DEF DirListed, FileListed
    <3> QED BY <1>2, <3>1, <3>2 DEF Covered, Idle
  <2>2. \A u \in Threads : Initialising(u)' => Initialising(u)
    BY <1>2, <1>4 DEF Idle, Initialising
  <2> QED BY <1>2, <2>1, <2>2 DEF IInv, DiskInv
<1>6. LoadedOnce'
  <2>1. \A p \in DOMAIN mapped : mapped[p] # l
    BY <1>1 DEF IInv, LoadedOnce
  <2>2. ASSUME NEW k \in Loaders
        PROVE  {p \in DOMAIN mapped' : mapped'[p] = k} =
                 IF k = l THEN {path} ELSE {p \in DOMAIN mapped : mapped[p] = k}
    BY <1>2, <2>1
  <2>3. \A k \in Loaders : cls'[k] = IF k = l THEN "ready" ELSE cls[k]
    BY <1>1, <1>2 DEF IInv, TypeOK
  <2> QED BY <2>2, <2>3 DEF IInv, LoadedOnce
<1>7. ThreadInv(t)'
  BY <1>1, <1>2, <1>4 DEF ThreadInv
<1> QED BY <1>3, <1>4, <1>5, <1>6, <1>7, OneThread

LEMMA LoadKeeps ==
  ASSUME IInv, NEW t \in Threads, LoadExtracted(t) \/ Fallback(t)
  PROVE  IInv'
<1> USE DEF At
<1>1. TypeOK'
  BY TypeKept DEF Step, IInv
<1>2. Initialising(t) /\ pc[t] # "markDir"
  BY DEF LoadExtracted, Fallback, Initialising, InitSteps
<1>3. CASE LoadExtracted(t)
  <2> DEFINE loads == /\ tier[1] = "loads"
                      /\ dir[t] \in DOMAIN disk /\ disk[dir[t]] = "whole"
  <2>1. Load(t, dir[t], loads) /\ Copying(t) /\ pc[t] = "load"
    BY <1>3 DEF LoadExtracted, Copying
  <2>2. CASE loads /\ dir[t] \notin DOMAIN mapped
    <3>1. Load(t, dir[t], TRUE)
      BY <2>1, <2>2 DEF Load
    <3> QED BY <1>1, <1>2, <2>1, <2>2, <3>1, LoadsKeeps
  <2>3. CASE ~(loads /\ dir[t] \notin DOMAIN mapped)
    <3>1. tier[1] # "loads" \/ jvm # "running"
      BY <2>1, <2>3 DEF IInv, ThreadInv
    <3>2. Fails(t, "link") /\ UNCHANGED << jvm, calm, tier, disk, hooks, mapped, target, dir >>
      BY <2>1, <2>3 DEF Load
    <3> QED BY <1>1, <1>2, <3>1, <3>2, FailsKeeps
  <2> QED BY <2>2, <2>3
<1>4. CASE Fallback(t)
  <2>1. Load(t, LibPath, tier[2] = "loads") /\ tier[1] # "loads"
    BY <1>4 DEF Fallback, IInv, ThreadInv
  <2>2. CASE tier[2] = "loads" /\ LibPath \notin DOMAIN mapped
    <3>1. Load(t, LibPath, TRUE)
      BY <2>1, <2>2 DEF Load
    <3> QED BY <1>1, <1>2, <2>2, <3>1, LoadsKeeps
  <2>3. CASE ~(tier[2] = "loads" /\ LibPath \notin DOMAIN mapped)
    <3>1. Fails(t, "link") /\ UNCHANGED << jvm, calm, tier, disk, hooks, mapped, target, dir >>
      BY <2>1, <2>3 DEF Load
    <3> QED BY <1>1, <1>2, <2>1, <3>1, FailsKeeps
  <2> QED BY <2>2, <2>3
<1> QED BY <1>3, <1>4

---------------------------------------------------------------------------
(* The end of the JVM. *)

(* No step of a thread: what the threads are in stays. *)
LEMMA ThreadsKept ==
  ASSUME IInv, UNCHANGED << tier, mapped, cls, pc, target, dir, answer >>,
         jvm' = "running" => UNCHANGED << jvm, disk, hooks >>,
         TypeOK', DiskInv'
  PROVE  IInv'
<1>1. \A t \in Threads : Initialising(t)' = Initialising(t) /\ Copying(t)' = Copying(t)
  BY DEF Initialising, Copying
<1>2. UNCHANGED hooks => \A d : FileListed(d)' = FileListed(d)
  BY DEF FileListed
<1>3. \A t \in Threads : ThreadInv(t)'
  BY <1>1, <1>2 DEF IInv, ThreadInv
<1>4. Alone'
  BY <1>1 DEF IInv, Alone
<1> QED BY <1>3, <1>4, LoadsKept DEF IInv

LEMMA ExitKeeps ==
  ASSUME IInv, Exit \/ Halt \/ Crash
  PROVE  IInv'
<1>1. /\ UNCHANGED << tier, disk, hooks, mapped, cls, pc, target, dir, answer >>
      /\ \/ /\ jvm = "running" /\ jvm' = "exiting"
            /\ calm' = (\A l \in Loaders : cls[l] # "initializing")
         \/ jvm = "exiting" /\ jvm' = "exited" /\ hooks = << >> /\ calm' = calm
         \/ jvm' = "crashed" /\ calm' = calm
  BY DEF Exit, Halt, Crash, Alive
<1>2. TypeOK'
  BY <1>1 DEF IInv, TypeOK
<1>3. \A d : DirListed(d)' = DirListed(d) /\ FileListed(d)' = FileListed(d)
  BY <1>1 DEF DirListed, FileListed
<1>4. \A d : Covered(d) => Covered(d)'
  BY <1>1, <1>3 DEF Covered
<1>5. (calm' /\ jvm' \in {"exiting", "exited"}) => \A t \in Threads : ~Initialising(t)
  BY <1>1 DEF IInv, DiskInv, ThreadInv, Initialising, InitSteps
<1>6. \A t \in Threads : Initialising(t)' = Initialising(t)
  BY <1>1 DEF Initialising
<1>7. DiskInv'
  <2>1. ASSUME jvm' = "running" \/ (calm' /\ jvm' # "crashed"), NEW d \in DOMAIN disk \ Debris
        PROVE  Covered(d)'
    <3>1. jvm = "running" \/ (calm /\ jvm # "crashed")
      <4>1. CASE jvm = "running"
        BY <4>1
      <4>2. CASE calm' = calm /\ jvm = "exiting"
        BY <1>1, <2>1, <4>2
      <4>3. CASE jvm' = "crashed"
        BY <2>1, <4>3
      <4> QED BY <1>1, <4>1, <4>2, <4>3
    <3> QED BY <1>4, <3>1 DEF IInv, DiskInv
  <2>2. jvm' = "exited" => hooks' = << >>
    BY <1>1
  <2> QED BY <1>1, <1>5, <1>6, <2>1, <2>2 DEF IInv, DiskInv
<1> QED BY <1>1, <1>2, <1>7, ThreadsKept

LEMMA HookDeletesKeeps ==
  ASSUME IInv, HookDeletes
  PROVE  IInv'
<1> DEFINE n == Len(hooks)
           what == hooks[n][1]
           d == hooks[n][2]
<1>1. /\ n \in Nat \ {0} /\ what \in {"dir", "file"} /\ d \in Dirs \ Debris
      /\ Last(hooks) = hooks[n]
  <2>1. hooks # << >> /\ hooks \in Seq({"dir", "file"} \X Dirs)
    BY DEF HookDeletes, IInv, TypeOK
  <2>2. n \in 1 .. n /\ n \in Nat \ {0}
    BY <2>1
  <2>3. hooks[n] \in {"dir", "file"} \X Dirs
    BY <2>1, <2>2
  <2> QED BY <2>2, <2>3 DEF IInv, DiskInv, Last
<1>2. /\ jvm = "exiting"
      /\ UNCHANGED << jvm, calm, tier, mapped, cls, pc, target, dir, answer >>
  BY DEF HookDeletes
<1>3. /\ hooks' \in Seq({"dir", "file"} \X Dirs) /\ Len(hooks') = n - 1
      /\ \A i \in 1 .. n - 1 : hooks'[i] = hooks[i]
  <2>1. hooks' = SubSeq(hooks, 1, n - 1) /\ hooks \in Seq({"dir", "file"} \X Dirs)
    BY DEF HookDeletes, Front, IInv, TypeOK
  <2>2. ASSUME NEW S, NEW s \in Seq(S), NEW k \in Nat \ {0}, k = Len(s)
        PROVE  /\ SubSeq(s, 1, k - 1) \in Seq(S) /\ Len(SubSeq(s, 1, k - 1)) = k - 1
               /\ \A i \in 1 .. k - 1 : SubSeq(s, 1, k - 1)[i] = s[i]
    BY <2>2
  <2> QED BY <1>1, <2>1, <2>2
<1>4. /\ DOMAIN disk' \subseteq DOMAIN disk /\ disk' = [e \in DOMAIN disk' |-> disk'[e]]
      /\ \A e \in DOMAIN disk : e # d => e \in DOMAIN disk' /\ disk'[e] = disk[e]
      /\ \A e \in DOMAIN disk' : e # d => disk'[e] = disk[e]
      /\ d \in DOMAIN disk' => disk'[d] \in {"noFile", disk[d]}
      /\ what = "file" /\ d \in DOMAIN disk' => disk'[d] = "noFile"
      /\ what = "dir" /\ d \in DOMAIN disk' => disk[d] # "noFile"
  <2>1. disk' = IF what = "file"
                THEN [e \in DOMAIN disk |-> IF e = d THEN "noFile" ELSE disk[e]]
                ELSE [e \in {e \in DOMAIN disk : e = d => disk[e] # "noFile"} |-> disk[e]]
    BY <1>1 DEF HookDeletes
  <2> HIDE DEF what, d
  <2>2. CASE what = "file"
    BY <2>1, <2>2
  <2>3. CASE what # "file"
    BY <2>1, <2>3
  <2> QED BY <2>2, <2>3
<1>5. TypeOK'
  BY <1>2, <1>3, <1>4 DEF IInv, TypeOK
<1>6. ASSUME calm, NEW e \in DOMAIN disk' \ Debris
      PROVE  Covered(e)'
  <2>1. Covered(e) /\ e \in DOMAIN disk
    BY <1>2, <1>4, <1>6 DEF IInv, DiskInv
  <2>2. \A u \in Threads : pc[u] # "markDir"
    BY <1>2, <1>6 DEF IInv, DiskInv, Initialising, InitSteps
  <2>3. PICK i \in 1 .. n : hooks[i] = << "dir", e >>
    BY <2>1, <2>2 DEF Covered, DirListed
  <2>4. CASE disk[e] # "noFile"
    <3>1. PICK i1, j1 \in 1 .. n : i1 < j1 /\ hooks[i1] = << "dir", e >> /\ hooks[j1] = << "file", e >>
      BY <2>1, <2>4 DEF Covered, FileListed
    <3>2. i1 \in 1 .. n - 1
      BY <1>1, <3>1
    <3>3. hooks'[i1] = << "dir", e >> /\ i1 \in 1 .. Len(hooks')
      BY <1>3, <3>1, <3>2
    <3>4. CASE j1 = n
      <4>1. what = "file" /\ d = e
        BY <3>1, <3>4
      <4> QED BY <1>4, <1>6, <3>3, <4>1 DEF Covered, DirListed
    <3>5. CASE j1 # n
      <4>1. j1 \in 1 .. Len(hooks') /\ hooks'[j1] = << "file", e >>
        BY <1>1, <1>3, <3>1, <3>5
      <4> QED BY <3>1, <3>3, <4>1 DEF Covered, DirListed, FileListed
    <3> QED BY <3>4, <3>5
  <2>5. CASE disk[e] = "noFile"
    <3>1. disk'[e] = "noFile"
      BY <1>4, <1>6, <2>5
    <3>2. i # n
      BY <1>4, <1>6, <2>3, <2>5
    <3>3. hooks'[i] = << "dir", e >> /\ i \in 1 .. Len(hooks')
      BY <1>1, <1>3, <2>3, <3>2
    <3> QED BY <3>1, <3>3 DEF Covered, DirListed
  <2> QED BY <2>4, <2>5
<1>7. \A t \in Threads : Initialising(t)' = Initialising(t)
  BY <1>2 DEF Initialising
<1>8. DiskInv'
  <2>1. \A i \in 1 .. Len(hooks') : hooks'[i][2] \notin Debris
    BY <1>1, <1>3 DEF IInv, DiskInv
  <2>2. \A e \in Debris : e \in DOMAIN disk' /\ disk'[e] = "partial"
    BY <1>1, <1>4 DEF IInv, DiskInv
  <2> QED BY <1>2, <1>4, <1>6, <1>7, <2>1, <2>2 DEF IInv, DiskInv
<1> QED BY <1>2, <1>5, <1>8, ThreadsKept

LEMMA NextKeeps == IInv /\ [Next]_vars => IInv'
<1> SUFFICES ASSUME IInv, [Next]_vars PROVE IInv'
  OBVIOUS
<1>1. ASSUME NEW t \in Threads, NEW l \in Loaders, Touch(t, l)
      PROVE  IInv'
  BY <1>1, TouchKeeps
<1>2. ASSUME NEW t \in Threads, Step(t) \/ Collect(t)
      PROVE  IInv'
  BY <1>2, ProceedKeeps, CreateTempDirKeeps, RegisterKeeps, FileStepKeeps, IoFailsKeeps,
     LoadKeeps DEF Step
<1>3. CASE UNCHANGED vars
  <2>1. UNCHANGED << jvm, calm, tier, disk, hooks, mapped, cls, pc, target, dir, answer >>
    BY <1>3 DEF vars
  <2>2. TypeOK'
    BY <2>1 DEF IInv, TypeOK
  <2>3. DiskInv'
    <3>1. \A d : DirListed(d)' = DirListed(d) /\ FileListed(d)' = FileListed(d)
      BY <2>1 DEF DirListed, FileListed
    <3>2. \A d : Covered(d)' = Covered(d)
      BY <2>1, <3>1 DEF Covered
    <3> QED BY <2>1, <3>2 DEF IInv, DiskInv, Initialising
  <2> QED BY <2>1, <2>2, <2>3, ThreadsKept
<1> QED BY <1>1, <1>2, <1>3, ExitKeeps, HookDeletesKeeps DEF Next

---------------------------------------------------------------------------
(***************************************************************************)
(* The inductive invariant: each class is initialised by one thread, each  *)
(* copy is one thread's, and the hook's list covers every directory of     *)
(* this JVM in the order that empties it first (OnymJni.kt 107-114).       *)
(***************************************************************************)
THEOREM LoaderInvariant == Spec => []IInv
BY Initially, NextKeeps, PTL DEF Spec

(* The type invariant of the loader.                                       *)
THEOREM LoaderTypeCorrect == Spec => []TypeOK
<1>1. IInv => TypeOK
  BY DEF IInv
<1> QED BY <1>1, LoaderInvariant, PTL

(***************************************************************************)
(* However many threads touch the SDK at once, each class loader gets its  *)
(* library exactly once (OnymJni.kt 25-29).                                *)
(***************************************************************************)
THEOREM LibraryLoadsOnce == Spec => []LoadedOnce
<1>1. IInv => LoadedOnce
  BY DEF IInv
<1> QED BY <1>1, LoaderInvariant, PTL

(***************************************************************************)
(* While the JVM runs, a bundled library that can be loaded is loaded:     *)
(* nobody sees an UnsatisfiedLinkError (OnymJni.kt 52-60).                 *)
(***************************************************************************)
THEOREM BundledNeverFailsToLink == Spec => []BundledLibraryLoads
<1>1. IInv => BundledLibraryLoads
  BY DEF IInv, ThreadInv, BundledLibraryLoads
<1> QED BY <1>1, LoaderInvariant, PTL

(***************************************************************************)
(* A JVM that ends with no initialiser running leaves nothing of its own   *)
(* in the temporary directory (OnymJni.kt 107-114).                        *)
(***************************************************************************)
THEOREM CalmExitIsClean == Spec => []CalmExitLeavesNothing
<1>1. IInv => CalmExitLeavesNothing
  <2> SUFFICES ASSUME IInv, jvm = "exited", calm
               PROVE  disk = [d \in Debris |-> "partial"]
    BY DEF CalmExitLeavesNothing
  <2>1. Len(hooks) = 0 /\ \A t \in Threads : pc[t] # "markDir"
    BY DEF IInv, DiskInv, Initialising, InitSteps
  <2>2. DOMAIN disk = Debris
    BY <2>1 DEF IInv, DiskInv, Covered, DirListed
  <2> QED BY <2>2 DEF IInv, DiskInv
<1> QED BY <1>1, LoaderInvariant, PTL
=============================================================================
