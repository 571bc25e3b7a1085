---------------------------- MODULE NativeLoader ----------------------------
(***************************************************************************)
(* The native-library loader of OnymJni in one JVM: the class initialiser  *)
(* that the first touch of OnymJni runs, in each class loader that has the *)
(* SDK; the temporary copy of the bundled library; and the end of the JVM, *)
(* whose DeleteOnExitHook takes the copies away.                           *)
(*                                                                         *)
(* External, as the code uses it: class initialisation (one thread runs    *)
(* it, the others wait; a failure is final), System.load and loadLibrary   *)
(* (a path belongs to one class loader), Files.createTempDirectory (a name *)
(* no one has), and deleteOnExit (last registered, first deleted).         *)
(***************************************************************************)
EXTENDS Integers, Sequences, SequencesExt

CONSTANTS Threads, Loaders,
          Dirs,       \* names of temporary directories
          Debris,     \* those that earlier, crashed processes left behind
          LibPath     \* the library System.loadLibrary finds

ASSUME DirsAssumption == Debris \subseteq Dirs /\ LibPath \notin Dirs

VARIABLES
  jvm,      \* "running", "exiting" (the hook runs), "exited" or "crashed"
  calm,     \* history: no initialiser has run since the exit began
  tier,     \* what the two tiers would find: "absent", "loads" or "broken"
  disk,     \* the temporary directories there are, with the state of their file
  hooks,    \* what DeleteOnExitHook has still to delete
  mapped,   \* the native libraries of this JVM: path -> class loader
  cls,      \* the state of OnymJni in each class loader
  pc, target, dir,    \* each thread: where it is, in which loader, its copy
  answer    \* what its touch of OnymJni ended in

vars == << jvm, calm, tier, disk, hooks, mapped, cls, pc, target, dir, answer >>

Nothing == << >>
NoDir    == "no dir"       \* a thread that has made no copy
NoLoader == "no loader"    \* a thread that is not in the SDK

InitSteps == {"find", "mkdir", "markDir", "markFile", "open", "copy", "load", "fallback"}
Alive == jvm \in {"running", "exiting"}

Init ==
  /\ jvm = "running" /\ calm = TRUE
  /\ tier \in [{1, 2} -> {"absent", "loads", "broken"}]
  /\ disk = [d \in Debris |-> "partial"]
  /\ hooks = << >> /\ mapped = Nothing
  /\ cls = [l \in Loaders |-> "untouched"]
  /\ pc = [t \in Threads |-> "idle"]
  /\ target = [t \in Threads |-> NoLoader]
  /\ dir = [t \in Threads |-> NoDir]
  /\ answer = [t \in Threads |-> "none"]

Goto(t, step) == pc' = [pc EXCEPT ![t] = step]

---------------------------------------------------------------------------
(* Class initialisation. *)

(* mutant: every thread that finds the class not ready runs the initialiser *)
TouchUnlocked(t, l) ==
  /\ Alive /\ pc[t] = "idle"
  /\ target' = [target EXCEPT ![t] = l]
  /\ \/ /\ cls[l] \in {"untouched", "initializing"}
        /\ cls' = [cls EXCEPT ![l] = "initializing"] /\ Goto(t, "find")
     \/ cls[l] \in {"ready", "erroneous"} /\ Goto(t, "wait") /\ UNCHANGED cls
  /\ UNCHANGED << jvm, calm, tier, disk, hooks, mapped, dir, answer >>

(* The first touch of a wrapper's native call initialises OnymJni. *)
Touch(t, l) ==
  /\ Alive /\ pc[t] = "idle"
  /\ target' = [target EXCEPT ![t] = l]
  /\ \/ /\ cls[l] = "untouched"
        /\ cls' = [cls EXCEPT ![l] = "initializing"] /\ Goto(t, "find")
        /\ calm' = (calm /\ jvm = "running")
     \/ cls[l] # "untouched" /\ Goto(t, "wait") /\ UNCHANGED << cls, calm >>
  /\ UNCHANGED << jvm, tier, disk, hooks, mapped, dir, answer >>

(* A touch that need not, or must not, run the initialiser. *)
Proceed(t) ==
  /\ Alive /\ pc[t] = "wait" /\ cls[target[t]] \in {"ready", "erroneous"}
  /\ answer' = [answer EXCEPT ![t] = IF cls[target[t]] = "ready" THEN "value" ELSE "noClass"]
  /\ Goto(t, "done")
  /\ UNCHANGED << jvm, calm, tier, disk, hooks, mapped, cls, target, dir >>

(* The initialiser returns, and the thread's own native call goes on. *)
Initialised(t) ==
  /\ cls' = [cls EXCEPT ![target[t]] = "ready"]
  /\ answer' = [answer EXCEPT ![t] = "value"]
  /\ Goto(t, "done")

(* mutant: the class is left as if its initialiser still ran *)
FailsUnmarked(t, error) ==
  /\ answer' = [answer EXCEPT ![t] = error]
  /\ Goto(t, "done")
  /\ UNCHANGED cls

(* It throws: an UnsatisfiedLinkError as it is ("link"), any exception     *)
(* inside an ExceptionInInitializerError ("initializer").                  *)
Fails(t, error) ==
  /\ cls' = [cls EXCEPT ![target[t]] = "erroneous"]
  /\ answer' = [answer EXCEPT ![t] = error]
  /\ Goto(t, "done")

Collect(t) ==
  /\ Alive /\ pc[t] = "done"
  /\ Goto(t, "idle")
  /\ answer' = [answer EXCEPT ![t] = "none"]
  /\ dir' = [dir EXCEPT ![t] = NoDir]
  /\ target' = [target EXCEPT ![t] = NoLoader]
  /\ UNCHANGED << jvm, calm, tier, disk, hooks, mapped, cls >>

---------------------------------------------------------------------------
(* loadNativeLibrary and createTempLibFile. *)

At(t, step) == Alive /\ pc[t] = step

(* mutant: the copy is addressed before its directory is made *)
FindResourceSkippingMkdir(t) ==
  /\ At(t, "find")
  /\ Goto(t, IF tier[1] = "absent" THEN "fallback" ELSE "markDir")
  /\ UNCHANGED << jvm, calm, tier, disk, hooks, mapped, cls, target, dir, answer >>

FindResource(t) ==
  /\ At(t, "find")
  /\ Goto(t, IF tier[1] = "absent" THEN "fallback" ELSE "mkdir")
  /\ UNCHANGED << jvm, calm, tier, disk, hooks, mapped, cls, target, dir, answer >>

(* mutant: one well-known directory, made unless it is there *)
CreateTempDirShared(t) ==
  /\ At(t, "mkdir")
  /\ LET d == CHOOSE d \in Dirs \ Debris : TRUE
     IN  /\ dir' = [dir EXCEPT ![t] = d]
         /\ disk' = [e \in DOMAIN disk \cup {d} |-> IF e \in DOMAIN disk THEN disk[e] ELSE "noFile"]
  /\ Goto(t, "markDir")
  /\ UNCHANGED << jvm, calm, tier, hooks, mapped, cls, target, answer >>

CreateTempDir(t) ==
  /\ At(t, "mkdir")
  /\ \E d \in Dirs \ DOMAIN disk :
       /\ dir' = [dir EXCEPT ![t] = d]
       /\ disk' = [e \in DOMAIN disk \cup {d} |-> IF e = d THEN "noFile" ELSE disk[e]]
  /\ Goto(t, "markDir")
  /\ UNCHANGED << jvm, calm, tier, hooks, mapped, cls, target, answer >>

(* deleteOnExit: an IllegalStateException once the hook has taken its list. *)
Register(t, what, next) ==
  /\ \/ jvm = "running" /\ hooks' = Append(hooks, << what, dir[t] >>) /\ Goto(t, next)
        /\ UNCHANGED << cls, answer >>
     \/ jvm = "exiting" /\ Fails(t, "initializer") /\ UNCHANGED hooks
  /\ UNCHANGED << jvm, calm, tier, disk, mapped, target, dir >>

RegisterDir(t) == At(t, "markDir") /\ Register(t, "dir", "markFile")

(* mutant: the file is put on the list before its directory *)
RegisterFileFirst(t) ==
  /\ At(t, "markFile") /\ jvm = "running"
  /\ hooks' = SubSeq(hooks, 1, Len(hooks) - 1) \o
                << << "file", dir[t] >>, hooks[Len(hooks)] >>
  /\ Goto(t, "open")
  /\ UNCHANGED << jvm, calm, tier, disk, mapped, cls, target, dir, answer >>

RegisterFile(t) == At(t, "markFile") /\ Register(t, "file", "open")

(* The hook may have taken the directory away: FileNotFoundException. *)
OpenFile(t) ==
  /\ At(t, "open")
  /\ \/ /\ dir[t] \in DOMAIN disk
        /\ disk' = [disk EXCEPT ![dir[t]] = "partial"]
        /\ Goto(t, "copy") /\ UNCHANGED << cls, answer >>
     \/ dir[t] \notin DOMAIN disk /\ Fails(t, "initializer") /\ UNCHANGED disk
  /\ UNCHANGED << jvm, calm, tier, hooks, mapped, target, dir >>

(* Bytes written to a file the hook has deleted are gone when it is closed. *)
CopyFile(t) ==
  /\ At(t, "copy")
  /\ disk' = [d \in DOMAIN disk |->
                IF d = dir[t] /\ disk[d] = "partial" THEN "whole" ELSE disk[d]]
  /\ Goto(t, "load")
  /\ UNCHANGED << jvm, calm, tier, hooks, mapped, cls, target, dir, answer >>

(* No room or no right: an IOException from any of the three file steps. *)
IoFails(t) ==
  /\ At(t, "mkdir") \/ At(t, "open") \/ At(t, "copy")
  /\ Fails(t, "initializer")
  /\ UNCHANGED << jvm, calm, tier, disk, hooks, mapped, target, dir >>

(* System.load and System.loadLibrary: a library that loads, at a path no  *)
(* class loader has; else an UnsatisfiedLinkError.                         *)
Load(t, path, loads) ==
  /\ \/ /\ loads /\ path \notin DOMAIN mapped
        /\ mapped' = [p \in DOMAIN mapped \cup {path} |->
                        IF p = path THEN target[t] ELSE mapped[p]]
        /\ Initialised(t)
     \/ ~(loads /\ path \notin DOMAIN mapped) /\ Fails(t, "link") /\ UNCHANGED mapped
  /\ UNCHANGED << jvm, calm, tier, disk, hooks, target, dir >>

LoadExtracted(t) ==
  /\ At(t, "load")
  /\ Load(t, dir[t], /\ tier[1] = "loads"
                     /\ dir[t] \in DOMAIN disk /\ disk[dir[t]] = "whole")

Fallback(t) == At(t, "fallback") /\ Load(t, LibPath, tier[2] = "loads")

---------------------------------------------------------------------------
(* The end of the JVM. *)

(* A normal exit, also by System.exit while other threads still run. *)
Exit ==
  /\ jvm = "running"
  /\ jvm' = "exiting"
  /\ calm' = (\A l \in Loaders : cls[l] # "initializing")
  /\ UNCHANGED << tier, disk, hooks, mapped, cls, pc, target, dir, answer >>

(* The hook deletes the last entry, a directory only if it is empty. *)
HookDeletes ==
  /\ jvm = "exiting" /\ hooks # << >>
  /\ LET what == Last(hooks)[1]
         d    == Last(hooks)[2]
     IN  disk' = IF what = "file"
                 THEN [e \in DOMAIN disk |-> IF e = d THEN "noFile" ELSE disk[e]]
                 ELSE [e \in {e \in DOMAIN disk : e = d => disk[e] # "noFile"} |-> disk[e]]
  /\ hooks' = Front(hooks)
  /\ UNCHANGED << jvm, calm, tier, mapped, cls, pc, target, dir, answer >>

Halt ==
  /\ jvm = "exiting" /\ hooks = << >>
  /\ jvm' = "exited"
  /\ UNCHANGED << calm, tier, disk, hooks, mapped, cls, pc, target, dir, answer >>

Crash ==
  /\ Alive
  /\ jvm' = "crashed"
  /\ UNCHANGED << calm, tier, disk, hooks, mapped, cls, pc, target, dir, answer >>

Step(t) ==
  \/ Proceed(t) \/ FindResource(t)
  \/ CreateTempDir(t) \/ RegisterDir(t) \/ RegisterFile(t)
  \/ OpenFile(t) \/ CopyFile(t) \/ IoFails(t)
  \/ LoadExtracted(t) \/ Fallback(t)

Next ==
  \/ \E t \in Threads :
       \/ \E l \in Loaders : Touch(t, l)
       \/ Step(t)
       \/ Collect(t)
  \/ Exit \/ HookDeletes \/ Halt \/ Crash

Spec == Init /\ [][Next]_vars

(* A live thread outside a monitor is scheduled again and again. *)
FairSpec == Spec /\ \A t \in Threads : WF_vars(Step(t))

---------------------------------------------------------------------------
(* Type invariant. *)
TypeOK ==
  /\ jvm \in {"running", "exiting", "exited", "crashed"} /\ calm \in BOOLEAN
  /\ tier \in [{1, 2} -> {"absent", "loads", "broken"}]
  /\ DOMAIN disk \subseteq Dirs
  /\ \A d \in DOMAIN disk : disk[d] \in {"noFile", "partial", "whole"}
  /\ hooks \in Seq({"dir", "file"} \X Dirs)
  /\ DOMAIN mapped \subseteq Dirs \cup {LibPath}
  /\ \A p \in DOMAIN mapped : mapped[p] \in Loaders
  /\ cls \in [Loaders -> {"untouched", "initializing", "ready", "erroneous"}]
  /\ pc \in [Threads -> InitSteps \cup {"idle", "wait", "done"}]
  /\ target \in [Threads -> Loaders \cup {NoLoader}]
  /\ dir \in [Threads -> Dirs \cup {NoDir}]
  /\ answer \in [Threads -> {"none", "value", "link", "initializer", "noClass"}]

(***************************************************************************)
(* However many threads touch the SDK at once, each class loader gets its  *)
(* library exactly once, and the class is ready exactly when it is there:  *)
(* OnymJni.kt 25-29, an init block of an object.                           *)
(***************************************************************************)
LoadedOnce ==
  \A l \in Loaders :
    LET libraries == {p \in DOMAIN mapped : mapped[p] = l}
    IN  /\ cls[l] = "ready" <=> libraries # {}
        /\ \A p, q \in libraries : p = q

(***************************************************************************)
(* With a bundled library that loads, no touch ends in an                  *)
(* UnsatisfiedLinkError while the JVM runs: neither another class loader   *)
(* with the same SDK, nor what a crashed process left in the temporary     *)
(* directory, nor a second thread can be the cause (OnymJni.kt 52-60).     *)
(***************************************************************************)
BundledLibraryLoads ==
  (tier[1] = "loads" /\ jvm = "running") => \A t \in Threads : answer[t] # "link"

(***************************************************************************)
(* A JVM whose exit meets no running initialiser leaves nothing of its     *)
(* own in the temporary directory, whether its loads had succeeded or      *)
(* failed half-way, and nothing of other processes is touched              *)
(* (OnymJni.kt 107-114).                                                   *)
(***************************************************************************)
CalmExitLeavesNothing ==
  (jvm = "exited" /\ calm) => disk = [d \in Debris |-> "partial"]

(* Every touch is answered, by a value or an error, unless the JVM ends:   *)
(* a failed initialiser leaves nobody waiting.                             *)
EveryTouchAnswered ==
  \A t \in Threads : pc[t] \in InitSteps \cup {"wait"} ~> pc[t] = "done" \/ ~Alive

(***************************************************************************)
(* What the KDoc of loadNativeLibrary says (OnymJni.kt 43): it throws      *)
(* UnsatisfiedLinkError only if neither path resolves.                     *)
(***************************************************************************)
ThrowsOnlyIfNeitherResolves ==
  \A t \in Threads : answer[t] = "link" => tier[1] # "loads" /\ tier[2] # "loads"
============================================================================
