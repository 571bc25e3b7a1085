----------------------------- MODULE MavenRepo ------------------------------
(***************************************************************************)
(* What the `releases` branch promises its consumers: a static Maven       *)
(* repository to which whole releases are added one at a time, and whose   *)
(* maven-metadata.xml (index and latest) always fits its version           *)
(* directories.  It knows no clone, no commit and no push.                 *)
(***************************************************************************)
EXTENDS Integers

CONSTANTS Versions,     \* version numbers, in the order of sort -V
          Builds        \* what a version directory may hold

VARIABLES files,        \* the version directories: version -> build
          index,        \* <versions> of maven-metadata.xml
          latest        \* <latest> and <release>; 0 as long as there is none

vars == << files, index, latest >>

Init == files = << >> /\ index = {} /\ latest = 0

(* One release, overwriting the same version if it is there already. *)
Publish(v, b) ==
  /\ files' = [w \in DOMAIN files \cup {v} |-> IF w = v THEN b ELSE files[w]]
  /\ index' = index \cup {v}
  /\ latest' = IF v > latest THEN v ELSE latest

Next == \E v \in Versions, b \in Builds : Publish(v, b)

Spec == Init /\ [][Next]_vars
=============================================================================
