---------------------------- MODULE MCBuildTree -----------------------------
(* Instances of BuildTree for TLC: two of the four ABIs, one after the     *)
(* other in the script's loop.                                             *)
EXTENDS BuildTree

MCAbis == << "arm64-v8a", "x86_64" >>
=============================================================================
