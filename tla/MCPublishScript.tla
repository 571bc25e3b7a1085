-------------------------- MODULE MCPublishScript ---------------------------
(* Instances of PublishScript for TLC: clones of the workflow, which are   *)
(* made anew for each run, and a maintainer's, which is kept.              *)
EXTENDS PublishScript, TLC

CONSTANTS ci1, ci2, dev, old, new

MCVersions == {1, 2}
MCBuilds   == {old, new}
=============================================================================
