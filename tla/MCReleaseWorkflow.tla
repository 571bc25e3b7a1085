------------------------- MODULE MCReleaseWorkflow --------------------------
(* Instances of ReleaseWorkflow for TLC: commits of main of which the      *)
(* first two have the same version.                                        *)
EXTENDS ReleaseWorkflow, TLC

CONSTANTS r1, r2, r3

MCVersions  == {1, 2}
MCBuilds    == Shas
MCVersionAt == [s \in Shas |-> IF s <= 2 THEN 1 ELSE 2]
MCSymmetry  == Permutations(Clones)
=============================================================================
