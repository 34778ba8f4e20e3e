-------------------------- MODULE MCOfficePipeline --------------------------
(* Model values and symmetry for the runs of OfficePipeline. *)
EXTENDS OfficePipeline, TLC

CONSTANTS f1, f2, c1, v1, v2

OneCase == {c1}
OneFile == {f1}
TwoFiles == {f1, f2}
TwoValidators == {v1, v2}

Crashes == {"crash", "timeout", "edit"}
CrashesOnly == {"crash"}
WithoutCrash == {"ckpt", "commitio", "timeout", "edit"}

FileSymmetry == Permutations(TwoFiles)
=============================================================================
