---------------------------- MODULE MCFeatureRename -------------------------
(* A worktree pointer and the registry; two ordinary commands.              *)
EXTENDS FeatureRename, TLC
Commands == Permutations(Others)
=============================================================================
