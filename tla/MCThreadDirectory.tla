-------------------------- MODULE MCThreadDirectory --------------------------
(* Values of the constants of ThreadDirectory for TLC.                      *)
EXTENDS ThreadDirectory, TLC

MCSymmetry == Permutations(Procs) \cup Permutations(Inodes)
==============================================================================
