---------------------------- MODULE MCBuildQueue ----------------------------
(* Small instances of BuildQueue for TLC. *)
EXTENDS BuildQueue

\* App names are interchangeable when every app may be deleted.
AppSymmetry == Permutations(Apps)
=============================================================================
