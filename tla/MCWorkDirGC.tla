----------------------------- MODULE MCWorkDirGC -----------------------------
(* The collector with two Workspaces and one non-UUID entry.               *)
EXTENDS WorkDirGC, TLC

CONSTANTS u1, u2, j1

MCSymmetry == Permutations({u1, u2})
=============================================================================
