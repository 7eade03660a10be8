---------------------------- MODULE MCWorkspaceFaults ----------------------------
(***************************************************************************)
(* The instance of MCWorkspace, with the reconcile timeout as a fault.   *)
(*   m1: two cloud resources and one output (partial applies/destroys).   *)
(*   m2: no resource and one output (exists through its outputs only).    *)
(***************************************************************************)
EXTENDS WorkspaceFaults, TLC

CONSTANTS w1, w2, m1, m2

MCModRes == [m \in Modules |-> IF m = m1 THEN 2 ELSE 0]
MCModOut == [m \in Modules |-> 1]

MCSymmetry == Permutations({w1, w2})
=============================================================================
