----------------------------- MODULE MCReports ------------------------------
(* Instances of the report pipeline for TLC: the sets of sessions and       *)
(* worker slots are given in the configurations.                            *)
EXTENDS Reports, TLC

CONSTANTS w1, w2

WorkerSlots == {w1, w2}

\* Worker slots are interchangeable.
SlotSymmetry == Permutations(WorkerSlots)
=============================================================================
