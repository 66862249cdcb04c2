----------------------------- MODULE MCWorkerRoom -----------------------------
(* Instances of WorkerRoom for TLC. *)
EXTENDS WorkerRoom, TLC

TabSymmetry == Permutations(TabIds)
=============================================================================
