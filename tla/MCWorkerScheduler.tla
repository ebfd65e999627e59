------------------------- MODULE MCWorkerScheduler --------------------------
(* Instances of WorkerScheduler for TLC. *)
EXTENDS WorkerScheduler, TLC

Symmetry == Permutations(Exec)
=============================================================================
