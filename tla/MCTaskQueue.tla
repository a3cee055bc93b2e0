----------------------------- MODULE MCTaskQueue -----------------------------
(* TaskQueue for TLC. The workers are interchangeable in every property,   *)
(* so that the safety runs use symmetry; the liveness runs do not.         *)
EXTENDS TaskQueue, TLC

WorkerSymmetry == Permutations(Workers)
=============================================================================
