-------------------------- MODULE MCHighScaleWorker --------------------------
(* HighScaleWorker for TLC: the replicas are interchangeable. *)
EXTENDS HighScaleWorker, TLC

WorkerSymmetry == Permutations(Worker)
=============================================================================
