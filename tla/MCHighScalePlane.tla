-------------------------- MODULE MCHighScalePlane --------------------------
(* HighScalePlane for TLC: replicas and sweeps are interchangeable. *)
EXTENDS HighScalePlane, TLC

PlaneSymmetry == Permutations(Worker) \cup Permutations(Sweeper)
=============================================================================
