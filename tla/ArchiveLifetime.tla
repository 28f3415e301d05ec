--------------------------- MODULE ArchiveLifetime ---------------------------
(***************************************************************************)
(* What the archive of one batch promises, as HighScaleWorker and          *)
(* ArchiveDeletion use it: it comes into being in one step, can be         *)
(* replayed until its retention is over, and then is gone for good.        *)
(***************************************************************************)
VARIABLE state

Init == state = "absent"

Commit == state = "absent" /\ state' = "committed"

Expire == state = "committed" /\ state' = "expired"

Spec == Init /\ [][Commit \/ Expire]_state
=============================================================================
