------------------------- MODULE MCBatchPublication -------------------------
(* BatchPublication for TLC. *)
EXTENDS BatchPublication
=============================================================================
