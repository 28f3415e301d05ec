---------------------------- MODULE VisibleBatch ----------------------------
(***************************************************************************)
(* What the publication gate promises a reader of ClickHouse about one     *)
(* batch: nothing of it is seen, then, in one step, all the rows of one    *)
(* version of it, for good.                                                *)
(***************************************************************************)
EXTENDS Naturals

CONSTANTS
    Rows,       \* rows of the batch
    Version     \* what the rows may say: enrichment differs between attempts

VARIABLE shown  \* for each version, how many of its rows a reader sees

Nothing == [v \in Version |-> 0]
Whole(v) == [u \in Version |-> IF u = v THEN Rows ELSE 0]

Init == shown = Nothing

Publish == shown = Nothing /\ \E v \in Version : shown' = Whole(v)

Spec == Init /\ [][Publish]_shown
=============================================================================
