-------------------------- MODULE BatchPublication --------------------------
(***************************************************************************)
(* How one batch becomes visible in ClickHouse: ClickHousePublication over *)
(* the Postgres publication manifest and BaseClickHouseBatchAdapter over   *)
(* the fact table and its publication row                                  *)
(* (backend/high_scale/archive/clickhouse_batch.py).  HighScaleWorker      *)
(* takes the whole of it as PublishFacts and PublishDerived.               *)
(*                                                                         *)
(* One action per remote call; a call may raise without an effect, or      *)
(* after its effect (the reply is lost), and an INSERT may leave a part of *)
(* its rows.  The tables are plain MergeTree (install_clickhouse_schema    *)
(* strips the replicated engines), so a repeated INSERT is not             *)
(* deduplicated.  The batch id is a hash over the column order, which is   *)
(* that of one process: all attempts are made by one process, in turn.     *)
(***************************************************************************)
EXTENDS Naturals, Sequences

CONSTANTS
    Rows,           \* len(batch.rows)
    Contents,       \* versions the rows can have, 1..Contents: ngwaf_bots, which
                    \* _enrich_high_scale_ngwaf_bots joins in, fills up over time
    MaxFailures     \* bound: calls that raise

ASSUME BatchAssumption ==
    Rows \in Nat \ {0} /\ Contents \in Nat \ {0} /\ MaxFailures \in Nat

Version == 1..Contents
PublicationStatus == {"none", "pending", "visible"}
Call == {"idle", "get", "put_pending", "existing", "mark_pending", "count", "insert",
         "recount", "delete_rows", "mark_visible", "put_visible"}

VARIABLES
    pc,             \* the remote call publish makes next
    content,        \* version an attempt started now would have
    batch,          \* version of the attempt under way
    manifest,       \* high_scale_publication_manifests: [status, digest]
    publication,    \* high_scale_batch_publications FINAL: [status, digest]
    rows,           \* rows of the batch in the fact table, per version
    count,          \* ... and all of them: what SELECT count() returns
    failures

stores == <<manifest, publication, rows, count>>
vars == <<pc, content, batch, stores, failures>>

Receipt == [status : PublicationStatus, digest : Version]

TypeOK ==
    /\ pc \in Call
    /\ content \in Version
    /\ batch \in Version
    /\ manifest \in Receipt
    /\ publication \in Receipt
    /\ rows \in [Version -> Nat]
    /\ count \in Nat
    /\ failures \in 0..MaxFailures

\* What the fence of a query (visible_publication_fence_sql) lets through.
Shown == IF publication.status = "visible" THEN rows ELSE [v \in Version |-> 0]

Reader == INSTANCE VisibleBatch WITH shown <- Shown

Init ==
    /\ pc = "idle"
    /\ content = 1
    /\ batch = 1
    /\ manifest = [status |-> "none", digest |-> 1]
    /\ publication = [status |-> "none", digest |-> 1]
    /\ rows = Reader!Nothing
    /\ count = 0
    /\ failures = 0

-----------------------------------------------------------------------------
(* ClickHousePublication.publish *)

\* The ingest controller (re)tries the page: the rows are built anew.
StartPublish ==
    /\ pc = "idle"
    /\ batch' = content
    /\ pc' = "get"
    /\ UNCHANGED <<content, stores, failures>>

\* An existing manifest must have the batch's digest; a visible one ends it.
GetManifest ==
    /\ pc = "get"
    /\ pc' = IF manifest.status = "none" THEN "put_pending"
             ELSE IF manifest.digest # batch \/ manifest.status = "visible" THEN "idle"
             ELSE "existing"
    /\ UNCHANGED <<content, batch, stores, failures>>

SetManifest(status) ==
    /\ manifest' = IF manifest.status = "none"
                   THEN [status |-> status, digest |-> batch]
                   ELSE [manifest EXCEPT !.status = status]
    /\ UNCHANGED <<publication, rows, count>>

PutPending ==
    /\ pc = "put_pending"
    /\ SetManifest("pending")
    /\ pc' = "existing"
    /\ UNCHANGED <<content, batch, failures>>

PutVisible ==
    /\ pc = "put_visible"
    /\ SetManifest("visible")
    /\ pc' = "idle"
    /\ UNCHANGED <<content, batch, failures>>

-----------------------------------------------------------------------------
(* BaseClickHouseBatchAdapter._publish_table_rows *)

\* Mutant: the publication row is not looked up.
ExistingPublicationIgnored ==
    /\ pc = "existing"
    /\ pc' = "mark_pending"
    /\ UNCHANGED <<content, batch, stores, failures>>

ExistingPublication ==
    /\ pc = "existing"
    /\ pc' = IF publication.status = "none" THEN "mark_pending"
             ELSE IF publication.digest # batch THEN "idle"
             ELSE IF publication.status = "visible" THEN "put_visible" ELSE "count"
    /\ UNCHANGED <<content, batch, stores, failures>>

SetPublication(status) ==
    /\ publication' = [status |-> status, digest |-> batch]
    /\ UNCHANGED <<manifest, rows, count>>

MarkPending ==
    /\ pc = "mark_pending"
    /\ SetPublication("pending")
    /\ pc' = "count"
    /\ UNCHANGED <<content, batch, failures>>

CountRows ==
    /\ pc = "count"
    /\ pc' = IF count = 0 THEN "insert" ELSE IF count = Rows THEN "mark_visible" ELSE "delete_rows"
    /\ UNCHANGED <<content, batch, stores, failures>>

Insert(n) ==
    /\ rows' = [rows EXCEPT ![batch] = @ + n]
    /\ count' = count + n
    /\ UNCHANGED <<manifest, publication>>

InsertRows ==
    /\ pc = "insert"
    /\ Insert(Rows)
    /\ pc' = "recount"
    /\ UNCHANGED <<content, batch, failures>>

\* Mutant: the manifest is marked first.
RecountRowsThenManifest ==
    /\ pc = "recount"
    /\ pc' = IF count = Rows THEN "put_visible" ELSE "delete_rows"
    /\ UNCHANGED <<content, batch, stores, failures>>

RecountRows ==
    /\ pc = "recount"
    /\ pc' = IF count = Rows THEN "mark_visible" ELSE "delete_rows"
    /\ UNCHANGED <<content, batch, stores, failures>>

\* Mutant: the partial rows stay.
PurgeNothing == UNCHANGED stores

\* delete_batch_rows, then PartialInsert is raised.
PurgeRows ==
    /\ rows' = Reader!Nothing
    /\ count' = 0
    /\ UNCHANGED <<manifest, publication>>

DeleteBatchRows ==
    /\ pc = "delete_rows"
    /\ PurgeRows
    /\ pc' = "idle"
    /\ UNCHANGED <<content, batch, failures>>

MarkVisible ==
    /\ pc = "mark_visible"
    /\ SetPublication("visible")
    /\ pc' = "put_visible"
    /\ UNCHANGED <<content, batch, failures>>

-----------------------------------------------------------------------------
\* The call under way raises, and with it publish.
Raise ==
    /\ pc # "idle"
    /\ failures < MaxFailures
    /\ failures' = failures + 1
    /\ pc' = "idle"
    /\ \/ UNCHANGED stores
       \/ pc = "put_pending" /\ SetManifest("pending")
       \/ pc = "put_visible" /\ SetManifest("visible")
       \/ pc = "mark_pending" /\ SetPublication("pending")
       \/ pc = "mark_visible" /\ SetPublication("visible")
       \/ pc = "insert" /\ \E n \in 1..Rows : Insert(n)
       \/ pc = "delete_rows" /\ PurgeRows
    /\ UNCHANGED <<content, batch>>

\* The ngwaf_bots sync stores another verdict on a request of the batch.
Reenrich ==
    /\ content < Contents
    /\ content' = content + 1
    /\ UNCHANGED <<pc, batch, stores, failures>>

Publish ==
    \/ StartPublish \/ GetManifest \/ PutPending \/ PutVisible
    \/ ExistingPublication \/ MarkPending \/ CountRows \/ InsertRows \/ RecountRows
    \/ DeleteBatchRows \/ MarkVisible

Next == Publish \/ Raise \/ Reenrich

Spec == Init /\ [][Next]_vars

\* The worker keeps retrying a page it has not acknowledged.
FairSpec == Spec /\ WF_vars(Publish)

-----------------------------------------------------------------------------
(* Properties *)

\* What the publication row makes visible is the whole batch and one version of
\* it, however many attempts were cut off before and whatever part of their
\* rows they left (_publish_table_rows).
VisibleIsWhole ==
    publication.status = "visible" => rows = Reader!Whole(publication.digest)

\* A visible manifest, on which publish returns without looking at ClickHouse,
\* is never ahead of what ClickHouse shows.
ManifestIsBacked ==
    manifest.status = "visible" =>
        publication.status = "visible" /\ publication.digest = manifest.digest

\* To a reader the publication is one atomic, irrevocable step.
AtomicToReaders == Reader!Spec

\* Retrying publishes the batch in the end: no lost reply, cut-off call or
\* partial INSERT leaves ClickHouse and the manifest in a state that publish
\* cannot get out of.
EventuallyVisible == <>(manifest.status = "visible")

\* It does so as long as every attempt builds the same rows.
SameRowsArePublished == [](content = 1) => EventuallyVisible
=============================================================================
