---------------------------- MODULE ControlPlane ----------------------------
(***************************************************************************)
(* The Postgres control plane of the high-scale ingest plane, for one      *)
(* service and one source domain                                           *)
(* (backend/high_scale/postgres_control/control_plane.py).                 *)
(*                                                                         *)
(* Each method of PostgresControlPlane that writes is one transaction      *)
(* under FOR UPDATE row locks, so each is one action here, constraining    *)
(* exactly the control-plane variables.  The processes that call them are  *)
(* in HighScaleWorker and ArchiveDeletion.                                 *)
(*                                                                         *)
(* The owner fence (_fenced_owner) is not a variable: initialize_owner     *)
(* writes ("high_scale", epoch 1) once, begin_drain and rollback have no   *)
(* caller and nothing ever sets rollback_allowed, so in a running system   *)
(* every fence compares 1 with 1.  lease_generation is left out because    *)
(* no transaction compares it.                                             *)
(***************************************************************************)
EXTENDS Naturals

CONSTANTS
    NKeys,          \* object keys are 1..NKeys, in the bucket's listing order
    Worker,         \* worker identities (HIGH_SCALE_WORKER_ID, the pod name)
    NoWorker,       \* an owner column no running process matches (or NULL)
    NoManifest,     \* archive_manifest_id NULL
    Layout,         \* what a manifest digest covers besides its source set
    ReinspectionInterval    \* RUM_REINSPECTION_INTERVAL

ASSUME KeysAssumption == NKeys \in Nat
ASSUME IntervalAssumption == ReinspectionInterval \in Nat \ {0}
ASSUME WorkerAssumption == NoWorker \notin Worker

Key == 1..NKeys

(***************************************************************************)
(* write_batch_archive_checkpoint hashes (service, domain, source keys,    *)
(* source checksums, artifact checksum) into manifest_id.  Objects are     *)
(* immutable, so two ids differ when their source sets differ or when the  *)
(* artifact bytes do: the column order comes from a Python set, hence from *)
(* the process's hash seed, and the sources are hashed in claim order.     *)
(***************************************************************************)
Manifest == [srcs : (SUBSET Key) \ {{}}, layout : Layout]

ASSUME ManifestAssumption == NoManifest \notin Manifest

SourceStatus == {"absent", "discovered", "claimed", "acknowledged",
                 "source_deleted", "source_missing"}

\* _TERMINAL_SOURCE_STATES, without the states no control-plane method writes.
TerminalStatus == {"acknowledged", "source_deleted", "source_missing"}

\* lease_until: NULL, in the future, or in the past.
Lease == {"none", "live", "expired"}

\* "absent" is a missing row; the states before manifest_committed are never
\* stored because _publish_control_manifest registers manifest_committed.
ArchiveState == {"absent", "manifest_committed", "deletion_eligible", "source_deleted"}

VARIABLES
    status, claimant, lease, link,   \* high_scale_source_objects
    mstate,                          \* high_scale_archive_manifests.state
    expired,                         \* manifests with archive_expired_at set
    due,                             \* manifests past deletion_authorization_deadline
    old,                             \* manifests past retention and its margin
    granted, consumed,               \* high_scale_deletion_authorizations
    cursor, rcursor, fwd             \* high_scale_source_cursors (0: initial)

srcVars  == <<status, claimant, lease, link>>
manVars  == <<mstate, expired, due, old>>
authVars == <<granted, consumed>>
curVars  == <<cursor, rcursor, fwd>>
cpVars   == <<srcVars, manVars, authVars, curVars>>

Registered == {m \in Manifest : mstate[m] # "absent"}

CPTypeOK ==
    /\ status \in [Key -> SourceStatus]
    /\ claimant \in [Key -> Worker \cup {NoWorker}]
    /\ lease \in [Key -> Lease]
    /\ link \in [Key -> Manifest \cup {NoManifest}]
    /\ mstate \in [Manifest -> ArchiveState]
    /\ expired \in SUBSET Manifest
    /\ due \in SUBSET Manifest
    /\ old \in SUBSET Manifest
    /\ granted \in SUBSET (Key \X Manifest)
    /\ consumed \in SUBSET (Key \X Manifest)
    /\ cursor \in 0..NKeys
    /\ rcursor \in 0..NKeys
    /\ fwd \in 0..ReinspectionInterval

CPInit ==
    /\ status = [k \in Key |-> "absent"]
    /\ claimant = [k \in Key |-> NoWorker]
    /\ lease = [k \in Key |-> "none"]
    /\ link = [k \in Key |-> NoManifest]
    /\ mstate = [m \in Manifest |-> "absent"]
    /\ expired = {}
    /\ due = {}
    /\ old = {}
    /\ granted = {}
    /\ consumed = {}
    /\ cursor = 0
    /\ rcursor = 0
    /\ fwd = 0

-----------------------------------------------------------------------------
(* Discovery and claims *)

\* discover_source: insert the row unless it exists.
discover_source(k) ==
    /\ status' = [status EXCEPT ![k] = IF @ = "absent" THEN "discovered" ELSE @]
    /\ UNCHANGED <<claimant, lease, link, manVars, authVars, curVars>>

\* expired_claims: the candidates of its query, before the LIMIT.
ExpiredClaims == {k \in Key : status[k] = "claimed" /\ lease[k] = "expired"}

Claimable(k) == status[k] \in {"discovered", "claimed"}

\* The rows claim_sources_batch writes: claimable and not under a live lease.
ToClaim(ks) == {k \in ks : Claimable(k) /\ lease[k] # "live"}

\* The records it returns: those, and the ones w already holds a live lease on.
ClaimResult(ks, w) ==
    ToClaim(ks) \cup {k \in ks : Claimable(k) /\ lease[k] = "live" /\ claimant[k] = w}

claim_sources_batch(ks, w) ==
    /\ status' = [k \in Key |-> IF k \in ToClaim(ks) THEN "claimed" ELSE status[k]]
    /\ claimant' = [k \in Key |-> IF k \in ToClaim(ks) THEN w ELSE claimant[k]]
    /\ lease' = [k \in Key |-> IF k \in ToClaim(ks) THEN "live" ELSE lease[k]]
    /\ UNCHANGED <<link, manVars, authVars, curVars>>

\* Mutant: mark_source_missing without its status check.
MissingNeverRefused(k) == FALSE

\* mark_source_missing raises for these rows; otherwise it writes whatever
\* the row's claim says: neither owner nor lease is compared.
MissingRefused(k) == status[k] \in {"acknowledged", "source_deleted"}

mark_source_missing(k) ==
    /\ ~MissingRefused(k)
    /\ status' = [status EXCEPT ![k] = "source_missing"]
    /\ lease' = [lease EXCEPT ![k] = "none"]
    /\ UNCHANGED <<claimant, link, manVars, authVars, curVars>>

\* record_source_counts raises unless every source of the page is claimed.
CountsAccepted(ks) == \A k \in ks : status[k] = "claimed"

-----------------------------------------------------------------------------
(* Archive manifests *)

\* register_archive_manifest(state=MANIFEST_COMMITTED): insert or keep the row.
register_archive_manifest(m) ==
    /\ mstate' = [mstate EXCEPT ![m] = IF @ = "absent" THEN "manifest_committed" ELSE @]
    /\ UNCHANGED <<srcVars, expired, due, old, authVars, curVars>>

\* transition_archive_manifest(MANIFEST_COMMITTED -> DELETION_ELIGIBLE), whose
\* ValueError on any other state the deletion ledger suppresses.
promote_archive_manifest(m) ==
    /\ mstate' = [mstate EXCEPT ![m] = IF @ = "manifest_committed" THEN "deletion_eligible" ELSE @]
    /\ UNCHANGED <<srcVars, expired, due, old, authVars, curVars>>

mark_archive_expired(m) ==
    /\ expired' = expired \cup {m}
    /\ UNCHANGED <<srcVars, mstate, due, old, authVars, curVars>>

-----------------------------------------------------------------------------
(* Acknowledgement, failure and cursors *)

\* acknowledge_sources_batch: every key of the page, whatever its row says,
\* and in the same transaction the cursor unless the caller withholds it (0).
acknowledge_sources_batch(ks, m, next) ==
    /\ status' = [k \in Key |-> IF k \in ks THEN "acknowledged" ELSE status[k]]
    /\ link' = [k \in Key |-> IF k \in ks THEN m ELSE link[k]]
    /\ lease' = [k \in Key |-> IF k \in ks THEN "none" ELSE lease[k]]
    /\ cursor' = IF next = 0 THEN cursor ELSE next
    /\ UNCHANGED <<claimant, manVars, authVars, rcursor, fwd>>

\* Mutant: fail_sources_batch writes a status the ledger does not know.
fail_sources_batch_as_failed(ks) ==
    /\ status' = [k \in Key |-> IF k \in ks THEN "failed" ELSE status[k]]
    /\ lease' = [k \in Key |-> IF k \in ks THEN "none" ELSE lease[k]]
    /\ UNCHANGED <<claimant, link, manVars, authVars, curVars>>

\* fail_sources_batch: claimed rows go back to discovered, whoever holds them.
Failing(ks) == {k \in ks : status[k] = "claimed"}

fail_sources_batch(ks) ==
    /\ status' = [k \in Key |-> IF k \in Failing(ks) THEN "discovered" ELSE status[k]]
    /\ claimant' = [k \in Key |-> IF k \in Failing(ks) THEN NoWorker ELSE claimant[k]]
    /\ lease' = [k \in Key |-> IF k \in Failing(ks) THEN "none" ELSE lease[k]]
    /\ UNCHANGED <<link, manVars, authVars, curVars>>

\* Mutant: advance_source_cursor does not store the pages since reinspection.
advance_source_cursor_only(next, rc, pages) ==
    /\ cursor' = next
    /\ rcursor' = rc
    /\ UNCHANGED <<srcVars, manVars, authVars, fwd>>

\* advance_source_cursor with the reinspection state a RUM page carries.
advance_source_cursor(next, rc, pages) ==
    /\ cursor' = next
    /\ rcursor' = rc
    /\ fwd' = pages
    /\ UNCHANGED <<srcVars, manVars, authVars>>

advance_reinspection_state(rc, pages) ==
    /\ rcursor' = rc
    /\ fwd' = pages
    /\ UNCHANGED <<srcVars, manVars, authVars, cursor>>

-----------------------------------------------------------------------------
(* Source deletion *)

\* Mutant: deletable_sources overlooks the manifests a dead sweep promoted.
DeletableCommitted ==
    {k \in Key : status[k] = "acknowledged" /\ link[k] \in due
                 /\ mstate[link[k]] = "manifest_committed"}

\* deletable_sources, before the LIMIT.
DeletableSources ==
    {k \in Key : /\ status[k] = "acknowledged"
                 /\ link[k] \in due
                 /\ mstate[link[k]] \in {"manifest_committed", "deletion_eligible"}}

\* The conditions under which authorize_source_delete does not raise.
DeleteAuthorized(k, m) ==
    /\ status[k] = "acknowledged"
    /\ link[k] = m
    /\ k \in m.srcs
    /\ mstate[m] = "deletion_eligible"
    /\ m \in due
    /\ <<k, m>> \notin consumed

authorize_source_delete(ks, m) ==
    /\ granted' = granted \cup {<<k, m>> : k \in {j \in ks : DeleteAuthorized(j, m)}}
    /\ UNCHANGED <<srcVars, manVars, consumed, curVars>>

\* Anything else raises, or returns at once on a row already marked.
DeletionRecordable(k, m) ==
    /\ status[k] = "acknowledged"
    /\ link[k] = m
    /\ <<k, m>> \in granted \ consumed

\* Mutant: the query runs before the row is updated.
AllDeletedBefore(m) == \A k \in m.srcs : status[k] \in {"source_deleted", "absent"}

\* Its last query: no known source of the manifest is in another state.
AllDeleted(m) == \A k \in m.srcs : status'[k] \in {"source_deleted", "absent"}

mark_source_deleted(k, m) ==
    /\ DeletionRecordable(k, m)
    /\ status' = [status EXCEPT ![k] = "source_deleted"]
    /\ lease' = [lease EXCEPT ![k] = "none"]
    /\ consumed' = consumed \cup {<<k, m>>}
    /\ mstate' = [mstate EXCEPT ![m] =
                    IF @ = "deletion_eligible" /\ AllDeleted(m) THEN "source_deleted" ELSE @]
    /\ UNCHANGED <<claimant, link, expired, due, old, granted, curVars>>

-----------------------------------------------------------------------------
(* Time *)

\* Mutants: expiry counts from the deletion deadline; expiry ignores the state.
ExpirableWhenDue == {m \in due : mstate[m] = "source_deleted" /\ m \notin expired}
ExpirableInAnyState == old \ expired

\* expirable_archive_manifests, before the LIMIT.
ExpirableArchives == {m \in old : mstate[m] = "source_deleted" /\ m \notin expired}

\* clock_timestamp() passes lease_until.  Nothing renews a lease.
LeaseExpires(k) ==
    /\ lease[k] = "live"
    /\ lease' = [lease EXCEPT ![k] = "expired"]
    /\ UNCHANGED <<status, claimant, link, manVars, authVars, curVars>>

\* It passes a manifest's deletion_authorization_deadline (the grace period)...
DeadlinePasses(m) ==
    /\ m \in Registered \ due
    /\ due' = due \cup {m}
    /\ UNCHANGED <<srcVars, mstate, expired, old, authVars, curVars>>

\* ... and, days later, the domain's retention plus MARGIN_DAYS.
RetentionPasses(m) ==
    /\ m \in due \ old
    /\ old' = old \cup {m}
    /\ UNCHANGED <<srcVars, mstate, expired, due, authVars, curVars>>
=============================================================================
