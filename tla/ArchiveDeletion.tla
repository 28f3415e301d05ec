--------------------------- MODULE ArchiveDeletion ---------------------------
(***************************************************************************)
(* The deletion sweeps each worker replica runs on a background thread:    *)
(* HighScaleDeletionSweeper removes raw objects whose archive is verified  *)
(* and past its grace period, then HighScaleArchiveExpirer removes the     *)
(* archives past retention                                                 *)
(* (backend/high_scale/postgres_control/deletion.py).                      *)
(*                                                                         *)
(* A sweep never overlaps itself within a replica, but the replicas sweep  *)
(* at the same time.  One action per remote call.                          *)
(***************************************************************************)
EXTENDS DurableStores, FiniteSets

CONSTANTS
    Sweeper,        \* the sweep threads, one per replica
    SweepLimit,     \* HIGH_SCALE_DELETION_SWEEP_LIMIT
    CacheCap,       \* entries of a manifest cache before it is cleared (4096)
    MaxSweepFaults  \* bound: failed store deletes and dead sweepers

ASSUME SweepAssumption ==
    /\ SweepLimit \in Nat \ {0} /\ CacheCap \in Nat \ {0} /\ MaxSweepFaults \in Nat

SweepStep == {"idle", "take", "promote", "authorize", "delete", "mark", "expire", "remove", "expired"}

VARIABLES
    spc,        \* where each sweep is
    plan,       \* <<key, manifest>> rows of its deletable_sources query left
    sman,       \* the manifest it is working on
    skeys,      \* eligible_keys, authorized_keys, then store_deleted
    sgone,      \* keys its store.delete succeeded on
    xplan,      \* manifests of its expirable_archive_manifests query left
    verified,   \* DeletionController._verified_manifests
    promoted,   \* PostgresDeletionLedger._promoted_manifests
    swept,      \* history: raw objects the sweeps have deleted
    sfaults

sweepLocals == <<spc, plan, sman, skeys, sgone, xplan, verified, promoted>>
sweepVars == <<sweepLocals, swept, sfaults>>

SweepTypeOK ==
    /\ spc \in [Sweeper -> SweepStep]
    /\ plan \in [Sweeper -> SUBSET (Key \X Manifest)]
    /\ sman \in [Sweeper -> Manifest \cup {NoManifest}]
    /\ skeys \in [Sweeper -> SUBSET Key]
    /\ sgone \in [Sweeper -> SUBSET Key]
    /\ xplan \in [Sweeper -> SUBSET Manifest]
    /\ verified \in [Sweeper -> SUBSET Manifest]
    /\ promoted \in [Sweeper -> SUBSET Manifest]
    /\ swept \in SUBSET Key
    /\ sfaults \in 0..MaxSweepFaults

SweepInit ==
    /\ spc = [s \in Sweeper |-> "idle"]
    /\ plan = [s \in Sweeper |-> {}]
    /\ sman = [s \in Sweeper |-> NoManifest]
    /\ skeys = [s \in Sweeper |-> {}]
    /\ sgone = [s \in Sweeper |-> {}]
    /\ xplan = [s \in Sweeper |-> {}]
    /\ verified = [s \in Sweeper |-> {}]
    /\ promoted = [s \in Sweeper |-> {}]
    /\ swept = {}
    /\ sfaults = 0

SGoto(s, step) == spc' = [spc EXCEPT ![s] = step]

\* Both caches are emptied when full and then take the new entry.
CacheAdd(cache, m) == IF Cardinality(cache) >= CacheCap THEN {m} ELSE cache \cup {m}

NoManifestLeft(s) ==
    /\ sman' = [sman EXCEPT ![s] = NoManifest]
    /\ skeys' = [skeys EXCEPT ![s] = {}]
    /\ sgone' = [sgone EXCEPT ![s] = {}]

-----------------------------------------------------------------------------
(* HighScaleDeletionSweeper._sweep_sources *)

\* deletable_sources, up to SweepLimit rows; with none, on to the expirer.
ListDeletable(s) ==
    /\ spc[s] = "idle"
    /\ \E ks \in SUBSET DeletableSources :
         /\ Cardinality(ks) <= SweepLimit
         /\ Cardinality(ks) = SweepLimit \/ ks = DeletableSources
         /\ plan' = [plan EXCEPT ![s] = {<<k, link[k]>> : k \in ks}]
         /\ SGoto(s, IF ks = {} THEN "expire" ELSE "take")
    /\ UNCHANGED <<cpVars, storeVars, sman, skeys, sgone, xplan, verified, promoted, swept, sfaults>>

\* delete_manifest_sources up to _verify_manifest_replayable, which trusts the
\* process's cache; an archive that is not replayable skips the manifest.
TakeManifest(s) ==
    /\ spc[s] = "take"
    /\ \E m \in {row[2] : row \in plan[s]} :
         LET usable == m \in verified[s] \cup archive
         IN  /\ plan' = [plan EXCEPT ![s] = {row \in @ : row[2] # m}]
             /\ IF usable
                THEN /\ verified' = [verified EXCEPT ![s] =
                                       IF m \in @ THEN @ ELSE CacheAdd(@, m)]
                     /\ sman' = [sman EXCEPT ![s] = m]
                     /\ skeys' = [skeys EXCEPT ![s] = {row[1] : row \in {r \in plan[s] : r[2] = m}}]
                     /\ SGoto(s, "promote")
                ELSE /\ SGoto(s, IF plan'[s] = {} THEN "expire" ELSE "take")
                     /\ UNCHANGED <<verified, sman, skeys>>
    /\ UNCHANGED <<cpVars, storeVars, sgone, xplan, promoted, swept, sfaults>>

\* PostgresDeletionLedger promotes a manifest once per process.
Promote(s) ==
    /\ spc[s] = "promote"
    /\ IF sman[s] \in promoted[s]
       THEN UNCHANGED <<cpVars, promoted>>
       ELSE /\ promote_archive_manifest(sman[s])
            /\ promoted' = [promoted EXCEPT ![s] = CacheAdd(@, sman[s])]
    /\ SGoto(s, "authorize")
    /\ UNCHANGED <<storeVars, plan, sman, skeys, sgone, xplan, verified, swept, sfaults>>

\* authorize_source_delete on each key, whose ValueErrors are suppressed.  The
\* transactions write disjoint rows and are taken together.
Authorize(s) ==
    LET ok == {k \in skeys[s] : DeleteAuthorized(k, sman[s])}
    IN  /\ spc[s] = "authorize"
        /\ authorize_source_delete(skeys[s], sman[s])
        /\ IF ok = {}
           THEN /\ NoManifestLeft(s)
                /\ SGoto(s, IF plan[s] = {} THEN "expire" ELSE "take")
           ELSE /\ skeys' = [skeys EXCEPT ![s] = ok]
                /\ SGoto(s, "delete")
                /\ UNCHANGED <<sman, sgone>>
        /\ UNCHANGED <<storeVars, plan, xplan, verified, promoted, swept, sfaults>>

AfterDelete(s, k, gone) ==
    IF skeys[s] # {k} THEN "delete"
    ELSE IF gone # {} THEN "mark" ELSE IF plan[s] = {} THEN "expire" ELSE "take"

\* _delete_from_store on one authorized key, in any order.
DeleteRaw(s) ==
    /\ spc[s] = "delete"
    /\ \E k \in skeys[s] :
         /\ bucket' = bucket \ {k}
         /\ swept' = swept \cup (bucket \cap {k})
         /\ skeys' = [skeys EXCEPT ![s] = @ \ {k}]
         /\ sgone' = [sgone EXCEPT ![s] = @ \cup {k}]
         /\ SGoto(s, AfterDelete(s, k, sgone[s] \cup {k}))
    /\ UNCHANGED <<cpVars, arrived, archive, facts, derived, plan, sman, xplan,
                   verified, promoted, sfaults>>

\* It raises: the key is left for a later sweep.
DeleteRawFails(s) ==
    /\ spc[s] = "delete"
    /\ sfaults < MaxSweepFaults
    /\ sfaults' = sfaults + 1
    /\ \E k \in skeys[s] :
         /\ skeys' = [skeys EXCEPT ![s] = @ \ {k}]
         /\ SGoto(s, AfterDelete(s, k, sgone[s]))
    /\ UNCHANGED <<cpVars, storeVars, plan, sman, sgone, xplan, verified, promoted, swept>>

\* _mark_ledger_deleted on one key, whose exceptions are suppressed.
MarkDeleted(s) ==
    /\ spc[s] = "mark"
    /\ \E k \in sgone[s] :
         /\ \/ mark_source_deleted(k, sman[s])
            \/ ~DeletionRecordable(k, sman[s]) /\ UNCHANGED cpVars
         /\ IF sgone[s] = {k}
            THEN /\ NoManifestLeft(s)
                 /\ SGoto(s, IF plan[s] = {} THEN "expire" ELSE "take")
            ELSE /\ sgone' = [sgone EXCEPT ![s] = @ \ {k}]
                 /\ UNCHANGED <<spc, sman, skeys>>
    /\ UNCHANGED <<storeVars, plan, xplan, verified, promoted, swept, sfaults>>

-----------------------------------------------------------------------------
(* HighScaleArchiveExpirer.expire *)

\* expirable_archive_manifests, up to SweepLimit rows; with none, the sweep ends.
ListExpirable(s) ==
    /\ spc[s] = "expire"
    /\ \E ms \in SUBSET ExpirableArchives :
         /\ Cardinality(ms) <= SweepLimit
         /\ Cardinality(ms) = SweepLimit \/ ms = ExpirableArchives
         /\ xplan' = [xplan EXCEPT ![s] = ms]
         /\ SGoto(s, IF ms = {} THEN "idle" ELSE "remove")
    /\ UNCHANGED <<cpVars, storeVars, plan, sman, skeys, sgone, verified, promoted, swept, sfaults>>

\* ArchivePublication.expire, which deletes the commit marker first.
ExpireArchive(s) ==
    /\ spc[s] = "remove"
    /\ \E m \in xplan[s] :
         /\ archive' = archive \ {m}
         /\ sman' = [sman EXCEPT ![s] = m]
         /\ xplan' = [xplan EXCEPT ![s] = @ \ {m}]
         /\ SGoto(s, "expired")
    /\ UNCHANGED <<cpVars, arrived, bucket, facts, derived, plan, skeys, sgone,
                   verified, promoted, swept, sfaults>>

AfterExpiry(s) == IF xplan[s] = {} THEN "idle" ELSE "remove"

MarkExpired(s) ==
    /\ spc[s] = "expired"
    /\ mark_archive_expired(sman[s])
    /\ NoManifestLeft(s)
    /\ SGoto(s, AfterExpiry(s))
    /\ UNCHANGED <<storeVars, plan, xplan, verified, promoted, swept, sfaults>>

\* Removing the rest of an archive, or marking it, raises: the next sweep
\* lists the manifest again.
ExpiryFails(s) ==
    /\ spc[s] = "expired"
    /\ sfaults < MaxSweepFaults
    /\ sfaults' = sfaults + 1
    /\ NoManifestLeft(s)
    /\ SGoto(s, AfterExpiry(s))
    /\ UNCHANGED <<cpVars, storeVars, plan, xplan, verified, promoted, swept>>

\* A query of the sweep raises (_sweep_targets logs it; the caches stay), or
\* the daemon thread dies with its process, and its caches with it.
SweepEnds(s) ==
    /\ spc[s] # "idle"
    /\ sfaults < MaxSweepFaults
    /\ sfaults' = sfaults + 1
    /\ SGoto(s, "idle")
    /\ NoManifestLeft(s)
    /\ plan' = [plan EXCEPT ![s] = {}]
    /\ xplan' = [xplan EXCEPT ![s] = {}]
    /\ \/ UNCHANGED <<verified, promoted>>
       \/ /\ verified' = [verified EXCEPT ![s] = {}]
          /\ promoted' = [promoted EXCEPT ![s] = {}]
    /\ UNCHANGED <<cpVars, storeVars, swept>>

-----------------------------------------------------------------------------
SweeperStep(s) ==
    \/ ListDeletable(s) \/ TakeManifest(s) \/ Promote(s) \/ Authorize(s)
    \/ DeleteRaw(s) \/ MarkDeleted(s) \/ ListExpirable(s) \/ ExpireArchive(s) \/ MarkExpired(s)

SweeperFault(s) == DeleteRawFails(s) \/ ExpiryFails(s) \/ SweepEnds(s)

Clock(m) ==
    /\ DeadlinePasses(m) \/ RetentionPasses(m)
    /\ UNCHANGED <<storeVars, sweepVars>>

SweepNext ==
    \/ \E s \in Sweeper : SweeperStep(s) \/ SweeperFault(s)
    \/ \E m \in Manifest : Clock(m)
=============================================================================
