--------------------------- MODULE HighScaleWorker ---------------------------
(***************************************************************************)
(* The high-scale ingest workers: replicas that each loop over             *)
(* HighScaleWorkerCoordinator.run_page, which calls                        *)
(* HighScaleIngestController.ingest_batch                                  *)
(* (backend/high_scale/ingest_controller/coordinator.py).                  *)
(*                                                                         *)
(* One action per remote call: two replicas interleave between any two     *)
(* calls, a replica may die after any of them, and each call may fail.     *)
(* The data of a log object is abstracted to its key.                      *)
(***************************************************************************)
EXTENDS DurableStores, FiniteSets

CONSTANTS
    PageSize,       \* HIGH_SCALE_PAGE_SIZE
    Rum,            \* TRUE: a RUM domain (reinspection), FALSE: request logs
    InOrder,        \* TRUE: objects appear in the bucket in key order
    StableId,       \* TRUE: a restarted replica keeps its identity (workerId)
    SlowPages,      \* TRUE: a page may outlast its leases, which nothing renews
    MaxFaults,      \* bound: crashes and failed calls in a behaviour
    MaxVanished     \* bound: raw objects removed by someone else

ASSUME PageAssumption == PageSize \in Nat \ {0}
ASSUME FlagAssumption == {Rum, InOrder, StableId, SlowPages} \subseteq BOOLEAN
ASSUME BoundAssumption == MaxFaults \in Nat /\ MaxVanished \in Nat

Step == {"idle", "recover", "discover", "claim", "read", "missing", "count",
         "archive", "register", "facts", "derived", "ack", "fail", "advance"}

\* The steps of ingest_batch, whose exceptions run_page catches.
IngestStep == {"count", "archive", "register", "facts", "derived", "ack"}

VARIABLES
    pc,                 \* where each worker's run_page is
    todo,               \* keys of the step still to be handled one by one
    active,             \* active_sources, then to_read
    payload,            \* valid_payloads
    failed,             \* failed > 0
    next,               \* next_cursor (0: None)
    reins, rnext,       \* page.reinspection_page, page.next_reinspection_cursor
    fnext,              \* page.forward_pages_since_reinspection
    mid,                \* manifest of the batch
    known,              \* the manifest row existed before archive.publish
    faults, vanished    \* how much of the bounds is used

pageVars  == <<next, reins, rnext, fnext>>
batchVars == <<payload, mid, known>>
localVars == <<pc, todo, active, failed, pageVars, batchVars>>
bounds    == <<faults, vanished>>
vars      == <<cpVars, storeVars, localVars, bounds>>

WorkerTypeOK ==
    /\ pc \in [Worker -> Step]
    /\ todo \in [Worker -> SUBSET Key]
    /\ active \in [Worker -> SUBSET Key]
    /\ payload \in [Worker -> SUBSET Key]
    /\ failed \in [Worker -> BOOLEAN]
    /\ next \in [Worker -> 0..NKeys]
    /\ reins \in [Worker -> BOOLEAN]
    /\ rnext \in [Worker -> 0..NKeys]
    /\ fnext \in [Worker -> 0..ReinspectionInterval]
    /\ mid \in [Worker -> Manifest \cup {NoManifest}]
    /\ known \in [Worker -> BOOLEAN]
    /\ faults \in 0..MaxFaults
    /\ vanished \in 0..MaxVanished

\* Every replica only ever writes well-typed rows and keeps well-typed locals.
TypeOK == CPTypeOK /\ StoresTypeOK /\ WorkerTypeOK

Init ==
    /\ CPInit
    /\ StoresInit
    /\ pc = [w \in Worker |-> "idle"]
    /\ todo = [w \in Worker |-> {}]
    /\ active = [w \in Worker |-> {}]
    /\ payload = [w \in Worker |-> {}]
    /\ failed = [w \in Worker |-> FALSE]
    /\ next = [w \in Worker |-> 0]
    /\ reins = [w \in Worker |-> FALSE]
    /\ rnext = [w \in Worker |-> 0]
    /\ fnext = [w \in Worker |-> 0]
    /\ mid = [w \in Worker |-> NoManifest]
    /\ known = [w \in Worker |-> FALSE]
    /\ faults = 0 /\ vanished = 0

Goto(w, step) == pc' = [pc EXCEPT ![w] = step]

\* ingest_batch returns or has been failed: the batch is not used again.
EndBatch(w) ==
    /\ payload' = [payload EXCEPT ![w] = {}]
    /\ mid' = [mid EXCEPT ![w] = NoManifest]
    /\ known' = [known EXCEPT ![w] = FALSE]

\* run_page returns or raises: its locals are gone.
EndPage(w) ==
    /\ Goto(w, "idle")
    /\ todo' = [todo EXCEPT ![w] = {}]
    /\ active' = [active EXCEPT ![w] = {}]
    /\ failed' = [failed EXCEPT ![w] = FALSE]
    /\ next' = [next EXCEPT ![w] = 0]
    /\ reins' = [reins EXCEPT ![w] = FALSE]
    /\ rnext' = [rnext EXCEPT ![w] = 0]
    /\ fnext' = [fnext EXCEPT ![w] = 0]
    /\ EndBatch(w)

-----------------------------------------------------------------------------
(* run_page: listing, discovery and claims *)

\* Mutant: the cursor is taken from the listing, the page is cut short.
IsPageCut(page, from, last) ==
    /\ page \subseteq {k \in bucket : from < k /\ k <= last}
    /\ page # {} /\ last \in bucket
    /\ Cardinality(page) <= PageSize

\* list_objects_v2 after `from`: the first PageSize keys, `last` the last one.
IsPage(page, from, last) ==
    /\ page = {k \in bucket : from < k /\ k <= last}
    /\ last \in page
    /\ Cardinality(page) <= PageSize
    /\ Cardinality(page) = PageSize \/ \A k \in bucket : k <= last

\* A forward page, from the persisted cursor.  An empty page keeps it.
ListForward(w) ==
    /\ pc[w] = "idle"
    /\ ~Rum \/ fwd < ReinspectionInterval
    /\ \/ \E last \in Key, page \in SUBSET bucket :
            /\ IsPage(page, cursor, last)
            /\ todo' = [todo EXCEPT ![w] = page]
            /\ next' = [next EXCEPT ![w] = last]
       \/ /\ \A k \in bucket : k <= cursor
          /\ next' = [next EXCEPT ![w] = cursor]
          /\ UNCHANGED todo
    /\ rnext' = [rnext EXCEPT ![w] = IF Rum THEN rcursor ELSE 0]
    /\ fnext' = [fnext EXCEPT ![w] = IF Rum THEN fwd + 1 ELSE 0]
    /\ Goto(w, "recover")
    /\ UNCHANGED <<cpVars, storeVars, active, failed, reins, batchVars, bounds>>

\* A reinspection page of a RUM domain, from the reinspection cursor.
ListReinspection(w) ==
    /\ pc[w] = "idle"
    /\ Rum /\ fwd >= ReinspectionInterval
    /\ \/ \E last \in Key, page \in SUBSET bucket :
            /\ IsPage(page, rcursor, last)
            /\ todo' = [todo EXCEPT ![w] = page]
            /\ rnext' = [rnext EXCEPT ![w] = IF \E k \in bucket : k > last THEN last ELSE 0]
       \/ /\ \A k \in bucket : k <= rcursor
          /\ UNCHANGED <<todo, rnext>>
    /\ reins' = [reins EXCEPT ![w] = TRUE]
    /\ Goto(w, "recover")
    /\ UNCHANGED <<cpVars, storeVars, active, failed, next, fnext, batchVars, bounds>>

\* _expired_claim_descriptors: up to PageSize of them, oldest lease first.
RecoverExpired(w) ==
    /\ pc[w] = "recover"
    /\ \E ks \in SUBSET ExpiredClaims :
         /\ Cardinality(ks) <= PageSize
         /\ Cardinality(ks) = PageSize \/ ks = ExpiredClaims
         /\ active' = [active EXCEPT ![w] = ks]
    /\ Goto(w, IF todo[w] = {} THEN "claim" ELSE "discover")
    /\ UNCHANGED <<cpVars, storeVars, todo, failed, pageVars, batchVars, bounds>>

\* _discover on the next listed object; a terminal row is only a duplicate.
Discover(w) ==
    /\ pc[w] = "discover"
    /\ \E k \in todo[w] :
         /\ \A j \in todo[w] : k <= j
         /\ discover_source(k)
         /\ active' = [active EXCEPT ![w] =
                         IF status[k] \in TerminalStatus THEN @ ELSE @ \cup {k}]
         /\ todo' = [todo EXCEPT ![w] = @ \ {k}]
         /\ Goto(w, IF todo[w] = {k} THEN "claim" ELSE "discover")
    /\ UNCHANGED <<storeVars, failed, pageVars, batchVars, bounds>>

\* A claim lost to a sibling counts as a duplicate, not as a failure.
Claim(w) ==
    /\ pc[w] = "claim"
    /\ claim_sources_batch(active[w], w)
    /\ active' = [active EXCEPT ![w] = ClaimResult(@, w)]
    /\ Goto(w, IF ClaimResult(active[w], w) = {} THEN "advance" ELSE "read")
    /\ UNCHANGED <<storeVars, todo, failed, pageVars, batchVars, bounds>>

\* read_one on every claimed key: gone from FOS, unreadable (err), or read.
Read(w) ==
    /\ pc[w] = "read"
    /\ \E err \in SUBSET (active[w] \cap bucket) :
         LET gone == active[w] \ bucket
             read == (active[w] \cap bucket) \ err
         IN  /\ faults' = faults + (IF err = {} THEN 0 ELSE 1)
             /\ faults' <= MaxFaults
             /\ failed' = [failed EXCEPT ![w] = err # {}]
             /\ payload' = [payload EXCEPT ![w] = read]
             /\ todo' = [todo EXCEPT ![w] = gone]
             /\ Goto(w, IF gone # {} THEN "missing"
                        ELSE IF read # {} THEN "count" ELSE "advance")
    /\ active' = [active EXCEPT ![w] = {}]
    /\ UNCHANGED <<cpVars, storeVars, pageVars, mid, known, vanished>>

\* _mark_missing on the next missing key; its ValueError aborts the page.
MarkMissing(w) ==
    /\ pc[w] = "missing"
    /\ \E k \in todo[w] :
         \/ /\ MissingRefused(k)
            /\ EndPage(w)
            /\ UNCHANGED cpVars
         \/ /\ mark_source_missing(k)
            /\ todo' = [todo EXCEPT ![w] = @ \ {k}]
            /\ Goto(w, IF todo[w] # {k} THEN "missing"
                       ELSE IF payload[w] # {} THEN "count" ELSE "advance")
            /\ UNCHANGED <<active, failed, pageVars, batchVars>>
    /\ UNCHANGED <<storeVars, bounds>>

-----------------------------------------------------------------------------
(* ingest_batch *)

\* Decoding, then record_source_counts on every source.
RecordCounts(w) ==
    /\ pc[w] = "count"
    /\ Goto(w, IF CountsAccepted(payload[w]) THEN "archive" ELSE "fail")
    /\ UNCHANGED <<cpVars, storeVars, todo, active, failed, pageVars, batchVars, bounds>>

\* Mutant: the archive upload is not waited for.
PublishArchiveLater(w) ==
    /\ pc[w] = "archive"
    /\ \E l \in Layout : mid' = [mid EXCEPT ![w] = [srcs |-> payload[w], layout |-> l]]
    /\ Goto(w, "register")
    /\ UNCHANGED <<cpVars, storeVars, todo, active, failed, pageVars, payload, known, bounds>>

\* write_batch_archive_checkpoint, the lookup of a registered manifest, and
\* ArchivePublication.publish, which the commit marker makes all or nothing.
PublishArchive(w) ==
    /\ pc[w] = "archive"
    /\ \E l \in Layout :
         LET m == [srcs |-> payload[w], layout |-> l]
         IN  /\ mid' = [mid EXCEPT ![w] = m]
             /\ known' = [known EXCEPT ![w] = mstate[m] # "absent"]
             /\ archive' = archive \cup {m}
    /\ Goto(w, "register")
    /\ UNCHANGED <<cpVars, arrived, bucket, facts, derived, todo, active, failed,
                   pageVars, payload, bounds>>

\* A row a sibling inserted after our lookup carries other timestamps
\* ("archive manifest identity changed"); a row past manifest_committed is
\* not in the list _publish_control_manifest indexes.  Both raise.
RegistrationAccepted(w) ==
    \/ mstate[mid[w]] = "absent"
    \/ mstate[mid[w]] = "manifest_committed" /\ known[w]

PublishControlManifest(w) ==
    /\ pc[w] = "register"
    /\ register_archive_manifest(mid[w])
    /\ Goto(w, IF RegistrationAccepted(w) THEN "facts" ELSE "fail")
    /\ UNCHANGED <<storeVars, todo, active, failed, pageVars, batchVars, bounds>>

\* ClickHousePublication.publish of the fact rows (module BatchPublication).
PublishFacts(w) ==
    /\ pc[w] = "facts"
    /\ facts' = facts \cup {mid[w]}
    /\ Goto(w, "derived")
    /\ UNCHANGED <<cpVars, arrived, bucket, archive, derived, todo, active, failed,
                   pageVars, batchVars, bounds>>

\* Mutant: a failed derived publication is swallowed.
PublishDerivedSwallowed(w) ==
    /\ pc[w] = "derived"
    /\ Goto(w, "ack")
    /\ UNCHANGED <<cpVars, storeVars, todo, active, failed, pageVars, batchVars, bounds>>

\* _publish_aggregates_batch, _publish_cmcd_projection and the RUM sibling.
PublishDerived(w) ==
    /\ pc[w] = "derived"
    /\ derived' = derived \cup {mid[w]}
    /\ Goto(w, "ack")
    /\ UNCHANGED <<cpVars, arrived, bucket, archive, facts, todo, active, failed,
                   pageVars, batchVars, bounds>>

\* run_page withholds the cursor from the acknowledgement after a read error
\* and on a reinspection page.
AckCursor(w) == IF failed[w] \/ reins[w] THEN 0 ELSE next[w]

Acknowledge(w) ==
    /\ pc[w] = "ack"
    /\ acknowledge_sources_batch(payload[w], mid[w], AckCursor(w))
    /\ EndBatch(w)
    /\ Goto(w, "advance")
    /\ UNCHANGED <<storeVars, todo, active, failed, pageVars, bounds>>

\* The transaction commits but its reply is lost: run_page sees an exception.
AcknowledgeReplyLost(w) ==
    /\ pc[w] = "ack"
    /\ faults < MaxFaults
    /\ faults' = faults + 1
    /\ acknowledge_sources_batch(payload[w], mid[w], AckCursor(w))
    /\ Goto(w, "fail")
    /\ UNCHANGED <<storeVars, todo, active, failed, pageVars, batchVars, vanished>>

\* A call of ingest_batch raises before it had an effect: run_page's except,
\* or the derived_ok = False branch, calls fail_sources_batch.
IngestFails(w) ==
    /\ pc[w] \in IngestStep
    /\ faults < MaxFaults
    /\ faults' = faults + 1
    /\ Goto(w, "fail")
    /\ UNCHANGED <<cpVars, storeVars, todo, active, failed, pageVars, batchVars, vanished>>

FailSources(w) ==
    /\ pc[w] = "fail"
    /\ fail_sources_batch(payload[w])
    /\ failed' = [failed EXCEPT ![w] = TRUE]
    /\ EndBatch(w)
    /\ Goto(w, "advance")
    /\ UNCHANGED <<storeVars, todo, active, pageVars, bounds>>

\* fail_sources_batch itself fails; run_page swallows it and keeps the page.
FailSourcesFails(w) ==
    /\ pc[w] = "fail"
    /\ faults < MaxFaults
    /\ faults' = faults + 1
    /\ failed' = [failed EXCEPT ![w] = TRUE]
    /\ EndBatch(w)
    /\ Goto(w, "advance")
    /\ UNCHANGED <<cpVars, storeVars, todo, active, pageVars, vanished>>

-----------------------------------------------------------------------------
(* The end of run_page, and the loop around it *)

\* A page without failures moves a cursor; any other page moves none.
AdvanceCursor(w) ==
    /\ pc[w] = "advance"
    /\ IF failed[w] \/ (~reins[w] /\ next[w] = 0)
       THEN UNCHANGED cpVars
       ELSE IF reins[w]
       THEN advance_reinspection_state(rnext[w], 0)
       ELSE advance_source_cursor(next[w], IF Rum THEN rnext[w] ELSE rcursor,
                                           IF Rum THEN fnext[w] ELSE fwd)
    /\ EndPage(w)
    /\ UNCHANGED <<storeVars, bounds>>

\* A call outside ingest_batch raises: HighScaleWorkerLoop.run_once logs it
\* and goes on, with no fail_sources_batch.
PageAborts(w) ==
    /\ pc[w] \in {"recover", "discover", "claim", "missing", "advance"}
    /\ faults < MaxFaults
    /\ faults' = faults + 1
    /\ EndPage(w)
    /\ UNCHANGED <<cpVars, storeVars, vanished>>

\* The replica dies.  Unless workerId pins it, its successor has another
\* identity, so the claims it leaves belong to nobody.
Crash(w) ==
    /\ pc[w] # "idle"
    /\ faults < MaxFaults
    /\ faults' = faults + 1
    /\ EndPage(w)
    /\ claimant' = [k \in Key |-> IF ~StableId /\ claimant[k] = w THEN NoWorker ELSE claimant[k]]
    /\ UNCHANGED <<status, lease, link, manVars, authVars, curVars, storeVars, vanished>>

-----------------------------------------------------------------------------
(* The environment *)

\* Fastly writes a log object to the bucket.
Arrive(k) ==
    /\ k \notin arrived
    /\ InOrder => \A j \in arrived : j < k
    /\ arrived' = arrived \cup {k}
    /\ bucket' = bucket \cup {k}
    /\ UNCHANGED <<cpVars, archive, facts, derived, localVars, bounds>>

\* Someone else removes a raw object (a bucket lifecycle rule, an operator).
Vanish(k) ==
    /\ k \in bucket
    /\ vanished < MaxVanished
    /\ vanished' = vanished + 1
    /\ bucket' = bucket \ {k}
    /\ UNCHANGED <<cpVars, arrived, archive, facts, derived, localVars, faults>>

\* The keys w has claimed for the page it is working on.
InHand(w) ==
    IF pc[w] \in {"read", "missing", "fail"} \cup IngestStep
    THEN todo[w] \cup active[w] \cup payload[w]
    ELSE {}

LeaseTimeout(k) ==
    /\ SlowPages \/ \A w \in Worker : claimant[k] = w => k \notin InHand(w)
    /\ LeaseExpires(k)
    /\ UNCHANGED <<storeVars, localVars, bounds>>

-----------------------------------------------------------------------------
WorkerStep(w) ==
    \/ ListForward(w) \/ ListReinspection(w) \/ RecoverExpired(w) \/ Discover(w)
    \/ Claim(w) \/ Read(w) \/ MarkMissing(w) \/ RecordCounts(w)
    \/ PublishArchive(w) \/ PublishControlManifest(w) \/ PublishFacts(w)
    \/ PublishDerived(w) \/ Acknowledge(w) \/ FailSources(w) \/ AdvanceCursor(w)

WorkerFault(w) ==
    \/ AcknowledgeReplyLost(w) \/ IngestFails(w) \/ FailSourcesFails(w)
    \/ PageAborts(w) \/ Crash(w)

Environment(k) == Arrive(k) \/ Vanish(k) \/ LeaseTimeout(k)

Next ==
    \/ \E w \in Worker : WorkerStep(w) \/ WorkerFault(w)
    \/ \E k \in Key : Environment(k)

Spec == Init /\ [][Next]_vars

\* The worker process keeps running (the loop only stops with the pod, which is
\* restarted), and clocks pass every lease.
Fairness ==
    /\ \A w \in Worker : WF_vars(WorkerStep(w))
    /\ \A k \in Key : WF_vars(LeaseTimeout(k))

FairSpec == Spec /\ Fairness

-----------------------------------------------------------------------------
(* Properties *)

\* An acknowledged source (acknowledge_sources_batch, whoever called it and
\* however late) has a registered manifest that covers it, and the facts and
\* derived rows of that batch are visible: the acknowledgement is what lets
\* the sweeper delete the raw object.
AcknowledgedIsDurable ==
    \A k \in Key : status[k] \in {"acknowledged", "source_deleted"} =>
        /\ link[k] \in Registered
        /\ k \in link[k].srcs
        /\ link[k] \in archive \cup old
        /\ link[k] \in facts \cap derived

\* ClickHouse never shows a batch the archive could not rebuild: publication
\* follows the archive commit and the manifest row, also for a replica that
\* lost its lease on the way.
VisibleIsRebuildable ==
    \A m \in facts \cup derived : m \in Registered /\ m \in archive \cup old

\* When objects appear in key order, the listing cursor never passes a raw
\* object the ledger has no row for, although every replica advances it from
\* its own, possibly stale, page.
CursorSkipsNothing ==
    InOrder => \A k \in bucket : k <= cursor => status[k] # "absent"

\* No replica takes a source back out of a final state into the work queue or
\* reports it missing after it was acknowledged, whatever it read before.
AcknowledgedIsFinal ==
    [][\A k \in Key : status[k] \in {"acknowledged", "source_deleted"} =>
          status'[k] \in {"acknowledged", "source_deleted"}]_vars

\* Every raw object is in the end acknowledged, or found missing, or is gone.
EveryObjectSettles ==
    \A k \in Key : k \in bucket ~> (status[k] \in TerminalStatus \/ k \notin bucket)

\* The cursor passes a source only when it is settled or can still be picked
\* up without being listed again: held by a replica, or claimed, which is
\* what expired_claims looks for.
RecoverableBehindCursor ==
    \A k \in Key : (k <= cursor /\ status[k] = "discovered") =>
        \E w \in Worker : k \in todo[w] \cup active[w] \cup payload[w]
=============================================================================
