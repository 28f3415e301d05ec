------------------------ MODULE HighScalePlaneProofs ------------------------
(***************************************************************************)
(* Proofs about HighScaleWorker, for every number of replicas, keys,       *)
(* layouts, faults and vanished objects, and about HighScalePlane, which   *)
(* adds any number of sweeps.                                              *)
(*                                                                         *)
(* The workers: no control-plane transaction but the acknowledgement       *)
(* settles a source (the lemmas on PostgresControlPlane), and a replica    *)
(* reaches it only after it has archived, registered and published exactly *)
(* the sources it is about to acknowledge.  Nobody takes those back, so it *)
(* does not matter how stale the replica's claims are by then.             *)
(*                                                                         *)
(* The sweeps: authorize_source_delete grants only acknowledged sources of *)
(* the manifest it names, and those are archived, so that no cache of a    *)
(* sweep has to be right.  Objects do not come back, so what a sweep       *)
(* deleted stays deleted; a manifest reaches source_deleted when no row of *)
(* its sources is left to delete; and only such manifests are expired.  A  *)
(* replica that is late with an expired manifest finds it registered.      *)
(*                                                                         *)
(* Leases: as long as no page outlasts them, whoever has a source in hand  *)
(* owns its row, so it is acknowledged once, and no archive is published   *)
(* twice or after its expiry.                                              *)
(***************************************************************************)
EXTENDS HighScalePlane, TLAPS

-----------------------------------------------------------------------------
(* PostgresControlPlane: what each transaction does to a well-typed control *)
(* plane, for every set of workers, keys and layouts.                       *)

\* The states in which a source counts as safely ingested.
Settled == {"acknowledged", "source_deleted"}

\* A transaction that acknowledges nothing and forgets nothing: rows stay well
\* typed, no manifest row is removed, time does not run backwards, no source
\* becomes settled and none stops being settled.
Preserving ==
    /\ CPTypeOK'
    /\ Registered \subseteq Registered'
    /\ old \subseteq old'
    /\ \A k \in Key : status'[k] \in Settled <=> status[k] \in Settled
    /\ \A k \in Key : link'[k] = link[k]

\* Stuttering on the control plane.
LEMMA UnchangedPreserving ==
  ASSUME CPTypeOK, UNCHANGED cpVars PROVE Preserving
  BY DEF CPTypeOK, cpVars, srcVars, manVars, authVars, curVars, Preserving, Registered

\* discover_source inserts or keeps a row.
LEMMA DiscoverPreserving ==
  ASSUME CPTypeOK, NEW k \in Key, discover_source(k) PROVE Preserving
  BY DEF CPTypeOK, discover_source, manVars, authVars, curVars, Preserving, Registered,
     Settled, SourceStatus

\* claim_sources_batch takes rows that are discovered or claimed.
LEMMA ClaimPreserving ==
  ASSUME CPTypeOK, NEW ks \in SUBSET Key, NEW w \in Worker, claim_sources_batch(ks, w)
  PROVE  Preserving
  BY DEF CPTypeOK, claim_sources_batch, ToClaim, Claimable, manVars, authVars, curVars,
     Preserving, Registered, Settled, SourceStatus, Lease

\* mark_source_missing refuses settled sources.
LEMMA MissingPreserving ==
  ASSUME CPTypeOK, NEW k \in Key, mark_source_missing(k) PROVE Preserving
  BY DEF CPTypeOK, mark_source_missing, MissingRefused, manVars, authVars, curVars,
     Preserving, Registered, Settled, SourceStatus, Lease

\* fail_sources_batch gives back claimed rows only.
LEMMA FailPreserving ==
  ASSUME CPTypeOK, NEW ks \in SUBSET Key, fail_sources_batch(ks) PROVE Preserving
  BY DEF CPTypeOK, fail_sources_batch, Failing, manVars, authVars, curVars,
     Preserving, Registered, Settled, SourceStatus, Lease

\* register_archive_manifest leaves a registered manifest behind.
LEMMA RegisterPreserving ==
  ASSUME CPTypeOK, NEW m \in Manifest, register_archive_manifest(m)
  PROVE  Preserving /\ m \in Registered'
  BY DEF CPTypeOK, register_archive_manifest, srcVars, authVars, curVars, Preserving,
     Registered, Settled, ArchiveState

\* The cursor writes touch no source and no manifest.
LEMMA CursorPreserving ==
  ASSUME CPTypeOK, NEW nextKey \in 0..NKeys, NEW rc \in 0..NKeys,
         NEW pages \in 0..ReinspectionInterval,
         \/ advance_source_cursor(nextKey, rc, pages)
         \/ advance_reinspection_state(rc, pages)
  PROVE  Preserving
  BY DEF CPTypeOK, advance_source_cursor, advance_reinspection_state, srcVars, manVars,
     authVars, Preserving, Registered

\* A lease running out changes no state of a source.
LEMMA LeasePreserving ==
  ASSUME CPTypeOK, NEW k \in Key, LeaseExpires(k) PROVE Preserving
  BY DEF CPTypeOK, LeaseExpires, manVars, authVars, curVars, Preserving, Registered, Lease

\* acknowledge_sources_batch settles its sources and links them to the manifest,
\* and no other source is settled by it.
LEMMA AcknowledgeEffect ==
  ASSUME CPTypeOK, NEW ks \in SUBSET Key, NEW m \in Manifest, NEW nextKey \in 0..NKeys,
         acknowledge_sources_batch(ks, m, nextKey)
  PROVE  /\ CPTypeOK'
         /\ Registered' = Registered /\ old' = old
         /\ \A k \in ks : status'[k] = "acknowledged" /\ link'[k] = m
         /\ \A k \in Key \ ks : status'[k] = status[k] /\ link'[k] = link[k]
  BY DEF CPTypeOK, acknowledge_sources_batch, manVars, authVars, Registered,
     SourceStatus, Lease

-----------------------------------------------------------------------------
(* The transactions of the sweeps and the passing of time *)

\* A promotion changes the state of a manifest row that is there.
LEMMA PromotePreserving ==
  ASSUME CPTypeOK, NEW m \in Manifest \cup {NoManifest}, promote_archive_manifest(m)
  PROVE  Preserving
  BY DEF CPTypeOK, promote_archive_manifest, srcVars, authVars, curVars, Preserving,
     Registered, ArchiveState

\* An authorization is a row of its own.
LEMMA AuthorizePreserving ==
  ASSUME CPTypeOK, NEW ks \in SUBSET Key, NEW m \in Manifest, authorize_source_delete(ks, m)
  PROVE  Preserving
<1>1. {<<k, m>> : k \in {j \in ks : DeleteAuthorized(j, m)}} \subseteq Key \X Manifest
  OBVIOUS
<1> QED
  BY <1>1 DEF CPTypeOK, authorize_source_delete, srcVars, manVars, curVars, Preserving, Registered

\* mark_source_deleted moves an acknowledged source to source_deleted, and its
\* manifest only when no source of it is left.
LEMMA DeletePreserving ==
  ASSUME CPTypeOK, NEW k \in Key, NEW m \in Manifest, mark_source_deleted(k, m)
  PROVE  /\ Preserving
         /\ status[k] = "acknowledged"
         /\ status' = [status EXCEPT ![k] = "source_deleted"]
         /\ \A n \in Manifest : \/ mstate'[n] = mstate[n]
                               \/ /\ n = m /\ mstate'[n] = "source_deleted"
                                  /\ \A j \in m.srcs : status'[j] \in {"source_deleted", "absent"}
<1> USE DEF CPTypeOK, mark_source_deleted, DeletionRecordable, AllDeleted
<1>1. CPTypeOK'
  BY DEF curVars, SourceStatus, Lease, ArchiveState
<1>2. \A n \in Manifest : \/ mstate'[n] = mstate[n]
                         \/ /\ n = m /\ mstate'[n] = "source_deleted"
                            /\ mstate[n] = "deletion_eligible"
                            /\ \A j \in m.srcs : status'[j] \in {"source_deleted", "absent"}
  OBVIOUS
<1>3. Registered \subseteq Registered'
  BY <1>2 DEF Registered
<1> QED
  BY <1>1, <1>2, <1>3 DEF Preserving, Settled

\* An expiry sets a timestamp of the manifest row.
LEMMA ExpirePreserving ==
  ASSUME CPTypeOK, NEW m \in Manifest, mark_archive_expired(m) PROVE Preserving
  BY DEF CPTypeOK, mark_archive_expired, srcVars, authVars, curVars, Preserving, Registered

\* Deadlines and retention pass.
LEMMA ClockPreserving ==
  ASSUME CPTypeOK, NEW m \in Manifest, DeadlinePasses(m) \/ RetentionPasses(m) PROVE Preserving
  BY DEF CPTypeOK, DeadlinePasses, RetentionPasses, srcVars, authVars, curVars, Preserving, Registered

-----------------------------------------------------------------------------
(* The replicas *)

\* What a replica has already done for its batch when it makes the next call.
BatchInv ==
    \A w \in Worker :
        /\ pc[w] \in IngestStep => payload[w] # {}
        /\ pc[w] \in {"register", "facts", "derived", "ack"} =>
               mid[w] \in archive \cup old /\ mid[w].srcs = payload[w]
        /\ pc[w] \in {"facts", "derived", "ack"} => mid[w] \in Registered
        /\ pc[w] \in {"derived", "ack"} => mid[w] \in facts
        /\ pc[w] = "ack" => mid[w] \in derived

IInv == TypeOK /\ BatchInv /\ AcknowledgedIsDurable /\ VisibleIsRebuildable

\* No store loses anything of what the workers put there, except archives past
\* retention, and ClickHouse shows nothing new but archived, registered batches.
StoresGrow ==
    /\ StoresTypeOK'
    /\ archive \subseteq archive' \cup old /\ facts \subseteq facts' /\ derived \subseteq derived'
    /\ facts' \cup derived' \subseteq facts \cup derived \cup (Registered \cap (archive \cup old))

\* No source leaves the settled states.
SettledKept == \A k \in Key : status[k] \in Settled => status'[k] \in Settled

-----------------------------------------------------------------------------
(* What a step that acknowledges nothing preserves *)

\* Settled sources keep their manifest, which keeps its rows and its archive.
LEMMA DurableKept ==
  ASSUME AcknowledgedIsDurable, Preserving, StoresGrow
  PROVE  AcknowledgedIsDurable'
  BY DEF AcknowledgedIsDurable, Preserving, StoresGrow, Settled

\* So what the step leaves to show of the invariant is about the workers.
LEMMA InvariantKept ==
  ASSUME IInv, Preserving, StoresGrow, WorkerTypeOK', BatchInv'
  PROVE  IInv' /\ SettledKept
<1>1. AcknowledgedIsDurable'
  BY DurableKept DEF IInv
<1>2. VisibleIsRebuildable'
  BY DEF IInv, VisibleIsRebuildable, Preserving, StoresGrow
<1> QED
  BY <1>1, <1>2 DEF IInv, TypeOK, Preserving, StoresGrow, SettledKept

\* A page that ends leaves no batch behind and disturbs no other replica's.
LEMMA PageEnds ==
  ASSUME TypeOK, BatchInv, NEW w \in Worker, EndPage(w),
         Registered \subseteq Registered', old \subseteq old', StoresGrow,
         faults' \in 0..MaxFaults, UNCHANGED vanished
  PROVE  WorkerTypeOK' /\ BatchInv'
<1>1. WorkerTypeOK'
  BY KeysAssumption, IntervalAssumption DEF TypeOK, WorkerTypeOK, EndPage, EndBatch, Goto, Step
<1>2. BatchInv'
  BY DEF TypeOK, WorkerTypeOK, BatchInv, StoresGrow, EndPage, EndBatch, Goto, Step, IngestStep
<1> QED
  BY <1>1, <1>2

-----------------------------------------------------------------------------
\* The empty system satisfies the invariant.
LEMMA InitIInv == Init => IInv
<1> SUFFICES ASSUME Init PROVE IInv
  OBVIOUS
<1> USE DEF Init, CPInit, StoresInit
<1>1. CPTypeOK
  BY KeysAssumption, IntervalAssumption DEF CPTypeOK, SourceStatus, Lease, ArchiveState
<1>2. StoresTypeOK /\ WorkerTypeOK
  BY KeysAssumption, IntervalAssumption, BoundAssumption DEF StoresTypeOK, WorkerTypeOK, Step
<1>3. BatchInv
  BY DEF BatchInv, IngestStep
<1>4. AcknowledgedIsDurable /\ VisibleIsRebuildable
  BY DEF AcknowledgedIsDurable, VisibleIsRebuildable
<1> QED
  BY <1>1, <1>2, <1>3, <1>4 DEF IInv, TypeOK

-----------------------------------------------------------------------------
(* One lemma per call *)

\* Keys are the positions a cursor may take, besides the initial one.
LEMMA KeyIsPosition == Key \subseteq 0..NKeys /\ 0 \in 0..NKeys
  BY KeysAssumption DEF Key

\* A listing returns keys.
LEMMA BucketKeys == ASSUME TypeOK PROVE SUBSET bucket \subseteq SUBSET Key
  BY DEF TypeOK, StoresTypeOK

\* A forward listing only fills the page.
LEMMA ListForwardStep ==
  ASSUME IInv, NEW w \in Worker, ListForward(w) PROVE IInv' /\ SettledKept
<1>1. Preserving
  BY UnchangedPreserving DEF ListForward, IInv, TypeOK
<1>2. StoresGrow
  BY DEF IInv, TypeOK, StoresTypeOK, StoresGrow, storeVars, ListForward
<1>3. WorkerTypeOK'
  <2>1. todo' \in [Worker -> SUBSET Key] /\ next' \in [Worker -> 0..NKeys]
    <3>1. CASE /\ todo' = todo
               /\ next' = [next EXCEPT ![w] = cursor]
      BY <3>1 DEF IInv, TypeOK, WorkerTypeOK, CPTypeOK
    <3>2. CASE \E last \in Key, page \in SUBSET bucket :
                 /\ todo' = [todo EXCEPT ![w] = page]
                 /\ next' = [next EXCEPT ![w] = last]
      BY <3>2, KeyIsPosition, BucketKeys DEF IInv, TypeOK, WorkerTypeOK
    <3> QED
      BY <3>1, <3>2 DEF ListForward
  <2> QED
    BY <2>1, IntervalAssumption, KeysAssumption DEF ListForward, IInv, TypeOK, WorkerTypeOK, CPTypeOK,
       Goto, Step, batchVars, bounds
<1>4. BatchInv'
  BY <1>1, <1>2 DEF IInv, TypeOK, WorkerTypeOK, BatchInv, StoresGrow, Preserving,
     ListForward, Goto, Step, pageVars, batchVars, bounds, IngestStep
<1> QED
  BY <1>1, <1>2, <1>3, <1>4, InvariantKept

\* So does a reinspection listing.
LEMMA ListReinspectionStep ==
  ASSUME IInv, NEW w \in Worker, ListReinspection(w) PROVE IInv' /\ SettledKept
<1>1. Preserving
  BY UnchangedPreserving DEF ListReinspection, IInv, TypeOK
<1>2. StoresGrow
  BY DEF IInv, TypeOK, StoresTypeOK, StoresGrow, storeVars, ListReinspection
<1>3. WorkerTypeOK'
  <2>1. todo' \in [Worker -> SUBSET Key] /\ rnext' \in [Worker -> 0..NKeys]
    <3>1. CASE UNCHANGED <<todo, rnext>>
      BY <3>1 DEF IInv, TypeOK, WorkerTypeOK
    <3>2. CASE \E last \in Key, page \in SUBSET bucket :
                 /\ todo' = [todo EXCEPT ![w] = page]
                 /\ rnext' = [rnext EXCEPT ![w] = IF \E k \in bucket : k > last THEN last ELSE 0]
      BY <3>2, KeyIsPosition, BucketKeys DEF IInv, TypeOK, WorkerTypeOK
    <3> QED
      BY <3>1, <3>2 DEF ListReinspection
  <2> QED
    BY <2>1 DEF ListReinspection, IInv, TypeOK, WorkerTypeOK, CPTypeOK,
       Goto, Step, batchVars, bounds
<1>4. BatchInv'
  BY <1>1, <1>2 DEF IInv, TypeOK, WorkerTypeOK, BatchInv, StoresGrow, Preserving,
     ListReinspection, Goto, Step, pageVars, batchVars, bounds, IngestStep
<1> QED
  BY <1>1, <1>2, <1>3, <1>4, InvariantKept

\* Expired claims are only read.
LEMMA RecoverExpiredStep ==
  ASSUME IInv, NEW w \in Worker, RecoverExpired(w) PROVE IInv' /\ SettledKept
<1>1. Preserving
  BY UnchangedPreserving DEF RecoverExpired, IInv, TypeOK
<1>2. StoresGrow
  BY DEF IInv, TypeOK, StoresTypeOK, StoresGrow, storeVars, RecoverExpired
<1>3. WorkerTypeOK'
  BY DEF IInv, TypeOK, WorkerTypeOK, RecoverExpired, Goto, Step, pageVars, batchVars, bounds, ExpiredClaims
<1>4. BatchInv'
  BY <1>1, <1>2 DEF IInv, TypeOK, WorkerTypeOK, BatchInv, StoresGrow, Preserving,
     RecoverExpired, Goto, Step, pageVars, batchVars, bounds, IngestStep
<1> QED
  BY <1>1, <1>2, <1>3, <1>4, InvariantKept

\* Discovery inserts rows that are not settled.
LEMMA DiscoverStep ==
  ASSUME IInv, NEW w \in Worker, Discover(w) PROVE IInv' /\ SettledKept
<1>1. Preserving
  <2>1. PICK k \in todo[w] : discover_source(k)
    BY DEF Discover
  <2> QED
    BY <2>1, DiscoverPreserving DEF IInv, TypeOK, WorkerTypeOK
<1>2. StoresGrow
  BY DEF IInv, TypeOK, StoresTypeOK, StoresGrow, storeVars, Discover
<1>3. WorkerTypeOK'
  BY DEF IInv, TypeOK, WorkerTypeOK, Discover, Goto, Step, pageVars, batchVars, bounds
<1>4. BatchInv'
  BY <1>1, <1>2 DEF IInv, TypeOK, WorkerTypeOK, BatchInv, StoresGrow, Preserving,
     Discover, Goto, Step, pageVars, batchVars, bounds, IngestStep
<1> QED
  BY <1>1, <1>2, <1>3, <1>4, InvariantKept

\* Claims do not settle anything.
LEMMA ClaimStep ==
  ASSUME IInv, NEW w \in Worker, Claim(w) PROVE IInv' /\ SettledKept
<1>1. Preserving
  BY ClaimPreserving DEF Claim, IInv, TypeOK, WorkerTypeOK
<1>2. StoresGrow
  BY DEF IInv, TypeOK, StoresTypeOK, StoresGrow, storeVars, Claim
<1>3. WorkerTypeOK'
  BY DEF IInv, TypeOK, WorkerTypeOK, Claim, Goto, Step, pageVars, batchVars, bounds, ClaimResult, ToClaim
<1>4. BatchInv'
  BY <1>1, <1>2 DEF IInv, TypeOK, WorkerTypeOK, BatchInv, StoresGrow, Preserving,
     Claim, Goto, Step, pageVars, batchVars, bounds, IngestStep
<1> QED
  BY <1>1, <1>2, <1>3, <1>4, InvariantKept

\* After the read, a batch is entered only with something to ingest.
LEMMA ReadStep ==
  ASSUME IInv, NEW w \in Worker, Read(w) PROVE IInv' /\ SettledKept
<1>1. Preserving
  BY UnchangedPreserving DEF Read, IInv, TypeOK
<1>2. StoresGrow
  BY DEF IInv, TypeOK, StoresTypeOK, StoresGrow, storeVars, Read
<1>3. WorkerTypeOK'
  BY BoundAssumption DEF IInv, TypeOK, WorkerTypeOK, Read, Goto, Step, pageVars, batchVars, bounds
<1>4. BatchInv'
  BY <1>1, <1>2 DEF IInv, TypeOK, WorkerTypeOK, BatchInv, StoresGrow, Preserving,
     Read, Goto, Step, pageVars, batchVars, bounds, IngestStep
<1> QED
  BY <1>1, <1>2, <1>3, <1>4, InvariantKept

\* The counts change no state of a source.
LEMMA RecordCountsStep ==
  ASSUME IInv, NEW w \in Worker, RecordCounts(w) PROVE IInv' /\ SettledKept
<1>1. Preserving
  BY UnchangedPreserving DEF RecordCounts, IInv, TypeOK
<1>2. StoresGrow
  BY DEF IInv, TypeOK, StoresTypeOK, StoresGrow, storeVars, RecordCounts
<1>3. WorkerTypeOK'
  BY DEF IInv, TypeOK, WorkerTypeOK, RecordCounts, Goto, Step, pageVars, batchVars, bounds
<1>4. BatchInv'
  BY <1>1, <1>2 DEF IInv, TypeOK, WorkerTypeOK, BatchInv, StoresGrow, Preserving,
     RecordCounts, Goto, Step, pageVars, batchVars, bounds, IngestStep
<1> QED
  BY <1>1, <1>2, <1>3, <1>4, InvariantKept

\* The batch's manifest covers exactly its sources and is archived.
LEMMA PublishArchiveStep ==
  ASSUME IInv, NEW w \in Worker, PublishArchive(w) PROVE IInv' /\ SettledKept
<1>1. Preserving
  BY UnchangedPreserving DEF PublishArchive, IInv, TypeOK
<1>2. PICK l \in Layout :
         /\ mid' = [mid EXCEPT ![w] = [srcs |-> payload[w], layout |-> l]]
         /\ archive' = archive \cup {[srcs |-> payload[w], layout |-> l]}
  BY DEF PublishArchive
<1> DEFINE m == [srcs |-> payload[w], layout |-> l]
<1>3. m \in Manifest /\ m.srcs = payload[w]
  BY DEF IInv, TypeOK, WorkerTypeOK, BatchInv, PublishArchive, IngestStep, Manifest
<1> HIDE DEF m
<1>4. StoresGrow
  BY <1>2, <1>3 DEF IInv, TypeOK, StoresTypeOK, StoresGrow, storeVars, PublishArchive, m
<1>5. WorkerTypeOK'
  BY <1>2, <1>3 DEF IInv, TypeOK, WorkerTypeOK, PublishArchive, Goto, Step, pageVars, bounds, m
<1>6. BatchInv'
  BY <1>1, <1>2, <1>3, <1>4 DEF IInv, TypeOK, WorkerTypeOK, BatchInv, StoresGrow, Preserving,
     PublishArchive, Goto, Step, IngestStep, m
<1> QED
  BY <1>1, <1>4, <1>5, <1>6, InvariantKept

\* The manifest is registered when the worker goes on to ClickHouse.
LEMMA PublishControlManifestStep ==
  ASSUME IInv, NEW w \in Worker, PublishControlManifest(w) PROVE IInv' /\ SettledKept
<1>0. /\ mid[w] \in archive \cup old /\ mid[w] \in Manifest
      /\ pc[w] \in {"facts", "derived"} => mid[w] \in Registered
  BY DEF IInv, TypeOK, StoresTypeOK, CPTypeOK, WorkerTypeOK, BatchInv, PublishControlManifest
<1>1. Preserving /\ mid[w] \in Registered'
  BY <1>0, RegisterPreserving DEF PublishControlManifest, IInv, TypeOK
<1>2. StoresGrow
  BY <1>0, <1>1 DEF IInv, TypeOK, StoresTypeOK, StoresGrow, storeVars, PublishControlManifest
<1>3. WorkerTypeOK'
  BY DEF IInv, TypeOK, WorkerTypeOK, PublishControlManifest, Goto, Step, pageVars, batchVars, bounds
<1>4. BatchInv'
  BY <1>0, <1>1, <1>2 DEF IInv, TypeOK, WorkerTypeOK, BatchInv, StoresGrow, Preserving,
     PublishControlManifest, Goto, Step, pageVars, batchVars, bounds, IngestStep, RegistrationAccepted
<1> QED
  BY <1>1, <1>2, <1>3, <1>4, InvariantKept

\* Facts become visible for a registered, archived batch.
LEMMA PublishFactsStep ==
  ASSUME IInv, NEW w \in Worker, PublishFacts(w) PROVE IInv' /\ SettledKept
<1>0. /\ mid[w] \in archive \cup old /\ mid[w] \in Manifest
      /\ pc[w] \in {"facts", "derived"} => mid[w] \in Registered
  BY DEF IInv, TypeOK, StoresTypeOK, CPTypeOK, WorkerTypeOK, BatchInv, PublishFacts
<1>1. Preserving
  BY UnchangedPreserving DEF PublishFacts, IInv, TypeOK
<1>2. StoresGrow
  BY <1>0, <1>1 DEF IInv, TypeOK, StoresTypeOK, StoresGrow, storeVars, PublishFacts
<1>3. WorkerTypeOK'
  BY DEF IInv, TypeOK, WorkerTypeOK, PublishFacts, Goto, Step, pageVars, batchVars, bounds
<1>4. BatchInv'
  BY <1>0, <1>1, <1>2 DEF IInv, TypeOK, WorkerTypeOK, BatchInv, StoresGrow, Preserving,
     PublishFacts, Goto, Step, pageVars, batchVars, bounds, IngestStep
<1> QED
  BY <1>1, <1>2, <1>3, <1>4, InvariantKept

\* So do the derived rows.
LEMMA PublishDerivedStep ==
  ASSUME IInv, NEW w \in Worker, PublishDerived(w) PROVE IInv' /\ SettledKept
<1>0. /\ mid[w] \in archive \cup old /\ mid[w] \in Manifest
      /\ pc[w] \in {"facts", "derived"} => mid[w] \in Registered
  BY DEF IInv, TypeOK, StoresTypeOK, CPTypeOK, WorkerTypeOK, BatchInv, PublishDerived
<1>1. Preserving
  BY UnchangedPreserving DEF PublishDerived, IInv, TypeOK
<1>2. StoresGrow
  BY <1>0, <1>1 DEF IInv, TypeOK, StoresTypeOK, StoresGrow, storeVars, PublishDerived
<1>3. WorkerTypeOK'
  BY DEF IInv, TypeOK, WorkerTypeOK, PublishDerived, Goto, Step, pageVars, batchVars, bounds
<1>4. BatchInv'
  BY <1>0, <1>1, <1>2 DEF IInv, TypeOK, WorkerTypeOK, BatchInv, StoresGrow, Preserving,
     PublishDerived, Goto, Step, pageVars, batchVars, bounds, IngestStep
<1> QED
  BY <1>1, <1>2, <1>3, <1>4, InvariantKept

\* An exception leaves everything as it is.
LEMMA IngestFailsStep ==
  ASSUME IInv, NEW w \in Worker, IngestFails(w) PROVE IInv' /\ SettledKept
<1>1. Preserving
  BY UnchangedPreserving DEF IngestFails, IInv, TypeOK
<1>2. StoresGrow
  BY DEF IInv, TypeOK, StoresTypeOK, StoresGrow, storeVars, IngestFails
<1>3. WorkerTypeOK'
  BY BoundAssumption DEF IInv, TypeOK, WorkerTypeOK, IngestFails, Goto, Step, pageVars, batchVars, bounds
<1>4. BatchInv'
  BY <1>1, <1>2 DEF IInv, TypeOK, WorkerTypeOK, BatchInv, StoresGrow, Preserving,
     IngestFails, Goto, Step, pageVars, batchVars, bounds, IngestStep
<1> QED
  BY <1>1, <1>2, <1>3, <1>4, InvariantKept

\* Failing the sources settles nothing.
LEMMA FailSourcesStep ==
  ASSUME IInv, NEW w \in Worker, FailSources(w) PROVE IInv' /\ SettledKept
<1>1. Preserving
  BY FailPreserving DEF FailSources, IInv, TypeOK, WorkerTypeOK
<1>2. StoresGrow
  BY DEF IInv, TypeOK, StoresTypeOK, StoresGrow, storeVars, FailSources
<1>3. WorkerTypeOK'
  BY DEF IInv, TypeOK, WorkerTypeOK, FailSources, Goto, Step, pageVars, batchVars, bounds, EndBatch
<1>4. BatchInv'
  BY <1>1, <1>2 DEF IInv, TypeOK, WorkerTypeOK, BatchInv, StoresGrow, Preserving,
     FailSources, Goto, Step, pageVars, batchVars, bounds, EndBatch, IngestStep
<1> QED
  BY <1>1, <1>2, <1>3, <1>4, InvariantKept

\* Nor does failing to fail them.
LEMMA FailSourcesFailsStep ==
  ASSUME IInv, NEW w \in Worker, FailSourcesFails(w) PROVE IInv' /\ SettledKept
<1>1. Preserving
  BY UnchangedPreserving DEF FailSourcesFails, IInv, TypeOK
<1>2. StoresGrow
  BY DEF IInv, TypeOK, StoresTypeOK, StoresGrow, storeVars, FailSourcesFails
<1>3. WorkerTypeOK'
  BY BoundAssumption DEF IInv, TypeOK, WorkerTypeOK, FailSourcesFails, Goto, Step, pageVars, batchVars, bounds, EndBatch
<1>4. BatchInv'
  BY <1>1, <1>2 DEF IInv, TypeOK, WorkerTypeOK, BatchInv, StoresGrow, Preserving,
     FailSourcesFails, Goto, Step, pageVars, batchVars, bounds, EndBatch, IngestStep
<1> QED
  BY <1>1, <1>2, <1>3, <1>4, InvariantKept

\* A missing source is settled by nobody; if somebody did, the page ends.
LEMMA MarkMissingStep ==
  ASSUME IInv, NEW w \in Worker, MarkMissing(w) PROVE IInv' /\ SettledKept
<1>1. PICK k \in todo[w] :
        \/ MissingRefused(k) /\ EndPage(w) /\ UNCHANGED cpVars
        \/ /\ mark_source_missing(k)
           /\ todo' = [todo EXCEPT ![w] = @ \ {k}]
           /\ Goto(w, IF todo[w] # {k} THEN "missing"
                      ELSE IF payload[w] # {} THEN "count" ELSE "advance")
           /\ UNCHANGED <<active, failed, pageVars, batchVars>>
  BY DEF MarkMissing
<1>2. k \in Key
  BY DEF IInv, TypeOK, WorkerTypeOK
<1>3. Preserving
  BY <1>1, <1>2, UnchangedPreserving, MissingPreserving DEF IInv, TypeOK
<1>4. StoresGrow
  BY DEF MarkMissing, IInv, TypeOK, StoresTypeOK, StoresGrow, storeVars
<1>5. CASE EndPage(w)
  BY <1>3, <1>4, <1>5, PageEnds, InvariantKept
     DEF MarkMissing, IInv, TypeOK, WorkerTypeOK, Preserving, bounds
<1>6. CASE mark_source_missing(k) /\ UNCHANGED <<active, failed, pageVars, batchVars>>
           /\ todo' = [todo EXCEPT ![w] = @ \ {k}]
           /\ Goto(w, IF todo[w] # {k} THEN "missing"
                      ELSE IF payload[w] # {} THEN "count" ELSE "advance")
  <2>1. WorkerTypeOK'
    BY <1>6 DEF MarkMissing, IInv, TypeOK, WorkerTypeOK, Goto, Step, pageVars, batchVars, bounds
  <2>2. BatchInv'
    BY <1>3, <1>4, <1>6 DEF MarkMissing, IInv, TypeOK, WorkerTypeOK, BatchInv, StoresGrow,
       Preserving, Goto, Step, IngestStep, batchVars
  <2> QED
    BY <1>3, <1>4, <2>1, <2>2, InvariantKept
<1> QED
  BY <1>1, <1>5, <1>6

\* The acknowledgement itself, whether or not its reply arrives: what it settles
\* is exactly what this replica's manifest covers.
LEMMA AcknowledgeDurable ==
  ASSUME IInv, NEW w \in Worker, pc[w] = "ack", UNCHANGED storeVars,
         acknowledge_sources_batch(payload[w], mid[w], AckCursor(w))
  PROVE  /\ CPTypeOK' /\ StoresTypeOK' /\ Registered' = Registered /\ old' = old
         /\ AcknowledgedIsDurable' /\ VisibleIsRebuildable' /\ SettledKept
<1>1. /\ mid[w] \in archive \cup old /\ mid[w] \in Manifest /\ mid[w].srcs = payload[w]
      /\ mid[w] \in Registered /\ mid[w] \in facts /\ mid[w] \in derived
  BY DEF IInv, TypeOK, StoresTypeOK, CPTypeOK, BatchInv
<1>2. payload[w] \in SUBSET Key /\ AckCursor(w) \in 0..NKeys
  BY KeysAssumption DEF IInv, TypeOK, WorkerTypeOK, AckCursor
<1>3. /\ CPTypeOK'
      /\ Registered' = Registered /\ old' = old
      /\ \A k \in payload[w] : status'[k] = "acknowledged" /\ link'[k] = mid[w]
      /\ \A k \in Key \ payload[w] : status'[k] = status[k] /\ link'[k] = link[k]
  BY <1>1, <1>2, AcknowledgeEffect DEF IInv, TypeOK
<1>4. StoresTypeOK' /\ archive' = archive /\ facts' = facts /\ derived' = derived
  BY DEF IInv, TypeOK, StoresTypeOK, storeVars
<1>5. AcknowledgedIsDurable'
  <2> SUFFICES ASSUME NEW k \in Key, status'[k] \in {"acknowledged", "source_deleted"}
               PROVE  /\ link'[k] \in Registered'
                      /\ k \in link'[k].srcs
                      /\ link'[k] \in archive' \cup old'
                      /\ link'[k] \in facts' \cap derived'
    BY DEF AcknowledgedIsDurable
  <2>1. CASE k \in payload[w]
    BY <1>1, <1>3, <1>4, <2>1
  <2>2. CASE k \notin payload[w]
    BY <1>3, <1>4, <2>2 DEF IInv, AcknowledgedIsDurable
  <2> QED
    BY <2>1, <2>2
<1>6. VisibleIsRebuildable'
  BY <1>3, <1>4 DEF IInv, VisibleIsRebuildable
<1>7. SettledKept
  BY <1>3 DEF SettledKept, Settled
<1> QED
  BY <1>3, <1>4, <1>5, <1>6, <1>7

\* After an acknowledgement the batch is over, or is handed to the except branch.
LEMMA AcknowledgeStep ==
  ASSUME IInv, NEW w \in Worker, Acknowledge(w) \/ AcknowledgeReplyLost(w) PROVE IInv' /\ SettledKept
<1>1. /\ CPTypeOK' /\ StoresTypeOK' /\ Registered' = Registered /\ old' = old
      /\ AcknowledgedIsDurable' /\ VisibleIsRebuildable' /\ SettledKept
  BY AcknowledgeDurable DEF Acknowledge, AcknowledgeReplyLost
<1>2. CASE Acknowledge(w)
  <2>1. WorkerTypeOK'
    BY <1>2 DEF Acknowledge, EndBatch, IInv, TypeOK, WorkerTypeOK, Goto, Step, pageVars, bounds
  <2>2. BatchInv'
    BY <1>1, <1>2 DEF Acknowledge, EndBatch, IInv, TypeOK, WorkerTypeOK, BatchInv, Goto, Step,
       IngestStep, storeVars
  <2> QED
    BY <1>1, <2>1, <2>2 DEF IInv, TypeOK
<1>3. CASE AcknowledgeReplyLost(w)
  <2>1. WorkerTypeOK'
    BY <1>3, BoundAssumption DEF AcknowledgeReplyLost, IInv, TypeOK, WorkerTypeOK, Goto, Step,
       pageVars, batchVars
  <2>2. BatchInv'
    BY <1>1, <1>3 DEF AcknowledgeReplyLost, IInv, TypeOK, WorkerTypeOK, BatchInv, Goto, Step,
       IngestStep, batchVars, storeVars
  <2> QED
    BY <1>1, <2>1, <2>2 DEF IInv, TypeOK
<1> QED
  BY <1>2, <1>3

\* The cursor moves, or does not, and the page ends.
LEMMA AdvanceCursorStep ==
  ASSUME IInv, NEW w \in Worker, AdvanceCursor(w) PROVE IInv' /\ SettledKept
<1>1. Preserving
  <2>1. /\ next[w] \in 0..NKeys /\ rnext[w] \in 0..NKeys /\ rcursor \in 0..NKeys
        /\ fnext[w] \in 0..ReinspectionInterval /\ fwd \in 0..ReinspectionInterval
        /\ 0 \in 0..ReinspectionInterval
    BY IntervalAssumption DEF IInv, TypeOK, WorkerTypeOK, CPTypeOK
  <2>2. CASE UNCHANGED cpVars
    BY <2>2, UnchangedPreserving DEF IInv, TypeOK
  <2>3. CASE advance_reinspection_state(rnext[w], 0)
    BY <2>1, <2>3, CursorPreserving DEF IInv, TypeOK
  <2>4. CASE advance_source_cursor(next[w], IF Rum THEN rnext[w] ELSE rcursor,
                                            IF Rum THEN fnext[w] ELSE fwd)
    BY <2>1, <2>4, CursorPreserving DEF IInv, TypeOK
  <2> QED
    BY <2>2, <2>3, <2>4 DEF AdvanceCursor
<1>2. StoresGrow
  BY DEF AdvanceCursor, IInv, TypeOK, StoresTypeOK, StoresGrow, storeVars
<1> QED
  BY <1>1, <1>2, PageEnds, InvariantKept
     DEF AdvanceCursor, IInv, TypeOK, WorkerTypeOK, Preserving, bounds

\* So does an exception outside ingest_batch, ...
LEMMA PageAbortsStep ==
  ASSUME IInv, NEW w \in Worker, PageAborts(w) PROVE IInv' /\ SettledKept
<1>1. Preserving
  BY UnchangedPreserving DEF PageAborts, IInv, TypeOK
<1>2. StoresGrow
  BY DEF PageAborts, IInv, TypeOK, StoresTypeOK, StoresGrow, storeVars
<1>3. faults' \in 0..MaxFaults
  BY BoundAssumption DEF PageAborts, IInv, TypeOK, WorkerTypeOK
<1> QED
  BY <1>1, <1>2, <1>3, PageEnds, InvariantKept DEF PageAborts, IInv, Preserving

\* ... and a crash, after which the claims may belong to nobody.
LEMMA CrashStep ==
  ASSUME IInv, NEW w \in Worker, Crash(w) PROVE IInv' /\ SettledKept
<1>1. Preserving
  BY DEF Crash, IInv, TypeOK, CPTypeOK, manVars, authVars, curVars, Preserving, Registered
<1>2. StoresGrow
  BY DEF Crash, IInv, TypeOK, StoresTypeOK, StoresGrow, storeVars
<1>3. faults' \in 0..MaxFaults
  BY BoundAssumption DEF Crash, IInv, TypeOK, WorkerTypeOK
<1> QED
  BY <1>1, <1>2, <1>3, PageEnds, InvariantKept DEF Crash, IInv, Preserving

\* The environment: objects come and go, leases run out.
LEMMA EnvironmentStep ==
  ASSUME IInv, NEW k \in Key, Environment(k) PROVE IInv' /\ SettledKept
<1>1. Preserving
  BY UnchangedPreserving, LeasePreserving
     DEF Environment, Arrive, Vanish, LeaseTimeout, IInv, TypeOK
<1>2. StoresGrow
  BY DEF Environment, Arrive, Vanish, LeaseTimeout, IInv, TypeOK, StoresTypeOK, StoresGrow,
     storeVars
<1>3. UNCHANGED localVars /\ WorkerTypeOK'
  BY BoundAssumption DEF Environment, Arrive, Vanish, LeaseTimeout, IInv, TypeOK,
     WorkerTypeOK, localVars, pageVars, batchVars, bounds
<1>4. BatchInv'
  BY <1>1, <1>2, <1>3 DEF IInv, BatchInv, Preserving, StoresGrow, localVars, batchVars
<1> QED
  BY <1>1, <1>2, <1>3, <1>4, InvariantKept

-----------------------------------------------------------------------------
\* Every step of every replica and of the environment keeps the invariant.
LEMMA StepIInv == IInv /\ [Next]_vars => IInv' /\ SettledKept
<1> SUFFICES ASSUME IInv, [Next]_vars PROVE IInv' /\ SettledKept
  OBVIOUS
<1>1. CASE \E w \in Worker : WorkerStep(w)
  <2>1. PICK w \in Worker : WorkerStep(w)
    BY <1>1
  <2> QED
    BY <2>1, ListForwardStep, ListReinspectionStep, RecoverExpiredStep, DiscoverStep,
       ClaimStep, ReadStep, MarkMissingStep, RecordCountsStep, PublishArchiveStep,
       PublishControlManifestStep, PublishFactsStep, PublishDerivedStep, AcknowledgeStep,
       FailSourcesStep, AdvanceCursorStep DEF WorkerStep
<1>2. CASE \E w \in Worker : WorkerFault(w)
  BY <1>2, AcknowledgeStep, IngestFailsStep, FailSourcesFailsStep, PageAbortsStep, CrashStep
     DEF WorkerFault
<1>3. CASE \E k \in Key : Environment(k)
  BY <1>3, EnvironmentStep
<1>4. CASE UNCHANGED vars
  <2>1. Preserving /\ StoresGrow
    BY <1>4, UnchangedPreserving DEF vars, storeVars, IInv, TypeOK, StoresTypeOK, StoresGrow
  <2>2. WorkerTypeOK'
    BY <1>4 DEF IInv, TypeOK, WorkerTypeOK, vars, localVars, pageVars, batchVars, bounds
  <2>3. BatchInv'
    BY <1>4, <2>1 DEF IInv, BatchInv, Preserving, StoresGrow, vars, localVars, batchVars
  <2> QED
    BY <2>1, <2>2, <2>3, InvariantKept
<1> QED
  BY <1>1, <1>2, <1>3, <1>4 DEF Next

\* The inductive invariant holds in every reachable state.
THEOREM WorkerInvariant == Spec => []IInv
  BY InitIInv, StepIInv, PTL DEF Spec

\* Type correctness of the control plane, the stores and every replica.
THEOREM TypeCorrect == Spec => []TypeOK
<1>1. IInv => TypeOK
  BY DEF IInv
<1> QED
  BY <1>1, WorkerInvariant, PTL

\* However replicas crash, stall past their leases and repeat each other's work,
\* a source acknowledge_sources_batch has settled is archived under a registered
\* manifest that covers it and visible in ClickHouse.
THEOREM AcknowledgedDurable == Spec => []AcknowledgedIsDurable
<1>1. IInv => AcknowledgedIsDurable
  BY DEF IInv
<1> QED
  BY <1>1, WorkerInvariant, PTL

\* ClickHouse shows only batches that the archive can rebuild.
THEOREM VisibleRebuildable == Spec => []VisibleIsRebuildable
<1>1. IInv => VisibleIsRebuildable
  BY DEF IInv
<1> QED
  BY <1>1, WorkerInvariant, PTL

\* No replica, however late, takes a settled source back into the work queue or
\* reports it missing.
THEOREM AcknowledgedFinal == Spec => AcknowledgedIsFinal
<1>1. IInv /\ [Next]_vars =>
        [\A k \in Key : status[k] \in {"acknowledged", "source_deleted"} =>
            status'[k] \in {"acknowledged", "source_deleted"}]_vars
  BY StepIInv DEF SettledKept, Settled
<1> QED
  BY <1>1, WorkerInvariant, PTL DEF Spec, AcknowledgedIsFinal
-----------------------------------------------------------------------------
(* What the replicas have seen has a row, and what has a row has arrived. *)

\* Rows are of objects that arrived; a replica lists objects that arrived and
\* works on, archives and registers only sources that have a row.
KnownInv ==
    /\ \A k \in Key : status[k] # "absent" => k \in arrived
    /\ \A w \in Worker : todo[w] \subseteq arrived
    /\ \A w \in Worker : \A k \in active[w] \cup payload[w] : status[k] # "absent"
    /\ \A m \in archive \cup Registered : \A k \in m.srcs : status[k] # "absent"
    /\ due \subseteq Registered /\ old \subseteq Registered

\* A page that is being discovered, and the positions its keys are below.
Listed == {"recover", "discover"}

\* Everything up to a replica's next_cursor has a row or is still on its page,
\* and a cursor is the key of an object that arrived.
CursorInv ==
    /\ cursor \in arrived \cup {0}
    /\ \A w \in Worker : next[w] \in arrived \cup {0}
    /\ \A k \in bucket : k <= cursor => status[k] # "absent"
    /\ \A w \in Worker : \A k \in bucket :
           k <= next[w] => status[k] # "absent" \/ (pc[w] \in Listed /\ k \in todo[w])

\* No row is deleted or becomes source_deleted, and a new one is of an object
\* that arrived.
RowsKept ==
    \A k \in Key :
        /\ status[k] # "absent" => status'[k] # "absent"
        /\ status'[k] # "absent" => status[k] # "absent" \/ k \in arrived
        /\ status'[k] = "source_deleted" => status[k] = "source_deleted"

\* No replica deletes a row, whatever transaction it makes.
LEMMA RowsKeptStep ==
  ASSUME IInv, KnownInv, [Next]_vars PROVE RowsKept
<1> USE DEF IInv, TypeOK, CPTypeOK, WorkerTypeOK, RowsKept
<1>1. CASE UNCHANGED status
  BY <1>1
<1>2. ASSUME NEW w \in Worker, Discover(w) PROVE RowsKept
  BY <1>2 DEF Discover, discover_source, KnownInv
<1>3. ASSUME NEW w \in Worker, Claim(w) PROVE RowsKept
  BY <1>3 DEF Claim, claim_sources_batch, ToClaim, Claimable
<1>4. ASSUME NEW w \in Worker, MarkMissing(w) PROVE RowsKept
  BY <1>4 DEF MarkMissing, mark_source_missing, KnownInv, cpVars, srcVars
<1>5. ASSUME NEW w \in Worker, Acknowledge(w) \/ AcknowledgeReplyLost(w) PROVE RowsKept
  BY <1>5 DEF Acknowledge, AcknowledgeReplyLost, acknowledge_sources_batch, KnownInv
<1>6. ASSUME NEW w \in Worker, FailSources(w) PROVE RowsKept
  BY <1>6 DEF FailSources, fail_sources_batch, Failing
<1>7. ASSUME NEW w \in Worker, ListForward(w) \/ ListReinspection(w) \/ RecoverExpired(w) \/ Read(w)
                               \/ RecordCounts(w) \/ PublishArchive(w) \/ PublishFacts(w)
                               \/ PublishDerived(w) \/ IngestFails(w) \/ FailSourcesFails(w)
                               \/ PageAborts(w)
      PROVE  UNCHANGED status
  BY <1>7 DEF ListForward, ListReinspection, RecoverExpired, Read, RecordCounts, PublishArchive,
     PublishFacts, PublishDerived, IngestFails, FailSourcesFails, PageAborts, cpVars, srcVars
<1>8. ASSUME NEW w \in Worker, PublishControlManifest(w) \/ AdvanceCursor(w) \/ Crash(w)
      PROVE  UNCHANGED status
  BY <1>8 DEF PublishControlManifest, register_archive_manifest, AdvanceCursor,
     advance_reinspection_state, advance_source_cursor, Crash, cpVars, srcVars
<1>9. ASSUME NEW k \in Key, Environment(k) PROVE UNCHANGED status
  BY <1>9 DEF Environment, Arrive, Vanish, LeaseTimeout, LeaseExpires, cpVars, srcVars
<1>10. ASSUME UNCHANGED vars PROVE UNCHANGED status
  BY <1>10 DEF vars, cpVars, srcVars
<1> QED
  BY <1>1, <1>2, <1>3, <1>4, <1>5, <1>6, <1>7, <1>8, <1>9, <1>10
     DEF Next, WorkerStep, WorkerFault

\* What a page gains was listed, has a row, or was on the page before.
PageGrows ==
    \A w \in Worker :
        /\ todo'[w] \subseteq todo[w] \cup active[w] \cup bucket
        /\ \A k \in active'[w] : k \in active[w] \/ status'[k] # "absent"
        /\ payload'[w] \subseteq payload[w] \cup active[w]

\* Every step fills pages from the listing and from expired claims only.
LEMMA PageGrowsStep ==
  ASSUME IInv, [Next]_vars PROVE PageGrows
<1> USE DEF IInv, TypeOK, CPTypeOK, StoresTypeOK, WorkerTypeOK, PageGrows
<1>1. CASE UNCHANGED <<todo, active, payload>>
  BY <1>1
<1>2. ASSUME NEW w \in Worker, ListForward(w) \/ ListReinspection(w) PROVE PageGrows
  BY <1>2 DEF ListForward, ListReinspection, batchVars
<1>3. ASSUME NEW w \in Worker, RecoverExpired(w) PROVE PageGrows
  BY <1>3 DEF RecoverExpired, ExpiredClaims, batchVars, cpVars, srcVars
<1>4. ASSUME NEW w \in Worker, Discover(w) PROVE PageGrows
  BY <1>4 DEF Discover, discover_source, batchVars
<1>5. ASSUME NEW w \in Worker, Claim(w) PROVE PageGrows
  BY <1>5 DEF Claim, ClaimResult, ToClaim, batchVars
<1>6. ASSUME NEW w \in Worker, Read(w) PROVE PageGrows
  BY <1>6 DEF Read
<1>7. ASSUME NEW w \in Worker, MarkMissing(w) PROVE PageGrows
  BY <1>7 DEF MarkMissing, EndPage, EndBatch, batchVars
<1>8. ASSUME NEW w \in Worker, Acknowledge(w) \/ FailSources(w) \/ FailSourcesFails(w) PROVE PageGrows
  BY <1>8 DEF Acknowledge, FailSources, FailSourcesFails, EndBatch
<1>9. ASSUME NEW w \in Worker, AdvanceCursor(w) \/ PageAborts(w) \/ Crash(w) PROVE PageGrows
  BY <1>9 DEF AdvanceCursor, PageAborts, Crash, EndPage, EndBatch
<1>10. ASSUME NEW w \in Worker, RecordCounts(w) \/ PublishArchive(w) \/ PublishControlManifest(w)
                               \/ PublishFacts(w) \/ PublishDerived(w) \/ IngestFails(w)
                               \/ AcknowledgeReplyLost(w)
      PROVE  UNCHANGED <<todo, active, payload>>
  BY <1>10 DEF RecordCounts, PublishArchive, PublishControlManifest, PublishFacts, PublishDerived,
     IngestFails, AcknowledgeReplyLost, batchVars
<1>11. ASSUME NEW k \in Key, Environment(k) PROVE UNCHANGED <<todo, active, payload>>
  BY <1>11 DEF Environment, Arrive, Vanish, LeaseTimeout, localVars, batchVars
<1>12. ASSUME UNCHANGED vars PROVE UNCHANGED <<todo, active, payload>>
  BY <1>12 DEF vars, localVars, batchVars
<1> QED
  BY <1>1, <1>2, <1>3, <1>4, <1>5, <1>6, <1>7, <1>8, <1>9, <1>10, <1>11, <1>12
     DEF Next, WorkerStep, WorkerFault

\* The archive gains a replica's batch and the control plane a row for it.
ManifestsGrow ==
    /\ \A m \in archive' \ archive : \E w \in Worker : pc[w] = "archive" /\ m.srcs = payload[w]
    /\ \A m \in Manifest : mstate'[m] = mstate[m] \/
           (mstate[m] = "absent" /\ mstate'[m] = "manifest_committed" /\ m \in archive \cup old)
    /\ arrived \subseteq arrived' /\ archive \subseteq archive'
    /\ bucket' \subseteq bucket \cup (Key \ arrived)
    /\ due' = due /\ old' = old

\* Every step archives a page's batch, registers an archived one, or neither.
LEMMA ManifestsGrowStep ==
  ASSUME IInv, [Next]_vars PROVE ManifestsGrow
<1> USE DEF IInv, TypeOK, CPTypeOK, StoresTypeOK, WorkerTypeOK, ManifestsGrow
<1>1. ASSUME UNCHANGED <<archive, mstate, arrived, bucket, due, old>> PROVE ManifestsGrow
  BY <1>1
<1>2. ASSUME NEW w \in Worker, PublishArchive(w) PROVE ManifestsGrow
  BY <1>2 DEF PublishArchive, cpVars, manVars
<1>3. ASSUME NEW w \in Worker, PublishControlManifest(w) PROVE ManifestsGrow
  BY <1>3 DEF PublishControlManifest, register_archive_manifest, BatchInv, storeVars, ArchiveState
<1>4. ASSUME NEW k \in Key, Environment(k) PROVE ManifestsGrow
  BY <1>4 DEF Environment, Arrive, Vanish, LeaseTimeout, LeaseExpires, cpVars, manVars, storeVars
<1>5. ASSUME NEW w \in Worker, ListForward(w) \/ ListReinspection(w) \/ RecoverExpired(w) \/ Discover(w)
                               \/ Claim(w) \/ Read(w) \/ MarkMissing(w) \/ RecordCounts(w)
      PROVE  UNCHANGED <<archive, mstate, arrived, bucket, due, old>>
  BY <1>5 DEF ListForward, ListReinspection, RecoverExpired, Discover, discover_source, Claim,
     claim_sources_batch, Read, MarkMissing, mark_source_missing, RecordCounts, cpVars, manVars, storeVars
<1>6. ASSUME NEW w \in Worker, PublishFacts(w) \/ PublishDerived(w) \/ Acknowledge(w)
                               \/ AcknowledgeReplyLost(w) \/ IngestFails(w) \/ FailSources(w)
                               \/ FailSourcesFails(w)
      PROVE  UNCHANGED <<archive, mstate, arrived, bucket, due, old>>
  BY <1>6 DEF PublishFacts, PublishDerived, Acknowledge, AcknowledgeReplyLost, acknowledge_sources_batch,
     IngestFails, FailSources, fail_sources_batch, FailSourcesFails, cpVars, manVars, storeVars
<1>7. ASSUME NEW w \in Worker, AdvanceCursor(w) \/ PageAborts(w) \/ Crash(w)
      PROVE  UNCHANGED <<archive, mstate, arrived, bucket, due, old>>
  BY <1>7 DEF AdvanceCursor, advance_reinspection_state, advance_source_cursor, PageAborts, Crash,
     cpVars, manVars, storeVars
<1>8. ASSUME UNCHANGED vars PROVE UNCHANGED <<archive, mstate, arrived, bucket, due, old>>
  BY <1>8 DEF vars, cpVars, manVars, storeVars
<1> QED
  BY <1>1, <1>2, <1>3, <1>4, <1>5, <1>6, <1>7, <1>8 DEF Next, WorkerStep, WorkerFault

\* So the replicas and the environment keep what they know.
LEMMA KnownStep ==
  ASSUME IInv, KnownInv, [Next]_vars PROVE KnownInv'
<1>1. RowsKept /\ PageGrows /\ ManifestsGrow
  BY RowsKeptStep, PageGrowsStep, ManifestsGrowStep
<1>2. IInv'
  BY StepIInv
<1> USE DEF IInv, TypeOK, CPTypeOK, StoresTypeOK, WorkerTypeOK, RowsKept, PageGrows, ManifestsGrow
<1>3. \A k \in Key : status'[k] # "absent" => k \in arrived'
  BY <1>1 DEF KnownInv
<1>4. \A w \in Worker : todo'[w] \subseteq arrived'
  BY <1>1 DEF KnownInv
<1>5. \A w \in Worker : \A k \in active'[w] \cup payload'[w] : status'[k] # "absent"
  BY <1>1, <1>2 DEF KnownInv
<1>6. \A m \in archive' \cup Registered' : \A k \in m.srcs : status'[k] # "absent"
  <2> SUFFICES ASSUME NEW m \in archive' \cup Registered', NEW k \in m.srcs
               PROVE  status'[k] # "absent"
    OBVIOUS
  <2>1. m \in Manifest /\ k \in Key
    BY <1>2 DEF Registered, Manifest
  <2>2. status[k] # "absent"
    BY <1>1, <2>1 DEF KnownInv, Registered
  <2> QED
    BY <1>1, <2>1, <2>2
<1>7. due' \subseteq Registered' /\ old' \subseteq Registered'
  BY <1>1, <1>2 DEF KnownInv, Registered
<1> QED
  BY <1>3, <1>4, <1>5, <1>6, <1>7 DEF KnownInv

\* Whoever lists, archives or registers, works on rows of objects that arrived.
THEOREM WorkersKnow == Spec => [](IInv /\ KnownInv)
<1>1. Init => KnownInv
  BY DEF Init, CPInit, StoresInit, KnownInv, Registered
<1>2. KnownInv /\ IInv /\ [Next]_vars => KnownInv'
  BY KnownStep
<1> QED
  BY <1>1, <1>2, WorkerInvariant, PTL DEF Spec

-----------------------------------------------------------------------------
(* The listing cursor *)

\* A step that lists and discovers nothing new and takes its cursor, if any,
\* from a page whose keys have all been discovered.
CursorFollows ==
    /\ \A w \in Worker : next'[w] \in {next[w], 0}
    /\ \A w \in Worker : pc[w] \in Listed =>
           \/ pc'[w] \in Listed /\ todo'[w] = todo[w]
           \/ next'[w] = 0
           \/ todo[w] = {}
    /\ \/ cursor' = cursor
       \/ \E w \in Worker : pc[w] \notin Listed /\ cursor' = next[w]
    /\ bucket' \subseteq bucket

\* Such a step moves the cursor past nothing that has no row.
LEMMA CursorKept ==
  ASSUME IInv, IInv', CursorInv, RowsKept, CursorFollows, arrived \subseteq arrived'
  PROVE  CursorInv'
<1> USE DEF IInv, TypeOK, CPTypeOK, StoresTypeOK, WorkerTypeOK, CursorInv, RowsKept, CursorFollows
<1>1. cursor' \in arrived' \cup {0} /\ \A w \in Worker : next'[w] \in arrived' \cup {0}
  OBVIOUS
<1>2. \A k \in bucket' : k <= cursor' => status'[k] # "absent"
  OBVIOUS
<1>3. ASSUME NEW w \in Worker, NEW k \in bucket', k <= next'[w]
      PROVE  status'[k] # "absent" \/ (pc'[w] \in Listed /\ k \in todo'[w])
  <2>1. next'[w] = next[w] /\ k \in Key /\ k \in bucket
    BY <1>3, KeysAssumption DEF Key
  <2>2. next'[w] # 0
    BY <1>3, <2>1, KeysAssumption DEF Key
  <2>3. status[k] # "absent" \/ (pc[w] \in Listed /\ k \in todo[w])
    BY <1>3, <2>1
  <2>4. pc[w] \in Listed /\ k \in todo[w] => pc'[w] \in Listed /\ todo'[w] = todo[w]
    BY <2>2
  <2> QED
    BY <2>1, <2>3, <2>4
<1> QED
  BY <1>1, <1>2, <1>3

\* Listing, discovery and arrivals keep it as well: a page starts at the
\* cursor and holds everything up to its last key, discovery gives each of its
\* keys a row before the page is claimed, and objects arrive in key order.
LEMMA CursorStep ==
  ASSUME InOrder, IInv, KnownInv, CursorInv, [Next]_vars PROVE CursorInv'
<1>0. RowsKept /\ IInv' /\ arrived \subseteq arrived'
  BY RowsKeptStep, StepIInv, ManifestsGrowStep DEF ManifestsGrow
<1>a. SUFFICES ASSUME ~CursorFollows PROVE CursorInv'
  BY <1>0, CursorKept
<1> USE DEF IInv, TypeOK, CPTypeOK, StoresTypeOK, WorkerTypeOK, Key
<1>1. ASSUME NEW w \in Worker, ListForward(w) PROVE CursorInv'
  <2>1. /\ UNCHANGED <<cursor, status, arrived, bucket>>
        /\ \A v \in Worker : v # w => pc'[v] = pc[v] /\ next'[v] = next[v] /\ todo'[v] = todo[v]
        /\ pc'[w] \in Listed
    BY <1>1 DEF ListForward, cpVars, srcVars, curVars, storeVars, Goto, Listed
  <2>2. CASE \A k \in bucket : k <= cursor
    <3>1. ASSUME NEW last \in Key, NEW page \in SUBSET bucket, IsPage(page, cursor, last) PROVE FALSE
      BY <2>2, <3>1 DEF IsPage
    <3>2. todo' = todo /\ next'[w] = cursor
      BY <1>1, <3>1 DEF ListForward
    <3> QED
      BY <2>1, <3>2 DEF CursorInv
  <2>3. CASE \E last \in Key, page \in SUBSET bucket :
               /\ IsPage(page, cursor, last)
               /\ todo' = [todo EXCEPT ![w] = page]
               /\ next' = [next EXCEPT ![w] = last]
    <3>1. PICK last \in Key, page \in SUBSET bucket :
               /\ IsPage(page, cursor, last)
               /\ todo' = [todo EXCEPT ![w] = page]
               /\ next' = [next EXCEPT ![w] = last]
      BY <2>3
    <3>2. /\ next'[w] = last /\ todo'[w] = page /\ last \in arrived
          /\ \A k \in bucket : k <= last => k <= cursor \/ k \in page
      BY <3>1, KeysAssumption DEF IsPage
    <3> QED
      BY <2>1, <3>2 DEF CursorInv
  <2> QED
    BY <1>1, <2>2, <2>3 DEF ListForward
<1>2. ASSUME NEW w \in Worker, ListReinspection(w) PROVE CursorInv'
  BY <1>2 DEF ListReinspection, cpVars, srcVars, curVars, storeVars, Goto, Listed, CursorInv
<1>3. ASSUME NEW w \in Worker, Discover(w) PROVE CursorInv'
  BY <1>3, <1>0, SMTT(30) DEF Discover, discover_source, curVars, pageVars, storeVars, Goto, Listed, CursorInv, RowsKept
<1>4. ASSUME NEW k \in Key, Arrive(k) PROVE CursorInv'
  <2>1. /\ UNCHANGED <<cursor, status, pc, next, todo>>
        /\ bucket' = bucket \cup {k} /\ arrived' = arrived \cup {k}
        /\ \A j \in arrived : j < k
    BY <1>4 DEF Arrive, cpVars, srcVars, curVars, localVars, pageVars
  <2>2. ~(k <= cursor) /\ \A w \in Worker : ~(k <= next[w])
    BY <2>1, KeysAssumption DEF CursorInv
  <2> QED
    BY <2>1, <2>2 DEF CursorInv
<1> USE DEF CursorFollows, Listed
<1>5. ASSUME NEW w \in Worker, RecoverExpired(w) PROVE CursorFollows
  BY <1>5 DEF RecoverExpired, cpVars, curVars, storeVars, Goto, pageVars
<1>6. ASSUME NEW w \in Worker, Claim(w) \/ Read(w) \/ RecordCounts(w) PROVE CursorFollows
  BY <1>6 DEF Claim, claim_sources_batch, Read, RecordCounts, cpVars, curVars, storeVars, Goto, pageVars
<1>7. ASSUME NEW w \in Worker, MarkMissing(w) PROVE CursorFollows
  BY <1>7, SMTT(30) DEF MarkMissing, mark_source_missing, cpVars, curVars, storeVars, Goto, pageVars, EndPage
<1>8. ASSUME NEW w \in Worker, PublishArchive(w) \/ PublishControlManifest(w) \/ PublishFacts(w)
                               \/ PublishDerived(w) \/ IngestFails(w)
      PROVE  CursorFollows
  BY <1>8 DEF PublishArchive, PublishControlManifest, register_archive_manifest, PublishFacts,
     PublishDerived, IngestFails, IngestStep, cpVars, curVars, storeVars, Goto, pageVars
<1>9. ASSUME NEW w \in Worker, Acknowledge(w) \/ AcknowledgeReplyLost(w) PROVE CursorFollows
  BY <1>9 DEF Acknowledge, AcknowledgeReplyLost, acknowledge_sources_batch, AckCursor,
     storeVars, Goto, pageVars
<1>10. ASSUME NEW w \in Worker, FailSources(w) \/ FailSourcesFails(w) PROVE CursorFollows
  BY <1>10 DEF FailSources, FailSourcesFails, fail_sources_batch, cpVars, curVars, storeVars, Goto, pageVars
<1>11. ASSUME NEW w \in Worker, AdvanceCursor(w) PROVE CursorFollows
  BY <1>11 DEF AdvanceCursor, advance_reinspection_state, advance_source_cursor, cpVars, curVars,
     storeVars, Goto, EndPage
<1>12. ASSUME NEW w \in Worker, PageAborts(w) \/ Crash(w) PROVE CursorFollows
  BY <1>12 DEF PageAborts, Crash, cpVars, curVars, storeVars, Goto, EndPage
<1>13. ASSUME NEW k \in Key, Vanish(k) \/ LeaseTimeout(k) PROVE CursorFollows
  BY <1>13 DEF Vanish, LeaseTimeout, LeaseExpires, cpVars, curVars, storeVars, localVars, pageVars
<1>14. ASSUME UNCHANGED vars PROVE CursorFollows
  BY <1>14 DEF vars, cpVars, curVars, storeVars, localVars, pageVars
<1> QED
  BY <1>a, <1>1, <1>2, <1>3, <1>4, <1>5, <1>6, <1>7, <1>8, <1>9, <1>10, <1>11, <1>12, <1>13, <1>14
     DEF Next, WorkerStep, WorkerFault, Environment

\* However stale the page a replica advances the cursor from, no raw object is
\* left behind it without a row.
THEOREM CursorNeverSkips == Spec => []CursorSkipsNothing
<1>1. CASE InOrder
  <2>1. Init => CursorInv
    BY KeysAssumption DEF Init, CPInit, StoresInit, CursorInv
  <2>2. IInv /\ KnownInv /\ CursorInv /\ [Next]_vars => CursorInv'
    BY <1>1, CursorStep
  <2>3. CursorInv => CursorSkipsNothing
    BY DEF CursorInv, CursorSkipsNothing
  <2> QED
    BY <2>1, <2>2, <2>3, WorkersKnow, PTL DEF Spec
<1>2. CASE ~InOrder
  <2>1. CursorSkipsNothing
    BY <1>2 DEF CursorSkipsNothing
  <2> QED
    BY <2>1, PTL
<1> QED
  BY <1>1, <1>2

-----------------------------------------------------------------------------
(* HighScalePlane: what a sweep knows *)

\* The steps of a sweep that work on one manifest.
AtManifest == {"promote", "authorize", "delete", "mark", "expired"}

\* What a sweep has established when it deletes, marks and expires.
SweepKnows(s) ==
    /\ spc[s] \in AtManifest => sman[s] \in Manifest
    /\ spc[s] = "delete" => /\ sman[s] \in Registered /\ sman[s] \in archive \cup old
                            /\ skeys[s] \subseteq sman[s].srcs
    /\ \A k \in sgone[s] : k \notin bucket /\ status[k] # "absent"
    /\ \A m \in xplan[s] : m \in old /\ mstate[m] = "source_deleted"

\* What the rows say about the bucket, and the sweeps about both.
SweepInv ==
    /\ \A k \in Key : status[k] = "source_deleted" => k \notin bucket
    /\ \A m \in Manifest : mstate[m] = "source_deleted" => m.srcs \cap bucket = {}
    /\ \A s \in Sweeper : SweepKnows(s)

PlaneInv ==
    /\ IInv /\ KnownInv /\ SweepTypeOK /\ SweepInv
    /\ SweptIsArchived /\ ExpiredHasNoRaw

-----------------------------------------------------------------------------
(* The ingest workers, seen from the sweeps *)

\* A replica, however late, brings no deleted object and no expired archive
\* back into the sweeps' way.
LEMMA WorkersKeepPlane ==
  ASSUME PlaneInv, [Next]_vars, UNCHANGED sweepVars
  PROVE  PlaneInv' /\ SettledKept
<1> USE DEF PlaneInv
<1>1. IInv' /\ SettledKept /\ KnownInv' /\ RowsKept /\ ManifestsGrow
  BY StepIInv, KnownStep, RowsKeptStep, ManifestsGrowStep
<1>2. SweepTypeOK'
  BY DEF SweepTypeOK, sweepVars, sweepLocals
<1> USE DEF IInv, TypeOK, CPTypeOK, StoresTypeOK
<1>3. \A k \in Key : k \notin bucket /\ status[k] # "absent" => k \notin bucket'
  BY <1>1 DEF KnownInv, ManifestsGrow
<1>4. \A m \in Registered : m \in Manifest /\ m.srcs \subseteq Key
                            /\ \A k \in m.srcs : status[k] # "absent"
  BY DEF KnownInv, Registered, Manifest
<1>5. \A m \in Registered : m.srcs \cap bucket = {} => m.srcs \cap bucket' = {}
  BY <1>3, <1>4
<1>6. /\ Registered \subseteq Registered' /\ old' = old /\ archive \subseteq archive'
      /\ \A m \in Registered' : m \in Registered \/ m \in archive \cup old
      /\ \A m \in Manifest : mstate'[m] = "source_deleted" <=> mstate[m] = "source_deleted"
  BY <1>1 DEF ManifestsGrow, Registered
<1>7. SweepInv'
  <2>1. \A k \in Key : status'[k] = "source_deleted" => k \notin bucket'
    BY <1>1, <1>3 DEF RowsKept, SweepInv
  <2>2. \A m \in Manifest : mstate'[m] = "source_deleted" => m.srcs \cap bucket' = {}
    BY <1>5, <1>6 DEF SweepInv, Registered
  <2>3. ASSUME NEW s \in Sweeper PROVE SweepKnows(s)'
    BY <1>1, <1>3, <1>6 DEF SweepInv, SweepKnows, SweepTypeOK, RowsKept, sweepVars, sweepLocals
  <2> QED
    BY <2>1, <2>2, <2>3 DEF SweepInv
<1>8. SweptIsArchived'
  BY <1>6 DEF SweptIsArchived, sweepVars
<1>9. ExpiredHasNoRaw'
  <2> SUFFICES ASSUME NEW m \in Registered' \ archive'
               PROVE  m \in old' /\ m.srcs \cap bucket' = {}
    BY DEF ExpiredHasNoRaw
  <2>1. m \in Registered \ archive
    BY <1>6 DEF KnownInv
  <2> QED
    BY <2>1, <1>5, <1>6 DEF ExpiredHasNoRaw
<1> QED
  BY <1>1, <1>2, <1>7, <1>8, <1>9

-----------------------------------------------------------------------------
(* The sweeps, seen from the ingest workers *)

\* A sweep's step loses no row, adds none, and takes nothing from the stores but
\* raw objects and archives past retention.
SweepKeeps ==
    /\ Preserving /\ StoresGrow
    /\ \A k \in Key : status'[k] = "absent" <=> status[k] = "absent"
    /\ Registered' = Registered /\ due' \subseteq Registered /\ old' \subseteq Registered
    /\ arrived' = arrived /\ archive' \subseteq archive
    /\ bucket' \subseteq bucket
    /\ \A m \in Manifest : mstate[m] = "source_deleted" => mstate'[m] = "source_deleted"

\* Such a step disturbs no replica.
LEMMA KeptForWorkers ==
  ASSUME IInv, KnownInv, SweepKeeps, UNCHANGED <<localVars, bounds>>
  PROVE  IInv' /\ KnownInv' /\ SettledKept
<1>1. WorkerTypeOK'
  BY DEF IInv, TypeOK, WorkerTypeOK, localVars, pageVars, batchVars, bounds
<1>2. BatchInv'
  BY DEF IInv, BatchInv, SweepKeeps, Preserving, StoresGrow, localVars, batchVars
<1>3. IInv' /\ SettledKept
  BY <1>1, <1>2, InvariantKept DEF SweepKeeps
<1>4. KnownInv'
  <2>1. \A m \in archive \cup Registered : m.srcs \subseteq Key
    BY DEF IInv, TypeOK, StoresTypeOK, Registered, Manifest
  <2>2. \A w \in Worker : active[w] \cup payload[w] \subseteq Key
    BY DEF IInv, TypeOK, WorkerTypeOK
  <2> QED
    BY <2>1, <2>2 DEF KnownInv, SweepKeeps, localVars, batchVars
<1> QED
  BY <1>3, <1>4

\* Where the control plane and the stores do not change, nothing is lost.
LEMMA UnchangedKeeps ==
  ASSUME IInv, KnownInv, UNCHANGED <<cpVars, storeVars>> PROVE SweepKeeps
<1>1. Preserving
  BY UnchangedPreserving DEF IInv, TypeOK
<1>2. StoresGrow
  BY DEF IInv, TypeOK, StoresTypeOK, StoresGrow, storeVars
<1> QED
  BY <1>1, <1>2 DEF SweepKeeps, cpVars, srcVars, manVars, storeVars, KnownInv, Registered

\* A sweep changes its own variables only.
OthersUnchanged(s) ==
    \A t \in Sweeper : t # s =>
        /\ spc'[t] = spc[t] /\ sman'[t] = sman[t] /\ skeys'[t] = skeys[t]
        /\ sgone'[t] = sgone[t] /\ xplan'[t] = xplan[t]

\* What a sweep knows is not disturbed by another one.
LEMMA OtherSweeps ==
  ASSUME PlaneInv, SweepKeeps, NEW s \in Sweeper, OthersUnchanged(s),
         NEW t \in Sweeper, t # s
  PROVE  SweepKnows(t)'
<1>1. SweepKnows(t) /\ sgone[t] \subseteq Key /\ xplan[t] \subseteq Manifest
  BY DEF PlaneInv, SweepInv, SweepTypeOK
<1> QED
  BY <1>1 DEF OthersUnchanged, SweepKnows, SweepKeeps, Preserving, StoresGrow

\* What remains to be shown of a step: what its own sweep knows afterwards, and
\* what its new rows, deletions and expiries mean.
LEMMA SweepKept ==
  ASSUME PlaneInv, SweepKeeps, UNCHANGED <<localVars, bounds>>,
         NEW s \in Sweeper, OthersUnchanged(s), SweepTypeOK', SweepKnows(s)',
         \A k \in Key : status'[k] = "source_deleted" => status[k] = "source_deleted" \/ k \notin bucket',
         \A m \in Manifest : mstate'[m] = "source_deleted" =>
              mstate[m] = "source_deleted" \/ m.srcs \cap bucket' = {},
         \A k \in swept' \ swept : \E m \in Registered' : k \in m.srcs /\ m \in archive' \cup old',
         \A m \in archive \ archive' : m \in old /\ m.srcs \cap bucket = {}
  PROVE  PlaneInv' /\ SettledKept
<1>1. IInv' /\ KnownInv' /\ SettledKept
  BY KeptForWorkers DEF PlaneInv
<1>2. SweepInv'
  <2>1. \A t \in Sweeper : SweepKnows(t)'
    BY OtherSweeps
  <2>2. \A k \in Key : status'[k] = "source_deleted" => k \notin bucket'
    BY DEF PlaneInv, SweepInv, SweepKeeps
  <2>3. \A m \in Manifest : mstate'[m] = "source_deleted" => m.srcs \cap bucket' = {}
    BY DEF PlaneInv, SweepInv, SweepKeeps
  <2> QED
    BY <2>1, <2>2, <2>3 DEF SweepInv
<1>3. SweptIsArchived'
  BY DEF PlaneInv, SweptIsArchived, SweepKeeps, StoresGrow, Preserving
<1>4. ExpiredHasNoRaw'
  BY DEF PlaneInv, ExpiredHasNoRaw, SweepKeeps, StoresGrow, Preserving
<1> QED
  BY <1>1, <1>2, <1>3, <1>4 DEF PlaneInv

\* The common case: a step that changes neither rows nor stores.
LEMMA QuietStep ==
  ASSUME PlaneInv, UNCHANGED <<localVars, bounds>>, UNCHANGED <<cpVars, storeVars>>,
         NEW s \in Sweeper, OthersUnchanged(s), SweepTypeOK', SweepKnows(s)', swept' = swept
  PROVE  PlaneInv' /\ SettledKept
<1>1. SweepKeeps
  BY UnchangedKeeps DEF PlaneInv
<1>2. status' = status /\ mstate' = mstate /\ archive' = archive /\ bucket' = bucket
  BY DEF cpVars, srcVars, manVars, storeVars
<1> QED
  BY <1>1, <1>2, SweepKept

-----------------------------------------------------------------------------
(* One lemma per call of a sweep *)

\* A cache never holds anything but manifests.
LEMMA CacheIsManifests ==
  ASSUME NEW cache \in SUBSET Manifest, NEW m \in Manifest
  PROVE  CacheAdd(cache, m) \in SUBSET Manifest
  BY DEF CacheAdd

\* The rows of deletable_sources are known sources with their manifests.
LEMMA ListDeletableStep ==
  ASSUME PlaneInv, NEW s \in Sweeper, ListDeletable(s), UNCHANGED <<localVars, bounds>>
  PROVE  PlaneInv' /\ SettledKept
<1>1. PICK ks \in SUBSET DeletableSources :
        /\ plan' = [plan EXCEPT ![s] = {<<k, link[k]>> : k \in ks}]
        /\ SGoto(s, IF ks = {} THEN "expire" ELSE "take")
  BY DEF ListDeletable
<1>2. {<<k, link[k]>> : k \in ks} \subseteq Key \X Manifest
  <2>1. ASSUME NEW k \in ks PROVE k \in Key /\ link[k] \in Manifest
    BY <2>1 DEF DeletableSources, PlaneInv, IInv, TypeOK, CPTypeOK
  <2> QED
    BY <2>1
<1>3. SweepTypeOK'
  BY <1>1, <1>2 DEF ListDeletable, PlaneInv, SweepTypeOK, SGoto, SweepStep
<1>4. OthersUnchanged(s) /\ swept' = swept /\ UNCHANGED <<cpVars, storeVars>>
  BY <1>1 DEF ListDeletable, OthersUnchanged, PlaneInv, SweepTypeOK, SGoto
<1>5. SweepKnows(s)'
  BY <1>1 DEF ListDeletable, SGoto, PlaneInv, SweepTypeOK, SweepInv, SweepKnows, AtManifest,
     cpVars, srcVars, manVars, storeVars, Registered
<1> QED
  BY <1>3, <1>4, <1>5, QuietStep

\* Taking the next manifest, verified or from the cache, fills locals only.
LEMMA TakeManifestStep ==
  ASSUME PlaneInv, NEW s \in Sweeper, TakeManifest(s), UNCHANGED <<localVars, bounds>>
  PROVE  PlaneInv' /\ SettledKept
<1>1. PICK m \in {row[2] : row \in plan[s]} :
        /\ plan' = [plan EXCEPT ![s] = {row \in @ : row[2] # m}]
        /\ \/ /\ verified' = [verified EXCEPT ![s] = IF m \in @ THEN @ ELSE CacheAdd(@, m)]
              /\ sman' = [sman EXCEPT ![s] = m]
              /\ skeys' = [skeys EXCEPT ![s] = {row[1] : row \in {r \in plan[s] : r[2] = m}}]
              /\ SGoto(s, "promote")
           \/ /\ SGoto(s, IF plan'[s] = {} THEN "expire" ELSE "take")
              /\ UNCHANGED <<verified, sman, skeys>>
  BY DEF TakeManifest
<1>2. m \in Manifest /\ {row[1] : row \in {r \in plan[s] : r[2] = m}} \subseteq Key
  <2>1. \A row \in plan[s] : row[1] \in Key /\ row[2] \in Manifest
    BY DEF PlaneInv, SweepTypeOK
  <2> QED
    BY <1>1, <2>1
<1>3. CacheAdd(verified[s], m) \in SUBSET Manifest
  BY <1>2, CacheIsManifests DEF PlaneInv, SweepTypeOK
<1>4. SweepTypeOK'
  BY <1>1, <1>2, <1>3 DEF TakeManifest, PlaneInv, SweepTypeOK, SGoto, SweepStep
<1>5. OthersUnchanged(s) /\ swept' = swept /\ UNCHANGED <<cpVars, storeVars>>
  BY <1>1 DEF TakeManifest, OthersUnchanged, PlaneInv, SweepTypeOK, SGoto
<1>6. SweepKnows(s)'
  BY <1>1, <1>2 DEF TakeManifest, SGoto, PlaneInv, SweepTypeOK, SweepInv, SweepKnows, AtManifest,
     cpVars, srcVars, manVars, storeVars, Registered
<1> QED
  BY <1>4, <1>5, <1>6, QuietStep

\* expirable_archive_manifests lists manifests whose sources are all deleted.
LEMMA ListExpirableStep ==
  ASSUME PlaneInv, NEW s \in Sweeper, ListExpirable(s), UNCHANGED <<localVars, bounds>>
  PROVE  PlaneInv' /\ SettledKept
<1> USE DEF PlaneInv, SweepTypeOK
<1>1. ExpirableArchives \subseteq Manifest
  BY DEF ExpirableArchives, IInv, TypeOK, CPTypeOK
<1>2. SweepTypeOK'
  BY <1>1 DEF ListExpirable, SGoto, SweepStep
<1>3. OthersUnchanged(s) /\ swept' = swept /\ UNCHANGED <<cpVars, storeVars>>
  BY DEF ListExpirable, OthersUnchanged, SGoto
<1>4. SweepKnows(s)'
  BY <1>1 DEF ListExpirable, ExpirableArchives, SGoto, SweepInv, SweepKnows, AtManifest,
     cpVars, srcVars, manVars, storeVars, Registered
<1> QED
  BY <1>2, <1>3, <1>4, QuietStep

\* A failed delete, a failed expiry or a dead sweep forgets locals only.
LEMMA SweepFaultStep ==
  ASSUME PlaneInv, NEW s \in Sweeper, SweeperFault(s), UNCHANGED <<localVars, bounds>>
  PROVE  PlaneInv' /\ SettledKept
<1> USE SweepAssumption DEF PlaneInv, SweepTypeOK
<1>1. CASE DeleteRawFails(s)
  <2>1. SweepTypeOK'
    BY <1>1 DEF DeleteRawFails, AfterDelete, SGoto, SweepStep
  <2>2. OthersUnchanged(s) /\ swept' = swept /\ UNCHANGED <<cpVars, storeVars>>
    BY <1>1 DEF DeleteRawFails, OthersUnchanged, SGoto
  <2>3. SweepKnows(s)'
    BY <1>1 DEF DeleteRawFails, AfterDelete, SGoto, SweepInv, SweepKnows, AtManifest,
       cpVars, srcVars, manVars, storeVars, Registered
  <2> QED
    BY <2>1, <2>2, <2>3, QuietStep
<1>2. CASE ExpiryFails(s)
  <2>1. SweepTypeOK'
    BY <1>2 DEF ExpiryFails, AfterExpiry, NoManifestLeft, SGoto, SweepStep
  <2>2. OthersUnchanged(s) /\ swept' = swept /\ UNCHANGED <<cpVars, storeVars>>
    BY <1>2 DEF ExpiryFails, OthersUnchanged, NoManifestLeft, SGoto
  <2>3. SweepKnows(s)'
    BY <1>2 DEF ExpiryFails, AfterExpiry, NoManifestLeft, SGoto, SweepInv, SweepKnows, AtManifest,
       cpVars, srcVars, manVars, storeVars, Registered
  <2> QED
    BY <2>1, <2>2, <2>3, QuietStep
<1>3. CASE SweepEnds(s)
  <2>1. SweepTypeOK'
    BY <1>3 DEF SweepEnds, NoManifestLeft, SGoto, SweepStep
  <2>2. OthersUnchanged(s) /\ swept' = swept /\ UNCHANGED <<cpVars, storeVars>>
    BY <1>3 DEF SweepEnds, OthersUnchanged, NoManifestLeft, SGoto
  <2>3. SweepKnows(s)'
    BY <1>3 DEF SweepEnds, NoManifestLeft, SGoto, SweepInv, SweepKnows, AtManifest
  <2> QED
    BY <2>1, <2>2, <2>3, QuietStep
<1> QED
  BY <1>1, <1>2, <1>3 DEF SweeperFault

\* A promotion changes the state of a row, to one that allows no expiry.
LEMMA PromoteStep ==
  ASSUME PlaneInv, NEW s \in Sweeper, Promote(s), UNCHANGED <<localVars, bounds>>
  PROVE  PlaneInv' /\ SettledKept
<1> USE DEF PlaneInv, SweepTypeOK
<1>1. sman[s] \in Manifest /\ CacheAdd(promoted[s], sman[s]) \in SUBSET Manifest
  BY CacheIsManifests DEF Promote, SweepInv, SweepKnows, AtManifest
<1>2. SweepTypeOK'
  BY <1>1 DEF Promote, SGoto, SweepStep
<1>3. OthersUnchanged(s) /\ swept' = swept /\ UNCHANGED storeVars /\ UNCHANGED <<status, due, old>>
  BY DEF Promote, OthersUnchanged, SGoto, promote_archive_manifest, cpVars, srcVars, manVars
<1>4. /\ Preserving
      /\ \A m \in Manifest : mstate'[m] = mstate[m] \/
            (mstate[m] = "manifest_committed" /\ mstate'[m] = "deletion_eligible")
  <2>1. CASE UNCHANGED cpVars
    BY <2>1, UnchangedPreserving DEF IInv, TypeOK, cpVars, manVars
  <2>2. CASE promote_archive_manifest(sman[s])
    BY <2>2, <1>1, PromotePreserving DEF IInv, TypeOK, CPTypeOK, promote_archive_manifest
  <2> QED
    BY <2>1, <2>2 DEF Promote
<1>5. Registered' = Registered
  BY <1>4 DEF Registered
<1>6. SweepKeeps
  BY <1>3, <1>4, <1>5 DEF SweepKeeps, StoresGrow, storeVars, KnownInv, IInv, TypeOK, StoresTypeOK
<1>7. SweepKnows(s)'
  BY <1>1, <1>3, <1>4 DEF Promote, SGoto, SweepInv, SweepKnows, AtManifest, storeVars
<1> QED
  BY <1>2, <1>3, <1>4, <1>6, <1>7, SweepKept DEF storeVars

\* What a sweep may delete is acknowledged, hence archived.
LEMMA AuthorizeStep ==
  ASSUME PlaneInv, NEW s \in Sweeper, Authorize(s), UNCHANGED <<localVars, bounds>>
  PROVE  PlaneInv' /\ SettledKept
<1> USE DEF PlaneInv, SweepTypeOK
<1> DEFINE ok == {k \in skeys[s] : DeleteAuthorized(k, sman[s])}
<1>1. sman[s] \in Manifest /\ skeys[s] \in SUBSET Key
  BY DEF Authorize, SweepInv, SweepKnows, AtManifest
<1>2. SweepTypeOK'
  BY <1>1 DEF Authorize, NoManifestLeft, SGoto, SweepStep
<1>3. /\ OthersUnchanged(s) /\ swept' = swept /\ UNCHANGED storeVars
      /\ UNCHANGED <<status, mstate, due, old>>
  BY DEF Authorize, NoManifestLeft, OthersUnchanged, SGoto, authorize_source_delete, srcVars, manVars
<1>4. Preserving /\ Registered' = Registered
  BY <1>1, <1>3, AuthorizePreserving DEF Authorize, IInv, TypeOK, Registered
<1>5. SweepKeeps
  BY <1>3, <1>4 DEF SweepKeeps, StoresGrow, storeVars, KnownInv, IInv, TypeOK, StoresTypeOK
<1>6. \A k \in ok : k \in sman[s].srcs /\ sman[s] \in Registered /\ sman[s] \in archive \cup old
  BY <1>1 DEF DeleteAuthorized, IInv, AcknowledgedIsDurable
<1>7. SweepKnows(s)'
  <2>1. CASE ok = {}
    BY <1>1, <1>3, <2>1 DEF Authorize, NoManifestLeft, SGoto, SweepInv, SweepKnows, AtManifest, storeVars
  <2>2. CASE ok # {}
    BY <1>1, <1>3, <1>4, <1>6, <2>2 DEF Authorize, SGoto, SweepInv, SweepKnows, AtManifest, storeVars
  <2> QED
    BY <2>1, <2>2
<1> QED
  BY <1>2, <1>3, <1>5, <1>7, SweepKept DEF storeVars

\* A raw object is deleted: its manifest is archived and covers it.
LEMMA DeleteRawStep ==
  ASSUME PlaneInv, NEW s \in Sweeper, DeleteRaw(s), UNCHANGED <<localVars, bounds>>
  PROVE  PlaneInv' /\ SettledKept
<1> USE DEF PlaneInv, SweepTypeOK
<1>1. PICK k \in skeys[s] :
         /\ bucket' = bucket \ {k}
         /\ swept' = swept \cup (bucket \cap {k})
         /\ skeys' = [skeys EXCEPT ![s] = @ \ {k}]
         /\ sgone' = [sgone EXCEPT ![s] = @ \cup {k}]
         /\ SGoto(s, AfterDelete(s, k, sgone[s] \cup {k}))
  BY DEF DeleteRaw
<1>2. /\ k \in Key /\ sman[s] \in Manifest /\ sman[s] \in Registered /\ sman[s] \in archive \cup old
      /\ k \in sman[s].srcs /\ status[k] # "absent"
  BY <1>1 DEF DeleteRaw, SweepInv, SweepKnows, AtManifest, KnownInv
<1>3. SweepTypeOK'
  BY <1>1, <1>2 DEF DeleteRaw, AfterDelete, SGoto, SweepStep
<1>4. OthersUnchanged(s) /\ UNCHANGED <<cpVars, arrived, archive, facts, derived>>
  BY <1>1 DEF DeleteRaw, OthersUnchanged, SGoto
<1>5. UNCHANGED <<status, mstate, due, old>> /\ Preserving /\ Registered' = Registered
  BY <1>4, UnchangedPreserving DEF IInv, TypeOK, cpVars, srcVars, manVars, Registered
<1>6. SweepKeeps
  BY <1>1, <1>4, <1>5 DEF SweepKeeps, StoresGrow, KnownInv, IInv, TypeOK, StoresTypeOK
<1>7. SweepKnows(s)'
  BY <1>1, <1>2, <1>4, <1>5 DEF DeleteRaw, SGoto, SweepInv, SweepKnows, AtManifest, AfterDelete
<1> QED
  BY <1>1, <1>2, <1>3, <1>4, <1>5, <1>6, <1>7, SweepKept

\* A source is marked after its object is gone, and its manifest after all are.
LEMMA MarkDeletedStep ==
  ASSUME PlaneInv, NEW s \in Sweeper, MarkDeleted(s), UNCHANGED <<localVars, bounds>>
  PROVE  PlaneInv' /\ SettledKept
<1> USE DEF PlaneInv, SweepTypeOK
<1>1. PICK k \in sgone[s] :
         /\ \/ mark_source_deleted(k, sman[s])
            \/ ~DeletionRecordable(k, sman[s]) /\ UNCHANGED cpVars
         /\ IF sgone[s] = {k}
            THEN /\ NoManifestLeft(s)
                 /\ SGoto(s, IF plan[s] = {} THEN "expire" ELSE "take")
            ELSE /\ sgone' = [sgone EXCEPT ![s] = @ \ {k}]
                 /\ UNCHANGED <<spc, sman, skeys>>
  BY DEF MarkDeleted
<1>2. /\ k \in Key /\ sman[s] \in Manifest /\ k \notin bucket /\ sgone[s] \subseteq Key
      /\ xplan[s] \subseteq Manifest
  BY DEF MarkDeleted, SweepInv, SweepKnows, AtManifest
<1>3. SweepTypeOK'
  BY <1>1 DEF MarkDeleted, NoManifestLeft, SGoto, SweepStep
<1>4. OthersUnchanged(s) /\ swept' = swept /\ UNCHANGED storeVars
  BY <1>1 DEF MarkDeleted, NoManifestLeft, OthersUnchanged, SGoto
<1>5. CASE UNCHANGED cpVars
  <2>1. SweepKnows(s)'
    BY <1>1, <1>4, <1>5 DEF MarkDeleted, NoManifestLeft, SGoto, SweepInv, SweepKnows, AtManifest,
       cpVars, srcVars, manVars, storeVars, Registered
  <2> QED
    BY <1>3, <1>4, <1>5, <2>1, QuietStep
<1>6. CASE mark_source_deleted(k, sman[s])
  <2>1. /\ Preserving
        /\ status[k] = "acknowledged"
        /\ status' = [status EXCEPT ![k] = "source_deleted"]
        /\ \A n \in Manifest : \/ mstate'[n] = mstate[n]
                               \/ /\ n = sman[s] /\ mstate'[n] = "source_deleted"
                                  /\ \A j \in sman[s].srcs : status'[j] \in {"source_deleted", "absent"}
    BY <1>2, <1>6, DeletePreserving DEF IInv, TypeOK
  <2>2. \A j \in Key : /\ status'[j] = "absent" <=> status[j] = "absent"
                       /\ status'[j] = "source_deleted" => j \notin bucket
    BY <1>2, <2>1 DEF SweepInv, IInv, TypeOK, CPTypeOK
  <2>3. Registered' = Registered /\ due' = due /\ old' = old
    <3>1. due' = due /\ old' = old
      BY <1>6 DEF mark_source_deleted
    <3>2. \A n \in Manifest : mstate'[n] # "absent" => mstate[n] # "absent"
      BY <1>6, <1>2 DEF mark_source_deleted, IInv, TypeOK, CPTypeOK
    <3> QED
      BY <3>1, <3>2, <2>1 DEF Registered, Preserving
  <2>4. \A n \in Manifest : mstate'[n] = "source_deleted" =>
            mstate[n] = "source_deleted" \/ n.srcs \cap bucket = {}
    <3> SUFFICES ASSUME NEW n \in Manifest, mstate'[n] = "source_deleted", mstate[n] # "source_deleted"
                 PROVE  n.srcs \cap bucket = {}
      OBVIOUS
    <3>1. /\ n \in Registered /\ n.srcs \subseteq Key
          /\ \A j \in n.srcs : status'[j] \in {"source_deleted", "absent"}
      BY <2>1, <2>3 DEF Registered, Manifest
    <3>2. \A j \in n.srcs : status[j] # "absent"
      BY <3>1 DEF KnownInv
    <3> QED
      BY <3>1, <3>2, <2>2
  <2>5. \A n \in Manifest : mstate[n] = "source_deleted" => mstate'[n] = "source_deleted"
    BY <2>1
  <2>6. SweepKeeps
    BY <1>4, <2>1, <2>2, <2>3, <2>5 DEF SweepKeeps, StoresGrow, storeVars, KnownInv, IInv, TypeOK, StoresTypeOK
  <2>7. SweepKnows(s)'
    BY <1>1, <1>2, <1>4, <2>2, <2>3, <2>5 DEF MarkDeleted, NoManifestLeft, SGoto, SweepInv, SweepKnows,
       AtManifest, storeVars
  <2> QED
    BY <1>3, <1>4, <2>2, <2>4, <2>6, <2>7, SweepKept DEF storeVars
<1> QED
  BY <1>1, <1>5, <1>6

\* An archive is removed: it is past retention and none of its objects is left.
LEMMA ExpireArchiveStep ==
  ASSUME PlaneInv, NEW s \in Sweeper, ExpireArchive(s), UNCHANGED <<localVars, bounds>>
  PROVE  PlaneInv' /\ SettledKept
<1> USE DEF PlaneInv, SweepTypeOK
<1>1. PICK m \in xplan[s] :
         /\ archive' = archive \ {m}
         /\ sman' = [sman EXCEPT ![s] = m]
         /\ xplan' = [xplan EXCEPT ![s] = @ \ {m}]
         /\ SGoto(s, "expired")
  BY DEF ExpireArchive
<1>2. m \in Manifest /\ m \in old /\ m.srcs \cap bucket = {}
  BY DEF SweepInv, SweepKnows
<1>3. SweepTypeOK'
  BY <1>1, <1>2 DEF ExpireArchive, SGoto, SweepStep
<1>4. OthersUnchanged(s) /\ swept' = swept /\ UNCHANGED <<cpVars, arrived, bucket, facts, derived>>
  BY <1>1 DEF ExpireArchive, OthersUnchanged, SGoto
<1>5. UNCHANGED <<status, mstate, due, old>> /\ Preserving /\ Registered' = Registered
  BY <1>4, UnchangedPreserving DEF IInv, TypeOK, cpVars, srcVars, manVars, Registered
<1>6. SweepKeeps
  BY <1>1, <1>2, <1>4, <1>5 DEF SweepKeeps, StoresGrow, KnownInv, IInv, TypeOK, StoresTypeOK
<1>7. SweepKnows(s)'
  BY <1>1, <1>2, <1>4, <1>5 DEF ExpireArchive, SGoto, SweepInv, SweepKnows, AtManifest
<1> QED
  BY <1>1, <1>2, <1>3, <1>4, <1>5, <1>6, <1>7, SweepKept

\* Marking it leaves everything else as it is.
LEMMA MarkExpiredStep ==
  ASSUME PlaneInv, NEW s \in Sweeper, MarkExpired(s), UNCHANGED <<localVars, bounds>>
  PROVE  PlaneInv' /\ SettledKept
<1> USE DEF PlaneInv, SweepTypeOK
<1>1. sman[s] \in Manifest
  BY DEF MarkExpired, SweepInv, SweepKnows, AtManifest
<1>2. SweepTypeOK'
  BY DEF MarkExpired, AfterExpiry, NoManifestLeft, SGoto, SweepStep
<1>3. /\ OthersUnchanged(s) /\ swept' = swept /\ UNCHANGED storeVars
      /\ UNCHANGED <<status, mstate, due, old>>
  BY DEF MarkExpired, NoManifestLeft, OthersUnchanged, SGoto, mark_archive_expired, srcVars
<1>4. Preserving /\ Registered' = Registered
  BY <1>1, <1>3, ExpirePreserving DEF MarkExpired, IInv, TypeOK, Registered
<1>5. SweepKeeps
  BY <1>3, <1>4 DEF SweepKeeps, StoresGrow, storeVars, KnownInv, IInv, TypeOK, StoresTypeOK
<1>6. SweepKnows(s)'
  BY <1>3 DEF MarkExpired, AfterExpiry, NoManifestLeft, SGoto, SweepInv, SweepKnows, AtManifest, storeVars
<1> QED
  BY <1>2, <1>3, <1>5, <1>6, SweepKept DEF storeVars

\* Deadlines and retention pass for registered manifests.
LEMMA ClockStep ==
  ASSUME PlaneInv, NEW m \in Manifest, Clock(m), UNCHANGED <<localVars, bounds>>
  PROVE  PlaneInv' /\ SettledKept
<1>1. UNCHANGED <<status, mstate>> /\ UNCHANGED storeVars /\ old \subseteq old'
      /\ due' \subseteq Registered /\ old' \subseteq Registered
  BY DEF PlaneInv, KnownInv, Clock, DeadlinePasses, RetentionPasses, srcVars
<1>2. Preserving /\ Registered' = Registered
  BY <1>1, ClockPreserving DEF Clock, PlaneInv, IInv, TypeOK, Registered
<1>3. SweepKeeps
  BY <1>1, <1>2 DEF SweepKeeps, StoresGrow, storeVars, PlaneInv, IInv, TypeOK, StoresTypeOK
<1>4. IInv' /\ KnownInv' /\ SettledKept
  BY <1>3, KeptForWorkers DEF PlaneInv
<1>5. SweepTypeOK'
  BY DEF PlaneInv, Clock, SweepTypeOK, sweepVars, sweepLocals
<1>6. SweepInv'
  <2>1. ASSUME NEW s \in Sweeper PROVE SweepKnows(s)'
    BY <1>1, <1>2 DEF PlaneInv, Clock, SweepInv, SweepKnows, sweepVars, sweepLocals, storeVars
  <2> QED
    BY <1>1, <2>1 DEF PlaneInv, SweepInv, storeVars
<1>7. SweptIsArchived' /\ ExpiredHasNoRaw'
  BY <1>1, <1>2 DEF PlaneInv, Clock, SweptIsArchived, ExpiredHasNoRaw, sweepVars, storeVars
<1> QED
  BY <1>4, <1>5, <1>6, <1>7 DEF PlaneInv

-----------------------------------------------------------------------------
\* Ingest and deletion together keep the invariant.
LEMMA StepPlane == PlaneInv /\ [PlaneNext]_planeVars => PlaneInv' /\ SettledKept
<1> SUFFICES ASSUME PlaneInv, [PlaneNext]_planeVars PROVE PlaneInv' /\ SettledKept
  OBVIOUS
<1>1. CASE Next /\ UNCHANGED sweepVars
  BY <1>1, WorkersKeepPlane
<1>2. CASE SweepNext /\ UNCHANGED <<localVars, bounds>>
  <2>1. ASSUME NEW s \in Sweeper, SweeperStep(s) PROVE PlaneInv' /\ SettledKept
    BY <1>2, <2>1, ListDeletableStep, TakeManifestStep, PromoteStep, AuthorizeStep, DeleteRawStep,
       MarkDeletedStep, ListExpirableStep, ExpireArchiveStep, MarkExpiredStep DEF SweeperStep
  <2>2. ASSUME NEW s \in Sweeper, SweeperFault(s) PROVE PlaneInv' /\ SettledKept
    BY <1>2, <2>2, SweepFaultStep
  <2>3. ASSUME NEW m \in Manifest, Clock(m) PROVE PlaneInv' /\ SettledKept
    BY <1>2, <2>3, ClockStep
  <2> QED
    BY <1>2, <2>1, <2>2, <2>3 DEF SweepNext
<1>3. CASE UNCHANGED planeVars
  <2>1. UNCHANGED vars /\ UNCHANGED sweepVars
    BY <1>3 DEF planeVars
  <2> QED
    BY <2>1, WorkersKeepPlane
<1> QED
  BY <1>1, <1>2, <1>3 DEF PlaneNext

\* The invariant of the whole plane holds in every reachable state.
THEOREM PlaneInvariant == PlaneSpec => []PlaneInv
<1>1. PlaneInit => PlaneInv
  <2> SUFFICES ASSUME PlaneInit PROVE PlaneInv
    OBVIOUS
  <2>1. IInv /\ KnownInv
    BY InitIInv DEF PlaneInit, Init, CPInit, StoresInit, KnownInv, Registered
  <2>2. SweepTypeOK
    BY SweepAssumption DEF PlaneInit, SweepInit, SweepTypeOK, SweepStep
  <2>3. SweepInv
    BY DEF PlaneInit, Init, SweepInit, CPInit, StoresInit, SweepInv, SweepKnows, AtManifest
  <2>4. SweptIsArchived /\ ExpiredHasNoRaw
    BY DEF PlaneInit, Init, SweepInit, CPInit, StoresInit, SweptIsArchived, ExpiredHasNoRaw, Registered
  <2> QED
    BY <2>1, <2>2, <2>3, <2>4 DEF PlaneInv
<1>2. PlaneInv /\ [PlaneNext]_planeVars => PlaneInv'
  BY StepPlane
<1> QED
  BY <1>1, <1>2, PTL DEF PlaneSpec

\* A raw object the sweeps deleted is in an archive that covers it, or was until
\* retention passed, whatever a sweep has cached or read before.
THEOREM SweptArchived == PlaneSpec => []SweptIsArchived
<1>1. PlaneInv => SweptIsArchived
  BY DEF PlaneInv
<1> QED
  BY <1>1, PlaneInvariant, PTL

\* An archive is removed only once none of its raw objects is left, and no late
\* replica brings one back.
THEOREM ExpiredNoRaw == PlaneSpec => []ExpiredHasNoRaw
<1>1. PlaneInv => ExpiredHasNoRaw
  BY DEF PlaneInv
<1> QED
  BY <1>1, PlaneInvariant, PTL

\* With the sweeps running, an acknowledged source is still archived or past
\* retention, and visible.
THEOREM PlaneAcknowledgedDurable == PlaneSpec => []AcknowledgedIsDurable
<1>1. PlaneInv => AcknowledgedIsDurable
  BY DEF PlaneInv, IInv
<1> QED
  BY <1>1, PlaneInvariant, PTL

\* Neither replicas nor sweeps take a settled source back into the work queue.
THEOREM PlaneAcknowledgedFinal == PlaneSpec => AcknowledgedIsFinal
<1>1. PlaneInv /\ [PlaneNext]_planeVars =>
        [\A k \in Key : status[k] \in {"acknowledged", "source_deleted"} =>
            status'[k] \in {"acknowledged", "source_deleted"}]_vars
  BY StepPlane DEF SettledKept, Settled
<1> QED
  BY <1>1, PlaneInvariant, PTL DEF PlaneSpec, AcknowledgedIsFinal

-----------------------------------------------------------------------------
(* Leases that outlive pages *)

(***************************************************************************)
(* What follows is about deployments in which the lease of a claim is      *)
(* longer than any page takes (~SlowPages; nothing in the code renews a    *)
(* lease, HIGH_SCALE_LEASE_SECONDS is all there is).  Then a claim is      *)
(* exclusive, a source is acknowledged once, and every archive lives       *)
(* exactly one life, which is what ArchiveObjects implements.  With slow   *)
(* pages none of this holds; what holds then is above.                     *)
(***************************************************************************)

\* Which of a page's locals are in use at which step.
Hand ==
    \A w \in Worker :
        /\ pc[w] \in {"idle", "recover", "discover", "claim", "read"} => payload[w] = {}
        /\ pc[w] \in {"claim", "read", "fail"} \cup IngestStep => todo[w] = {}
        /\ pc[w] \in {"missing", "fail"} \cup IngestStep => active[w] = {}
        /\ pc[w] = "missing" => todo[w] \cap payload[w] = {}

\* Replica w owns the row of k: under a live lease, or because it has just
\* acknowledged k and does not know it (the reply was lost).
Holds(k, w) ==
    /\ claimant[k] = w
    /\ \/ status[k] = "claimed" /\ lease[k] = "live"
       \/ pc[w] = "fail" /\ status[k] \in Settled

ClaimInv ==
    /\ \A k \in Key : lease[k] = "live" => status[k] = "claimed"
    /\ \A w \in Worker : \A k \in InHand(w) : Holds(k, w)

HoldInv == Hand /\ ClaimInv

\* A step on the locals of one replica leaves those of the others alone.
Alone(w) ==
    \A v \in Worker : v # w => /\ pc'[v] = pc[v] /\ todo'[v] = todo[v]
                               /\ active'[v] = active[v] /\ payload'[v] = payload[v]

\* What a replica has in hand follows from its step and its locals.
LEMMA SameHand ==
  ASSUME NEW w \in Worker, Alone(w), NEW v \in Worker, v # w
  PROVE  InHand(v)' = InHand(v) /\ pc'[v] = pc[v]
  BY DEF Alone, InHand

\* A step that leaves the rows alone and adds nothing to a hand keeps all claims.
LEMMA HandKept ==
  ASSUME ClaimInv, UNCHANGED <<status, claimant, lease>>,
         \A v \in Worker : /\ InHand(v)' \subseteq InHand(v)
                           /\ pc[v] = "fail" => pc'[v] = "fail" \/ InHand(v)' = {}
  PROVE  ClaimInv'
<1>1. \A k \in Key : lease'[k] = "live" => status'[k] = "claimed"
  BY DEF ClaimInv
<1>2. ASSUME NEW v \in Worker, NEW k \in InHand(v)' PROVE Holds(k, v)'
  <2>1. k \in InHand(v) /\ (pc[v] = "fail" => pc'[v] = "fail")
    BY <1>2
  <2>2. Holds(k, v)
    BY <2>1 DEF ClaimInv
  <2> QED
    BY <2>1, <2>2 DEF Holds
<1> QED
  BY <1>1, <1>2 DEF ClaimInv

\* The same, seen from the one replica that steps.
LEMMA OwnHandKept ==
  ASSUME ClaimInv, UNCHANGED <<status, claimant, lease>>, NEW w \in Worker, Alone(w),
         InHand(w)' \subseteq InHand(w),
         pc[w] = "fail" => pc'[w] = "fail" \/ InHand(w)' = {}
  PROVE  ClaimInv'
<1>1. \A v \in Worker : /\ InHand(v)' \subseteq InHand(v)
                        /\ pc[v] = "fail" => pc'[v] = "fail" \/ InHand(v)' = {}
  BY SameHand
<1> QED
  BY <1>1, HandKept

-----------------------------------------------------------------------------
\* The locals are used as their steps say.
LEMMA HandStep ==
  ASSUME TypeOK, Hand, [Next]_vars PROVE Hand'
<1> USE DEF TypeOK, WorkerTypeOK, Hand, Goto, IngestStep
<1>1. CASE UNCHANGED <<pc, todo, active, payload>>
  BY <1>1
<1>2. ASSUME NEW w \in Worker, ListForward(w) \/ ListReinspection(w) PROVE Hand'
  BY <1>2 DEF ListForward, ListReinspection, batchVars
<1>3. ASSUME NEW w \in Worker, RecoverExpired(w) PROVE Hand'
  BY <1>3 DEF RecoverExpired, batchVars
<1>4. ASSUME NEW w \in Worker, Discover(w) PROVE Hand'
  <2>1. PICK k \in todo[w] :
          /\ todo' = [todo EXCEPT ![w] = @ \ {k}]
          /\ pc' = [pc EXCEPT ![w] = IF todo[w] = {k} THEN "claim" ELSE "discover"]
    BY <1>4 DEF Discover
  <2>2. payload' = payload /\ pc[w] = "discover"
    BY <1>4 DEF Discover, batchVars
  <2>3. \A v \in Worker : v # w => active'[v] = active[v]
    BY <1>4 DEF Discover
  <2> QED
    BY <2>1, <2>2, <2>3
<1>5. ASSUME NEW w \in Worker, Claim(w) PROVE Hand'
  BY <1>5 DEF Claim, batchVars
<1>6. ASSUME NEW w \in Worker, Read(w) PROVE Hand'
  BY <1>6 DEF Read
<1>7. ASSUME NEW w \in Worker, MarkMissing(w) PROVE Hand'
  BY <1>7 DEF MarkMissing, EndPage, EndBatch, batchVars
<1>8. ASSUME NEW w \in Worker, Acknowledge(w) \/ FailSources(w) \/ FailSourcesFails(w) PROVE Hand'
  BY <1>8 DEF Acknowledge, FailSources, FailSourcesFails, EndBatch
<1>9. ASSUME NEW w \in Worker, AdvanceCursor(w) \/ PageAborts(w) \/ Crash(w) PROVE Hand'
  BY <1>9 DEF AdvanceCursor, PageAborts, Crash, EndPage, EndBatch
<1>10. ASSUME NEW w \in Worker, RecordCounts(w) \/ PublishArchive(w) \/ PublishControlManifest(w)
                               \/ PublishFacts(w) \/ PublishDerived(w) \/ IngestFails(w)
                               \/ AcknowledgeReplyLost(w)
      PROVE  Hand'
  BY <1>10 DEF RecordCounts, PublishArchive, PublishControlManifest, PublishFacts, PublishDerived,
     IngestFails, AcknowledgeReplyLost, batchVars
<1>11. ASSUME NEW k \in Key, Environment(k) PROVE UNCHANGED <<pc, todo, active, payload>>
  BY <1>11 DEF Environment, Arrive, Vanish, LeaseTimeout, localVars, batchVars
<1>12. ASSUME UNCHANGED vars PROVE UNCHANGED <<pc, todo, active, payload>>
  BY <1>12 DEF vars, localVars, batchVars
<1> QED
  BY <1>1, <1>2, <1>3, <1>4, <1>5, <1>6, <1>7, <1>8, <1>9, <1>10, <1>11, <1>12
     DEF Next, WorkerStep, WorkerFault

-----------------------------------------------------------------------------
(* Claims, one lemma per transaction that changes a row *)

\* discover_source changes no row that is claimed or settled.
LEMMA DiscoverHolds ==
  ASSUME IInv, HoldInv, NEW w \in Worker, Discover(w) PROVE ClaimInv'
<1> USE DEF IInv, TypeOK, CPTypeOK, WorkerTypeOK
<1>1. PICK k \in Key : discover_source(k)
  BY DEF Discover
<1>2. Alone(w) /\ InHand(w)' = {}
  BY DEF Discover, Goto, Alone, InHand, IngestStep, batchVars
<1>3. \A j \in Key : /\ status[j] # "absent" => status'[j] = status[j]
                     /\ claimant'[j] = claimant[j] /\ lease'[j] = lease[j]
  BY <1>1 DEF discover_source
<1>4. \A j \in Key : lease'[j] = "live" => status'[j] = "claimed"
  BY <1>3 DEF HoldInv, ClaimInv
<1>5. ASSUME NEW v \in Worker, NEW j \in InHand(v)' PROVE Holds(j, v)'
  <2>1. v # w
    BY <1>2, <1>5
  <2>2. j \in InHand(v) /\ pc'[v] = pc[v]
    BY <1>2, <1>5, <2>1, SameHand
  <2>3. Holds(j, v) /\ j \in Key
    BY <2>2 DEF HoldInv, ClaimInv, InHand
  <2> QED
    BY <1>3, <2>2, <2>3 DEF Holds, Settled
<1> QED
  BY <1>4, <1>5 DEF ClaimInv

\* claim_sources_batch takes only rows that nobody has in hand, and returns only
\* rows that are then its caller's.
LEMMA ClaimHolds ==
  ASSUME IInv, HoldInv, NEW w \in Worker, Claim(w) PROVE ClaimInv'
<1> USE DEF IInv, TypeOK, CPTypeOK, WorkerTypeOK
<1>1. /\ pc[w] = "claim" /\ todo[w] = {} /\ payload[w] = {} /\ active[w] \subseteq Key
      /\ claim_sources_batch(active[w], w)
  BY DEF Claim, HoldInv, Hand
<1>2. Alone(w) /\ InHand(w)' \subseteq ClaimResult(active[w], w)
  BY <1>1 DEF Claim, Goto, Alone, InHand, IngestStep, batchVars
<1>3. \A j \in Key : IF j \in ToClaim(active[w])
                     THEN status'[j] = "claimed" /\ claimant'[j] = w /\ lease'[j] = "live"
                     ELSE status'[j] = status[j] /\ claimant'[j] = claimant[j] /\ lease'[j] = lease[j]
  BY <1>1 DEF claim_sources_batch
<1>4. \A j \in Key : lease'[j] = "live" => status'[j] = "claimed"
  BY <1>3 DEF HoldInv, ClaimInv
<1>5. ASSUME NEW j \in ClaimResult(active[w], w) PROVE Holds(j, w)'
  <2>1. j \in Key /\ (j \in ToClaim(active[w]) \/ (lease[j] = "live" /\ claimant[j] = w))
    BY <1>1, <1>5 DEF ClaimResult, ToClaim
  <2> QED
    BY <1>3, <2>1 DEF HoldInv, ClaimInv, Holds
<1>6. ASSUME NEW v \in Worker, v # w, NEW j \in InHand(v)' PROVE Holds(j, v)'
  <2>1. j \in InHand(v) /\ pc'[v] = pc[v]
    BY <1>2, <1>6, SameHand
  <2>2. Holds(j, v) /\ j \in Key
    BY <2>1 DEF HoldInv, ClaimInv, InHand
  <2>3. j \notin ToClaim(active[w])
    BY <2>2 DEF Holds, ToClaim, Claimable, Settled
  <2> QED
    BY <1>3, <2>1, <2>2, <2>3 DEF Holds
<1> QED
  BY <1>2, <1>4, <1>5, <1>6 DEF ClaimInv

\* mark_source_missing writes a row of its caller's page, so nobody else's.
LEMMA MissingHolds ==
  ASSUME IInv, HoldInv, NEW w \in Worker, MarkMissing(w) PROVE ClaimInv'
<1> USE DEF IInv, TypeOK, CPTypeOK, WorkerTypeOK
<1>1. PICK k \in todo[w] :
        \/ EndPage(w) /\ UNCHANGED cpVars
        \/ /\ mark_source_missing(k)
           /\ todo' = [todo EXCEPT ![w] = @ \ {k}]
           /\ Goto(w, IF todo[w] # {k} THEN "missing"
                      ELSE IF payload[w] # {} THEN "count" ELSE "advance")
           /\ UNCHANGED <<active, failed, pageVars, batchVars>>
  BY DEF MarkMissing
<1>2. pc[w] = "missing" /\ k \in Key /\ k \in InHand(w) /\ k \notin payload[w] /\ active[w] = {}
  BY DEF MarkMissing, HoldInv, Hand, InHand
<1>3. Alone(w)
  BY <1>1 DEF EndPage, EndBatch, Goto, Alone, batchVars
<1>4. CASE EndPage(w) /\ UNCHANGED cpVars
  <2>1. InHand(w)' = {} /\ UNCHANGED <<status, claimant, lease>>
    BY <1>4 DEF EndPage, Goto, InHand, IngestStep, cpVars, srcVars
  <2> QED
    BY <1>3, <2>1, OwnHandKept DEF HoldInv
<1>5. CASE /\ mark_source_missing(k)
           /\ todo' = [todo EXCEPT ![w] = @ \ {k}]
           /\ Goto(w, IF todo[w] # {k} THEN "missing"
                      ELSE IF payload[w] # {} THEN "count" ELSE "advance")
           /\ UNCHANGED <<active, failed, pageVars, batchVars>>
  <2>1. \A j \in Key : /\ j # k => status'[j] = status[j] /\ lease'[j] = lease[j]
                       /\ claimant'[j] = claimant[j] /\ lease'[k] # "live"
    BY <1>2, <1>5 DEF mark_source_missing
  <2>2. InHand(w)' \subseteq InHand(w) \ {k} /\ pc[w] # "fail"
    BY <1>2, <1>5 DEF Goto, InHand, IngestStep, batchVars
  <2>3. \A j \in Key : lease'[j] = "live" => status'[j] = "claimed"
    BY <1>2, <2>1 DEF HoldInv, ClaimInv
  <2>4. ASSUME NEW v \in Worker, NEW j \in InHand(v)' PROVE Holds(j, v)'
    <3>1. j \in InHand(v) /\ (pc[v] = "fail" => pc'[v] = "fail")
      BY <1>3, <2>2, <2>4, SameHand
    <3>2. Holds(j, v) /\ Holds(k, w) /\ j \in Key
      BY <1>2, <3>1 DEF HoldInv, ClaimInv, InHand
    <3>3. j # k
      <4>1. CASE v = w
        BY <2>2, <2>4, <4>1
      <4>2. CASE v # w
        BY <3>2, <4>2 DEF Holds
      <4> QED
        BY <4>1, <4>2
    <3> QED
      BY <2>1, <3>1, <3>2, <3>3 DEF Holds
  <2> QED
    BY <2>3, <2>4 DEF ClaimInv
<1> QED
  BY <1>1, <1>4, <1>5

\* acknowledge_sources_batch settles what its caller has in hand and is done
\* with it, or does not know that it is.
LEMMA AcknowledgeHolds ==
  ASSUME IInv, HoldInv, NEW w \in Worker, Acknowledge(w) \/ AcknowledgeReplyLost(w)
  PROVE  ClaimInv'
<1> USE DEF IInv, TypeOK, CPTypeOK, WorkerTypeOK
<1>1. /\ pc[w] = "ack" /\ todo[w] = {} /\ active[w] = {} /\ InHand(w) = payload[w]
      /\ payload[w] \subseteq Key /\ acknowledge_sources_batch(payload[w], mid[w], AckCursor(w))
  BY DEF Acknowledge, AcknowledgeReplyLost, HoldInv, Hand, InHand, IngestStep
<1>2. /\ Alone(w) /\ InHand(w)' \subseteq payload[w]
      /\ InHand(w)' # {} => pc'[w] = "fail"
  BY <1>1 DEF Acknowledge, AcknowledgeReplyLost, EndBatch, Goto, Alone, InHand, IngestStep, batchVars
<1>3. \A j \in Key : /\ claimant'[j] = claimant[j]
                     /\ j \in payload[w] => status'[j] = "acknowledged" /\ lease'[j] = "none"
                     /\ j \notin payload[w] => status'[j] = status[j] /\ lease'[j] = lease[j]
  BY <1>1 DEF acknowledge_sources_batch
<1>4. \A j \in Key : lease'[j] = "live" => status'[j] = "claimed"
  BY <1>3 DEF HoldInv, ClaimInv
<1>5. ASSUME NEW j \in InHand(w)' PROVE Holds(j, w)'
  <2>1. j \in payload[w] /\ Holds(j, w) /\ j \in Key /\ pc'[w] = "fail"
    BY <1>1, <1>2, <1>5 DEF HoldInv, ClaimInv
  <2> QED
    BY <1>3, <2>1 DEF Holds, Settled
<1>6. ASSUME NEW v \in Worker, v # w, NEW j \in InHand(v)' PROVE Holds(j, v)'
  <2>1. j \in InHand(v) /\ pc'[v] = pc[v]
    BY <1>2, <1>6, SameHand
  <2>2. Holds(j, v) /\ j \in Key
    BY <2>1 DEF HoldInv, ClaimInv, InHand
  <2>3. j \notin payload[w]
    BY <1>1, <1>6, <2>2 DEF HoldInv, ClaimInv, Holds
  <2> QED
    BY <1>3, <2>1, <2>2, <2>3 DEF Holds
<1> QED
  BY <1>4, <1>5, <1>6 DEF ClaimInv

\* fail_sources_batch gives back what its caller has in hand.
LEMMA FailHolds ==
  ASSUME IInv, HoldInv, NEW w \in Worker, FailSources(w) PROVE ClaimInv'
<1> USE DEF IInv, TypeOK, CPTypeOK, WorkerTypeOK
<1>1. pc[w] = "fail" /\ payload[w] \subseteq InHand(w) /\ fail_sources_batch(payload[w])
  BY DEF FailSources, InHand
<1>2. Alone(w) /\ InHand(w)' = {}
  BY DEF FailSources, EndBatch, Goto, Alone, InHand, IngestStep
<1>3. \A j \in Key : IF j \in Failing(payload[w]) THEN lease'[j] = "none"
                     ELSE status'[j] = status[j] /\ claimant'[j] = claimant[j] /\ lease'[j] = lease[j]
  BY <1>1 DEF fail_sources_batch
<1>4. \A j \in Key : lease'[j] = "live" => status'[j] = "claimed"
  BY <1>3 DEF HoldInv, ClaimInv
<1>5. ASSUME NEW v \in Worker, NEW j \in InHand(v)' PROVE Holds(j, v)'
  <2>1. v # w
    BY <1>2, <1>5
  <2>2. j \in InHand(v) /\ pc'[v] = pc[v]
    BY <1>2, <1>5, <2>1, SameHand
  <2>3. Holds(j, v) /\ j \in Key
    BY <2>2 DEF HoldInv, ClaimInv, InHand
  <2>4. j \notin payload[w]
    BY <1>1, <2>1, <2>3 DEF HoldInv, ClaimInv, Holds
  <2> QED
    BY <1>3, <2>2, <2>3, <2>4 DEF Holds, Failing
<1> QED
  BY <1>4, <1>5 DEF ClaimInv

\* A crash takes the rows from the replica that died, which has nothing in hand.
LEMMA CrashHolds ==
  ASSUME IInv, HoldInv, NEW w \in Worker, Crash(w) PROVE ClaimInv'
<1> USE DEF IInv, TypeOK, CPTypeOK, WorkerTypeOK
<1>1. Alone(w) /\ InHand(w)' = {}
  BY DEF Crash, EndPage, EndBatch, Goto, Alone, InHand, IngestStep
<1>2. \A j \in Key : /\ claimant[j] # w => claimant'[j] = claimant[j]
                     /\ status'[j] = status[j] /\ lease'[j] = lease[j]
  BY DEF Crash
<1>3. ASSUME NEW v \in Worker, NEW j \in InHand(v)' PROVE Holds(j, v)'
  <2>1. v # w
    BY <1>1, <1>3
  <2>2. j \in InHand(v) /\ pc'[v] = pc[v]
    BY <1>1, <1>3, <2>1, SameHand
  <2>3. Holds(j, v) /\ j \in Key
    BY <2>2 DEF HoldInv, ClaimInv, InHand
  <2> QED
    BY <1>2, <2>1, <2>2, <2>3 DEF Holds
<1> QED
  BY <1>2, <1>3 DEF HoldInv, ClaimInv

\* No lease runs out on a row that a replica has in hand.
LEMMA LeaseHolds ==
  ASSUME ~SlowPages, IInv, HoldInv, NEW k \in Key, LeaseTimeout(k) PROVE ClaimInv'
<1> USE DEF IInv, TypeOK, CPTypeOK, WorkerTypeOK
<1>1. /\ lease[k] = "live" /\ \A w \in Worker : claimant[k] = w => k \notin InHand(w)
      /\ UNCHANGED <<status, claimant, localVars>> /\ lease' = [lease EXCEPT ![k] = "expired"]
  BY DEF LeaseTimeout, LeaseExpires
<1>2. \A j \in Key : j # k => lease'[j] = lease[j]
  BY <1>1
<1>3. lease'[k] # "live"
  BY <1>1
<1>4. ASSUME NEW v \in Worker, NEW j \in InHand(v)' PROVE Holds(j, v)'
  <2>1. j \in InHand(v) /\ pc'[v] = pc[v]
    BY <1>1, <1>4 DEF InHand, localVars, batchVars
  <2>2. Holds(j, v) /\ j \in Key
    BY <2>1 DEF HoldInv, ClaimInv, InHand
  <2>3. j # k
    BY <1>1, <2>1, <2>2 DEF Holds
  <2> QED
    BY <1>1, <1>2, <2>1, <2>2, <2>3 DEF Holds
<1> QED
  BY <1>1, <1>2, <1>3, <1>4 DEF HoldInv, ClaimInv

\* The other calls of a page change no row and add nothing to a hand.
LEMMA QuietHolds ==
  ASSUME IInv, HoldInv, NEW w \in Worker,
         \/ ListForward(w) \/ ListReinspection(w) \/ RecoverExpired(w) \/ Read(w) \/ RecordCounts(w)
         \/ PublishArchive(w) \/ PublishControlManifest(w) \/ PublishFacts(w) \/ PublishDerived(w)
         \/ IngestFails(w) \/ FailSourcesFails(w) \/ AdvanceCursor(w) \/ PageAborts(w)
  PROVE  ClaimInv'
<1> USE DEF IInv, TypeOK, CPTypeOK, WorkerTypeOK
<1>1. UNCHANGED <<status, claimant, lease>>
  <2>1. CASE PublishControlManifest(w)
    BY <2>1 DEF PublishControlManifest, register_archive_manifest, srcVars
  <2>2. CASE AdvanceCursor(w)
    BY <2>2 DEF AdvanceCursor, advance_reinspection_state, advance_source_cursor, cpVars, srcVars
  <2> QED
    BY <2>1, <2>2 DEF ListForward, ListReinspection, RecoverExpired, Read, RecordCounts, PublishArchive,
       PublishFacts, PublishDerived, IngestFails, FailSourcesFails, PageAborts, cpVars, srcVars
<1>2. CASE ListForward(w) \/ ListReinspection(w) \/ RecoverExpired(w)
  <2>1. Alone(w) /\ InHand(w)' = {}
    BY <1>2 DEF ListForward, ListReinspection, RecoverExpired, Goto, Alone, InHand, IngestStep, batchVars
  <2> QED
    BY <1>1, <2>1, OwnHandKept DEF HoldInv
<1>3. CASE Read(w)
  <2>1. Alone(w) /\ InHand(w)' \subseteq InHand(w) /\ pc[w] = "read"
    BY <1>3 DEF Read, Goto, Alone, InHand, IngestStep
  <2> QED
    BY <1>1, <2>1, OwnHandKept DEF HoldInv
<1>4. CASE FailSourcesFails(w) \/ AdvanceCursor(w) \/ PageAborts(w)
  <2>1. Alone(w) /\ InHand(w)' = {}
    BY <1>4 DEF FailSourcesFails, AdvanceCursor, PageAborts, EndPage, EndBatch, Goto, Alone, InHand, IngestStep
  <2> QED
    BY <1>1, <2>1, OwnHandKept DEF HoldInv
<1>5. CASE RecordCounts(w) \/ PublishArchive(w) \/ PublishControlManifest(w) \/ PublishFacts(w)
           \/ PublishDerived(w) \/ IngestFails(w)
  <2>1. /\ Alone(w) /\ pc[w] # "fail" /\ pc[w] \in IngestStep
        /\ UNCHANGED <<todo, active, payload>>
    BY <1>5 DEF RecordCounts, PublishArchive, PublishControlManifest, PublishFacts, PublishDerived,
       IngestFails, Goto, Alone, IngestStep, batchVars
  <2>2. InHand(w)' \subseteq InHand(w)
    BY <2>1 DEF InHand
  <2> QED
    BY <1>1, <2>1, <2>2, OwnHandKept DEF HoldInv
<1> QED
  BY <1>2, <1>3, <1>4, <1>5

\* Replicas and environment keep every claim exclusive.
LEMMA HoldStep ==
  ASSUME ~SlowPages, IInv, HoldInv, [Next]_vars PROVE HoldInv'
<1>1. Hand'
  BY HandStep DEF IInv, HoldInv
<1>2. ASSUME NEW w \in Worker, WorkerStep(w) \/ WorkerFault(w) PROVE ClaimInv'
  BY <1>2, DiscoverHolds, ClaimHolds, MissingHolds, AcknowledgeHolds, FailHolds, CrashHolds, QuietHolds
     DEF WorkerStep, WorkerFault
<1>3. ASSUME NEW k \in Key, Environment(k) PROVE ClaimInv'
  <2>1. CASE LeaseTimeout(k)
    BY <2>1, LeaseHolds
  <2>2. CASE Arrive(k) \/ Vanish(k)
    <3>1. UNCHANGED <<status, claimant, lease>> /\ UNCHANGED <<pc, todo, active, payload>>
      BY <2>2 DEF Arrive, Vanish, cpVars, srcVars, localVars, batchVars
    <3>2. \A v \in Worker : InHand(v)' = InHand(v) /\ pc'[v] = pc[v]
      BY <3>1 DEF InHand
    <3> QED
      BY <3>1, <3>2, HandKept DEF HoldInv
  <2> QED
    BY <1>3, <2>1, <2>2 DEF Environment
<1>4. ASSUME UNCHANGED vars PROVE ClaimInv'
  <2>1. UNCHANGED <<status, claimant, lease>> /\ UNCHANGED <<pc, todo, active, payload>>
    BY <1>4 DEF vars, cpVars, srcVars, localVars, batchVars
  <2>2. \A v \in Worker : InHand(v)' = InHand(v) /\ pc'[v] = pc[v]
    BY <2>1 DEF InHand
  <2> QED
    BY <2>1, <2>2, HandKept DEF HoldInv
<1>5. ClaimInv'
  BY <1>2, <1>3, <1>4 DEF Next
<1> QED
  BY <1>1, <1>5 DEF HoldInv

-----------------------------------------------------------------------------
(* Sources are settled once *)

\* A settled source keeps its manifest, and a deleted one stays deleted.
SettledOnce ==
    \A k \in Key : status[k] \in Settled =>
        /\ link'[k] = link[k]
        /\ status[k] = "source_deleted" => status'[k] = "source_deleted"

\* A replica acknowledges only what it holds, and that is not settled.
LEMMA SettledOnceStep ==
  ASSUME IInv, HoldInv, [Next]_vars PROVE SettledOnce
<1> USE DEF IInv, TypeOK, CPTypeOK, WorkerTypeOK, SettledOnce, Settled
<1>1. CASE UNCHANGED <<status, link>>
  BY <1>1
<1>2. ASSUME NEW w \in Worker, Discover(w) PROVE SettledOnce
  BY <1>2 DEF Discover, discover_source
<1>3. ASSUME NEW w \in Worker, Claim(w) PROVE SettledOnce
  BY <1>3 DEF Claim, claim_sources_batch, ToClaim, Claimable
<1>4. ASSUME NEW w \in Worker, MarkMissing(w) PROVE SettledOnce
  BY <1>4 DEF MarkMissing, mark_source_missing, MissingRefused, cpVars, srcVars
<1>5. ASSUME NEW w \in Worker, Acknowledge(w) \/ AcknowledgeReplyLost(w) PROVE SettledOnce
  <2>1. pc[w] = "ack" /\ acknowledge_sources_batch(payload[w], mid[w], AckCursor(w))
    BY <1>5 DEF Acknowledge, AcknowledgeReplyLost
  <2>2. ASSUME NEW k \in payload[w] PROVE status[k] = "claimed"
    BY <2>1, <2>2 DEF HoldInv, ClaimInv, InHand, IngestStep, Holds
  <2> QED
    BY <2>1, <2>2 DEF acknowledge_sources_batch
<1>6. ASSUME NEW w \in Worker, FailSources(w) PROVE SettledOnce
  BY <1>6 DEF FailSources, fail_sources_batch, Failing
<1>7. ASSUME NEW w \in Worker, ListForward(w) \/ ListReinspection(w) \/ RecoverExpired(w) \/ Read(w)
                               \/ RecordCounts(w) \/ PublishArchive(w) \/ PublishFacts(w)
                               \/ PublishDerived(w) \/ IngestFails(w) \/ FailSourcesFails(w)
                               \/ PageAborts(w)
      PROVE  UNCHANGED <<status, link>>
  BY <1>7 DEF ListForward, ListReinspection, RecoverExpired, Read, RecordCounts, PublishArchive,
     PublishFacts, PublishDerived, IngestFails, FailSourcesFails, PageAborts, cpVars, srcVars
<1>8. ASSUME NEW w \in Worker, PublishControlManifest(w) \/ AdvanceCursor(w) \/ Crash(w)
      PROVE  UNCHANGED <<status, link>>
  BY <1>8 DEF PublishControlManifest, register_archive_manifest, AdvanceCursor,
     advance_reinspection_state, advance_source_cursor, Crash, cpVars, srcVars
<1>9. ASSUME NEW k \in Key, Environment(k) PROVE UNCHANGED <<status, link>>
  BY <1>9 DEF Environment, Arrive, Vanish, LeaseTimeout, LeaseExpires, cpVars, srcVars
<1>10. ASSUME UNCHANGED vars PROVE UNCHANGED <<status, link>>
  BY <1>10 DEF vars, cpVars, srcVars
<1> QED
  BY <1>1, <1>2, <1>3, <1>4, <1>5, <1>6, <1>7, <1>8, <1>9, <1>10
     DEF Next, WorkerStep, WorkerFault

-----------------------------------------------------------------------------
(* The sweeps, seen from the claims *)

\* A sweep changes source rows from acknowledged to source_deleted only, and a
\* manifest row to source_deleted only when all of its sources are; it removes no
\* row, and archives of such manifests only.
SweepRows ==
    /\ UNCHANGED <<claimant, link>>
    /\ \A k \in Key : \/ status'[k] = status[k] /\ lease'[k] = lease[k]
                      \/ status[k] = "acknowledged" /\ status'[k] = "source_deleted" /\ lease'[k] = "none"
    /\ \A m \in Manifest : mstate'[m] = "source_deleted" =>
          mstate[m] = "source_deleted" \/ \A k \in m.srcs : status'[k] = "source_deleted"
    /\ \A m \in Manifest : /\ mstate'[m] = "absent" <=> mstate[m] = "absent"
                           /\ mstate[m] = "source_deleted" => mstate'[m] = "source_deleted"
    /\ archive' \subseteq archive
    /\ \A m \in archive \ archive' : mstate[m] = "source_deleted"

\* One sweep at a time.
LEMMA SweepRowsStep ==
  ASSUME PlaneInv, SweepNext, UNCHANGED <<localVars, bounds>> PROVE SweepRows
<1> USE DEF PlaneInv, IInv, TypeOK, CPTypeOK, SweepTypeOK, SweepRows
<1>1. ASSUME UNCHANGED <<cpVars, archive>> PROVE SweepRows
  BY <1>1 DEF cpVars, srcVars, manVars
<1>2. ASSUME NEW s \in Sweeper, ListDeletable(s) \/ TakeManifest(s) \/ DeleteRaw(s) \/ ListExpirable(s)
                                \/ DeleteRawFails(s) \/ ExpiryFails(s) \/ SweepEnds(s)
      PROVE  UNCHANGED <<cpVars, archive>>
  BY <1>2 DEF ListDeletable, TakeManifest, DeleteRaw, ListExpirable, DeleteRawFails, ExpiryFails,
     SweepEnds, storeVars
<1>3. ASSUME NEW s \in Sweeper, Promote(s) PROVE SweepRows
  <2>1. archive' = archive
    BY <1>3 DEF Promote, storeVars
  <2>2. CASE UNCHANGED cpVars
    BY <2>1, <2>2, <1>1
  <2>3. CASE promote_archive_manifest(sman[s])
    BY <2>1, <2>3 DEF promote_archive_manifest, srcVars
  <2> QED
    BY <1>3, <2>2, <2>3 DEF Promote
<1>4. ASSUME NEW s \in Sweeper, Authorize(s) PROVE SweepRows
  BY <1>4 DEF Authorize, authorize_source_delete, srcVars, manVars, storeVars
<1>5. ASSUME NEW s \in Sweeper, MarkDeleted(s) PROVE SweepRows
  <2>1. PICK k \in sgone[s] : mark_source_deleted(k, sman[s]) \/ UNCHANGED cpVars
    BY <1>5 DEF MarkDeleted
  <2>2. k \in Key /\ sman[s] \in Manifest /\ archive' = archive
    BY <1>5 DEF MarkDeleted, SweepInv, SweepKnows, AtManifest, storeVars
  <2>3. CASE UNCHANGED cpVars
    BY <2>2, <2>3, <1>1
  <2>4. CASE mark_source_deleted(k, sman[s])
    <3>1. /\ status[k] = "acknowledged" /\ status' = [status EXCEPT ![k] = "source_deleted"]
          /\ \A n \in Manifest : \/ mstate'[n] = mstate[n]
                                 \/ /\ n = sman[s] /\ mstate'[n] = "source_deleted"
                                    /\ \A j \in sman[s].srcs : status'[j] \in {"source_deleted", "absent"}
      BY <2>2, <2>4, DeletePreserving
    <3>2. lease' = [lease EXCEPT ![k] = "none"] /\ UNCHANGED <<claimant, link>>
      BY <2>4 DEF mark_source_deleted
    <3>3. ASSUME NEW n \in Manifest, mstate'[n] = "source_deleted", mstate[n] # "source_deleted"
          PROVE  \A j \in n.srcs : status'[j] = "source_deleted"
      <4>1. n = sman[s] /\ n.srcs \subseteq Key /\ \A j \in n.srcs : status'[j] \in {"source_deleted", "absent"}
        BY <3>1, <3>3 DEF Manifest
      <4>2. mstate[n] # "absent"
        BY <2>4, <3>3, <4>1, <2>2 DEF mark_source_deleted
      <4>3. \A j \in n.srcs : status[j] # "absent"
        BY <3>3, <4>2 DEF KnownInv, Registered
      <4> QED
        BY <3>1, <4>1, <4>3
    <3>4. ASSUME NEW n \in Manifest
          PROVE  /\ mstate'[n] = "absent" <=> mstate[n] = "absent"
                 /\ mstate[n] = "source_deleted" => mstate'[n] = "source_deleted"
      BY <2>2, <2>4 DEF mark_source_deleted
    <3> QED
      BY <2>2, <3>1, <3>2, <3>3, <3>4
  <2> QED
    BY <2>1, <2>3, <2>4
<1>6. ASSUME NEW s \in Sweeper, ExpireArchive(s) PROVE SweepRows
  <2>1. PICK m \in xplan[s] : archive' = archive \ {m}
    BY <1>6 DEF ExpireArchive
  <2>2. mstate[m] = "source_deleted" /\ UNCHANGED cpVars
    BY <1>6 DEF ExpireArchive, SweepInv, SweepKnows
  <2> QED
    BY <2>1, <2>2 DEF cpVars, srcVars, manVars
<1>7. ASSUME NEW s \in Sweeper, MarkExpired(s) PROVE SweepRows
  BY <1>7 DEF MarkExpired, mark_archive_expired, srcVars, storeVars
<1>8. ASSUME NEW m \in Manifest, Clock(m) PROVE SweepRows
  BY <1>8 DEF Clock, DeadlinePasses, RetentionPasses, srcVars, storeVars
<1> QED
  BY <1>1, <1>2, <1>3, <1>4, <1>5, <1>6, <1>7, <1>8 DEF SweepNext, SweeperStep, SweeperFault

\* So no sweep disturbs a claim, nor a settled source.
LEMMA SweepHolds ==
  ASSUME PlaneInv, HoldInv, SweepRows, UNCHANGED localVars PROVE HoldInv' /\ SettledOnce
<1>1. Hand'
  BY DEF HoldInv, Hand, localVars, batchVars
<1>2. \A k \in Key : lease'[k] = "live" => status'[k] = "claimed"
  BY DEF HoldInv, ClaimInv, SweepRows
<1>3. ASSUME NEW v \in Worker, NEW k \in InHand(v)' PROVE Holds(k, v)'
  <2>1. k \in InHand(v) /\ pc'[v] = pc[v]
    BY <1>3 DEF InHand, localVars, batchVars
  <2>2. Holds(k, v) /\ k \in Key
    BY <2>1 DEF HoldInv, ClaimInv, InHand, PlaneInv, IInv, TypeOK, WorkerTypeOK
  <2> QED
    BY <2>1, <2>2 DEF Holds, SweepRows, Settled
<1> QED
  BY <1>1, <1>2, <1>3 DEF HoldInv, ClaimInv, SweepRows, SettledOnce, Settled

-----------------------------------------------------------------------------
(* Archives of deleted sources *)

\* A manifest is source_deleted when all of its sources are, and an archive that
\* is gone is one of those.
Deleted ==
    /\ \A m \in Manifest : mstate[m] = "source_deleted" => \A k \in m.srcs : status[k] = "source_deleted"
    /\ \A m \in Registered \ archive : mstate[m] = "source_deleted"

FastInv == PlaneInv /\ HoldInv /\ Deleted

\* An archive that is gone does not come back, is registered when it goes, and
\* stays so; a manifest is registered only while its archive is there.
OneLife ==
    \A m \in Manifest :
        /\ m \in Registered => m \in Registered' /\ (m \in archive' => m \in archive)
        /\ m \in archive \ archive' => m \in Registered
        /\ m \in Registered' => m \in Registered \cup archive

\* Ingest and deletion keep the invariant: what a replica publishes it holds, so
\* its sources are not deleted and their archive has not expired.

LEMMA StepFast ==
  ASSUME ~SlowPages, FastInv, [PlaneNext]_planeVars
  PROVE  FastInv' /\ SettledOnce /\ OneLife
<1>1. PlaneInv' /\ PlaneInv
  BY StepPlane DEF FastInv
<1>2. ASSUME [Next]_vars, UNCHANGED sweepVars PROVE HoldInv' /\ Deleted' /\ SettledOnce /\ OneLife
  <2>1. HoldInv' /\ SettledOnce /\ ManifestsGrow
    BY <1>2, HoldStep, SettledOnceStep, ManifestsGrowStep DEF FastInv, PlaneInv
  <2>2. \A m \in Manifest : mstate'[m] = "source_deleted" => \A k \in m.srcs : status'[k] = "source_deleted"
    <3> SUFFICES ASSUME NEW m \in Manifest, mstate'[m] = "source_deleted", NEW k \in m.srcs
                 PROVE  status'[k] = "source_deleted"
      OBVIOUS
    <3>1. k \in Key /\ status[k] = "source_deleted"
      BY <2>1 DEF ManifestsGrow, FastInv, Deleted, Manifest
    <3> QED
      BY <2>1, <3>1 DEF SettledOnce, Settled
  <2>3. \A m \in Registered' \ archive' : mstate'[m] = "source_deleted"
    <3> SUFFICES ASSUME NEW m \in Registered' \ archive' PROVE mstate'[m] = "source_deleted"
      OBVIOUS
    <3>1. m \in Manifest /\ m \in Registered \ archive
      BY <2>1 DEF ManifestsGrow, Registered, FastInv, PlaneInv, KnownInv
    <3> QED
      BY <2>1, <3>1 DEF ManifestsGrow, FastInv, Deleted
  <2>4. ASSUME NEW m \in Registered \ archive, m \in archive' PROVE FALSE
    <3>1. PICK w \in Worker : pc[w] = "archive" /\ m.srcs = payload[w]
      BY <2>1, <2>4 DEF ManifestsGrow
    <3>2. pc[w] = "archive" /\ payload[w] # {}
      BY <3>1 DEF FastInv, PlaneInv, IInv, BatchInv, IngestStep
    <3>3. PICK k \in payload[w] : TRUE
      BY <3>2
    <3>4. status[k] = "claimed"
      BY <3>2, <3>3 DEF FastInv, HoldInv, ClaimInv, InHand, IngestStep, Holds
    <3>5. status[k] = "source_deleted"
      BY <2>4, <3>1, <3>3 DEF FastInv, Deleted, Registered
    <3> QED
      BY <3>4, <3>5
  <2>5. OneLife
    BY <2>1, <2>4 DEF OneLife, ManifestsGrow, Registered, FastInv, PlaneInv, KnownInv
  <2> QED
    BY <2>1, <2>2, <2>3, <2>5 DEF Deleted
<1>3. ASSUME SweepNext, UNCHANGED <<localVars, bounds>> PROVE HoldInv' /\ Deleted' /\ SettledOnce /\ OneLife
  <2>1. SweepRows
    BY <1>1, <1>3, SweepRowsStep
  <2>2. HoldInv' /\ SettledOnce
    BY <1>3, <2>1, SweepHolds DEF FastInv
  <2>3. /\ Registered' = Registered /\ archive' \subseteq archive
        /\ \A m \in Manifest : mstate[m] = "source_deleted" => mstate'[m] = "source_deleted"
    BY <2>1 DEF SweepRows, Registered
  <2>4. \A m \in Manifest : mstate'[m] = "source_deleted" => \A k \in m.srcs : status'[k] = "source_deleted"
    <3> SUFFICES ASSUME NEW m \in Manifest, mstate'[m] = "source_deleted", NEW k \in m.srcs
                 PROVE  status'[k] = "source_deleted"
      OBVIOUS
    <3>1. k \in Key
      BY DEF Manifest
    <3>2. CASE mstate[m] = "source_deleted"
      BY <2>2, <3>1, <3>2 DEF FastInv, Deleted, SettledOnce, Settled
    <3>3. CASE mstate[m] # "source_deleted"
      BY <2>1, <3>3 DEF SweepRows
    <3> QED
      BY <3>2, <3>3
  <2>5. \A m \in Registered' \ archive' : mstate'[m] = "source_deleted"
    <3> SUFFICES ASSUME NEW m \in Registered' \ archive' PROVE mstate'[m] = "source_deleted"
      OBVIOUS
    <3>1. m \in Manifest /\ m \in Registered
      BY <2>3 DEF Registered
    <3>2. mstate[m] = "source_deleted"
      BY <2>1, <3>1 DEF SweepRows, FastInv, Deleted
    <3> QED
      BY <2>3, <3>1, <3>2
  <2>6. OneLife
    BY <2>1, <2>3 DEF OneLife, SweepRows, Registered
  <2> QED
    BY <2>2, <2>4, <2>5, <2>6 DEF Deleted
<1>4. HoldInv' /\ Deleted' /\ SettledOnce /\ OneLife
  <2>1. CASE UNCHANGED planeVars
    BY <2>1, <1>2 DEF planeVars
  <2> QED
    BY <1>2, <1>3, <2>1 DEF PlaneNext
<1> QED
  BY <1>1, <1>4 DEF FastInv

\* The invariant holds in every reachable state.
THEOREM FastInvariant == ~SlowPages => (PlaneSpec => []FastInv)
<1> SUFFICES ASSUME ~SlowPages PROVE PlaneSpec => []FastInv
  OBVIOUS
<1>1. PlaneInit /\ PlaneInv => FastInv
  BY DEF PlaneInit, Init, CPInit, HoldInv, Hand, ClaimInv, InHand, IngestStep, Deleted, Registered, FastInv
<1>2. FastInv /\ [PlaneNext]_planeVars => FastInv'
  BY StepFast
<1> QED
  BY <1>1, <1>2, PlaneInvariant, PTL DEF PlaneSpec

\* No two replicas have one source in hand, and what a replica ingests is claimed
\* by it and not settled: record_source_counts and mark_source_missing
\* never find a row that somebody else has taken over.
ClaimsAreExclusive ==
    /\ \A v, w \in Worker : v # w => InHand(v) \cap InHand(w) = {}
    /\ \A w \in Worker : pc[w] \in IngestStep \cup {"missing"} =>
          \A k \in InHand(w) : status[k] = "claimed" /\ claimant[k] = w

\* With leases that outlive pages, claims are exclusive.
THEOREM ExclusiveClaims == ~SlowPages => (PlaneSpec => []ClaimsAreExclusive)
<1>1. FastInv => ClaimsAreExclusive
  <2> SUFFICES ASSUME FastInv PROVE ClaimsAreExclusive
    OBVIOUS
  <2>1. \A w \in Worker : \A k \in InHand(w) : claimant[k] = w /\ (status[k] = "claimed" \/ pc[w] = "fail")
    BY DEF FastInv, HoldInv, ClaimInv, Holds
  <2> QED
    BY <2>1 DEF ClaimsAreExclusive, IngestStep
<1> QED
  BY <1>1, FastInvariant, PTL

\* Attempts to publish one archive take turns, as ArchiveObjects has them: two
\* replicas never ingest the sources of one manifest at a time, and whoever does
\* finds none of them deleted, nor anything a sweep may delete or mark.
AttemptsTakeTurns ==
    \A m \in Manifest :
        /\ \A v, w \in Worker :
              /\ pc[v] \in IngestStep /\ payload[v] = m.srcs
              /\ pc[w] \in IngestStep /\ payload[w] = m.srcs
              => v = w
        /\ \A w \in Worker : pc[w] \in IngestStep /\ payload[w] = m.srcs =>
              /\ mstate[m] # "source_deleted"
              /\ \A k \in m.srcs : ~DeleteAuthorized(k, m) /\ ~DeletionRecordable(k, m)

\* With leases that outlive pages, attempts on one manifest id do not overlap.
THEOREM TurnsAreTaken == ~SlowPages => (PlaneSpec => []AttemptsTakeTurns)
<1>1. FastInv => AttemptsTakeTurns
  <2> SUFFICES ASSUME FastInv, NEW m \in Manifest,
                      NEW w \in Worker, pc[w] \in IngestStep, payload[w] = m.srcs
               PROVE  /\ \A v \in Worker : pc[v] \in IngestStep /\ payload[v] = m.srcs => v = w
                      /\ mstate[m] # "source_deleted"
                      /\ \A k \in m.srcs : ~DeleteAuthorized(k, m) /\ ~DeletionRecordable(k, m)
    BY DEF AttemptsTakeTurns
  <2>1. \A v \in Worker : pc[v] \in IngestStep => \A k \in payload[v] : status[k] = "claimed" /\ claimant[k] = v
    BY DEF FastInv, HoldInv, ClaimInv, InHand, IngestStep, Holds
  <2>2. PICK k \in m.srcs : TRUE
    BY DEF Manifest
  <2>3. mstate[m] # "source_deleted"
    BY <2>1, <2>2 DEF FastInv, Deleted
  <2> QED
    BY <2>1, <2>2, <2>3 DEF DeleteAuthorized, DeletionRecordable
<1> QED
  BY <1>1, FastInvariant, PTL

\* A source is acknowledged once: the manifest it is linked to never changes, and
\* no late acknowledgement takes it back out of source_deleted.
AcknowledgedOnce == [][SettledOnce]_planeVars

\* With leases that outlive pages, no source is acknowledged a second time.
THEOREM OneAcknowledgement == ~SlowPages => (PlaneSpec => AcknowledgedOnce)
<1> SUFFICES ASSUME ~SlowPages PROVE PlaneSpec => AcknowledgedOnce
  OBVIOUS
<1>1. FastInv /\ [PlaneNext]_planeVars => [SettledOnce]_planeVars
  BY StepFast
<1>2. PlaneSpec => []FastInv
  BY FastInvariant
<1> QED
  BY <1>1, <1>2, PTL DEF PlaneSpec, AcknowledgedOnce

-----------------------------------------------------------------------------
(* The archive's interface *)

\* What the plane sees of the archive of one manifest.
ArchivePhase(m) ==
    IF m \in archive THEN "committed" ELSE IF m \in Registered THEN "expired" ELSE "absent"

Life(m) == INSTANCE ArchiveLifetime WITH state <- ArchivePhase(m)

\* A step of the plane is a step of every archive's life, or none.
LEMMA LifeStep ==
  ASSUME ~SlowPages, FastInv, [PlaneNext]_planeVars, NEW m \in Manifest
  PROVE  [Life(m)!Commit \/ Life(m)!Expire]_(ArchivePhase(m))
<1>1. OneLife
  BY StepFast
<1> QED
  BY <1>1 DEF OneLife, ArchivePhase, Life!Commit, Life!Expire

\* So each archive keeps to the interface.
LEMMA OneArchiveLives ==
  ASSUME NEW m \in Manifest, ~SlowPages PROVE PlaneSpec => Life(m)!Spec
<1>1. PlaneInit => Life(m)!Init
  BY DEF PlaneInit, Init, CPInit, StoresInit, ArchivePhase, Registered, Life!Init
<1>2. FastInv /\ [PlaneNext]_planeVars => [Life(m)!Commit \/ Life(m)!Expire]_(ArchivePhase(m))
  BY LifeStep
<1>3. PlaneSpec => []FastInv
  BY FastInvariant
<1> QED
  BY <1>1, <1>2, <1>3, PTL DEF PlaneSpec, Life!Spec

\* With leases that outlive pages, every archive of the plane lives the one life
\* that ArchiveObjects implements (its theorem ArchiveIsAtomic): it appears in one
\* step, is there until retention, and never comes back.
THEOREM ArchivesLiveOnce == ~SlowPages => (PlaneSpec => \A m \in Manifest : Life(m)!Spec)
  BY OneArchiveLives
=============================================================================
