----------------------- MODULE BatchPublicationProofs -----------------------
(***************************************************************************)
(* Proofs about BatchPublication, for every batch size, every number of    *)
(* versions and every number of failures.                                  *)
(*                                                                         *)
(* The argument: the Postgres manifest is written before anything in       *)
(* ClickHouse and its digest never changes, so only attempts of one        *)
(* version get past GetManifest; the fact table therefore holds rows of    *)
(* that version only, and count() tells how many.                          *)
(***************************************************************************)
EXTENDS BatchPublication, TLAPS

\* The calls an attempt makes after its manifest is in place ...
PastManifest == {"existing", "mark_pending", "count", "insert", "recount",
                 "delete_rows", "mark_visible", "put_visible"}

\* ... and those it makes on a batch that is not visible yet.
Filling == {"mark_pending", "count", "insert", "recount", "delete_rows", "mark_visible"}

\* The digest of the manifest is the one version there is of everything.
Pinned ==
    /\ manifest.status = "none" => publication.status = "none" /\ count = 0
    /\ pc \in PastManifest => manifest.status = "pending" /\ manifest.digest = batch
    /\ publication.status # "none" => publication.digest = manifest.digest
    /\ rows = [v \in Version |-> IF v = manifest.digest THEN count ELSE 0]

\* Who may still touch the rows, and what the counts have established.
Gated ==
    /\ publication.status = "visible" => count = Rows /\ pc \notin Filling
    /\ pc = "mark_visible" => count = Rows
    /\ pc = "put_visible" => publication.status = "visible"
    /\ pc = "put_pending" => manifest.status = "none"
    /\ manifest.status = "visible" => publication.status = "visible"

IInv == TypeOK /\ Pinned /\ Gated

-----------------------------------------------------------------------------
(* The invariant holds initially and every call keeps it. *)

\* An empty fact table and no manifest satisfy the invariant.
LEMMA InitIInv == Init => IInv
  BY BatchAssumption DEF Init, IInv, TypeOK, Pinned, Gated, Call, Version, Receipt,
     PublicationStatus, PastManifest, Filling, Reader!Nothing

\* An INSERT, whole or in part, adds rows of the pinned version only.
LEMMA InsertPinned ==
  ASSUME IInv, pc = "insert", NEW n \in 1..Rows, Insert(n)
  PROVE  /\ rows' = [v \in Version |-> IF v = manifest.digest THEN count' ELSE 0]
         /\ rows' \in [Version -> Nat]
         /\ count' \in Nat
<1>1. /\ batch = manifest.digest /\ batch \in Version
      /\ count \in Nat /\ n \in Nat /\ count' = count + n
  BY BatchAssumption DEF IInv, TypeOK, Pinned, PastManifest, Insert
<1>2. rows = [v \in Version |-> IF v = batch THEN count ELSE 0]
  BY <1>1 DEF IInv, Pinned
<1>3. rows' = [v \in Version |-> IF v = batch THEN rows[batch] + n ELSE rows[v]]
  BY <1>2 DEF Insert
<1>4. rows' = [v \in Version |-> IF v = batch THEN count' ELSE 0]
  BY <1>1, <1>2, <1>3
<1> QED
  BY <1>1, <1>4

\* No call of publish, no exception in one and no enrichment breaks it.
LEMMA StepIInv == IInv /\ [Next]_vars => IInv'
<1> SUFFICES ASSUME IInv, [Next]_vars PROVE IInv'
  OBVIOUS
<1> USE BatchAssumption DEF IInv, TypeOK, Pinned, Gated, Call, Version, Receipt,
     PublicationStatus, PastManifest, Filling, stores
<1>1. CASE StartPublish
  BY <1>1 DEF StartPublish
<1>2. CASE GetManifest
  BY <1>2 DEF GetManifest
<1>3. CASE PutPending
  BY <1>3 DEF PutPending, SetManifest
<1>4. CASE PutVisible
  BY <1>4 DEF PutVisible, SetManifest
<1>5. CASE ExistingPublication
  BY <1>5 DEF ExistingPublication
<1>6. CASE MarkPending
  BY <1>6 DEF MarkPending, SetPublication
<1>7. CASE CountRows
  BY <1>7 DEF CountRows
<1>8. CASE InsertRows
  <2>1. pc = "insert" /\ Insert(Rows) /\ Rows \in 1..Rows
    BY <1>8 DEF InsertRows
  <2> HIDE DEF IInv
  <2>2. /\ rows' = [v \in Version |-> IF v = manifest.digest THEN count' ELSE 0]
        /\ rows' \in [Version -> Nat]
        /\ count' \in Nat
    BY <2>1, InsertPinned
  <2> USE DEF IInv
  <2> QED
    BY <1>8, <2>2 DEF InsertRows, Insert
<1>9. CASE RecountRows
  BY <1>9 DEF RecountRows
<1>10. CASE DeleteBatchRows
  BY <1>10 DEF DeleteBatchRows, PurgeRows, Reader!Nothing
<1>11. CASE MarkVisible
  BY <1>11 DEF MarkVisible, SetPublication
<1>12. CASE Raise
  <2> /\ pc # "idle" /\ pc' = "idle"
      /\ failures < MaxFailures /\ failures' = failures + 1
      /\ UNCHANGED <<content, batch>>
    BY <1>12 DEF Raise
  <2>1. CASE UNCHANGED stores
    BY <2>1
  <2>2. CASE pc = "put_pending" /\ SetManifest("pending")
    BY <2>2 DEF SetManifest
  <2>3. CASE pc = "put_visible" /\ SetManifest("visible")
    BY <2>3 DEF SetManifest
  <2>4. CASE pc = "mark_pending" /\ SetPublication("pending")
    BY <2>4 DEF SetPublication
  <2>5. CASE pc = "mark_visible" /\ SetPublication("visible")
    BY <2>5 DEF SetPublication
  <2>6. CASE pc = "insert" /\ \E k \in 1..Rows : Insert(k)
    <3>1. PICK k \in 1..Rows : Insert(k)
      BY <2>6
    <3> HIDE DEF IInv
    <3>2. /\ rows' = [v \in Version |-> IF v = manifest.digest THEN count' ELSE 0]
          /\ rows' \in [Version -> Nat]
          /\ count' \in Nat
      BY <2>6, <3>1, InsertPinned
    <3> USE DEF IInv
    <3>3. /\ UNCHANGED <<manifest, publication, batch, content>>
          /\ manifest.status = "pending" /\ publication.status # "visible"
      BY <2>6, <3>1 DEF Insert
    <3>4. TypeOK' /\ Pinned'
      BY <3>2, <3>3
    <3> QED
      BY <3>3, <3>4
  <2>7. CASE pc = "delete_rows" /\ PurgeRows
    BY <2>7 DEF PurgeRows, Reader!Nothing
  <2> QED
    BY <1>12, <2>1, <2>2, <2>3, <2>4, <2>5, <2>6, <2>7 DEF Raise
<1>13. CASE Reenrich
  BY <1>13 DEF Reenrich
<1>14. CASE UNCHANGED vars
  BY <1>14 DEF vars
<1> QED
  BY <1>1, <1>2, <1>3, <1>4, <1>5, <1>6, <1>7, <1>8, <1>9, <1>10, <1>11, <1>12, <1>13, <1>14 DEF Next, Publish

\* The inductive invariant holds in every reachable state.
THEOREM PublicationInvariant == Spec => []IInv
  BY InitIInv, StepIInv, PTL DEF Spec

-----------------------------------------------------------------------------
(* What it gives. *)

\* Whatever publish did before and wherever its earlier attempts were cut off,
\* a visible publication shows the whole of one version of the batch.
THEOREM VisibleBatchIsWhole == Spec => []VisibleIsWhole
<1>1. IInv => VisibleIsWhole
  BY DEF IInv, TypeOK, Pinned, Gated, VisibleIsWhole, Reader!Whole, Version
<1> QED
  BY <1>1, PublicationInvariant, PTL

\* The early return of ClickHousePublication.publish on a visible manifest is
\* justified by what ClickHouse shows.
THEOREM VisibleManifestIsBacked == Spec => []ManifestIsBacked
<1>1. IInv => ManifestIsBacked
  BY DEF IInv, TypeOK, Pinned, Gated, ManifestIsBacked, PublicationStatus
<1> QED
  BY <1>1, PublicationInvariant, PTL

-----------------------------------------------------------------------------
(* Refinement *)

\* The gate never lets go of what it shows, and opens on a whole batch: each
\* call is one step of VisibleBatch or none.
LEMMA StepRefines == IInv /\ IInv' /\ [Next]_vars => [Reader!Publish]_Shown
<1> SUFFICES ASSUME IInv, IInv', [Next]_vars PROVE [Reader!Publish]_Shown
  OBVIOUS
<1> USE DEF IInv, TypeOK, Version, Receipt, PublicationStatus
<1>1. CASE publication.status = "visible"
  <2>1. pc \notin Filling /\ publication.digest = manifest.digest /\ manifest.status # "none"
    BY <1>1 DEF Gated, Pinned
  <2>2. UNCHANGED <<publication, rows>>
    BY <2>1 DEF Filling, Next, Publish, StartPublish, GetManifest, PutPending, PutVisible,
       ExistingPublication, MarkPending, CountRows, InsertRows, RecountRows, DeleteBatchRows,
       MarkVisible, Raise, Reenrich, SetManifest, stores, vars
  <2> QED
    BY <2>2 DEF Shown
<1>2. CASE publication.status # "visible" /\ publication'.status # "visible"
  BY <1>2 DEF Shown
<1>3. CASE publication.status # "visible" /\ publication'.status = "visible"
  <2>1. Shown = Reader!Nothing
    BY <1>3 DEF Shown, Reader!Nothing
  <2>2. rows' = Reader!Whole(manifest'.digest) /\ manifest'.digest \in Version
    BY <1>3 DEF Pinned, Gated, Reader!Whole
  <2>3. Shown' = Reader!Whole(manifest'.digest)
    BY <1>3, <2>2 DEF Shown
  <2> QED
    BY <2>1, <2>2, <2>3 DEF Reader!Publish
<1> QED
  BY <1>1, <1>2, <1>3

\* BatchPublication implements VisibleBatch: readers see the publication of a
\* batch as one atomic, irrevocable step.
THEOREM PublicationIsAtomic == Spec => AtomicToReaders
<1>1. Init => Reader!Init
  BY DEF Init, Reader!Init, Shown, Reader!Nothing
<1> QED
  BY <1>1, StepRefines, PublicationInvariant, PTL DEF Spec, AtomicToReaders, Reader!Spec
=============================================================================
