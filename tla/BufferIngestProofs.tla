------------------------- MODULE BufferIngestProofs -------------------------
(***************************************************************************)
(* Proofs about BufferIngest: whatever crashes, the rows of an object that *)
(* is listed as ingested, or whose raw copy is gone, are in the table or   *)
(* in a file the commit job will find; a tombstone hides no row; and rows  *)
(* are never twice in the table when every recovery was complete, unless   *)
(* they were last inserted over rows that were not deleted.                *)
(***************************************************************************)
EXTENDS BufferIngest, FiniteSetTheorems, TLAPS

-----------------------------------------------------------------------------
(* The inductive invariant *)

InLake(n) == \A k \in Rows(n) : lake[k] > 0

\* The commit job: what it has finished, and what a tombstone hides, is in the
\* table; it only sweeps hidden files and only commits files that are there.
Commits ==
    /\ \A n \in tombs \cup done : InLake(n)
    /\ cpc \in {"sweep", "sweep_marker"} => batch \subseteq tombs
    /\ cpc \in {"commit", "single"} => batch \subseteq files
    /\ IsFiniteSet(files)

\* The ingest job: a raw object is only gone when it has been ingested; the
\* chunk at hand is neither ingested before nor still to be read.
Reads ==
    /\ arrived \subseteq bucket \cup ingested
    /\ stranded \subseteq ingested
    /\ pc \in {"reclaim", "first", "chunk", "record", "write", "insert", "clear", "submit"}
         => new \cap ingested = {}
    /\ pc \in {"record", "write", "insert", "clear", "submit"} => new \cap cur = {}
    /\ pc \in {"record", "write"} => cur \in Name /\ cur \cap ingested = {}
    /\ pc = "write" => cur \in inflight
    /\ pc \in {"clear", "submit", "recover_clear"} => cur \subseteq ingested

\* What is or is about to be listed in ingested_files is safe.
Safety ==
    /\ \A k \in ingested : Safe(k)
    /\ pc = "insert" => \A k \in cur : Safe(k)

\* A file is ingested, or the manifest knows it until recovery has seen it.
Known(n) ==
    \/ n \subseteq ingested
    \/ /\ n \in inflight
       /\ \/ pc = "idle"
          \/ pc \in {"recover", "recover_clear"} /\ n \in entries
          \/ pc = "insert" /\ n = cur

\* As long as every recovery was complete.
Complete ==
    giveups = 0 =>
        /\ \A n \in files : Known(n)
        /\ \A m, n \in files : m = n \/ m \cap n = {}
        /\ \A k \in Key \ again : lake[k] <= 1

Inv == TypeOK /\ Commits /\ Reads /\ Safety /\ Complete

-----------------------------------------------------------------------------
(* One transaction of the commit job *)

\* The files of S that hold rows of k.
Holding(S, k) == {n \in S : k \in Rows(n)}

\* The objects with rows in S are those that some file holds.
LEMMA HeldHolding == \A S : \A k \in Key : k \in Held(S) <=> Holding(S, k) # {}
  BY Zenon DEF Held, Holding

\* The copies of one object after a transaction over the files S.
LEMMA ReplacedAt ==
  ASSUME NEW S, NEW k \in Key
  PROVE  Replaced(S)[k] = IF Holding(S, k) # {} THEN Cardinality(Holding(S, k)) ELSE lake[k]
<1>1. k \in Held(S) <=> Holding(S, k) # {}
  BY HeldHolding
<1> QED
  BY <1>1 DEF Replaced, Holding

\* Rows that are in the table stay there, and those of S come to it.
LEMMA ReplacedInLake ==
  ASSUME lake \in [Key -> Nat], NEW S \in SUBSET Name, IsFiniteSet(S)
  PROVE  /\ Replaced(S) \in [Key -> Nat]
         /\ \A k \in Key : lake[k] > 0 => Replaced(S)[k] > 0
         /\ \A n \in S : \A k \in Rows(n) : Replaced(S)[k] > 0
<1>1. \A k \in Key : IsFiniteSet(Holding(S, k))
  BY FS_Subset DEF Holding
<1>2. \A k \in Key : Cardinality(Holding(S, k)) \in Nat
                     /\ (Holding(S, k) # {} => Cardinality(Holding(S, k)) > 0)
  BY <1>1, FS_CardinalityType, FS_EmptySet
<1>3. \A k \in Key : Replaced(S)[k] \in Nat /\ (lake[k] > 0 => Replaced(S)[k] > 0)
  BY <1>2, ReplacedAt
<1>4. Replaced(S) \in [Key -> Nat]
  <2>1. Replaced(S) = [k \in Key |-> Replaced(S)[k]]
    BY DEF Replaced
  <2> QED
    BY <1>3, <2>1
<1>5. ASSUME NEW n \in S, NEW k \in Rows(n) PROVE Replaced(S)[k] > 0
  <2>1. k \in Key /\ n \in Holding(S, k)
    BY DEF Holding, Rows, Name
  <2> QED
    BY <1>2, <2>1, ReplacedAt
<1> QED
  BY <1>3, <1>4, <1>5

\* The same of a transaction that only inserts.
LEMMA InsertedInLake ==
  ASSUME lake \in [Key -> Nat], NEW S \in SUBSET Name, IsFiniteSet(S)
  PROVE  /\ Inserted(S) \in [Key -> Nat]
         /\ \A k \in Key : lake[k] > 0 => Inserted(S)[k] > 0
         /\ \A n \in S : \A k \in Rows(n) : Inserted(S)[k] > 0
<1>1. \A k \in Key : IsFiniteSet(Holding(S, k))
  BY FS_Subset DEF Holding
<1>2. \A k \in Key : Cardinality(Holding(S, k)) \in Nat
                     /\ (Holding(S, k) # {} => Cardinality(Holding(S, k)) > 0)
  BY <1>1, FS_CardinalityType, FS_EmptySet
<1>3. Inserted(S) = [k \in Key |-> lake[k] + Cardinality(Holding(S, k))]
  BY DEF Inserted, Holding
<1>4. ASSUME NEW k \in Key
      PROVE  /\ Inserted(S)[k] \in Nat
             /\ lake[k] > 0 \/ Holding(S, k) # {} => Inserted(S)[k] > 0
  <2>1. PICK a \in Nat, c \in Nat : a = lake[k] /\ c = Cardinality(Holding(S, k))
    BY <1>2
  <2>2. Inserted(S)[k] = a + c
    BY <1>3, <2>1
  <2> QED
    BY <1>2, <2>1, <2>2
<1>5. Inserted(S) \in [Key -> Nat]
  BY <1>3, <1>4
<1>6. ASSUME NEW n \in S, NEW k \in Rows(n) PROVE Inserted(S)[k] > 0
  <2>1. k \in Key /\ n \in Holding(S, k)
    BY DEF Holding, Rows, Name
  <2> QED
    BY <1>4, <2>1
<1> QED
  BY <1>4, <1>5, <1>6

\* Of files that share no row, one at most holds those of an object.
LEMMA HeldOnce ==
  ASSUME NEW S \in SUBSET Name, \A m, n \in S : m = n \/ m \cap n = {}, NEW k \in Key
  PROVE  Cardinality(Holding(S, k)) = IF k \in Held(S) THEN 1 ELSE 0
<1>1. CASE k \notin Held(S)
  <2>1. Holding(S, k) = {}
    BY <1>1, HeldHolding
  <2> QED
    BY <1>1, <2>1, FS_EmptySet
<1>2. CASE k \in Held(S)
  <2>1. PICK n \in S : k \in Rows(n)
    BY <1>2, HeldHolding DEF Holding
  <2>2. Holding(S, k) = {n}
    BY <2>1 DEF Holding, Rows
  <2> QED
    BY <1>2, <2>2, FS_Singleton
<1> QED
  BY <1>1, <1>2

\* A transaction over such files leaves one copy, unless it inserts over rows
\* that it does not delete.
LEMMA CommitPathsOnce ==
  ASSUME lake \in [Key -> Nat], \A k \in Key \ again : lake[k] <= 1, NEW S \in SUBSET Name,
         \A m, n \in S : m = n \/ m \cap n = {}, CommitPaths(S)
  PROVE  \A k \in Key \ again' : lake'[k] <= 1
<1> SUFFICES ASSUME NEW k \in Key, k \notin again' PROVE lake'[k] <= 1
  OBVIOUS
<1>1. Cardinality(Holding(S, k)) = IF k \in Held(S) THEN 1 ELSE 0
  BY HeldOnce
<1>2. CASE lake' = Replaced(S) /\ again' = again \ Held(S)
  <2>1. lake'[k] = IF k \in Held(S) THEN Cardinality(Holding(S, k)) ELSE lake[k]
    BY <1>2 DEF Replaced, Holding
  <2> QED
    BY <1>1, <1>2, <2>1
<1>3. CASE lake' = Inserted(S) /\ again' = again \cup {i \in Held(S) : lake[i] > 0}
  <2>1. lake'[k] = lake[k] + Cardinality(Holding(S, k))
    BY <1>3 DEF Inserted, Holding
  <2>2. lake[k] \in Nat /\ lake[k] <= 1 /\ (k \in Held(S) => lake[k] = 0)
    BY <1>3
  <2> QED
    BY <1>1, <2>1, <2>2
<1> QED
  BY <1>2, <1>3 DEF CommitPaths

-----------------------------------------------------------------------------
(* Framing *)

\* The bound on faults is kept.
LEMMA FaultTyped == ASSUME TypeOK, Fault PROVE faults' \in 0..MaxFaults
  BY BufferAssumption DEF TypeOK, Fault

\* A transaction keeps the types of the table.
LEMMA TransactionTyped ==
  ASSUME TypeOK, NEW S \in SUBSET Name, IsFiniteSet(S), CommitPaths(S)
  PROVE  lake' \in [Key -> Nat] /\ again' \subseteq Key /\ faults' \in 0..MaxFaults
<1>1. lake' \in [Key -> Nat]
  BY ReplacedInLake, InsertedInLake DEF TypeOK, CommitPaths
<1>2. again' \subseteq Key
  BY DEF TypeOK, CommitPaths, Held, Rows, Name
<1>3. faults' \in 0..MaxFaults
  BY FaultTyped DEF TypeOK, CommitPaths
<1> QED
  BY <1>1, <1>2, <1>3

\* The ingest job leaves the disk and the table to the commit job.
LEMMA IngestFrame ==
  ASSUME Inv, UNCHANGED <<lake, diskVars, commitVars>>
  PROVE  Commits' /\ \A k : Safe(k) => Safe(k)'
<1> USE DEF Inv, lakeVars, diskVars, commitVars
<1>1. Commits'
  BY DEF Commits, InLake
<1>2. \A k : Safe(k) => Safe(k)'
  BY DEF Safe, BufferFiles
<1> QED
  BY <1>1, <1>2

\* The commit job leaves the ingest job's state alone.
LEMMA CommitFrame ==
  ASSUME Inv, UNCHANGED <<arrived, bucket, ingested, inflight, ingestVars>>,
         \A k \in Key : Safe(k) => Safe(k)'
  PROVE  Reads' /\ Safety'
<1> USE DEF Inv, ingestVars
<1>1. Reads'
  BY DEF Reads
<1>2. cur \subseteq Key /\ ingested \subseteq Key
  BY DEF TypeOK, Name, NoName
<1>3. Safety'
  BY <1>2 DEF Safety
<1> QED
  BY <1>1, <1>3

\* Files that the manifest knows stay known.
LEMMA CompleteFrame ==
  ASSUME Inv, UNCHANGED <<lake, again, files, giveups>>, \A n \in files : Known(n) => Known(n)'
  PROVE  Complete'
  BY DEF Inv, Complete, TypeOK

-----------------------------------------------------------------------------
(* The ingest job *)

\* Recovery reads the whole manifest.
LEMMA StartIngestKeeps ==
  ASSUME Inv, StartIngest PROVE Inv'
<1> USE DEF lakeVars, storeVars, diskVars, commitVars
<1>1. TypeOK'
  BY DEF Inv, TypeOK, IngestCall, StartIngest
<1>2. Commits' /\ \A k : Safe(k) => Safe(k)'
  BY IngestFrame DEF StartIngest
<1>3. Reads'
  BY DEF Inv, Reads, StartIngest
<1>4. Safety'
  BY <1>2 DEF Inv, Safety, StartIngest
<1>5. Complete'
  BY CompleteFrame DEF Inv, Known, StartIngest
<1> QED
  BY <1>1, <1>2, <1>3, <1>4, <1>5 DEF Inv

\* A promoted entry leaves the manifest.
LEMMA RecoverClearKeeps ==
  ASSUME Inv, RecoverClear PROVE Inv'
<1> USE DEF lakeVars, storeVars, diskVars, commitVars
<1>1. TypeOK'
  BY DEF Inv, TypeOK, IngestCall, RecoverClear, NoName
<1>2. Commits' /\ \A k : Safe(k) => Safe(k)'
  BY IngestFrame DEF RecoverClear
<1>3. Reads'
  BY DEF Inv, Reads, RecoverClear
<1>4. Safety'
  BY <1>2 DEF Inv, Safety, RecoverClear
<1>5. Complete'
  BY CompleteFrame DEF Inv, Known, RecoverClear, Reads
<1> QED
  BY <1>1, <1>2, <1>3, <1>4, <1>5 DEF Inv

\* When every entry has been seen, every file is ingested.
LEMMA RecoveredKeeps ==
  ASSUME Inv, Recovered PROVE Inv'
<1> USE DEF lakeVars, storeVars, diskVars, commitVars
<1>1. TypeOK'
  BY DEF Inv, TypeOK, IngestCall, Recovered
<1>2. Commits' /\ \A k : Safe(k) => Safe(k)'
  BY IngestFrame DEF Recovered
<1>3. Reads'
  BY DEF Inv, Reads, Recovered
<1>4. Safety'
  BY <1>2 DEF Inv, Safety, Recovered
<1>5. Complete'
  BY CompleteFrame DEF Inv, Known, Recovered
<1> QED
  BY <1>1, <1>2, <1>3, <1>4, <1>5 DEF Inv

\* A recovery that gives up ends completeness.
LEMMA RecoveryGivesUpKeeps ==
  ASSUME Inv, RecoveryGivesUp PROVE Inv'
<1> USE DEF lakeVars, storeVars, diskVars, commitVars
<1>1. TypeOK'
  BY BufferAssumption DEF Inv, TypeOK, IngestCall, RecoveryGivesUp, NoName
<1>2. Commits' /\ \A k : Safe(k) => Safe(k)'
  BY IngestFrame DEF RecoveryGivesUp
<1>3. Reads'
  BY DEF Inv, Reads, RecoveryGivesUp
<1>4. Safety'
  BY <1>2 DEF Inv, Safety, RecoveryGivesUp
<1>5. Complete'
  BY BufferAssumption DEF Inv, Known, RecoveryGivesUp, Complete, TypeOK
<1> QED
  BY <1>1, <1>2, <1>3, <1>4, <1>5 DEF Inv

\* The manifest knows the file before it is written.
LEMMA RecordInFlightKeeps ==
  ASSUME Inv, RecordInFlight PROVE Inv'
<1> USE DEF lakeVars, storeVars, diskVars, commitVars
<1>1. TypeOK'
  BY DEF Inv, TypeOK, IngestCall, RecordInFlight, Reads
<1>2. Commits' /\ \A k : Safe(k) => Safe(k)'
  BY IngestFrame DEF RecordInFlight
<1>3. Reads'
  BY DEF Inv, Reads, RecordInFlight
<1>4. Safety'
  BY <1>2 DEF Inv, Safety, RecordInFlight
<1>5. Complete'
  BY CompleteFrame DEF Inv, Known, RecordInFlight
<1> QED
  BY <1>1, <1>2, <1>3, <1>4, <1>5 DEF Inv

\* The chunk is listed: its rows are safe.
LEMMA InsertIngestedKeeps ==
  ASSUME Inv, InsertIngested PROVE Inv'
<1> USE DEF lakeVars, storeVars, diskVars, commitVars
<1>1. TypeOK'
  BY DEF Inv, TypeOK, IngestCall, InsertIngested, NoName, Name
<1>2. Commits' /\ \A k : Safe(k) => Safe(k)'
  BY IngestFrame DEF InsertIngested
<1>3. Reads'
  BY DEF Inv, Reads, InsertIngested
<1>4. Safety'
  BY <1>2 DEF Inv, Safety, InsertIngested
<1>5. Complete'
  BY CompleteFrame DEF Inv, Known, InsertIngested
<1> QED
  BY <1>1, <1>2, <1>3, <1>4, <1>5 DEF Inv

\* The entry goes when the chunk is listed.
LEMMA ClearInFlightKeeps ==
  ASSUME Inv, ClearInFlight PROVE Inv'
<1> USE DEF lakeVars, storeVars, diskVars, commitVars
<1>1. TypeOK'
  BY DEF Inv, TypeOK, IngestCall, ClearInFlight
<1>2. Commits' /\ \A k : Safe(k) => Safe(k)'
  BY IngestFrame DEF ClearInFlight
<1>3. Reads'
  BY DEF Inv, Reads, ClearInFlight
<1>4. Safety'
  BY <1>2 DEF Inv, Safety, ClearInFlight
<1>5. Complete'
  BY CompleteFrame DEF Inv, Known, ClearInFlight, Reads
<1> QED
  BY <1>1, <1>2, <1>3, <1>4, <1>5 DEF Inv

\* Only listed objects are deleted.
LEMMA SubmitDeletesKeeps ==
  ASSUME Inv, SubmitDeletes PROVE Inv'
<1> USE DEF lakeVars, storeVars, diskVars, commitVars
<1>1. TypeOK'
  BY DEF Inv, TypeOK, IngestCall, SubmitDeletes, Reads, NoName
<1>2. Commits' /\ \A k : Safe(k) => Safe(k)'
  BY IngestFrame DEF SubmitDeletes
<1>3. Reads'
  BY DEF Inv, Reads, SubmitDeletes
<1>4. Safety'
  BY <1>2 DEF Inv, Safety, SubmitDeletes
<1>5. Complete'
  BY CompleteFrame DEF Inv, Known, SubmitDeletes
<1> QED
  BY <1>1, <1>2, <1>3, <1>4, <1>5 DEF Inv

\* The run ends.
LEMMA FinishIngestKeeps ==
  ASSUME Inv, FinishIngest PROVE Inv'
<1> USE DEF lakeVars, storeVars, diskVars, commitVars
<1>1. TypeOK'
  BY DEF Inv, TypeOK, IngestCall, FinishIngest, NoName
<1>2. Commits' /\ \A k : Safe(k) => Safe(k)'
  BY IngestFrame DEF FinishIngest
<1>3. Reads'
  BY DEF Inv, Reads, FinishIngest
<1>4. Safety'
  BY <1>2 DEF Inv, Safety, FinishIngest
<1>5. Complete'
  BY CompleteFrame DEF Inv, Known, FinishIngest
<1> QED
  BY <1>1, <1>2, <1>3, <1>4, <1>5 DEF Inv

\* The run ends where it is: the manifest knows what it has written.
LEMMA IngestRaisesKeeps ==
  ASSUME Inv, IngestRaises PROVE Inv'
<1> USE DEF lakeVars, storeVars, diskVars, commitVars
<1>1. TypeOK'
  BY FaultTyped DEF Inv, TypeOK, IngestCall, IngestRaises, NoName
<1>2. Commits' /\ \A k : Safe(k) => Safe(k)'
  BY IngestFrame DEF IngestRaises
<1>3. Reads'
  BY DEF Inv, Reads, IngestRaises
<1>4. Safety'
  BY <1>2 DEF Inv, Safety, IngestRaises
<1>5. Complete'
  BY CompleteFrame DEF Inv, Known, IngestRaises
<1> QED
  BY <1>1, <1>2, <1>3, <1>4, <1>5 DEF Inv

\* Objects of an earlier run are deleted, all of them listed.
LEMMA ReclaimKeeps ==
  ASSUME Inv, Reclaim PROVE Inv'
<1> USE DEF lakeVars, storeVars, diskVars, commitVars
<1>1. TypeOK'
  BY FaultTyped DEF Inv, TypeOK, IngestCall, Reclaim
<1>2. Commits' /\ \A k : Safe(k) => Safe(k)'
  BY IngestFrame DEF Reclaim
<1>3. Reads'
  BY DEF Inv, Reads, Reclaim, Rows
<1>4. Safety'
  BY <1>2 DEF Inv, Safety, Reclaim
<1>5. Complete'
  BY CompleteFrame DEF Inv, Known, Reclaim
<1> QED
  BY <1>1, <1>2, <1>3, <1>4, <1>5 DEF Inv

\* A chunk of objects that are not listed; without rows it is safe.
LEMMA ReadChunkKeeps ==
  ASSUME Inv, ReadChunk PROVE Inv'
<1> USE DEF lakeVars, storeVars, diskVars, commitVars
<1>1. TypeOK'
  BY FaultTyped DEF Inv, TypeOK, IngestCall, ReadChunk, Name, NoName
<1>2. Commits' /\ \A k : Safe(k) => Safe(k)'
  BY IngestFrame DEF ReadChunk
<1>3. Reads'
  BY DEF Inv, Reads, ReadChunk, TypeOK, Name, NoName
<1>4. Safety'
  BY <1>2 DEF Inv, Safety, ReadChunk, Rows, Safe
<1>5. Complete'
  BY CompleteFrame DEF Inv, Known, ReadChunk
<1> QED
  BY <1>1, <1>2, <1>3, <1>4, <1>5 DEF Inv

\* A file that is hidden has its rows in the table: every file is safe.
LEMMA FilesAreSafe ==
  ASSUME Inv, NEW n \in files, NEW k \in n PROVE Safe(k)
<1>1. CASE n \in tombs
  BY <1>1 DEF Inv, Commits, InLake, Rows, Safe
<1>2. CASE n \notin tombs
  BY <1>2 DEF Safe, BufferFiles
<1> QED
  BY <1>1, <1>2

\* Recovery lists the objects of a file that is there and forgets the others.
LEMMA RecoverEntryKeeps ==
  ASSUME Inv, RecoverEntry PROVE Inv'
<1> USE DEF lakeVars, storeVars, diskVars, commitVars
<1>1. PICK n \in entries :
        /\ IF n \in files
           THEN ingested' = ingested \cup n /\ cur' = n /\ pc' = "recover_clear" /\ UNCHANGED inflight
           ELSE inflight' = inflight \ {n} /\ UNCHANGED <<ingested, cur, pc>>
        /\ entries' = entries \ {n}
  BY DEF RecoverEntry
<1>2. TypeOK'
  BY <1>1 DEF Inv, TypeOK, IngestCall, Name, RecoverEntry
<1>3. Commits' /\ \A k : Safe(k) => Safe(k)'
  BY IngestFrame DEF RecoverEntry
<1>4. Reads'
  BY <1>1 DEF Inv, Reads, RecoverEntry
<1>5. Safety'
  BY <1>1, <1>3, FilesAreSafe DEF Inv, Safety, RecoverEntry
<1>6. Complete'
  BY <1>1, CompleteFrame DEF Inv, Known, RecoverEntry
<1> QED
  BY <1>2, <1>3, <1>4, <1>5, <1>6 DEF Inv

\* Listing separates what is listed from what is new.
LEMMA ListedKeeps ==
  ASSUME Inv, ListRecent \/ ListAll PROVE Inv'
<1> USE DEF lakeVars, storeVars, diskVars, commitVars
<1>1. PICK keys \in SUBSET bucket : pc \in {"list", "full_list"} /\ Listed(keys)
  BY DEF ListRecent, ListAll
<1>2. TypeOK'
  BY <1>1 DEF Inv, TypeOK, IngestCall, Listed
<1>3. Commits' /\ \A k : Safe(k) => Safe(k)'
  BY <1>1, IngestFrame DEF Listed
<1>4. Reads'
  BY <1>1 DEF Inv, Reads, Listed
<1>5. Safety'
  BY <1>1, <1>3 DEF Inv, Safety, Listed
<1>6. Complete'
  BY <1>1, CompleteFrame DEF Inv, Known, Listed
<1> QED
  BY <1>2, <1>3, <1>4, <1>5, <1>6 DEF Inv

\* The new file shares no object with the others, which are all ingested; one
\* with the name of a hidden file has its rows in the table.
LEMMA WriteToBufferKeeps ==
  ASSUME Inv, WriteToBuffer PROVE Inv'
<1> USE DEF lakeVars, storeVars, commitVars
<1>1. cur \in Name /\ cur \cap ingested = {} /\ cur \in inflight
  BY DEF WriteToBuffer, Inv, Reads
<1>2. TypeOK'
  BY <1>1 DEF Inv, TypeOK, IngestCall, WriteToBuffer
<1>3. Commits'
  <2>1. IsFiniteSet(files')
    BY FS_AddElement DEF WriteToBuffer, Inv, Commits
  <2> QED
    BY <2>1 DEF WriteToBuffer, Inv, Commits, InLake
<1>4. Reads'
  BY DEF Inv, Reads, WriteToBuffer
<1>5. Safety'
  <2>1. \A k : Safe(k) => Safe(k)'
    BY DEF Safe, BufferFiles, WriteToBuffer
  <2>2. \A k \in cur : Safe(k)'
    <3>1. CASE cur \in tombs
      BY <2>1, <3>1 DEF Inv, Commits, InLake, Rows, Safe
    <3>2. CASE cur \notin tombs
      BY <3>2 DEF Safe, BufferFiles, WriteToBuffer
    <3> QED
      BY <3>1, <3>2
  <2> QED
    BY <2>1, <2>2 DEF Inv, Safety, WriteToBuffer
<1>6. Complete'
  <2> SUFFICES ASSUME giveups = 0
               PROVE  /\ \A n \in files' : Known(n)'
                      /\ \A m, n \in files' : m = n \/ m \cap n = {}
                      /\ \A k \in Key \ again' : lake'[k] <= 1
    BY DEF Complete, WriteToBuffer
  <2>1. \A n \in files : n \subseteq ingested
    BY DEF Inv, Complete, Known, WriteToBuffer
  <2>2. \A n \in files' : Known(n)'
    BY <1>1, <2>1 DEF Known, WriteToBuffer
  <2>3. \A m, n \in files' : m = n \/ m \cap n = {}
    BY <1>1, <2>1 DEF Inv, Complete, WriteToBuffer
  <2> QED
    BY <2>2, <2>3 DEF Inv, Complete, WriteToBuffer
<1> QED
  BY <1>2, <1>3, <1>4, <1>5, <1>6 DEF Inv

\* A deletion thread only has listed objects; new objects arrive in the bucket.
LEMMA BucketKeeps ==
  ASSUME Inv, NEW k \in Key, DeleteRaw(k) \/ Arrive(k) PROVE Inv'
<1> USE DEF lakeVars, storeVars, diskVars, ingestVars, commitVars
<1>1. TypeOK'
  BY FaultTyped DEF Inv, TypeOK, DeleteRaw, Arrive
<1>2. Commits' /\ \A i : Safe(i) => Safe(i)'
  BY IngestFrame DEF DeleteRaw, Arrive
<1>3. Reads'
  BY DEF Inv, Reads, TypeOK, DeleteRaw, Arrive
<1>4. Safety'
  BY <1>2 DEF Inv, Safety, DeleteRaw, Arrive
<1>5. Complete'
  BY CompleteFrame DEF Known, DeleteRaw, Arrive
<1> QED
  BY <1>1, <1>2, <1>3, <1>4, <1>5 DEF Inv

-----------------------------------------------------------------------------
(* The commit job *)

\* Steps of the commit job that touch no file and no row.
LEMMA CommitMoves ==
  ASSUME Inv, TypeOK', Commits',
         UNCHANGED <<storeVars, files, quarantine, ingestVars, giveups>>, tombs' \subseteq tombs
  PROVE  Inv'
<1> USE DEF lakeVars, storeVars, ingestVars
<1>1. \A k \in Key : Safe(k) => Safe(k)'
  BY DEF Safe, BufferFiles
<1>2. Reads' /\ Safety'
  BY <1>1, CommitFrame
<1>3. Complete'
  BY CompleteFrame DEF Known
<1> QED
  BY <1>2, <1>3 DEF Inv

\* Starting, listing, ageing and removing a tombstone: files only become visible.
LEMMA QuietCommitKeeps ==
  ASSUME Inv, StartCommit \/ SweepMarker \/ ListBuffer \/ SinglesEnd \/ FinishCommit \/ GracePasses
  PROVE  Inv'
<1> USE DEF lakeVars, storeVars, diskVars, ingestVars, commitVars
<1>1. TypeOK'
  BY FaultTyped
  DEF Inv, TypeOK, CommitCall, StartCommit, SweepMarker, ListBuffer, SinglesEnd, FinishCommit,
      GracePasses, BufferFiles
<1>2. Commits'
  BY DEF Inv, TypeOK, Commits, InLake, StartCommit, SweepMarker, ListBuffer, SinglesEnd, FinishCommit,
         GracePasses, BufferFiles
<1>3. UNCHANGED <<storeVars, files, quarantine, ingestVars, giveups>> /\ tombs' \subseteq tombs
  BY DEF StartCommit, SweepMarker, ListBuffer, SinglesEnd, FinishCommit, GracePasses
<1> QED
  BY <1>1, <1>2, <1>3, CommitMoves

\* Only hidden files are unlinked.
LEMMA SweepFileKeeps ==
  ASSUME Inv, SweepFile PROVE Inv'
<1> USE DEF lakeVars, storeVars, ingestVars
<1>1. PICK n \in batch : files' = files \ {n} /\ done' = {n}
  BY DEF SweepFile
<1>2. n \in tombs
  BY DEF SweepFile, Inv, Commits
<1>3. TypeOK'
  BY <1>1 DEF Inv, TypeOK, CommitCall, SweepFile
<1>4. Commits'
  <2>1. IsFiniteSet(files')
    BY <1>1, FS_RemoveElement DEF Inv, Commits
  <2> QED
    BY <1>1, <1>2, <2>1 DEF Inv, Commits, InLake, SweepFile
<1>5. \A k \in Key : Safe(k) => Safe(k)'
  BY <1>1, <1>2 DEF Safe, BufferFiles, SweepFile
<1>6. Reads' /\ Safety'
  BY <1>5, CommitFrame DEF SweepFile
<1>7. Complete'
  BY <1>1 DEF Inv, Complete, Known, SweepFile
<1> QED
  BY <1>3, <1>4, <1>6, <1>7 DEF Inv

\* A transaction over files that are there.
LEMMA TransactionKeeps ==
  ASSUME Inv, NEW S, S \subseteq files, CommitPaths(S),
         TypeOK', UNCHANGED <<arrived, bucket, ingested, inflight, diskVars, ingestVars, giveups>>,
         done' \subseteq done \cup S,
         cpc \in {"commit", "single"}, cpc' \in {"single", "tombstone"}, batch' \subseteq batch
  PROVE  Inv'
<1> USE DEF diskVars, ingestVars
<1>1. IsFiniteSet(S) /\ S \in SUBSET Name /\ lake \in [Key -> Nat]
  BY FS_Subset DEF Inv, Commits, TypeOK
<1>2. /\ \A k \in Key : lake[k] > 0 => lake'[k] > 0
      /\ \A n \in S : \A k \in Rows(n) : lake'[k] > 0
  BY <1>1, ReplacedInLake, InsertedInLake DEF CommitPaths
<1>3. Commits'
  <2>1. \A n \in tombs \cup done : n \in Name
    BY DEF Inv, TypeOK
  <2>2. \A n \in tombs' \cup done' : InLake(n)'
    BY <1>2, <2>1 DEF Inv, Commits, InLake, Rows, Name
  <2> QED
    BY <2>2 DEF Inv, Commits
<1>4. \A k \in Key : Safe(k) => Safe(k)'
  BY <1>2 DEF Safe, BufferFiles
<1>5. Reads' /\ Safety'
  BY <1>4, CommitFrame
<1>6. Complete'
  <2> SUFFICES ASSUME giveups = 0
               PROVE  /\ \A n \in files' : Known(n)'
                      /\ \A m, n \in files' : m = n \/ m \cap n = {}
                      /\ \A k \in Key \ again' : lake'[k] <= 1
    BY DEF Complete
  <2>1. /\ \A n \in files : Known(n)
        /\ \A m, n \in files : m = n \/ m \cap n = {}
        /\ \A k \in Key \ again : lake[k] <= 1
    BY DEF Inv, Complete
  <2>2. \A n \in files' : Known(n)'
    BY <2>1 DEF Known
  <2>3. \A k \in Key \ again' : lake'[k] <= 1
    BY <1>1, <2>1, CommitPathsOnce
  <2> QED
    BY <2>1, <2>2, <2>3
<1> QED
  BY <1>3, <1>5, <1>6 DEF Inv

\* All files in one transaction, or none.
LEMMA CommitFilesKeeps ==
  ASSUME Inv, CommitFiles PROVE Inv'
<1> USE DEF lakeVars, storeVars, diskVars, ingestVars
<1>1. batch \subseteq files /\ batch \in SUBSET Name /\ IsFiniteSet(batch)
  BY FS_Subset DEF CommitFiles, Inv, Commits, TypeOK
<1>2. CASE UNCHANGED <<lakeVars, done>> /\ batch' \subseteq batch /\ cpc' \in {"single", "idle"} /\ Fault
  <2>1. TypeOK'
    BY <1>2, FaultTyped DEF Inv, TypeOK, CommitCall, CommitFiles
  <2>2. Commits'
    BY <1>1, <1>2 DEF Inv, Commits, InLake, CommitFiles
  <2> QED
    BY <1>2, <2>1, <2>2, CommitMoves DEF CommitFiles
<1>3. CASE CommitPaths(batch) /\ done' = batch /\ batch' = {} /\ cpc' = "tombstone"
  <2>1. lake' \in [Key -> Nat] /\ again' \subseteq Key /\ faults' \in 0..MaxFaults
    BY <1>1, <1>3, TransactionTyped DEF Inv
  <2>2. TypeOK'
    BY <1>3, <2>1 DEF Inv, TypeOK, CommitCall, CommitFiles
  <2> QED
    BY <1>1, <1>3, <2>2, TransactionKeeps DEF CommitFiles
<1> QED
  BY <1>2, <1>3 DEF CommitFiles

\* One file at a time: committed, set aside or left.
LEMMA CommitSingleKeeps ==
  ASSUME Inv, CommitSingle PROVE Inv'
<1> USE DEF lakeVars, storeVars, diskVars, ingestVars
<1>1. PICK n \in batch :
        /\ batch' = batch \ {n}
        /\ \/ /\ CommitPaths({n}) /\ done' = done \cup {n}
              /\ UNCHANGED <<files, quarantine>>
           \/ /\ Fault
              /\ files' = files \ {n} /\ quarantine' = quarantine \cup {n}
              /\ UNCHANGED <<lakeVars, done>>
           \/ Fault /\ UNCHANGED <<lakeVars, done, files, quarantine>>
  BY DEF CommitSingle
<1>2. n \in files /\ n \in Name /\ cpc = "single" /\ cpc' = "single"
  BY DEF CommitSingle, Inv, Commits, TypeOK
<1>3. CASE CommitPaths({n}) /\ done' = done \cup {n} /\ UNCHANGED <<files, quarantine>>
  <2>1. lake' \in [Key -> Nat] /\ again' \subseteq Key /\ faults' \in 0..MaxFaults
    BY <1>2, <1>3, TransactionTyped, FS_Singleton DEF Inv
  <2>2. TypeOK'
    BY <1>1, <1>2, <1>3, <2>1 DEF Inv, TypeOK, CommitCall, CommitSingle
  <2> QED
    BY <1>1, <1>2, <1>3, <2>2, TransactionKeeps DEF CommitSingle
<1>4. CASE /\ Fault /\ files' = files \ {n} /\ quarantine' = quarantine \cup {n}
           /\ UNCHANGED <<lakeVars, done>>
  <2>1. TypeOK'
    BY <1>1, <1>2, <1>4, FaultTyped DEF Inv, TypeOK, CommitCall, CommitSingle
  <2>2. Commits'
    <3>1. IsFiniteSet(files')
      BY <1>4, FS_RemoveElement DEF Inv, Commits
    <3> QED
      BY <1>1, <1>2, <1>4, <3>1 DEF Inv, Commits, InLake, CommitSingle
  <2>3. \A k \in Key : Safe(k) => Safe(k)'
    BY <1>4 DEF Safe, BufferFiles, CommitSingle
  <2>4. Reads' /\ Safety'
    BY <1>4, <2>3, CommitFrame DEF CommitSingle
  <2>5. Complete'
    BY <1>4 DEF Inv, Complete, Known, CommitSingle
  <2> QED
    BY <2>1, <2>2, <2>4, <2>5 DEF Inv
<1>5. CASE Fault /\ UNCHANGED <<lakeVars, done, files, quarantine>>
  <2>1. TypeOK'
    BY <1>1, <1>2, <1>5, FaultTyped DEF Inv, TypeOK, CommitCall, CommitSingle
  <2>2. Commits'
    BY <1>1, <1>2, <1>5 DEF Inv, Commits, InLake, CommitSingle
  <2> QED
    BY <1>5, <2>1, <2>2, CommitMoves DEF CommitSingle
<1> QED
  BY <1>1, <1>3, <1>4, <1>5

\* Only committed files are hidden.
LEMMA TombstoneKeeps ==
  ASSUME Inv, Tombstone PROVE Inv'
<1> USE DEF lakeVars, storeVars, diskVars, ingestVars
<1>1. PICK n \in done : done' = done \ {n} /\ tombs' \in {tombs, tombs \cup {n}}
  BY DEF Tombstone
<1>2. TypeOK'
  BY <1>1, FaultTyped DEF Inv, TypeOK, CommitCall, Tombstone
<1>3. Commits'
  BY <1>1 DEF Inv, Commits, InLake, Tombstone
<1>4. \A k \in n : k \in Filtered \/ lake[k] > 0
  BY DEF Inv, Commits, InLake, Rows
<1>5. \A k \in Key : Safe(k) => Safe(k)'
  BY <1>1, <1>4 DEF Safe, BufferFiles, Tombstone
<1>6. Reads' /\ Safety'
  BY <1>5, CommitFrame DEF Tombstone
<1>7. Complete'
  BY CompleteFrame DEF Known, Tombstone
<1> QED
  BY <1>2, <1>3, <1>6, <1>7 DEF Inv

\* Both jobs stop; the stores and the disk are what they were.
LEMMA CrashKeeps ==
  ASSUME Inv, Crash PROVE Inv'
<1> USE DEF lakeVars, storeVars, diskVars
<1>1. TypeOK'
  BY FaultTyped DEF Inv, TypeOK, IngestCall, CommitCall, NoName, Crash
<1>2. Commits'
  BY DEF Inv, Commits, InLake, Crash
<1>3. Reads'
  BY DEF Inv, Reads, Crash
<1>4. Safety'
  BY DEF Inv, Safety, Safe, BufferFiles, Crash
<1>5. Complete'
  BY CompleteFrame DEF Known, Crash
<1> QED
  BY <1>1, <1>2, <1>3, <1>4, <1>5 DEF Inv

-----------------------------------------------------------------------------
(* The theorems *)

\* The invariant holds before anything has arrived.
LEMMA InitInv == Init => Inv
<1> SUFFICES ASSUME Init PROVE Inv
  OBVIOUS
<1>1. TypeOK
  BY BufferAssumption DEF Init, TypeOK, IngestCall, CommitCall, NoName
<1>2. Commits
  BY FS_EmptySet DEF Init, Commits
<1>3. Reads /\ Safety
  BY DEF Init, Reads, Safety
<1>4. Complete
  BY DEF Init, Complete
<1> QED
  BY <1>1, <1>2, <1>3, <1>4 DEF Inv

\* Every step of the two jobs and of their environment keeps it.
LEMMA NextInv == Inv /\ [Next]_vars => Inv'
<1> SUFFICES ASSUME Inv, [Next]_vars PROVE Inv'
  OBVIOUS
<1>1. CASE UNCHANGED vars
  BY <1>1
  DEF Inv, TypeOK, Commits, InLake, Reads, Safety, Safe, BufferFiles, Complete, Known,
      vars, lakeVars, storeVars, diskVars, ingestVars, commitVars
<1>2. CASE IngestStep \/ RecoveryGivesUp \/ IngestRaises
  BY <1>2, StartIngestKeeps, RecoverEntryKeeps, RecoverClearKeeps, RecoveredKeeps, ListedKeeps,
     ReclaimKeeps, ReadChunkKeeps, RecordInFlightKeeps, WriteToBufferKeeps, InsertIngestedKeeps,
     ClearInFlightKeeps, SubmitDeletesKeeps, FinishIngestKeeps, RecoveryGivesUpKeeps,
     IngestRaisesKeeps
  DEF IngestStep
<1>3. CASE CommitStep \/ GracePasses \/ Crash
  BY <1>3, QuietCommitKeeps, SweepFileKeeps, CommitFilesKeeps, CommitSingleKeeps, TombstoneKeeps,
     CrashKeeps
  DEF CommitStep
<1>4. CASE \E k \in Key : DeleteRaw(k) \/ Arrive(k)
  BY <1>4, BucketKeeps
<1> QED
  BY <1>1, <1>2, <1>3, <1>4 DEF Next

\* The invariant holds for any set of objects and any number of crashes.
THEOREM BufferInvariant == Spec => []Inv
  BY InitInv, NextInv, PTL DEF Spec

\* What ingested_files lists, or is gone from the bucket, is in the table, in a
\* visible buffer file or set aside (writer.ingest and commit_buffer across a
\* crash of the process).
THEOREM BufferIngestedSafe == Spec => []IngestedIsSafe
<1>1. Inv => IngestedIsSafe
  BY DEF Inv, Reads, Safety, IngestedIsSafe
<1> QED
  BY <1>1, BufferInvariant, PTL

\* A tombstone never hides a row that is only in its file
\* (tombstone_buffer_files, also when the name is written again).
THEOREM BufferHiddenInLake == Spec => []HiddenIsInLake
<1>1. Inv => HiddenIsInLake
  BY DEF Inv, Commits, InLake, HiddenIsInLake
<1> QED
  BY <1>1, BufferInvariant, PTL

\* Rows are never twice in the table when every recovery was complete, unless
\* the last commit of their object inserted over them after a failed schema sync
\* (_recover_in_flight with _commit_paths).
THEOREM BufferNoDuplicates == Spec => []NoDuplicateRows
<1>1. Inv => NoDuplicateRows
  BY DEF Inv, Complete, NoDuplicateRows
<1> QED
  BY <1>1, BufferInvariant, PTL
=============================================================================
