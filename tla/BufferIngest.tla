---------------------------- MODULE BufferIngest ----------------------------
(***************************************************************************)
(* Ingest without Celery (backend/core/ingest/writer.py and                *)
(* backend/core/storage/buffer.py): raw objects are written to local       *)
(* Parquet buffer files, which a second job commits to the DuckLake table, *)
(* hides with a tombstone and unlinks after a grace period.  The manifest  *)
(* ingest_in_flight and the table ingested_files in Postgres connect the   *)
(* two across a crash.                                                     *)
(*                                                                         *)
(* Both jobs are threads of one process: a crash stops them together.      *)
(* Raw objects are deleted after ingest (delete_after).  The rows of an    *)
(* object are one unit; those in Filtered lie outside the time range, so   *)
(* that no row of them is kept.                                            *)
(***************************************************************************)
EXTENDS Integers, FiniteSets

CONSTANTS
    Key,                    \* raw objects
    Filtered,               \* objects without a row in the time range
    MaxFaults,              \* bound: crashes, exceptions and failed calls
    MaxRecoveryFailures     \* bound: recoveries given up because of an exception

ASSUME BufferAssumption ==
    /\ Filtered \subseteq Key
    /\ MaxFaults \in Nat /\ MaxRecoveryFailures \in Nat

\* A buffer file is named after the objects it holds (_deterministic_buffer_name).
Name == (SUBSET Key) \ {{}}
NoName == {}

VARIABLES
    arrived, bucket,    \* raw objects ever written, and still in the bucket
    ingested,           \* ingested_files
    inflight,           \* ingest_in_flight
    files,              \* buffer files on disk
    tombs, aged,        \* tombstones, and those past the grace period
    quarantine,         \* files moved to .quarantine
    lake,               \* copies of each object's rows in the DuckLake table
    again,              \* history: objects last inserted over rows that were not deleted
    pc,                 \* ingest: next call
    entries,            \* ingest: manifest entries still to be recovered
    new, stranded,      \* ingest: objects to read, objects an earlier run left
    cur,                \* ingest: the file at hand
    deleting,           \* deletions handed to _delete_executor
    cpc, batch, done,   \* commit: next call, files to do, files committed
    faults, giveups

lakeVars == <<lake, again>>
storeVars == <<arrived, bucket, ingested, inflight, lakeVars>>
diskVars == <<files, tombs, aged, quarantine>>
ingestVars == <<pc, entries, new, stranded, cur>>
commitVars == <<cpc, batch, done>>
vars == <<storeVars, diskVars, ingestVars, deleting, commitVars, faults, giveups>>

IngestCall == {"idle", "recover", "recover_clear", "list", "full_list", "reclaim", "first",
               "chunk", "record", "write", "insert", "clear", "submit"}
CommitCall == {"idle", "sweep", "sweep_marker", "list", "commit", "single", "tombstone"}

TypeOK ==
    /\ arrived \subseteq Key /\ bucket \subseteq arrived
    /\ ingested \subseteq Key /\ inflight \subseteq Name
    /\ files \subseteq Name /\ tombs \subseteq Name /\ aged \subseteq tombs
    /\ quarantine \subseteq Name
    /\ lake \in [Key -> Nat] /\ again \subseteq Key
    /\ pc \in IngestCall /\ new \subseteq Key /\ cur \in Name \cup {NoName}
    /\ entries \subseteq Name /\ stranded \subseteq Key
    /\ deleting \subseteq ingested
    /\ cpc \in CommitCall /\ batch \subseteq Name /\ done \subseteq Name
    /\ faults \in 0..MaxFaults /\ giveups \in 0..MaxRecoveryFailures

Init ==
    /\ arrived = {} /\ bucket = {} /\ ingested = {} /\ inflight = {}
    /\ lake = [k \in Key |-> 0] /\ again = {}
    /\ files = {} /\ tombs = {} /\ aged = {} /\ quarantine = {}
    /\ pc = "idle" /\ entries = {} /\ new = {} /\ cur = NoName /\ stranded = {}
    /\ deleting = {}
    /\ cpc = "idle" /\ batch = {} /\ done = {}
    /\ faults = 0 /\ giveups = 0

Fault == faults < MaxFaults /\ faults' = faults + 1

\* The objects whose rows a file holds.
Rows(n) == n \ Filtered

-----------------------------------------------------------------------------
(* The ingest job: ingest, under its file lock *)

\* _recover_in_flight reads the manifest.
StartIngest ==
    /\ pc = "idle"
    /\ entries' = inflight
    /\ pc' = "recover"
    /\ UNCHANGED <<storeVars, diskVars, new, cur, stranded, deleting, commitVars, faults, giveups>>

\* Mutant: every entry counts as done, whether its file was written or not.
RecoverEntryAlways ==
    /\ pc = "recover"
    /\ \E n \in entries :
        /\ ingested' = ingested \cup n /\ cur' = n /\ pc' = "recover_clear"
        /\ entries' = entries \ {n}
        /\ UNCHANGED inflight
    /\ UNCHANGED <<arrived, bucket, lakeVars, diskVars, new, stranded, deleting, commitVars, faults, giveups>>

\* An entry whose file is there is promoted, any other is dropped.
RecoverEntry ==
    /\ pc = "recover"
    /\ \E n \in entries :
        /\ IF n \in files
           THEN ingested' = ingested \cup n /\ cur' = n /\ pc' = "recover_clear" /\ UNCHANGED inflight
           ELSE inflight' = inflight \ {n} /\ UNCHANGED <<ingested, cur, pc>>
        /\ entries' = entries \ {n}
    /\ UNCHANGED <<arrived, bucket, lakeVars, diskVars, new, stranded, deleting, commitVars, faults, giveups>>

RecoverClear ==
    /\ pc = "recover_clear"
    /\ inflight' = inflight \ {cur}
    /\ cur' = NoName
    /\ pc' = "recover"
    /\ UNCHANGED <<arrived, bucket, ingested, lakeVars, diskVars, new, entries, stranded, deleting, commitVars, faults, giveups>>

\* Recovery ends; the run lists the last minutes, or the whole bucket.
Recovered ==
    /\ pc = "recover" /\ entries = {}
    /\ pc' \in {"list", "full_list"}
    /\ UNCHANGED <<storeVars, diskVars, new, cur, entries, stranded, deleting, commitVars, faults, giveups>>

\* An exception in recovery is logged and the run goes on.
RecoveryGivesUp ==
    /\ pc \in {"recover", "recover_clear"}
    /\ giveups < MaxRecoveryFailures /\ giveups' = giveups + 1
    /\ entries' = {} /\ cur' = NoName
    /\ pc' = "list"
    /\ UNCHANGED <<storeVars, diskVars, new, stranded, deleting, commitVars, faults>>

\* list_fos_files: what is not in ingested_files is new; the rest was left by
\* an earlier run.
Listed(keys) ==
    /\ new' = keys \ ingested
    /\ stranded' = keys \cap ingested
    /\ pc' = "reclaim"
    /\ UNCHANGED <<storeVars, diskVars, entries, cur, deleting, commitVars, faults, giveups>>

ListRecent == pc = "list" /\ \E keys \in SUBSET bucket : Listed(keys)

ListAll == pc = "full_list" /\ Listed(bucket)

\* Mutant: raw objects that an interrupted run has left are not deleted.
ReclaimNothing ==
    /\ pc = "reclaim"
    /\ stranded' = {}
    /\ pc' = IF new = {} THEN "idle" ELSE "first"
    /\ UNCHANGED <<storeVars, diskVars, entries, new, cur, deleting, commitVars, faults, giveups>>

\* get_reclaimable_strand_filenames and _delete_objects_robust: only objects
\* with rows.
Reclaim ==
    /\ pc = "reclaim"
    /\ \/ bucket' = bucket \ Rows(stranded) /\ UNCHANGED faults
       \/ Rows(stranded) # {} /\ Fault /\ UNCHANGED bucket
    /\ stranded' = {}
    /\ pc' = IF new = {} THEN "idle" ELSE "first"
    /\ UNCHANGED <<arrived, ingested, inflight, lakeVars, diskVars, entries, new, cur, deleting, commitVars, giveups>>

\* The next chunk is downloaded and typed; objects that fail are left for the
\* next run.  Without a row to keep no file is written.
ReadChunk ==
    /\ pc \in {"first", "chunk"}
    /\ \E chunk \in (SUBSET new) \ {{}}, failed \in SUBSET new :
        /\ failed \subseteq chunk
        /\ IF failed = {} THEN UNCHANGED faults ELSE Fault
        /\ new' = new \ chunk
        /\ cur' = chunk \ failed
        /\ pc' = CASE cur' = NoName -> "chunk"
                   [] cur' # NoName /\ Rows(cur') = {} -> "insert"
                   [] OTHER -> "record"
    /\ UNCHANGED <<storeVars, diskVars, entries, stranded, deleting, commitVars, giveups>>

\* record_in_flight
RecordInFlight ==
    /\ pc = "record"
    /\ inflight' = inflight \cup {cur}
    /\ pc' = "write"
    /\ UNCHANGED <<arrived, bucket, ingested, lakeVars, diskVars, entries, new, cur, stranded, deleting, commitVars, faults, giveups>>

\* write_to_buffer: the file appears at once, by a rename.
WriteToBuffer ==
    /\ pc = "write"
    /\ files' = files \cup {cur}
    /\ pc' = "insert"
    /\ UNCHANGED <<storeVars, tombs, aged, quarantine, entries, new, cur, stranded, deleting, commitVars, faults, giveups>>

\* insert_ingested_files
InsertIngested ==
    /\ pc = "insert"
    /\ ingested' = ingested \cup cur
    /\ pc' = "clear"
    /\ UNCHANGED <<arrived, bucket, inflight, lakeVars, diskVars, entries, new, cur, stranded, deleting, commitVars, faults, giveups>>

ClearInFlight ==
    /\ pc = "clear"
    /\ inflight' = inflight \ {cur}
    /\ pc' = "submit"
    /\ UNCHANGED <<arrived, bucket, ingested, lakeVars, diskVars, entries, new, cur, stranded, deleting, commitVars, faults, giveups>>

\* The raw objects of the chunk go to the deletion threads.
SubmitDeletes ==
    /\ pc = "submit"
    /\ deleting' = deleting \cup cur
    /\ cur' = NoName
    /\ pc' = "chunk"
    /\ UNCHANGED <<storeVars, diskVars, entries, new, stranded, commitVars, faults, giveups>>

\* No chunk is left, or the time limit is reached, but not before the first
\* chunk.  The run waits up to five minutes for the deletions, which go on in
\* any case.
FinishIngest ==
    /\ pc = "chunk"
    /\ new' = {} /\ cur' = NoName
    /\ pc' = "idle"
    /\ UNCHANGED <<storeVars, diskVars, entries, stranded, deleting, commitVars, faults, giveups>>

\* An exception of any call: the run ends where it is.
IngestRaises ==
    /\ pc \notin {"idle", "recover", "recover_clear", "reclaim"} /\ Fault
    /\ entries' = {} /\ new' = {} /\ cur' = NoName /\ stranded' = {}
    /\ pc' = "idle"
    /\ UNCHANGED <<storeVars, diskVars, deleting, commitVars, giveups>>

\* A deletion thread; the bucket may refuse the deletion.
DeleteRaw(k) ==
    /\ k \in deleting
    /\ deleting' = deleting \ {k}
    /\ \/ bucket' = bucket \ {k} /\ UNCHANGED faults
       \/ Fault /\ UNCHANGED bucket
    /\ UNCHANGED <<arrived, ingested, inflight, lakeVars, diskVars, ingestVars, commitVars, giveups>>

-----------------------------------------------------------------------------
(* The commit job: commit_buffer, under the service's lock *)

StartCommit ==
    /\ cpc = "idle"
    /\ batch' = aged
    /\ cpc' = "sweep"
    /\ UNCHANGED <<storeVars, diskVars, ingestVars, deleting, done, faults, giveups>>

\* sweep_tombstoned_buffer_files: the file first ...
SweepFile ==
    /\ cpc = "sweep"
    /\ \E n \in batch : files' = files \ {n} /\ done' = {n}
    /\ cpc' = "sweep_marker"
    /\ UNCHANGED <<storeVars, tombs, aged, quarantine, ingestVars, deleting, batch, faults, giveups>>

\* ... then its tombstone, which a failure leaves behind.
SweepMarker ==
    /\ cpc = "sweep_marker"
    /\ \/ tombs' = tombs \ done /\ aged' = aged \ done /\ UNCHANGED faults
       \/ Fault /\ UNCHANGED <<tombs, aged>>
    /\ batch' = batch \ done /\ done' = {}
    /\ cpc' = "sweep"
    /\ UNCHANGED <<storeVars, files, quarantine, ingestVars, deleting, giveups>>

\* buffer_files
BufferFiles == files \ tombs

ListBuffer ==
    /\ cpc = "sweep" /\ batch = {}
    /\ batch' = BufferFiles
    /\ cpc' = IF batch' = {} THEN "idle" ELSE "commit"
    /\ UNCHANGED <<storeVars, diskVars, ingestVars, deleting, done, faults, giveups>>

\* The objects with rows in the files S.
Held(S) == UNION {Rows(n) : n \in S}

\* The rows of every file are inserted.
Inserted(S) == [k \in Key |-> lake[k] + Cardinality({n \in S : k \in Rows(n)})]

\* Mutant: the rows of an earlier commit are not deleted first.
InsertOnly(S) == Inserted(S)

\* The rows of all objects in the files S are deleted, then the rows of every
\* file inserted.
Replaced(S) ==
    [k \in Key |-> IF k \in Held(S) THEN Cardinality({n \in S : k \in Rows(n)}) ELSE lake[k]]

\* One transaction of _commit_paths.  An exception of the schema sync before it
\* is only logged: the columns of the files count as unknown, and the rows are
\* inserted without a delete.
CommitPaths(S) ==
    \/ lake' = Replaced(S) /\ again' = again \ Held(S) /\ UNCHANGED faults
    \/ /\ lake' = Inserted(S) /\ Fault
       /\ again' = again \cup {k \in Held(S) : lake[k] > 0}

\* _commit_one_chunk: all files in one transaction, or else one by one; without
\* a connection the job ends.
CommitFiles ==
    /\ cpc = "commit"
    /\ \/ /\ CommitPaths(batch)
          /\ done' = batch /\ batch' = {}
          /\ cpc' = "tombstone"
       \/ Fault /\ cpc' = "single" /\ UNCHANGED <<lakeVars, batch, done>>
       \/ Fault /\ cpc' = "idle" /\ batch' = {} /\ UNCHANGED <<lakeVars, done>>
    /\ UNCHANGED <<arrived, bucket, ingested, inflight, diskVars, ingestVars, deleting, giveups>>

\* Mutant: a file that fails is handed on as if it were committed.
CommitSingleAnyway ==
    /\ cpc = "single"
    /\ \E n \in batch :
        /\ batch' = batch \ {n} /\ done' = done \cup {n}
        /\ \/ CommitPaths({n})
           \/ Fault /\ UNCHANGED lakeVars
    /\ UNCHANGED <<arrived, bucket, ingested, inflight, diskVars, cpc, ingestVars, deleting, giveups>>

\* A file that cannot be read is quarantined, another error leaves it.
CommitSingle ==
    /\ cpc = "single"
    /\ \E n \in batch :
        /\ batch' = batch \ {n}
        /\ \/ /\ CommitPaths({n}) /\ done' = done \cup {n}
              /\ UNCHANGED <<files, quarantine>>
           \/ /\ Fault
              /\ files' = files \ {n} /\ quarantine' = quarantine \cup {n}
              /\ UNCHANGED <<lakeVars, done>>
           \/ Fault /\ UNCHANGED <<lakeVars, done, files, quarantine>>
    /\ UNCHANGED <<arrived, bucket, ingested, inflight, tombs, aged, cpc, ingestVars, deleting, giveups>>

SinglesEnd ==
    /\ cpc = "single" /\ batch = {}
    /\ cpc' = "tombstone"
    /\ UNCHANGED <<storeVars, diskVars, ingestVars, deleting, batch, done, faults, giveups>>

\* tombstone_buffer_files, one file at a time; a marker may not get written.
Tombstone ==
    /\ cpc = "tombstone"
    /\ \E n \in done :
        /\ done' = done \ {n}
        /\ \/ tombs' = tombs \cup {n} /\ UNCHANGED faults
           \/ Fault /\ UNCHANGED tombs
    /\ UNCHANGED <<storeVars, files, aged, quarantine, ingestVars, deleting, cpc, batch, giveups>>

FinishCommit ==
    /\ cpc = "tombstone" /\ done = {}
    /\ cpc' = "idle"
    /\ UNCHANGED <<storeVars, diskVars, ingestVars, deleting, batch, done, faults, giveups>>

-----------------------------------------------------------------------------
(* Process, clock and bucket *)

Crash ==
    /\ pc # "idle" \/ cpc # "idle" \/ deleting # {}
    /\ Fault
    /\ pc' = "idle" /\ entries' = {} /\ new' = {} /\ cur' = NoName /\ stranded' = {}
    /\ deleting' = {}
    /\ cpc' = "idle" /\ batch' = {} /\ done' = {}
    /\ UNCHANGED <<storeVars, diskVars, giveups>>

\* The grace period of a tombstone passes.
GracePasses ==
    /\ \E n \in tombs \ aged : aged' = aged \cup {n}
    /\ UNCHANGED <<storeVars, files, tombs, quarantine, ingestVars, deleting, commitVars, faults, giveups>>

Arrive(k) ==
    /\ k \notin arrived
    /\ arrived' = arrived \cup {k} /\ bucket' = bucket \cup {k}
    /\ UNCHANGED <<ingested, inflight, lakeVars, diskVars, ingestVars, deleting, commitVars, faults, giveups>>

-----------------------------------------------------------------------------
IngestStep ==
    \/ StartIngest \/ RecoverEntry \/ RecoverClear \/ Recovered \/ ListRecent \/ ListAll \/ Reclaim
    \/ ReadChunk \/ RecordInFlight \/ WriteToBuffer \/ InsertIngested \/ ClearInFlight
    \/ SubmitDeletes \/ FinishIngest

CommitStep ==
    \/ StartCommit \/ SweepFile \/ SweepMarker \/ ListBuffer \/ CommitFiles \/ CommitSingle
    \/ SinglesEnd \/ Tombstone \/ FinishCommit

Next ==
    \/ IngestStep \/ RecoveryGivesUp \/ IngestRaises
    \/ \E k \in Key : DeleteRaw(k) \/ Arrive(k)
    \/ CommitStep
    \/ Crash \/ GracePasses

Spec == Init /\ [][Next]_vars

\* The scheduler runs both jobs again and again; a full listing happens at
\* every full sweep.
Fairness ==
    /\ WF_vars(IngestStep) /\ SF_vars(Recovered /\ pc' = "full_list")
    /\ WF_vars(CommitStep) /\ WF_vars(GracePasses)
    /\ \A k \in Key : WF_vars(DeleteRaw(k))

FairSpec == Spec /\ Fairness

-----------------------------------------------------------------------------
(* Properties *)

\* The rows of k are in the table, or in a file the commit job will take, or
\* set aside.
Safe(k) ==
    \/ k \in Filtered \/ lake[k] > 0
    \/ \E n \in BufferFiles \cup quarantine : k \in n

\* What ingested_files lists is never ingested again, and its raw object may
\* be gone: whatever crashes, its rows are safe.
IngestedIsSafe == \A k \in ingested \cup (arrived \ bucket) : Safe(k)

\* A file that a tombstone hides, also one that was written again under the
\* name of an older one, holds no row that is not in the table.
HiddenIsInLake == \A n \in files \cap tombs : \A k \in Rows(n) : lake[k] > 0

\* Commits that are repeated after a crash, files ingested again after a
\* dropped manifest entry: the rows of an object are never twice in the table,
\* as long as every recovery has gone through the whole manifest, unless the
\* last commit of the object had no schema and found its rows there already.
NoDuplicateRows == giveups = 0 => \A k \in Key \ again : lake[k] <= 1

\* Every object with rows is in the end in the table or set aside, and its raw
\* copy gone; an object without rows is not read again.
EveryObjectSettles ==
    \A k \in Key : k \in arrived ~>
        IF k \in Filtered THEN k \in ingested
        ELSE k \notin bucket /\ (lake[k] > 0 \/ \E n \in quarantine : k \in n)
=============================================================================
