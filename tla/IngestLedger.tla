---------------------------- MODULE IngestLedger ----------------------------
(***************************************************************************)
(* Ingest through the Postgres ledger and Celery                           *)
(* (backend/core/ingest: discovery.py, batch_worker.py, writer.py;         *)
(* backend/celery_app.py; backend/cron/jobs/commit.py): raw objects are    *)
(* discovered, claimed by workers, written to the DuckLake table,          *)
(* committed in the ledger, published by the commit job and deleted.       *)
(*                                                                         *)
(* One action per transaction or remote call.  Messages are delivered at   *)
(* least once and may be lost; a worker may be slow enough to lose its     *)
(* claim, fail, or die anywhere.  Row contents and counters are left out.  *)
(***************************************************************************)
EXTENDS Integers, FiniteSets, Bags

CONSTANTS
    Key,            \* raw objects
    Worker,         \* Celery workers
    Committer,      \* processes that run the commit job
    Nobody,         \* no holder, no claim token
    MaxAttempts,    \* LEDGER_MAX_ATTEMPTS
    MaxFaults,      \* bound: failures, deaths, duplicated messages, late workers
    MaxOperator     \* bound: retry and purge requests of an operator

ASSUME LedgerAssumption ==
    /\ Nobody \notin Worker \cup Committer
    /\ Worker \cap Committer = {}
    /\ MaxAttempts \in Nat \ {0} /\ MaxFaults \in Nat /\ MaxOperator \in Nat

Status == {"none", "discovered", "claimed", "committed", "quarantined", "dead_letter"}
Problem == {"quarantined", "dead_letter"}
Message == (SUBSET Key) \ {{}}

\* A row of ingest_ledger; status "none": there is none.
Row == [status : Status,
        gen : Nat,              \* lease_generation
        attempts : Nat,
        due : BOOLEAN,          \* next_attempt_at has passed or is NULL
        aged : BOOLEAN,         \* claimed: claimed_at is older than LEDGER_RECLAIM_AFTER_S
        published : BOOLEAN,    \* published_at is set
        grace : BOOLEAN,        \* committed_at is older than RAW_DELETE_GRACE_S
        deleted : BOOLEAN,      \* raw_deleted_at is set
        token : Committer \cup {Nobody}]    \* raw_delete_claim_token

NewRow == [status |-> "discovered", gen |-> 0, attempts |-> 0, due |-> TRUE, aged |-> FALSE,
           published |-> FALSE, grace |-> FALSE, deleted |-> FALSE, token |-> Nobody]
NoRow == [NewRow EXCEPT !.status = "none"]

VARIABLES
    arrived, bucket,    \* raw objects ever written to FOS, and still there
    ledger,             \* ingest_ledger
    queue,              \* q.ingest: a bag of messages
    lake,               \* copies of each object's rows in the DuckLake table
    inlined,            \* objects with rows that are only in the catalog
    admission,          \* holder of ducklake_write_admission
    pc, msg,            \* worker: next call, message being worked on
    held,               \* worker: claimed_generations, 0 for a key not claimed
    active,             \* worker: keys still to be committed or failed
    doomed,             \* worker: rows its open transaction has marked deleted
    spc, pending,       \* ledger sweep: next call, keys to dispatch
    cpc, todo,          \* commit job: next call, keys whose deletion it claimed
    vanished,           \* objects that expired in FOS (not deleted by the program)
    faults, operator

bucketVars == <<arrived, bucket, vanished>>
lakeVars == <<lake, inlined, admission>>
workerVars == <<pc, msg, held, active, doomed>>
sweepVars == <<spc, pending>>
commitVars == <<cpc, todo>>
vars == <<bucketVars, ledger, queue, lakeVars, workerVars, sweepVars, commitVars, faults, operator>>

WorkerCall == {"idle", "claim", "download", "head", "admit", "begin", "commit_lake",
               "leave", "mark", "fail"}
CommitCall == {"idle", "flush", "publish", "leave", "select", "delete", "record"}

TypeOK ==
    /\ arrived \subseteq Key /\ bucket \subseteq arrived /\ vanished \subseteq arrived
    /\ ledger \in [Key -> Row]
    /\ IsABag(queue) /\ BagToSet(queue) \subseteq Message
    /\ lake \in [Key -> Nat] /\ inlined \subseteq Key
    /\ admission \in Worker \cup Committer \cup {Nobody}
    /\ pc \in [Worker -> WorkerCall]
    /\ msg \in [Worker -> SUBSET Key]
    /\ held \in [Worker -> [Key -> Nat]]
    /\ active \in [Worker -> SUBSET Key]
    /\ doomed \in [Worker -> [Key -> Nat]]
    /\ spc \in {"idle", "stuck", "redispatch", "list", "dispatch"} /\ pending \subseteq Key
    /\ cpc \in [Committer -> CommitCall] /\ todo \in [Committer -> SUBSET Key]
    /\ faults \in 0..MaxFaults /\ operator \in 0..MaxOperator

NoKeys == [k \in Key |-> 0]

Init ==
    /\ arrived = {} /\ bucket = {} /\ vanished = {}
    /\ ledger = [k \in Key |-> NoRow]
    /\ queue = EmptyBag
    /\ lake = NoKeys /\ inlined = {} /\ admission = Nobody
    /\ pc = [w \in Worker |-> "idle"] /\ msg = [w \in Worker |-> {}]
    /\ held = [w \in Worker |-> NoKeys] /\ active = [w \in Worker |-> {}]
    /\ doomed = [w \in Worker |-> NoKeys]
    /\ spc = "idle" /\ pending = {}
    /\ cpc = [c \in Committer |-> "idle"] /\ todo = [c \in Committer |-> {}]
    /\ faults = 0 /\ operator = 0

Goto(w, call) == pc' = [pc EXCEPT ![w] = call]

Send(keys) == queue' = IF keys = {} THEN queue ELSE queue (+) SetToBag({keys})
Fault == faults < MaxFaults /\ faults' = faults + 1

\* The rows of keys S become f(row); the others stay.
UpdateRows(S, f(_)) == ledger' = [k \in Key |-> IF k \in S THEN f(ledger[k]) ELSE ledger[k]]

-----------------------------------------------------------------------------
(* A worker: convert_batch_files, for one message at a time *)

\* Delivery takes a message of the queue; it stays unacknowledged (acks_late).
Receive(w) ==
    /\ pc[w] = "idle"
    /\ \E m \in BagToSet(queue) :
        /\ queue' = queue (-) SetToBag({m})
        /\ msg' = [msg EXCEPT ![w] = m]
    /\ Goto(w, "claim")
    /\ UNCHANGED <<bucketVars, ledger, lakeVars, held, active, doomed, sweepVars, commitVars, faults, operator>>

\* The task ends and the message is acknowledged.
Finish(w) ==
    /\ Goto(w, "idle")
    /\ msg' = [msg EXCEPT ![w] = {}]
    /\ held' = [held EXCEPT ![w] = NoKeys]
    /\ active' = [active EXCEPT ![w] = {}]

Claimable(keys) == {k \in keys : ledger[k].status = "discovered"}

\* _ledger_claim_batch: next_attempt_at is not looked at.
Claim(w) ==
    /\ pc[w] = "claim"
    /\ LET won == Claimable(msg[w]) IN
       /\ UpdateRows(won, LAMBDA r : [r EXCEPT !.status = "claimed", !.gen = @ + 1,
                                               !.due = TRUE, !.aged = FALSE])
       /\ IF won = {} THEN Finish(w)
          ELSE /\ held' = [held EXCEPT ![w] = [k \in Key |-> IF k \in won THEN ledger[k].gen + 1 ELSE 0]]
               /\ active' = [active EXCEPT ![w] = won]
               /\ Goto(w, "download") /\ UNCHANGED msg
    /\ UNCHANGED <<bucketVars, queue, lakeVars, doomed, sweepVars, commitVars, faults, operator>>

\* Mutant: neither status nor generation is compared.
MineAlways(w, S) == S

\* What w may still write about its claims: rows of its own generation.
Mine(w, S) == {k \in S : ledger[k].status = "claimed" /\ ledger[k].gen = held[w][k]}

\* _ledger_record_failure
FailedRow(r) ==
    [r EXCEPT !.attempts = @ + 1, !.due = (r.attempts + 1 >= MaxAttempts), !.aged = FALSE,
              !.status = IF r.attempts + 1 >= MaxAttempts THEN "quarantined" ELSE "discovered"]

\* _download_chunk_to_local: objects that are not there are looked at one by
\* one; those that are there although their download failed go back at once.
\* An exception ends the batch.
Download(w) ==
    /\ pc[w] = "download"
    /\ \/ /\ Goto(w, IF active[w] \subseteq bucket THEN "admit" ELSE "head")
          /\ UNCHANGED <<ledger, msg, held, active, faults>>
       \/ /\ Fault
          /\ \E bad \in (SUBSET (active[w] \cap bucket)) \ {{}} :
               /\ UpdateRows(Mine(w, bad), FailedRow)
               /\ IF bad = active[w] THEN Finish(w)
                  ELSE /\ active' = [active EXCEPT ![w] = @ \ bad]
                       /\ Goto(w, IF active[w] \ bad \subseteq bucket THEN "admit" ELSE "head")
                       /\ UNCHANGED <<msg, held>>
       \/ Fault /\ Goto(w, "fail") /\ UNCHANGED <<ledger, msg, held, active>>
    /\ UNCHANGED <<bucketVars, queue, lakeVars, doomed, sweepVars, commitVars, operator>>

\* _ledger_mark_dead_letter_missing for the objects a HEAD does not find.
DeadLetterMissing(w) ==
    /\ pc[w] = "head"
    /\ LET missing == active[w] \ bucket IN
       /\ UpdateRows(Mine(w, missing), LAMBDA r : [r EXCEPT !.status = "dead_letter"])
       /\ IF missing = active[w] THEN Finish(w)
          ELSE /\ active' = [active EXCEPT ![w] = @ \ missing]
               /\ Goto(w, "admit") /\ UNCHANGED <<msg, held>>
    /\ UNCHANGED <<bucketVars, queue, lakeVars, doomed, sweepVars, commitVars, faults, operator>>

\* ducklake_write_admission, which may also time out.
EnterAdmission(w) ==
    /\ pc[w] = "admit"
    /\ \/ admission = Nobody /\ admission' = w /\ Goto(w, "begin") /\ UNCHANGED faults
       \/ admission # Nobody /\ Fault /\ Goto(w, "fail") /\ UNCHANGED admission
    /\ UNCHANGED <<bucketVars, ledger, queue, lake, inlined, msg, held, active, doomed, sweepVars, commitVars, operator>>

\* Mutant: the rows of an earlier attempt are not deleted first.
BeginWithoutDelete(w) ==
    /\ pc[w] = "begin"
    /\ doomed' = [doomed EXCEPT ![w] = NoKeys]
    /\ Goto(w, "commit_lake")
    /\ UNCHANGED <<bucketVars, ledger, queue, lakeVars, msg, held, active, sweepVars, commitVars, faults, operator>>

\* _ducklake_replace_source_rows: DELETE sees the rows of the snapshot the
\* transaction begins with.
BeginReplace(w) ==
    /\ pc[w] = "begin"
    /\ doomed' = [doomed EXCEPT ![w] = [k \in Key |-> IF k \in active[w] THEN lake[k] ELSE 0]]
    /\ Goto(w, "commit_lake")
    /\ UNCHANGED <<bucketVars, ledger, queue, lakeVars, msg, held, active, sweepVars, commitVars, faults, operator>>

\* Mutant: the exception is swallowed after the ROLLBACK.
CommitLakeSwallows(w) ==
    /\ pc[w] = "commit_lake"
    /\ \/ /\ lake' = [k \in Key |-> IF k \in active[w] THEN lake[k] - doomed[w][k] + 1 ELSE lake[k]]
          /\ inlined' = inlined \cup active[w] /\ UNCHANGED faults
       \/ Fault /\ UNCHANGED <<lake, inlined>>
    /\ Goto(w, "leave")
    /\ doomed' = [doomed EXCEPT ![w] = NoKeys]
    /\ UNCHANGED <<bucketVars, ledger, queue, admission, msg, held, active, sweepVars, commitVars, operator>>

\* INSERT and COMMIT, or an exception and ROLLBACK, or an exception later on.
CommitLake(w) ==
    /\ pc[w] = "commit_lake"
    /\ \/ /\ lake' = [k \in Key |-> IF k \in active[w] THEN lake[k] - doomed[w][k] + 1 ELSE lake[k]]
          /\ inlined' = inlined \cup active[w]
          /\ \/ Goto(w, "leave") /\ UNCHANGED faults
             \/ Fault /\ Goto(w, "fail")
       \/ Fault /\ Goto(w, "fail") /\ UNCHANGED <<lake, inlined>>
    /\ doomed' = [doomed EXCEPT ![w] = NoKeys]
    /\ UNCHANGED <<bucketVars, ledger, queue, admission, msg, held, active, sweepVars, commitVars, operator>>

Released(p) == IF admission = p THEN Nobody ELSE admission

\* _cleanup_batch_resources, before the ledger is written.
LeaveAdmission(w) ==
    /\ pc[w] = "leave"
    /\ admission' = Released(w)
    /\ Goto(w, "mark")
    /\ UNCHANGED <<bucketVars, ledger, queue, lake, inlined, msg, held, active, doomed, sweepVars, commitVars, faults, operator>>

\* _ledger_mark_committed_batch
MarkCommitted(w) ==
    /\ pc[w] = "mark"
    /\ UpdateRows(Mine(w, active[w]), LAMBDA r : [r EXCEPT !.status = "committed"])
    /\ Finish(w)
    /\ UNCHANGED <<bucketVars, queue, lakeVars, doomed, sweepVars, commitVars, faults, operator>>

\* _handle_batch_convert_exception, then the resources are released.
RecordFailure(w) ==
    /\ pc[w] = "fail"
    /\ UpdateRows(Mine(w, active[w]), FailedRow)
    /\ admission' = Released(w)
    /\ Finish(w)
    /\ UNCHANGED <<bucketVars, queue, lake, inlined, doomed, sweepVars, commitVars, faults, operator>>

\* The worker dies: the message returns (reject_on_worker_lost, or the
\* visibility timeout), the transaction and the advisory lock are gone.
WorkerDies(w) ==
    /\ pc[w] # "idle" /\ Fault
    /\ Send(msg[w])
    /\ admission' = Released(w)
    /\ doomed' = [doomed EXCEPT ![w] = NoKeys]
    /\ Finish(w)
    /\ UNCHANGED <<bucketVars, ledger, lake, inlined, sweepVars, commitVars, operator>>

\* The visibility timeout passes under a worker that is still busy.
Redeliver(w) ==
    /\ pc[w] # "idle" /\ Fault
    /\ Send(msg[w])
    /\ UNCHANGED <<bucketVars, ledger, lakeVars, workerVars, sweepVars, commitVars, operator>>

\* The broker restarts and loses a message.
LoseMessage ==
    /\ \E m \in BagToSet(queue) : queue' = queue (-) SetToBag({m})
    /\ Fault
    /\ UNCHANGED <<bucketVars, ledger, lakeVars, workerVars, sweepVars, commitVars, operator>>

-----------------------------------------------------------------------------
(* The ledger sweep: sweep_ledger_once; its last part is discover_prefix,  *)
(* which also runs by itself every minute                                  *)

\* Claims past LEDGER_RECLAIM_AFTER_S are freed, in a transaction of its own.
ReclaimClaims ==
    /\ spc = "idle"
    /\ LET old == {k \in Key : ledger[k].status = "claimed" /\ ledger[k].aged} IN
       /\ UpdateRows(old, LAMBDA r : [r EXCEPT !.status = "discovered", !.due = TRUE, !.aged = FALSE])
       /\ pending' = old
    /\ spc' = "stuck"
    /\ UNCHANGED <<bucketVars, queue, lakeVars, workerVars, commitVars, faults, operator>>

\* Mutant: only the reclaimed rows are dispatched again.
FindReclaimedOnly ==
    /\ spc = "stuck"
    /\ spc' = "redispatch"
    /\ UNCHANGED <<pending, bucketVars, ledger, queue, lakeVars, workerVars, commitVars, faults, operator>>

\* Rows whose message may be lost.
FindStuck ==
    /\ spc = "stuck"
    /\ pending' = pending \cup {k \in Key : ledger[k].status = "discovered" /\ ledger[k].due}
    /\ spc' = "redispatch"
    /\ UNCHANGED <<bucketVars, ledger, queue, lakeVars, workerVars, commitVars, faults, operator>>

\* _redispatch_pending, in one batch: only when the queue holds fewer messages
\* than the pending rows need.
Redispatch ==
    /\ spc = "redispatch"
    /\ IF BagCardinality(queue) >= 1 THEN UNCHANGED queue ELSE Send(pending)
    /\ pending' = {}
    /\ spc' = "list"
    /\ UNCHANGED <<bucketVars, ledger, lakeVars, workerVars, commitVars, faults, operator>>

\* _discover_prefix_common: new objects get a row, in one transaction ...
DiscoverPrefix ==
    /\ spc = "list"
    /\ pending' = {k \in bucket : ledger[k].status = "none"}
    /\ UpdateRows(pending', LAMBDA r : NewRow)
    /\ spc' = "dispatch"
    /\ UNCHANGED <<bucketVars, queue, lakeVars, workerVars, commitVars, faults, operator>>

\* ... and a message, unless the broker is away or the process dies.
DispatchDiscovered ==
    /\ spc = "dispatch"
    /\ \/ Send(pending) /\ UNCHANGED faults
       \/ pending # {} /\ Fault /\ UNCHANGED queue
    /\ pending' = {}
    /\ spc' = "idle"
    /\ UNCHANGED <<bucketVars, ledger, lakeVars, workerVars, commitVars, operator>>

-----------------------------------------------------------------------------
(* The commit job: merge_lake_files, then finalize_committed_raw *)

CGoto(c, call) == cpc' = [cpc EXCEPT ![c] = call]

StartMerge(c) ==
    /\ cpc[c] = "idle" /\ admission = Nobody
    /\ admission' = c
    /\ CGoto(c, "flush")
    /\ UNCHANGED <<bucketVars, ledger, queue, lake, inlined, workerVars, sweepVars, todo, faults, operator>>

\* Mutant: the lock is only kept for the flush itself.
FlushAndLeave(c) ==
    /\ cpc[c] = "flush"
    /\ inlined' = {}
    /\ admission' = Released(c)
    /\ CGoto(c, "publish")
    /\ UNCHANGED <<bucketVars, ledger, queue, lake, workerVars, sweepVars, todo, faults, operator>>

\* ducklake_flush_inlined_data and the merge of adjacent files.
FlushInlined(c) ==
    /\ cpc[c] = "flush"
    /\ inlined' = {}
    /\ CGoto(c, "publish")
    /\ UNCHANGED <<bucketVars, ledger, queue, lake, admission, workerVars, sweepVars, todo, faults, operator>>

\* _mark_ledger_published: every committed row.
MarkPublished(c) ==
    /\ cpc[c] = "publish"
    /\ UpdateRows({k \in Key : ledger[k].status = "committed"}, LAMBDA r : [r EXCEPT !.published = TRUE])
    /\ CGoto(c, "leave")
    /\ UNCHANGED <<bucketVars, queue, lakeVars, workerVars, sweepVars, todo, faults, operator>>

LeaveMerge(c) ==
    /\ cpc[c] = "leave"
    /\ admission' = Released(c)
    /\ CGoto(c, "select")
    /\ UNCHANGED <<bucketVars, ledger, queue, lake, inlined, workerVars, sweepVars, todo, faults, operator>>

\* Mutant: raw objects go as soon as their rows are written.
RawDeletableClaimed(k) ==
    ledger[k].status \in {"claimed", "committed"} /\ ~ledger[k].deleted /\ ledger[k].token = Nobody

RawDeletable(k) ==
    /\ ledger[k].status = "committed" /\ ledger[k].published /\ ledger[k].grace
    /\ ~ledger[k].deleted /\ ledger[k].token = Nobody

\* The rows to delete are selected, then claimed with a token, under the same
\* conditions.
ClaimDeletion(c) ==
    /\ cpc[c] = "select"
    /\ LET S == {k \in Key : RawDeletable(k)} IN
       /\ UpdateRows(S, LAMBDA r : [r EXCEPT !.token = c])
       /\ todo' = [todo EXCEPT ![c] = S]
       /\ CGoto(c, IF S = {} THEN "idle" ELSE "delete")
    /\ UNCHANGED <<bucketVars, queue, lakeVars, workerVars, sweepVars, faults, operator>>

\* delete_objects: all of them, or some with the rest reported as errors, or an
\* exception, after which the token stays until its lease is over.
DeleteRaw(c) ==
    /\ cpc[c] = "delete"
    /\ \/ /\ bucket' = bucket \ todo[c]
          /\ CGoto(c, "record") /\ UNCHANGED <<ledger, todo, faults>>
       \/ /\ Fault
          /\ \E failed \in (SUBSET todo[c]) \ {{}} :
               /\ bucket' = bucket \ (todo[c] \ failed)
               /\ UpdateRows({k \in failed : ledger[k].token = c},
                             LAMBDA r : [r EXCEPT !.token = Nobody])
               /\ todo' = [todo EXCEPT ![c] = @ \ failed]
          /\ CGoto(c, "record")
       \/ /\ Fault
          /\ todo' = [todo EXCEPT ![c] = {}]
          /\ CGoto(c, "idle") /\ UNCHANGED <<bucket, ledger>>
    /\ UNCHANGED <<arrived, vanished, queue, lakeVars, workerVars, sweepVars, operator>>

RecordDeleted(c) ==
    /\ cpc[c] = "record"
    /\ UpdateRows({k \in todo[c] : ledger[k].token = c /\ ~ledger[k].deleted},
                  LAMBDA r : [r EXCEPT !.deleted = TRUE, !.token = Nobody])
    /\ todo' = [todo EXCEPT ![c] = {}]
    /\ CGoto(c, "idle")
    /\ UNCHANGED <<bucketVars, queue, lakeVars, workerVars, sweepVars, faults, operator>>

\* The commit job dies; its lock is released with its connection.
CommitterDies(c) ==
    /\ cpc[c] # "idle" /\ Fault
    /\ admission' = Released(c)
    /\ todo' = [todo EXCEPT ![c] = {}]
    /\ CGoto(c, "idle")
    /\ UNCHANGED <<bucketVars, ledger, queue, lake, inlined, workerVars, sweepVars, operator>>

-----------------------------------------------------------------------------
(* Operators, clock and bucket *)

\* retry_ingest_ledger_entries, with its dispatch.
RetryEntry(k) ==
    /\ operator < MaxOperator /\ operator' = operator + 1
    /\ ledger[k].status \in Problem
    /\ UpdateRows({k}, LAMBDA r : [r EXCEPT !.status = "discovered", !.attempts = 0,
                                            !.due = TRUE, !.aged = FALSE])
    /\ Send({k})
    /\ UNCHANGED <<bucketVars, lakeVars, workerVars, sweepVars, commitVars, faults>>

\* purge_ingest_ledger_entries: the row goes, and its generation with it.
PurgeEntry(k) ==
    /\ operator < MaxOperator /\ operator' = operator + 1
    /\ ledger[k].status \in Problem
    /\ UpdateRows({k}, LAMBDA r : NoRow)
    /\ UNCHANGED <<bucketVars, queue, lakeVars, workerVars, sweepVars, commitVars, faults>>

\* A claim gets old: its worker is gone, or late, which counts as a fault.
ClaimAges(k) ==
    /\ ledger[k].status = "claimed" /\ ~ledger[k].aged
    /\ \/ ~(\E w \in Worker : held[w][k] = ledger[k].gen) /\ UNCHANGED faults
       \/ (\E w \in Worker : held[w][k] = ledger[k].gen) /\ Fault
    /\ UpdateRows({k}, LAMBDA r : [r EXCEPT !.aged = TRUE])
    /\ UNCHANGED <<bucketVars, queue, lakeVars, workerVars, sweepVars, commitVars, operator>>

\* next_attempt_at passes.
RetryDue(k) ==
    /\ ledger[k].status = "discovered" /\ ~ledger[k].due
    /\ UpdateRows({k}, LAMBDA r : [r EXCEPT !.due = TRUE])
    /\ UNCHANGED <<bucketVars, queue, lakeVars, workerVars, sweepVars, commitVars, faults, operator>>

GracePasses(k) ==
    /\ ledger[k].status = "committed" /\ ~ledger[k].grace
    /\ UpdateRows({k}, LAMBDA r : [r EXCEPT !.grace = TRUE])
    /\ UNCHANGED <<bucketVars, queue, lakeVars, workerVars, sweepVars, commitVars, faults, operator>>

\* RAW_DELETE_CLAIM_LEASE_S passes: another run may claim the deletion.
DeletionClaimExpires(k) ==
    /\ ledger[k].token # Nobody
    /\ \/ ~(\E c \in Committer : k \in todo[c]) /\ UNCHANGED faults
       \/ (\E c \in Committer : k \in todo[c]) /\ Fault
    /\ UpdateRows({k}, LAMBDA r : [r EXCEPT !.token = Nobody])
    /\ UNCHANGED <<bucketVars, queue, lakeVars, workerVars, sweepVars, commitVars, operator>>

Arrive(k) ==
    /\ k \notin arrived
    /\ arrived' = arrived \cup {k} /\ bucket' = bucket \cup {k}
    /\ UNCHANGED <<vanished, ledger, queue, lakeVars, workerVars, sweepVars, commitVars, faults, operator>>

\* A lifecycle rule of the bucket removes an object.
Vanish(k) ==
    /\ k \in bucket /\ Fault
    /\ bucket' = bucket \ {k} /\ vanished' = vanished \cup {k}
    /\ UNCHANGED <<arrived, ledger, queue, lakeVars, workerVars, sweepVars, commitVars, operator>>

-----------------------------------------------------------------------------
WorkerStep(w) ==
    \/ Receive(w) \/ Claim(w) \/ Download(w) \/ DeadLetterMissing(w) \/ EnterAdmission(w)
    \/ BeginReplace(w) \/ CommitLake(w) \/ LeaveAdmission(w) \/ MarkCommitted(w) \/ RecordFailure(w)

SweepStep == ReclaimClaims \/ FindStuck \/ Redispatch \/ DiscoverPrefix \/ DispatchDiscovered

CommitStep(c) ==
    \/ StartMerge(c) \/ FlushInlined(c) \/ MarkPublished(c) \/ LeaveMerge(c)
    \/ ClaimDeletion(c) \/ DeleteRaw(c) \/ RecordDeleted(c)

Clock == \E k \in Key : ClaimAges(k) \/ RetryDue(k) \/ GracePasses(k) \/ DeletionClaimExpires(k)

Environment ==
    \/ \E w \in Worker : WorkerDies(w) \/ Redeliver(w)
    \/ \E c \in Committer : CommitterDies(c)
    \/ LoseMessage
    \/ \E k \in Key : RetryEntry(k) \/ PurgeEntry(k) \/ Arrive(k) \/ Vanish(k)

Next ==
    \/ \E w \in Worker : WorkerStep(w)
    \/ SweepStep
    \/ \E c \in Committer : CommitStep(c)
    \/ Clock
    \/ Environment

Spec == Init /\ [][Next]_vars

\* Celery keeps its workers running and the scheduler its jobs; the clock
\* passes.  The lock is granted to a waiting writer in the end (Postgres queues
\* the waiters), hence strong fairness where it is taken.
Fairness ==
    /\ \A w \in Worker : WF_vars(WorkerStep(w)) /\ SF_vars(EnterAdmission(w))
    /\ WF_vars(SweepStep)
    /\ \A c \in Committer : WF_vars(CommitStep(c)) /\ SF_vars(StartMerge(c))
    /\ \A k \in Key : WF_vars(ClaimAges(k)) /\ WF_vars(RetryDue(k)) /\ WF_vars(GracePasses(k))
                      /\ WF_vars(DeletionClaimExpires(k))

FairSpec == Spec /\ Fairness

-----------------------------------------------------------------------------
(* Properties *)

\* Delivery at least once, late workers that write the same object again and
\* retries of half-done batches never leave an object's rows twice in the
\* table (claim, admission and delete-then-insert together).
NoDuplicateRows == \A k \in Key : lake[k] <= 1

\* A row is committed only when the table holds the object, also when the
\* generation a late worker compares starts again after a purge.
CommittedIsInLake == \A k \in Key : ledger[k].status = "committed" => lake[k] = 1

\* A raw object that the program has deleted is in the table for good:
\* finalize_committed_raw against late rewrites, repeated claims and partial
\* deletions.
DeletedIsInLake == \A k \in arrived \ (bucket \cup vanished) : lake[k] = 1

\* published_at is only written for rows that are in data files, not just
\* inlined in the catalog: a worker cannot write and commit between the flush
\* and the update (merge_lake_files, _mark_ledger_published).
PublishedIsFlushed ==
    [][\A k \in Key : ledger'[k].published /\ ~ledger[k].published => k \notin inlined]_vars

\* A committed row stays committed: no late worker, failure, reclaim or
\* operator takes it back, so its object is never processed again.
CommittedIsFinal ==
    [][\A k \in Key : ledger[k].status = "committed" => ledger'[k].status = "committed"]_vars

\* Every object is settled: committed and then deleted, or set aside for the
\* operator, or purged by one without a listing that finds it again.  Lost
\* messages, dead workers and skipped dispatches are recovered by the sweep.
EveryObjectSettles ==
    \A k \in Key : k \in arrived ~>
        \/ ledger[k].status = "committed" /\ ledger[k].deleted
        \/ ledger[k].status \in Problem
        \/ ledger[k].status = "none" /\ k \notin bucket
=============================================================================
