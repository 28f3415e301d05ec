--------------------------- MODULE ArchiveObjects ---------------------------
(***************************************************************************)
(* The three FOS objects behind one archive (artifact, manifest, commit    *)
(* marker), call by call: ArchivePublication                               *)
(* (backend/high_scale/archive/manifests.py) as ingest_batch publishes     *)
(* with it, as the deletion sweeper verifies with it and as the expirer    *)
(* deletes with it.  HighScaleWorker and ArchiveDeletion take each of      *)
(* these as one step.                                                      *)
(*                                                                         *)
(* One manifest id.  The id fixes the artifact's bytes, not the manifest's *)
(* JSON: coverage and deadlines are the time of the attempt, so every      *)
(* attempt has a version of its own unless it adopts the registered one.   *)
(* The bytes depend on a column order that a process takes from the hash   *)
(* seed it started with, so that two processes rarely have the same id:    *)
(* attempts follow one another unless Overlap is TRUE.                     *)
(***************************************************************************)
EXTENDS Naturals, FiniteSets

CONSTANTS
    Worker,         \* replicas that ingest the batch
    Sweeper,        \* processes that run deletion sweep and expiry
    MaxAttempts,    \* bound: attempts to ingest the batch
    MaxFailures,    \* bound: calls that raise and processes that die
    Overlap         \* TRUE: two replicas with one column order, one of them past its lease

ASSUME ObjectsAssumption ==
    /\ Worker \cap Sweeper = {}
    /\ MaxAttempts \in Nat \ {0} /\ MaxFailures \in Nat
    /\ Overlap \in BOOLEAN

Version == 1..MaxAttempts
Stored == 0..MaxAttempts            \* 0: the object or row does not exist
Process == Worker \cup Sweeper

ReadCall == {"head_json", "head_commit", "get_json", "get_commit", "get_artifact"}
WorkerCall == {"idle", "lookup", "put_artifact", "verify_artifact", "put_json", "verify_json",
               "put_commit", "register", "acknowledge"} \cup ReadCall
SweeperCall == {"idle", "delete_raw", "mark_deleted", "delete_commit", "delete_json",
                "delete_artifact", "mark_expired"} \cup ReadCall

VARIABLES
    artifact,       \* the .parquet object exists
    json,           \* version of the .json object
    commit,         \* version whose checksum the .commit object carries
    raw,            \* the raw source objects exist
    row,            \* version registered in high_scale_archive_manifests
    rowState,       \* its state and archive_expired_at
    acked,          \* the sources are acknowledged
    pc,             \* the remote call each process makes next
    version,        \* manifest of each worker's attempt
    seen,           \* what each process got for [json, commit]
    checked,        \* worker: the check of publish is the one after the commit put
    verified,       \* _verified_manifests of each sweeper
    attempts, failures

objects == <<artifact, json, commit>>
control == <<row, rowState, acked>>
locals == <<version, seen, checked, verified>>
vars == <<objects, raw, control, pc, locals, attempts, failures>>

TypeOK ==
    /\ artifact \in BOOLEAN /\ json \in Stored /\ commit \in Stored
    /\ raw \in BOOLEAN /\ row \in Stored /\ acked \in BOOLEAN
    /\ rowState \in {"none", "committed", "source_deleted", "expired"}
    /\ \A w \in Worker : pc[w] \in WorkerCall
    /\ \A s \in Sweeper : pc[s] \in SweeperCall
    /\ DOMAIN pc = Process
    /\ version \in [Worker -> Stored]
    /\ seen \in [Process -> [json : Stored, commit : Stored]]
    /\ checked \in [Worker -> BOOLEAN]
    /\ verified \in [Sweeper -> BOOLEAN]
    /\ attempts \in 0..MaxAttempts /\ failures \in 0..MaxFailures

\* What _read_verified_artifact would find if nothing changed meanwhile.
Replayable == artifact /\ json # 0 /\ commit = json

Init ==
    /\ artifact = FALSE /\ json = 0 /\ commit = 0
    /\ raw = TRUE /\ row = 0 /\ rowState = "none" /\ acked = FALSE
    /\ pc = [p \in Process |-> "idle"]
    /\ version = [w \in Worker |-> 0]
    /\ seen = [p \in Process |-> [json |-> 0, commit |-> 0]]
    /\ checked = [w \in Worker |-> FALSE]
    /\ verified = [s \in Sweeper |-> FALSE]
    /\ attempts = 0 /\ failures = 0

Goto(p, call) == pc' = [pc EXCEPT ![p] = call]

-----------------------------------------------------------------------------
(* ArchivePublication.is_replayable, for publishers and sweepers alike *)

\* Mutant: publish trusts nothing it finds and always writes the objects.
VerdictUnread(p, ok) ==
    \/ /\ p \in Worker
       /\ Goto(p, IF ~checked[p] THEN "put_artifact" ELSE IF ok THEN "register" ELSE "idle")
       /\ UNCHANGED verified
    \/ /\ p \in Sweeper
       /\ verified' = [verified EXCEPT ![p] = ok]
       /\ Goto(p, IF ok THEN "delete_raw" ELSE "idle")

\* What the callers do with the answer: publish returns at once or, after its
\* own puts, raises; the sweeper remembers a positive answer.
Verdict(p, ok) ==
    \/ /\ p \in Worker
       /\ Goto(p, IF ok THEN "register" ELSE IF checked[p] THEN "idle" ELSE "put_artifact")
       /\ UNCHANGED verified
    \/ /\ p \in Sweeper
       /\ verified' = [verified EXCEPT ![p] = ok]
       /\ Goto(p, IF ok THEN "delete_raw" ELSE "idle")

Unread == UNCHANGED <<objects, raw, control, version, checked, attempts, failures>>

HeadJson(p) ==
    /\ pc[p] = "head_json"
    /\ \/ json = 0 /\ Verdict(p, FALSE)
       \/ json # 0 /\ Goto(p, "head_commit") /\ UNCHANGED verified
    /\ Unread /\ UNCHANGED seen

HeadCommit(p) ==
    /\ pc[p] = "head_commit"
    /\ \/ commit = 0 /\ Verdict(p, FALSE)
       \/ commit # 0 /\ Goto(p, "get_json") /\ UNCHANGED verified
    /\ Unread /\ UNCHANGED seen

\* A get of an object deleted since raises the client's own error, which
\* _read_verified_artifact does not catch: publish or sweep end.
GetJson(p) ==
    /\ pc[p] = "get_json"
    /\ seen' = [seen EXCEPT ![p].json = json]
    /\ Goto(p, IF json = 0 THEN "idle" ELSE "get_commit")
    /\ Unread /\ UNCHANGED verified

GetCommit(p) ==
    /\ pc[p] = "get_commit"
    /\ seen' = [seen EXCEPT ![p].commit = commit]
    /\ \/ commit = 0 /\ Goto(p, "idle") /\ UNCHANGED verified
       \/ commit # 0 /\ commit # seen[p].json /\ Verdict(p, FALSE)
       \/ commit # 0 /\ commit = seen[p].json /\ Goto(p, "get_artifact") /\ UNCHANGED verified
    /\ Unread

GetArtifact(p) ==
    /\ pc[p] = "get_artifact"
    /\ \/ artifact /\ Verdict(p, TRUE)
       \/ ~artifact /\ Goto(p, "idle") /\ UNCHANGED verified
    /\ Unread /\ UNCHANGED seen

ReadStep(p) == HeadJson(p) \/ HeadCommit(p) \/ GetJson(p) \/ GetCommit(p) \/ GetArtifact(p)

-----------------------------------------------------------------------------
(* A worker's attempt: ingest_batch up to the acknowledgement *)

\* The source is claimed and read, the batch built with the time of now.
StartAttempt(w) ==
    /\ pc[w] = "idle" /\ attempts < MaxAttempts
    /\ ~acked /\ raw
    /\ Overlap \/ \A v \in Worker : pc[v] = "idle"
    /\ attempts' = attempts + 1
    /\ version' = [version EXCEPT ![w] = attempts + 1]
    /\ checked' = [checked EXCEPT ![w] = FALSE]
    /\ Goto(w, "lookup")
    /\ UNCHANGED <<objects, raw, control, seen, verified, failures>>

\* A manifest that is already registered is adopted as it is.
LookupManifest(w) ==
    /\ pc[w] = "lookup"
    /\ version' = [version EXCEPT ![w] = IF row = 0 THEN @ ELSE row]
    /\ Goto(w, "head_json")
    /\ UNCHANGED <<objects, raw, control, seen, checked, verified, attempts, failures>>

\* A call that takes effect may still lose its reply, and then raises.
Replied(p, call) ==
    \/ Goto(p, call) /\ UNCHANGED failures
    \/ failures < MaxFailures /\ failures' = failures + 1 /\ Goto(p, "idle")

PutArtifact(w) ==
    /\ pc[w] = "put_artifact"
    /\ artifact' = TRUE
    /\ Replied(w, "verify_artifact")
    /\ UNCHANGED <<json, commit, raw, control, locals, attempts>>

VerifyArtifact(w) ==
    /\ pc[w] = "verify_artifact"
    /\ Goto(w, IF artifact THEN "put_json" ELSE "idle")
    /\ UNCHANGED <<objects, raw, control, locals, attempts, failures>>

PutManifest(w) ==
    /\ pc[w] = "put_json"
    /\ json' = version[w]
    /\ Replied(w, "verify_json")
    /\ UNCHANGED <<artifact, commit, raw, control, locals, attempts>>

VerifyManifest(w) ==
    /\ pc[w] = "verify_json"
    /\ Goto(w, IF json = version[w] THEN "put_commit" ELSE "idle")
    /\ UNCHANGED <<objects, raw, control, locals, attempts, failures>>

PutCommit(w) ==
    /\ pc[w] = "put_commit"
    /\ commit' = version[w]
    /\ checked' = [checked EXCEPT ![w] = TRUE]
    /\ Replied(w, "head_json")
    /\ UNCHANGED <<artifact, json, raw, control, version, seen, verified, attempts>>

\* _publish_control_manifest: a row that says something else is an error.
Register(w) ==
    /\ pc[w] = "register"
    /\ \/ /\ row = 0
          /\ row' = version[w] /\ rowState' = "committed"
          /\ Replied(w, "acknowledge")
       \/ /\ row # 0
          /\ Goto(w, IF row = version[w] /\ rowState = "committed" THEN "acknowledge" ELSE "idle")
          /\ UNCHANGED <<row, rowState, failures>>
    /\ UNCHANGED <<objects, raw, acked, locals, attempts>>

\* The rest of ingest_batch: the rows become visible and the sources are
\* acknowledged.
Acknowledge(w) ==
    /\ pc[w] = "acknowledge"
    /\ acked' = TRUE
    /\ Replied(w, "idle")
    /\ UNCHANGED <<objects, raw, row, rowState, locals, attempts>>

-----------------------------------------------------------------------------
(* A sweeper: delete_manifest_sources, then HighScaleArchiveExpirer.expire *)

\* The sources are deletable: acknowledged, past their deadline, not deleted.
StartSweep(s) ==
    /\ pc[s] = "idle"
    /\ acked /\ rowState = "committed"
    /\ Goto(s, IF verified[s] THEN "delete_raw" ELSE "head_json")
    /\ UNCHANGED <<objects, raw, control, locals, attempts, failures>>

DeleteRaw(s) ==
    /\ pc[s] = "delete_raw"
    /\ raw' = FALSE
    /\ Replied(s, "mark_deleted")
    /\ UNCHANGED <<objects, control, locals, attempts>>

MarkDeleted(s) ==
    /\ pc[s] = "mark_deleted"
    /\ rowState' = IF rowState = "committed" THEN "source_deleted" ELSE rowState
    /\ Replied(s, "idle")
    /\ UNCHANGED <<objects, raw, row, acked, locals, attempts>>

\* Mutant: the expirer does not wait for the sources to be deleted.
StartExpiryWhenDue(s) ==
    /\ pc[s] = "idle"
    /\ rowState \in {"committed", "source_deleted"}
    /\ Goto(s, "delete_commit")
    /\ UNCHANGED <<objects, raw, control, locals, attempts, failures>>

\* Mutant: the artifact, the largest object, is deleted first.
StartExpiryWithArtifact(s) ==
    /\ pc[s] = "idle"
    /\ rowState = "source_deleted"
    /\ artifact' = FALSE
    /\ Goto(s, "delete_commit")
    /\ UNCHANGED <<json, commit, raw, control, locals, attempts, failures>>

\* expirable_archive_manifests: all sources deleted, retention over.
StartExpiry(s) ==
    /\ pc[s] = "idle"
    /\ rowState = "source_deleted"
    /\ Goto(s, "delete_commit")
    /\ UNCHANGED <<objects, raw, control, locals, attempts, failures>>

DeleteCommit(s) ==
    /\ pc[s] = "delete_commit"
    /\ commit' = 0
    /\ Replied(s, "delete_json")
    /\ UNCHANGED <<artifact, json, raw, control, locals, attempts>>

\* Mutant: the row is marked before the last object is deleted.
DeleteManifestAndMark(s) ==
    /\ pc[s] = "delete_json"
    /\ json' = 0
    /\ rowState' = "expired"
    /\ Replied(s, "delete_artifact")
    /\ UNCHANGED <<artifact, commit, raw, row, acked, locals, attempts>>

DeleteManifest(s) ==
    /\ pc[s] = "delete_json"
    /\ json' = 0
    /\ Replied(s, "delete_artifact")
    /\ UNCHANGED <<artifact, commit, raw, control, locals, attempts>>

DeleteArtifact(s) ==
    /\ pc[s] = "delete_artifact"
    /\ artifact' = FALSE
    /\ Replied(s, "mark_expired")
    /\ UNCHANGED <<json, commit, raw, control, locals, attempts>>

MarkExpired(s) ==
    /\ pc[s] = "mark_expired"
    /\ rowState' = "expired"
    /\ Goto(s, "idle")
    /\ UNCHANGED <<objects, raw, row, acked, locals, attempts, failures>>

-----------------------------------------------------------------------------
\* A call raises without an effect, or the process dies; a new process has no
\* cache.
Raise(p) ==
    /\ pc[p] # "idle" /\ failures < MaxFailures
    /\ failures' = failures + 1
    /\ Goto(p, "idle")
    /\ \/ UNCHANGED verified
       \/ p \in Sweeper /\ verified[p] /\ verified' = [verified EXCEPT ![p] = FALSE]
    /\ UNCHANGED <<objects, raw, control, version, seen, checked, attempts>>

WorkerStep(w) ==
    \/ StartAttempt(w) \/ LookupManifest(w) \/ ReadStep(w)
    \/ PutArtifact(w) \/ VerifyArtifact(w) \/ PutManifest(w) \/ VerifyManifest(w)
    \/ PutCommit(w) \/ Register(w) \/ Acknowledge(w)

SweeperStep(s) ==
    \/ StartSweep(s) \/ ReadStep(s) \/ DeleteRaw(s) \/ MarkDeleted(s)
    \/ StartExpiry(s) \/ DeleteCommit(s) \/ DeleteManifest(s) \/ DeleteArtifact(s) \/ MarkExpired(s)

Next ==
    \/ \E w \in Worker : WorkerStep(w)
    \/ \E s \in Sweeper : SweeperStep(s)
    \/ \E p \in Process : Raise(p)

Spec == Init /\ [][Next]_vars

\* Some replica and some sweeper keep running (HighScaleWorkerLoop), and a
\* process that began a call goes on with it.
Fairness ==
    /\ \A w \in Worker : WF_vars(WorkerStep(w))
    /\ \A s \in Sweeper : WF_vars(SweeperStep(s))

FairSpec == Spec /\ Fairness

-----------------------------------------------------------------------------
(* Properties *)

\* Expiry has begun on an archive that was whole.
Expiring == rowState \in {"source_deleted", "expired"} /\ ~Replayable

\* What a reader makes of the three objects.
Shown == IF Expiring THEN "expired" ELSE IF Replayable THEN "committed" ELSE "absent"

\* The three objects, written and deleted one by one with crashes and lost
\* replies between, are to readers one archive that appears, stays replayable
\* and is expired, each in one step (publish, is_replayable, expire).
Lifetime == INSTANCE ArchiveLifetime WITH state <- Shown
AtomicArchive == Lifetime!Spec

\* There is always a copy to rebuild from until retention is over: the raw
\* objects are deleted only when the archive can be replayed, whatever a
\* sweeper has cached (DeletionController, HighScaleArchiveExpirer).
CopyRemains == raw \/ Replayable \/ Expiring

\* "The commit marker first so a partial deletion never looks committed", and
\* last in publish: a marker never stands without the objects it vouches for.
MarkerIsBacked == commit # 0 => artifact /\ json = commit

\* An attempt that starts from whatever an earlier one left behind gets
\* through, and in the end nothing of the archive is left in FOS.
Reclaimed == <>[](acked /\ ~raw /\ rowState = "expired" /\ ~artifact /\ json = 0 /\ commit = 0)
=============================================================================
