------------------------------ MODULE CronLease ------------------------------
(***************************************************************************)
(* The lease under which a cron job of one service runs                    *)
(* (backend/core/metadata/cron_runs.py, backend/cron/scheduler/lifecycle.py*)
(* and the startup in backend/core/lifespan.py): a row of job_runs with    *)
(* status 'running' is the lease, a row of cron_runs the record of a run.  *)
(*                                                                         *)
(* Threads of the one backend process start the job: the scheduler's, and  *)
(* those of manual requests.  The Postgres connections are in autocommit   *)
(* mode, so every statement of start_cron_run is a step of its own; only   *)
(* log_cron_run opens a transaction.                                       *)
(***************************************************************************)
EXTENDS Integers

CONSTANTS
    Runner,         \* threads that start the job
    Scheduler,      \* the scheduler's thread among them
    Run,            \* rows of cron_runs
    NoRun,
    MaxRequests,    \* bound: manual requests
    MaxFaults       \* bound: crashes, failed calls, skipped ticks, missed heartbeats, late reports

ASSUME LeaseAssumption ==
    /\ Scheduler \in Runner /\ NoRun \notin Run
    /\ MaxRequests \in Nat /\ MaxFaults \in Nat

VARIABLES
    lease,      \* the 'running' row of job_runs: "none", "live", or "expired"
    runs,       \* cron_runs: status of each row, "none" before it is written
    pc, id,     \* runner: next statement, its run_id
    early,      \* runners whose 'now' is before the expiry of the lease
    boot,       \* the process: "down", startup's next reap, or "done"
    lapsed,     \* history: a lease was ended, but not by the thread that held it
    requests, faults

vars == <<lease, runs, pc, id, early, boot, lapsed, requests, faults>>

Statement == {"idle", "reap_runs", "reap_lease", "acquire", "refused", "insert", "work", "backstop", "release"}

\* "success" stands for every final status but error (warning, skipped...).
Terminal == {"success", "error"}

TypeOK ==
    /\ lease \in {"none", "live", "expired"}
    /\ runs \in [Run -> {"none", "running"} \cup Terminal]
    /\ pc \in [Runner -> Statement] /\ id \in [Runner -> Run \cup {NoRun}]
    /\ \A p \in Runner : pc[p] \in {"work", "backstop", "release"} <=> id[p] # NoRun
    /\ early \subseteq Runner /\ boot \in {"down", "leases", "runs", "done"}
    /\ lapsed \in BOOLEAN /\ requests \in 0..MaxRequests /\ faults \in 0..MaxFaults

Init ==
    /\ lease = "none" /\ runs = [r \in Run |-> "none"]
    /\ pc = [p \in Runner |-> "idle"] /\ id = [p \in Runner |-> NoRun]
    /\ early = {} /\ boot = "leases" /\ lapsed = FALSE /\ requests = 0 /\ faults = 0

Fault == faults < MaxFaults /\ faults' = faults + 1
Goto(p, s) == pc' = [pc EXCEPT ![p] = s]
Up == boot # "down"

\* Every row of cron_runs that is 'running' ends in error.
ReapedRuns == [r \in Run |-> IF runs[r] = "running" THEN "error" ELSE runs[r]]

\* The threads that have acquired a lease and not yet come to ending it: the
\* backstop of a run with a final status leaves the lease alone.
Holder == {p \in Runner : \/ pc[p] \in {"insert", "work", "release"}
                          \/ pc[p] = "backstop" /\ runs[id[p]] = "running"}

\* History: the lease that ends is none of the given threads'.
Lapse(own) == lapsed' = (lapsed \/ Holder \ own # {})

\* A row for a new run: ids are never used again while a thread still knows them.
Fresh(r) == runs[r] = "none" /\ \A p \in Runner : id[p] # r

-----------------------------------------------------------------------------
(* start_cron_run *)

\* The scheduler's tick or a manual request, also while startup is still reaping:
\* the scheduler is started first.
Trigger(p) ==
    /\ Up /\ pc[p] = "idle"
    /\ IF p = Scheduler THEN UNCHANGED requests
       ELSE requests < MaxRequests /\ requests' = requests + 1
    /\ Goto(p, "reap_runs")
    /\ UNCHANGED <<lease, runs, id, early, boot, lapsed, faults>>

\* Mutant: orphaned rows are left to startup.
ReapRunsNever(p) ==
    /\ pc[p] = "reap_runs"
    /\ Goto(p, "reap_lease")
    /\ UNCHANGED <<lease, runs, id, early, boot, lapsed, requests, faults>>

\* The lease had expired when the thread began: it compares with that time.
ExpiredFor(p) == lease = "expired" /\ p \notin early

\* Rows without a live lease are orphans.
ReapRuns(p) ==
    /\ pc[p] = "reap_runs"
    /\ runs' = IF lease = "none" \/ ExpiredFor(p) THEN ReapedRuns ELSE runs
    /\ Goto(p, "reap_lease")
    /\ UNCHANGED <<lease, id, early, boot, lapsed, requests, faults>>

\* Mutant: the comparison with the time to live is the wrong way round.
ReapAnyLease(p) ==
    /\ pc[p] = "reap_lease"
    /\ lease' = "none"
    /\ Goto(p, "acquire") /\ early' = early \ {p}
    /\ UNCHANGED <<runs, id, boot, lapsed, requests, faults>>

\* Mutant: expired leases are left to startup.
ReapNoLease(p) ==
    /\ pc[p] = "reap_lease"
    /\ Goto(p, "acquire") /\ early' = early \ {p}
    /\ UNCHANGED <<lease, runs, id, boot, lapsed, requests, faults>>

ReapLease(p) ==
    /\ pc[p] = "reap_lease"
    /\ lease' = IF ExpiredFor(p) THEN "none" ELSE lease
    /\ Goto(p, "acquire") /\ early' = early \ {p}
    /\ UNCHANGED <<runs, id, boot, lapsed, requests, faults>>

\* INSERT ... ON CONFLICT DO NOTHING: the unique index decides; without the row
\* the run is skipped (CronLeaseHeldError), or the request reports the refusal.
Acquire(p) ==
    /\ pc[p] = "acquire"
    /\ \/ lease = "none" /\ lease' = "live" /\ Goto(p, "insert")
       \/ lease # "none" /\ UNCHANGED lease /\ Goto(p, "idle")
       \/ lease # "none" /\ UNCHANGED lease /\ p # Scheduler /\ Goto(p, "refused")
    /\ UNCHANGED <<runs, id, early, boot, lapsed, requests, faults>>

InsertRun(p) ==
    /\ pc[p] = "insert"
    /\ \E r \in Run :
        /\ Fresh(r)
        /\ runs' = [runs EXCEPT ![r] = "running"]
        /\ id' = [id EXCEPT ![p] = r]
    /\ Goto(p, "work")
    /\ UNCHANGED <<lease, early, boot, lapsed, requests, faults>>

-----------------------------------------------------------------------------
(* cron_run: the job and its end *)

\* Mutant: the status in the row is overwritten.
FinalStatusGiven(r, status) == status

\* A row that already is in error stays so.
FinalStatus(r, status) == IF runs[r] = "error" THEN "error" ELSE status

\* log_cron_run: one transaction, which ends whatever lease the task has.
Record(p) ==
    /\ pc[p] = "work"
    /\ \E status \in Terminal : runs' = [runs EXCEPT ![id[p]] = FinalStatus(id[p], status)]
    /\ lease' = "none"
    /\ Goto(p, "backstop")
    /\ UNCHANGED <<id, early, boot, lapsed, requests, faults>>

\* What a job does after its record fails (views, status, the next job), or the
\* record itself: the handler of the job records an error for the same run. The
\* lease that this ends may be a later run's.
RecordAgain(p) ==
    /\ pc[p] = "backstop" /\ Fault
    /\ runs' = [runs EXCEPT ![id[p]] = IF @ = "none" THEN "none" ELSE FinalStatus(id[p], "error")]
    /\ lease' = "none" /\ Lapse({p})
    /\ UNCHANGED <<pc, id, early, boot, requests>>

\* A success that is not to be logged: the row is deleted, the lease stays.
DeleteRecord(p) ==
    /\ pc[p] = "work"
    /\ runs' = [runs EXCEPT ![id[p]] = "none"]
    /\ Goto(p, "backstop")
    /\ UNCHANGED <<lease, id, early, boot, lapsed, requests, faults>>

\* log_cron_run without a run id: a row of its own, and the same end of whatever
\* lease the task has.
LogNew(status) ==
    /\ \E r \in Run : Fresh(r) /\ runs' = [runs EXCEPT ![r] = status]
    /\ lease' = "none" /\ Lapse({})

\* record_skip_row: a tick that finds no disk space, or nothing to do, and has
\* not asked for the lease.
SkipRow(p) ==
    /\ Up /\ pc[p] = "idle" /\ Fault
    /\ LogNew("success")
    /\ UNCHANGED <<pc, id, early, boot, requests>>

\* metadata_cleanup_now records the refusal of its own request as an error.
LogRefusal(p) ==
    /\ pc[p] = "refused"
    /\ LogNew("error")
    /\ Goto(p, "idle")
    /\ UNCHANGED <<id, early, boot, requests, faults>>

\* The job ends without a record, or its transaction is rolled back.
EndUnrecorded(p) ==
    /\ pc[p] = "work" /\ Fault
    /\ Goto(p, "backstop")
    /\ UNCHANGED <<lease, runs, id, early, boot, lapsed, requests>>

Leave(p) == Goto(p, "idle") /\ id' = [id EXCEPT ![p] = NoRun]

\* finalize_cron_run_if_running, for the jobs that ask for it.
Backstop(p) ==
    /\ pc[p] = "backstop"
    /\ \/ Leave(p) /\ UNCHANGED runs
       \/ /\ runs[id[p]] = "running"
          /\ runs' = [runs EXCEPT ![id[p]] = "error"]
          /\ Goto(p, "release") /\ UNCHANGED id
    /\ UNCHANGED <<lease, early, boot, lapsed, requests, faults>>

ReleaseLease(p) ==
    /\ pc[p] = "release"
    /\ lease' = "none"
    /\ Leave(p)
    /\ UNCHANGED <<runs, early, boot, lapsed, requests, faults>>

\* _apply_cron_run_outcome_deltas: a worker reports the failure of an object
\* that the run has discovered, now or long ago.
ReportFailure(r) ==
    /\ runs[r] # "none" /\ Fault
    /\ runs' = [runs EXCEPT ![r] = "error"]
    /\ UNCHANGED <<lease, pc, id, early, boot, lapsed, requests>>

-----------------------------------------------------------------------------
(* Heartbeats, the process, and old rows *)

\* The first heartbeat comes ten seconds after the start: a run that is skipped
\* sends none.
Beats(p) == pc[p] \in {"insert", "work", "backstop", "release"}

\* CronHeartbeat refreshes the row of the task, whichever run has written it.
Heartbeat(p) ==
    /\ Beats(p) /\ lease = "expired"
    /\ lease' = "live"
    /\ UNCHANGED <<runs, pc, id, early, boot, lapsed, requests, faults>>

\* lease_ttl_s passes without a heartbeat: nobody sends one, or they fail.
Expire ==
    /\ lease = "live"
    /\ lease' = "expired"
    /\ early' = {p \in Runner : pc[p] \in {"reap_runs", "reap_lease"}}
    /\ IF \A p \in Runner : ~Beats(p) THEN UNCHANGED faults ELSE Fault
    /\ Lapse({})
    /\ UNCHANGED <<runs, pc, id, boot, requests>>

Crash ==
    /\ Up /\ Fault
    /\ boot' = "down"
    /\ pc' = [p \in Runner |-> "idle"] /\ id' = [p \in Runner |-> NoRun] /\ early' = {}
    /\ UNCHANGED <<lease, runs, lapsed, requests>>

Restart ==
    /\ boot = "down"
    /\ boot' = "leases"
    /\ UNCHANGED <<lease, runs, pc, id, early, lapsed, requests, faults>>

\* reap_running_cron_runs, from _initialize_service: whatever lease and rows are
\* there, a job that has already started included.
BootReapLease ==
    /\ boot = "leases"
    /\ lease' = "none"
    /\ Lapse({})
    /\ boot' = "runs"
    /\ UNCHANGED <<runs, pc, id, early, requests, faults>>

BootReapRuns ==
    /\ boot = "runs"
    /\ runs' = ReapedRuns
    /\ boot' = "done"
    /\ UNCHANGED <<lease, pc, id, early, lapsed, requests, faults>>

\* purge_cron_runs; the row is free for a later run of the model.
PurgeRun(r) ==
    /\ runs[r] \in Terminal /\ \A p \in Runner : id[p] # r
    /\ runs' = [runs EXCEPT ![r] = "none"]
    /\ UNCHANGED <<lease, pc, id, early, boot, lapsed, requests, faults>>

-----------------------------------------------------------------------------
RunnerStep(p) ==
    \/ ReapRuns(p) \/ ReapLease(p) \/ Acquire(p) \/ InsertRun(p)
    \/ Record(p) \/ DeleteRecord(p) \/ LogRefusal(p) \/ Backstop(p) \/ ReleaseLease(p)

Next ==
    \/ \E p \in Runner : Trigger(p) \/ RunnerStep(p) \/ EndUnrecorded(p) \/ Heartbeat(p)
    \/ \E p \in Runner : RecordAgain(p) \/ SkipRow(p)
    \/ \E r \in Run : ReportFailure(r) \/ PurgeRun(r)
    \/ Expire \/ Crash \/ Restart \/ BootReapLease \/ BootReapRuns

Spec == Init /\ [][Next]_vars

\* Jobs end (their time limits), the scheduler ticks, the process is started
\* again, the clock passes; old rows are purged.
Fairness ==
    /\ \A p \in Runner : WF_vars(RunnerStep(p))
    /\ WF_vars(Trigger(Scheduler))
    /\ WF_vars(Restart) /\ WF_vars(BootReapLease) /\ WF_vars(BootReapRuns)
    /\ WF_vars(Expire /\ UNCHANGED faults) /\ \A r \in Run : WF_vars(PurgeRun(r))

FairSpec == Spec /\ Fairness

-----------------------------------------------------------------------------
(* Properties *)

AtWork == {p \in Runner : pc[p] \in {"insert", "work"}}

\* Two runs of a job never overlap, in spite of statements that commit one by one,
\* manual runs, crashes and restarts, unless somebody else has ended the lease of
\* a run: the clock without heartbeats, startup, a row logged without a run
\* (a skipped tick, a refused request) or the second record of an earlier run.
\* The end of a run that kept its lease never does.
RunsAlone == ~lapsed => \A p, q \in AtWork : p = q

\* A run that starts only reaps the rows of runs that are no longer at work,
\* under the same condition.
OnlyOrphansAreReaped ==
    [][~lapsed /\ (\E q \in Runner : ReapRuns(q)) =>
        \A p \in Runner : pc[p] = "work" => runs'[id[p]] = runs[id[p]]]_vars

\* A run that was reported or reaped as an error is never shown as a success,
\* whichever of its writers comes last.
ErrorIsFinal ==
    [][\A r \in Run : runs[r] = "error" => runs'[r] \in {"error", "none"}]_vars

\* No row stays 'running' for ever, whatever way its run ended.
EveryRunEnds == \A r \in Run : runs[r] = "running" ~> runs[r] # "running"

\* A lease that a dead or silent run has left never blocks the job for good.
JobRunsAgain == []<>(AtWork # {})
=============================================================================
