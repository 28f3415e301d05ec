--------------------------- MODULE CronLeaseProofs ---------------------------
(***************************************************************************)
(* Proofs about CronLease, for any number of threads, runs and faults.     *)
(*                                                                         *)
(* RunsAlone is not inductive: it does not say that the run at work has    *)
(* the lease, nor that a run which ended without a record still has it     *)
(* until its backstop releases it.  OneOwner says so, of the threads in    *)
(* Holder.                                                                 *)
(***************************************************************************)
EXTENDS CronLease, TLAPS

\* As long as none was ended by another, a lease is live while it has a holder,
\* and has one.
OneOwner ==
    ~lapsed => \A p \in Holder : lease = "live" /\ \A q \in Holder : p = q

Inv == TypeOK /\ OneOwner

-----------------------------------------------------------------------------

\* The initial state is typed.
LEMMA InitTypeOK == Init => TypeOK
<1> SUFFICES ASSUME Init PROVE TypeOK
  OBVIOUS
<1>1. lapsed \in BOOLEAN
  BY Zenon DEF Init
<1>2. requests \in 0..MaxRequests /\ faults \in 0..MaxFaults
  BY LeaseAssumption DEF Init
<1>3. runs \in [Run -> {"none", "running"} \cup Terminal]
  BY DEF Init, Terminal
<1>4. pc \in [Runner -> Statement] /\ id \in [Runner -> Run \cup {NoRun}]
  BY DEF Init, Statement
<1>5. \A p \in Runner : pc[p] \in {"work", "backstop", "release"} <=> id[p] # NoRun
  BY Zenon DEF Init
<1>6. lease \in {"none", "live", "expired"} /\ boot \in {"down", "leases", "runs", "done"} /\ early \subseteq Runner
  BY DEF Init
<1> QED
  BY <1>1, <1>2, <1>3, <1>4, <1>5, <1>6, Zenon DEF TypeOK

\* Every step keeps the types.
LEMMA NextTypeOK == TypeOK /\ [Next]_vars => TypeOK'
<1> SUFFICES ASSUME TypeOK, [Next]_vars PROVE TypeOK'
  OBVIOUS
<1> USE LeaseAssumption DEF TypeOK, Statement, Terminal, Goto, Fault, Leave
<1>1. ASSUME NEW p \in Runner, Trigger(p) PROVE TypeOK'
  BY <1>1 DEF Trigger
<1>2. ASSUME NEW p \in Runner, ReapRuns(p) PROVE TypeOK'
  BY <1>2 DEF ReapRuns, ReapedRuns
<1>3. ASSUME NEW p \in Runner, ReapLease(p) PROVE TypeOK'
  BY <1>3 DEF ReapLease
<1>4. ASSUME NEW p \in Runner, Acquire(p) PROVE TypeOK'
  BY <1>4 DEF Acquire
<1>5. ASSUME NEW p \in Runner, InsertRun(p) PROVE TypeOK'
  BY <1>5 DEF InsertRun, Fresh
<1>6. ASSUME NEW p \in Runner, Record(p) PROVE TypeOK'
  BY <1>6 DEF Record, FinalStatus
<1>7. ASSUME NEW p \in Runner, Backstop(p) PROVE TypeOK'
  BY <1>7 DEF Backstop
<1>8. ASSUME NEW p \in Runner, ReleaseLease(p) PROVE TypeOK'
  BY <1>8 DEF ReleaseLease
<1>9. ASSUME NEW p \in Runner, EndUnrecorded(p) PROVE TypeOK'
  BY <1>9 DEF EndUnrecorded
<1>10. ASSUME NEW p \in Runner, Heartbeat(p) PROVE TypeOK'
  BY <1>10 DEF Heartbeat
<1>11. ASSUME NEW r \in Run, ReportFailure(r) \/ PurgeRun(r) PROVE TypeOK'
  BY <1>11 DEF ReportFailure, PurgeRun
<1>12. ASSUME Expire \/ Crash \/ Restart PROVE TypeOK'
  <2>1. ASSUME Expire PROVE TypeOK'
    <3>1. (lapsed \in BOOLEAN)'
      BY <2>1, Zenon DEF Expire, Lapse
    <3>2. (faults \in 0..MaxFaults)'
      BY <2>1 DEF Expire
    <3> QED
      BY <2>1, <3>1, <3>2, Zenon DEF Expire
  <2>2. ASSUME Crash PROVE TypeOK'
    BY <2>2 DEF Crash
  <2>3. ASSUME Restart PROVE TypeOK'
    BY <2>3 DEF Restart
  <2> QED
    BY <1>12, <2>1, <2>2, <2>3
<1>13. ASSUME BootReapLease PROVE TypeOK'
  BY <1>13, Zenon DEF BootReapLease, Lapse
<1>14. ASSUME BootReapRuns PROVE TypeOK'
  BY <1>14 DEF BootReapRuns, ReapedRuns
<1>15. ASSUME NEW p \in Runner, RecordAgain(p) PROVE TypeOK'
  <2>1. (lapsed \in BOOLEAN)'
    BY <1>15, Zenon DEF RecordAgain, Lapse
  <2>2. runs' \in [Run -> {"none", "running"} \cup Terminal] /\ (faults \in 0..MaxFaults)'
    BY <1>15 DEF RecordAgain, FinalStatus
  <2> QED
    BY <1>15, <2>1, <2>2, Zenon DEF RecordAgain
<1>16. ASSUME NEW p \in Runner, DeleteRecord(p) PROVE TypeOK'
  BY <1>16 DEF DeleteRecord
<1>17. ASSUME NEW p \in Runner, SkipRow(p) \/ LogRefusal(p) PROVE TypeOK'
  <2>1. (lapsed \in BOOLEAN)'
    BY <1>17, Zenon DEF SkipRow, LogRefusal, LogNew, Lapse
  <2>2. runs' \in [Run -> {"none", "running"} \cup Terminal]
    BY <1>17 DEF SkipRow, LogRefusal, LogNew
  <2>3. (faults \in 0..MaxFaults)' /\ lease' = "none"
    BY <1>17 DEF SkipRow, LogRefusal, LogNew
  <2>4. /\ pc' \in [Runner -> Statement] /\ id' = id /\ UNCHANGED <<early, boot, requests>>
        /\ \A q \in Runner : pc'[q] \in {"work", "backstop", "release"} <=> id'[q] # NoRun
    BY <1>17 DEF SkipRow, LogRefusal
  <2> QED
    BY <2>1, <2>2, <2>3, <2>4, Zenon
<1>18. ASSUME UNCHANGED vars PROVE TypeOK'
  BY <1>18 DEF vars
<1> QED
  BY <1>1, <1>2, <1>3, <1>4, <1>5, <1>6, <1>7, <1>8, <1>9, <1>10, <1>11, <1>12, <1>13, <1>14, <1>15,
     <1>16, <1>17, <1>18 DEF Next, RunnerStep

\* Type correctness of the lease and of the records of runs.
THEOREM LeaseTypeCorrect == Spec => []TypeOK
  BY InitTypeOK, NextTypeOK, PTL DEF Spec

-----------------------------------------------------------------------------

\* A step that leaves the lease alone and makes no owner keeps OneOwner.
LEMMA NoNewOwner ==
    ASSUME OneOwner, lapsed' = lapsed, lease' = lease,
           Holder' \subseteq Holder
    PROVE  OneOwner'
  BY Zenon DEF OneOwner

\* No step gives a lease a second owner.
LEMMA NextOneOwner == Inv /\ [Next]_vars => OneOwner'
<1> SUFFICES ASSUME Inv, [Next]_vars PROVE OneOwner'
  OBVIOUS
<1> USE LeaseAssumption DEF Inv, TypeOK, Terminal, Goto, Leave
<1>1. ASSUME NEW p \in Runner, Trigger(p) PROVE OneOwner'
  <2>1. Holder' \subseteq Holder
    BY <1>1 DEF Trigger, Holder
  <2> QED
    BY <1>1, <2>1, NoNewOwner, Zenon DEF Trigger
<1>2. ASSUME NEW p \in Runner, ReapRuns(p) PROVE OneOwner'
  <2>1. Holder' \subseteq Holder
    BY <1>2 DEF ReapRuns, ReapedRuns, Holder
  <2> QED
    BY <1>2, <2>1, NoNewOwner, Zenon DEF ReapRuns
\* The lease that is reaped had expired, so nobody owned it.
<1>3. ASSUME NEW p \in Runner, ReapLease(p) PROVE OneOwner'
  <2>1. Holder' \subseteq Holder
    BY <1>3 DEF ReapLease, Holder
  <2> QED
    BY <1>3, <2>1 DEF ReapLease, ExpiredFor, OneOwner
\* The unique index: the new owner is the only one.
<1>4. ASSUME NEW p \in Runner, Acquire(p) PROVE OneOwner'
  <2>1. \A q \in Holder' : q \in Holder \/ (q = p /\ lease = "none" /\ lease' = "live")
    BY <1>4 DEF Acquire, Holder
  <2>2. lapsed' = lapsed /\ (lease # "none" => lease' = lease)
    BY <1>4 DEF Acquire
  <2> QED
    BY <2>1, <2>2 DEF OneOwner
<1>5. ASSUME NEW p \in Runner, InsertRun(p) PROVE OneOwner'
  <2>1. Holder' \subseteq Holder
    BY <1>5 DEF InsertRun, Fresh, Holder
  <2> QED
    BY <1>5, <2>1, NoNewOwner, Zenon DEF InsertRun
\* The owner gives the lease up, and there is no other.
<1>6. ASSUME NEW p \in Runner, Record(p) PROVE OneOwner'
  <2>1. p \in Holder /\ p \notin Holder'
    BY <1>6 DEF Record, FinalStatus, Holder
  <2>2. Holder' \subseteq Holder
    BY <1>6 DEF Record, FinalStatus, Holder
  <2> QED
    BY <1>6, <2>1, <2>2 DEF Record, OneOwner
<1>7. ASSUME NEW p \in Runner, Backstop(p) PROVE OneOwner'
  <2>1. Holder' \subseteq Holder
    BY <1>7 DEF Backstop, Holder
  <2> QED
    BY <1>7, <2>1, NoNewOwner, Zenon DEF Backstop
<1>8. ASSUME NEW p \in Runner, ReleaseLease(p) PROVE OneOwner'
  <2>1. p \in Holder /\ p \notin Holder'
    BY <1>8 DEF ReleaseLease, Holder
  <2>2. Holder' \subseteq Holder
    BY <1>8 DEF ReleaseLease, Holder
  <2> QED
    BY <1>8, <2>1, <2>2 DEF ReleaseLease, OneOwner
<1>9. ASSUME NEW p \in Runner, EndUnrecorded(p) PROVE OneOwner'
  <2>1. Holder' \subseteq Holder
    BY <1>9 DEF EndUnrecorded, Holder
  <2> QED
    BY <1>9, <2>1, NoNewOwner, Zenon DEF EndUnrecorded
<1>10. ASSUME NEW p \in Runner, Heartbeat(p) PROVE OneOwner'
  <2>1. Holder' \subseteq Holder
    BY <1>10 DEF Heartbeat, Holder
  <2> QED
    BY <1>10, <2>1, Zenon DEF Heartbeat, OneOwner
<1>11. ASSUME NEW r \in Run, ReportFailure(r) PROVE OneOwner'
  <2>1. Holder' \subseteq Holder
    BY <1>11 DEF ReportFailure, Holder
  <2> QED
    BY <1>11, <2>1, NoNewOwner, Zenon DEF ReportFailure
<1>12. ASSUME NEW r \in Run, PurgeRun(r) PROVE OneOwner'
  <2>1. Holder' \subseteq Holder
    BY <1>12 DEF PurgeRun, Holder
  <2> QED
    BY <1>12, <2>1, NoNewOwner, Zenon DEF PurgeRun
\* A lease that expires under its owner sets lapsed.
<1>13. ASSUME Expire PROVE OneOwner'
  <2>1. Holder' \subseteq Holder
    BY <1>13 DEF Expire, Holder
  <2> QED
    BY <1>13, <2>1, Zenon DEF Expire, Lapse, OneOwner
<1>14. ASSUME Crash PROVE OneOwner'
  BY <1>14 DEF Crash, Holder, OneOwner
<1>15. ASSUME Restart PROVE OneOwner'
  <2>1. Holder' \subseteq Holder
    BY <1>15 DEF Restart, Holder
  <2> QED
    BY <1>15, <2>1, NoNewOwner, Zenon DEF Restart
<1>16. ASSUME BootReapLease PROVE OneOwner'
  <2>1. Holder' \subseteq Holder
    BY <1>16 DEF BootReapLease, Holder
  <2> QED
    BY <1>16, <2>1, Zenon DEF BootReapLease, Lapse, OneOwner
<1>17. ASSUME BootReapRuns PROVE OneOwner'
  <2>1. Holder' \subseteq Holder
    BY <1>17 DEF BootReapRuns, ReapedRuns, Holder
  <2> QED
    BY <1>17, <2>1, NoNewOwner, Zenon DEF BootReapRuns
\* A second record ends the lease of its own run or, with lapsed, of another.
<1>18. ASSUME NEW p \in Runner, RecordAgain(p) PROVE OneOwner'
  <2>1. Holder' \subseteq Holder /\ p \notin Holder'
    BY <1>18 DEF RecordAgain, FinalStatus, Holder
  <2>2. ~lapsed' => ~lapsed /\ Holder \subseteq {p}
    BY <1>18, Zenon DEF RecordAgain, Lapse
  <2> QED
    BY <2>1, <2>2, Zenon DEF OneOwner
<1>19. ASSUME NEW p \in Runner, DeleteRecord(p) PROVE OneOwner'
  <2>1. Holder' \subseteq Holder
    BY <1>19 DEF DeleteRecord, Holder
  <2> QED
    BY <1>19, <2>1, NoNewOwner, Zenon DEF DeleteRecord
\* A row without a run ends no lease, or sets lapsed.
<1>20. ASSUME NEW p \in Runner, SkipRow(p) \/ LogRefusal(p) PROVE OneOwner'
  <2>1. Holder' \subseteq Holder
    BY <1>20 DEF SkipRow, LogRefusal, LogNew, Fresh, Holder
  <2>2. ~lapsed' => Holder = {}
    BY <1>20, Zenon DEF SkipRow, LogRefusal, LogNew, Lapse
  <2> QED
    BY <2>1, <2>2, Zenon DEF OneOwner
<1>21. ASSUME UNCHANGED vars PROVE OneOwner'
  <2>1. Holder' \subseteq Holder
    BY <1>21 DEF vars, Holder
  <2> QED
    BY <1>21, <2>1, NoNewOwner, Zenon DEF vars
<1> QED
  BY <1>1, <1>2, <1>3, <1>4, <1>5, <1>6, <1>7, <1>8, <1>9, <1>10, <1>11, <1>12, <1>13, <1>14,
     <1>15, <1>16, <1>17, <1>18, <1>19, <1>20, <1>21 DEF Next, RunnerStep

\* The inductive invariant of the lease.
LEMMA Invariant == Spec => []Inv
<1>1. Init => Inv
  BY InitTypeOK DEF Init, Inv, OneOwner, Holder
<1>2. Inv /\ [Next]_vars => Inv'
  BY NextTypeOK, NextOneOwner, Zenon DEF Inv
<1> QED
  BY <1>1, <1>2, PTL DEF Spec

-----------------------------------------------------------------------------
\* Unless a lease was ended by another than its holder (expiry, startup, a row
\* without a run, a second record), runs of a job never overlap: the unique index
\* of job_runs is enough although no two statements share a transaction.
THEOREM RunsDoNotOverlap == Spec => []RunsAlone
<1>1. Inv => RunsAlone
  BY DEF Inv, OneOwner, Holder, RunsAlone, AtWork
<1> QED
  BY <1>1, Invariant, PTL

\* start_cron_run puts no run into error that is still at work, under the same
\* condition.
THEOREM OrphansOnly == Spec => OnlyOrphansAreReaped
<1>1. Inv /\ [Next]_vars =>
        [~lapsed /\ (\E q \in Runner : ReapRuns(q)) =>
            \A p \in Runner : pc[p] = "work" => runs'[id[p]] = runs[id[p]]]_vars
  BY DEF Inv, OneOwner, Holder, ReapRuns, ExpiredFor
<1> QED
  BY <1>1, Invariant, PTL DEF Spec, OnlyOrphansAreReaped

\* No writer of a run's status turns an error into anything else; only a purge
\* removes it.
THEOREM ErrorsAreFinal == Spec => ErrorIsFinal
<1>1. TypeOK /\ [Next]_vars =>
        [\A r \in Run : runs[r] = "error" => runs'[r] \in {"error", "none"}]_vars
  <2> SUFFICES ASSUME TypeOK, Next, NEW r \in Run, runs[r] = "error"
               PROVE runs'[r] \in {"error", "none"}
    BY DEF vars
  <2> USE DEF TypeOK, RunnerStep
  <2>1. ASSUME NEW p \in Runner, ReapRuns(p) \/ BootReapRuns PROVE runs'[r] \in {"error", "none"}
    BY <2>1 DEF ReapRuns, BootReapRuns, ReapedRuns
  <2>2. ASSUME NEW p \in Runner, InsertRun(p) PROVE runs'[r] \in {"error", "none"}
    BY <2>2 DEF InsertRun, Fresh
  <2>3. ASSUME NEW p \in Runner, Record(p) \/ RecordAgain(p) \/ DeleteRecord(p)
        PROVE runs'[r] \in {"error", "none"}
    BY <2>3 DEF Record, RecordAgain, DeleteRecord, FinalStatus
  <2>4. ASSUME NEW p \in Runner, Backstop(p) PROVE runs'[r] \in {"error", "none"}
    BY <2>4 DEF Backstop
  <2>5. ASSUME NEW s \in Run, ReportFailure(s) \/ PurgeRun(s) PROVE runs'[r] \in {"error", "none"}
    BY <2>5 DEF ReportFailure, PurgeRun
  <2>10. ASSUME NEW p \in Runner, SkipRow(p) \/ LogRefusal(p) PROVE runs'[r] \in {"error", "none"}
    BY <2>10 DEF SkipRow, LogRefusal, LogNew, Fresh
  <2>6. ASSUME UNCHANGED runs PROVE runs'[r] \in {"error", "none"}
    BY <2>6
  <2>7. ASSUME NEW p \in Runner,
               Trigger(p) \/ ReapLease(p) \/ Acquire(p) \/ ReleaseLease(p) \/ EndUnrecorded(p) \/ Heartbeat(p)
        PROVE UNCHANGED runs
    BY <2>7, Zenon DEF Trigger, ReapLease, Acquire, ReleaseLease, EndUnrecorded, Heartbeat
  <2>8. ASSUME Expire \/ Crash \/ Restart \/ BootReapLease PROVE UNCHANGED runs
    BY <2>8, Zenon DEF Expire, Crash, Restart, BootReapLease
  <2>9. Scheduler \in Runner
    BY LeaseAssumption
  <2> QED
    BY <2>1, <2>2, <2>3, <2>4, <2>5, <2>6, <2>7, <2>8, <2>9, <2>10 DEF Next
<1> QED
  BY <1>1, LeaseTypeCorrect, PTL DEF Spec, ErrorIsFinal
=============================================================================
