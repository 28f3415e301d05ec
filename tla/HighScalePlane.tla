--------------------------- MODULE HighScalePlane ---------------------------
(***************************************************************************)
(* The high-scale plane: ingest workers and deletion sweeps over the same  *)
(* control plane, bucket, archive and ClickHouse, as                       *)
(* HighScaleWorkerLoop.run_once runs them (backend/high_scale/worker.py).  *)
(***************************************************************************)
EXTENDS HighScaleWorker, ArchiveDeletion

planeVars == <<vars, sweepVars>>

PlaneTypeOK == TypeOK /\ SweepTypeOK

PlaneInit == Init /\ SweepInit

PlaneNext ==
    \/ Next /\ UNCHANGED sweepVars
    \/ SweepNext /\ UNCHANGED <<localVars, bounds>>

PlaneSpec == PlaneInit /\ [][PlaneNext]_planeVars

\* The page loop and the sweep thread it restarts keep running, and clocks
\* pass every lease, grace period and retention.
PlaneFairness ==
    /\ \A w \in Worker : WF_planeVars(WorkerStep(w) /\ UNCHANGED sweepVars)
    /\ \A k \in Key : WF_planeVars(LeaseTimeout(k) /\ UNCHANGED sweepVars)
    /\ \A s \in Sweeper : WF_planeVars(SweeperStep(s) /\ UNCHANGED <<localVars, bounds>>)
    /\ \A m \in Manifest : WF_planeVars(Clock(m) /\ UNCHANGED <<localVars, bounds>>)

FairPlaneSpec == PlaneSpec /\ PlaneFairness

-----------------------------------------------------------------------------
(* Properties *)

\* A raw object the sweeps deleted is still in an archive that covers it, or
\* was until retention passed: DeletionController trusts caches, rows read
\* before the delete, and authorizations of a sweep that died.
SweptIsArchived ==
    \A k \in swept : \E m \in Registered :
        k \in m.srcs /\ m \in archive \cup old

\* An archive is only removed once none of its raw objects is left, so at every
\* moment a registered source can be rebuilt from one of the two until
\* retention has passed.
ExpiredHasNoRaw ==
    \A m \in Registered \ archive : m \in old /\ m.srcs \cap bucket = {}

\* Every archive is removed in the end (retention is finite here).
EveryArchiveExpires == \A m \in Manifest : m \in archive ~> m \notin archive

\* Every acknowledged raw object is deleted from the bucket in the end.
EveryRawIsSwept == \A k \in Key : status[k] = "acknowledged" ~> k \notin bucket
=============================================================================
