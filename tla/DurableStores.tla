---------------------------- MODULE DurableStores ----------------------------
(***************************************************************************)
(* The stores the high-scale plane keeps besides Postgres: the FOS bucket  *)
(* of raw log objects, the FOS archive and ClickHouse.  Each is abstracted *)
(* to what it holds; how a batch gets into ClickHouse call by call is in   *)
(* BatchPublication.                                                       *)
(***************************************************************************)
EXTENDS ControlPlane

VARIABLES
    arrived, bucket,    \* raw objects ever written to FOS, and still there
    archive,            \* manifests committed in the FOS archive (replayable)
    facts,              \* batches whose fact rows ClickHouse shows
    derived             \* batches whose aggregates and projections it shows

storeVars == <<arrived, bucket, archive, facts, derived>>

StoresTypeOK ==
    /\ arrived \in SUBSET Key
    /\ bucket \in SUBSET arrived
    /\ archive \in SUBSET Manifest
    /\ facts \in SUBSET Manifest
    /\ derived \in SUBSET Manifest

StoresInit == arrived = {} /\ bucket = {} /\ archive = {} /\ facts = {} /\ derived = {}
=============================================================================
