------------------------ MODULE ArchiveObjectsProofs ------------------------
(***************************************************************************)
(* Proofs about ArchiveObjects, for any number of replicas, sweepers,      *)
(* attempts and failures, as long as the attempts on one manifest id       *)
(* follow one another (~Overlap; with Overlap the late writer of           *)
(* manifests.py:320 breaks CopyRemains).                                   *)
(*                                                                         *)
(* The argument: the acknowledgement hands the archive over.  Until it,    *)
(* one worker at most is active and no sweeper is; after it, only          *)
(* sweepers are.  A worker reaches its puts only when it found no whole    *)
(* archive, hence no marker and no row; a registered archive is whole      *)
(* until its sources are deleted; and expiry takes the marker first.       *)
(***************************************************************************)
EXTENDS ArchiveObjects, TLAPS

Writing == {"put_artifact", "verify_artifact", "put_json", "verify_json", "put_commit"}
Covered == {"verify_artifact", "put_json", "verify_json", "put_commit"}
Deleting == {"delete_commit", "delete_json", "delete_artifact", "mark_expired"}
Unmarked == {"delete_json", "delete_artifact", "mark_expired"}

\* One attempt at a time, each before the acknowledgement and with a manifest.
Turns ==
    /\ \A v, w \in Worker : pc[v] # "idle" /\ pc[w] # "idle" => v = w
    /\ \A w \in Worker : pc[w] # "idle" => ~acked /\ version[w] # 0

\* What a worker's place in its attempt says about the objects.
WorkerKnows == \A w \in Worker :
    /\ pc[w] = "get_commit" => seen[w].json = json
    /\ pc[w] \in Writing => commit = 0
    /\ pc[w] \in Covered => artifact
    /\ pc[w] = "put_commit" => json = version[w]
    /\ pc[w] \in {"get_artifact", "register"} => commit # 0
    /\ pc[w] = "acknowledge" => row # 0

\* What a sweeper's place says about the row and the objects.
SweeperKnows == \A s \in Sweeper :
    /\ pc[s] # "idle" => acked
    /\ pc[s] \in Deleting => rowState \in {"source_deleted", "expired"}
    /\ pc[s] \in Unmarked => commit = 0

\* What the row says about the objects.
RowKnows ==
    /\ row = 0 <=> rowState = "none"
    /\ acked => row # 0
    /\ rowState \in {"source_deleted", "expired"} => acked
    /\ rowState = "committed" => commit # 0
    /\ rowState = "none" => raw

\* The program counters, and the rest of the types.
PcOK ==
    /\ \A w \in Worker : pc[w] \in WorkerCall
    /\ \A s \in Sweeper : pc[s] \in SweeperCall
    /\ DOMAIN pc = Process

DataOK ==
    /\ artifact \in BOOLEAN /\ json \in Stored /\ commit \in Stored
    /\ raw \in BOOLEAN /\ row \in Stored /\ acked \in BOOLEAN
    /\ rowState \in {"none", "committed", "source_deleted", "expired"}
    /\ version \in [Worker -> Stored]
    /\ seen \in [Process -> [json : Stored, commit : Stored]]
    /\ checked \in [Worker -> BOOLEAN]
    /\ verified \in [Sweeper -> BOOLEAN]
    /\ attempts \in 0..MaxAttempts /\ failures \in 0..MaxFailures

Inv == TypeOK /\ MarkerIsBacked /\ Turns /\ WorkerKnows /\ SweeperKnows /\ RowKnows

-----------------------------------------------------------------------------
(* The types *)

\* Nothing stored, nobody at work.
LEMMA InitInv == Init => Inv
<1> SUFFICES ASSUME Init PROVE Inv
  OBVIOUS
<1> USE ObjectsAssumption DEF Init, Process, Stored
<1>1. PcOK
  BY DEF PcOK, WorkerCall, SweeperCall
<1>2. DataOK
  <2>1. artifact \in BOOLEAN /\ raw \in BOOLEAN /\ acked \in BOOLEAN
    BY Zenon
  <2>2. checked \in [Worker -> BOOLEAN] /\ verified \in [Sweeper -> BOOLEAN]
    OBVIOUS
  <2>3. /\ json \in Stored /\ commit \in Stored /\ row \in Stored
        /\ rowState \in {"none", "committed", "source_deleted", "expired"}
        /\ attempts \in 0..MaxAttempts /\ failures \in 0..MaxFailures
    OBVIOUS
  <2>4. /\ version \in [Worker -> Stored]
        /\ seen \in [Process -> [json : Stored, commit : Stored]]
    OBVIOUS
  <2> QED
    BY <2>1, <2>2, <2>3, <2>4 DEF DataOK
<1>3. MarkerIsBacked /\ Turns /\ RowKnows
  BY DEF MarkerIsBacked, Turns, RowKnows
<1>4. WorkerKnows /\ SweeperKnows
  BY DEF WorkerKnows, SweeperKnows, Writing, Covered, Deleting, Unmarked
<1> QED
  BY <1>1, <1>2, <1>3, <1>4 DEF Inv, TypeOK, PcOK, DataOK

\* A worker's step sets its own program counter.
LEMMA WorkerGoes ==
  ASSUME TypeOK, NEW w \in Worker, WorkerStep(w)
  PROVE  PcOK' /\ \A q \in Process : q # w => pc'[q] = pc[q]
<1> DEFINE Goes == \E call \in WorkerCall : pc' = [pc EXCEPT ![w] = call]
<1> USE ObjectsAssumption DEF Goto, Verdict, Replied, WorkerCall, ReadCall
<1>1. ASSUME StartAttempt(w) \/ LookupManifest(w) \/ Register(w) \/ Acknowledge(w)
      PROVE  Goes
  BY <1>1 DEF StartAttempt, LookupManifest, Register, Acknowledge
<1>2. ASSUME HeadJson(w) \/ HeadCommit(w)
      PROVE  Goes
  BY <1>2 DEF HeadJson, HeadCommit
<1>3. ASSUME GetJson(w) \/ GetCommit(w) \/ GetArtifact(w)
      PROVE  Goes
  BY <1>3 DEF GetJson, GetCommit, GetArtifact
<1>4. ASSUME PutArtifact(w) \/ VerifyArtifact(w) \/ PutManifest(w)
      PROVE  Goes
  BY <1>4 DEF PutArtifact, VerifyArtifact, PutManifest
<1>5. ASSUME VerifyManifest(w) \/ PutCommit(w)
      PROVE  Goes
  BY <1>5 DEF VerifyManifest, PutCommit
<1>6. Goes
  BY <1>1, <1>2, <1>3, <1>4, <1>5 DEF WorkerStep, ReadStep
<1> QED
  BY <1>6 DEF TypeOK, PcOK, Process

\* So does a sweeper's.
LEMMA SweeperGoes ==
  ASSUME TypeOK, NEW s \in Sweeper, SweeperStep(s)
  PROVE  PcOK' /\ \A q \in Process : q # s => pc'[q] = pc[q]
<1> DEFINE Goes == \E call \in SweeperCall : pc' = [pc EXCEPT ![s] = call]
<1> USE ObjectsAssumption DEF Goto, Verdict, Replied, SweeperCall, ReadCall
<1>1. ASSUME StartSweep(s) \/ DeleteRaw(s) \/ MarkDeleted(s)
      PROVE  Goes
  BY <1>1 DEF StartSweep, DeleteRaw, MarkDeleted
<1>2. ASSUME HeadJson(s) \/ HeadCommit(s)
      PROVE  Goes
  BY <1>2 DEF HeadJson, HeadCommit
<1>3. ASSUME GetJson(s) \/ GetCommit(s) \/ GetArtifact(s)
      PROVE  Goes
  BY <1>3 DEF GetJson, GetCommit, GetArtifact
<1>4. ASSUME StartExpiry(s) \/ DeleteCommit(s) \/ DeleteManifest(s)
      PROVE  Goes
  BY <1>4 DEF StartExpiry, DeleteCommit, DeleteManifest
<1>5. ASSUME DeleteArtifact(s) \/ MarkExpired(s)
      PROVE  Goes
  BY <1>5 DEF DeleteArtifact, MarkExpired
<1>6. Goes
  BY <1>1, <1>2, <1>3, <1>4, <1>5 DEF SweeperStep, ReadStep
<1> QED
  BY <1>6 DEF TypeOK, PcOK, Process

\* A read changes what its process has seen and, for a sweeper, verified.
LEMMA ReadKeepsType ==
  ASSUME TypeOK, NEW p \in Process, ReadStep(p)
  PROVE  DataOK'
<1> USE DEF TypeOK, DataOK, Unread, objects, control, Process
<1>1. verified' \in [Sweeper -> BOOLEAN]
  <2>1. \/ verified' = verified
        \/ verified' = [verified EXCEPT ![p] = TRUE]
        \/ verified' = [verified EXCEPT ![p] = FALSE]
    BY DEF ReadStep, HeadJson, HeadCommit, GetJson, GetCommit, GetArtifact, Verdict
  <2> QED
    BY <2>1
<1>2. seen' \in [Process -> [json : Stored, commit : Stored]]
  <2>1. \/ seen' = seen
        \/ seen' = [seen EXCEPT ![p].json = json]
        \/ seen' = [seen EXCEPT ![p].commit = commit]
    BY DEF ReadStep, HeadJson, HeadCommit, GetJson, GetCommit, GetArtifact
  <2> QED
    BY <2>1
<1>3. UNCHANGED <<artifact, json, commit, raw, row, rowState, acked, version, checked,
                  attempts, failures>>
  BY DEF ReadStep, HeadJson, HeadCommit, GetJson, GetCommit, GetArtifact
<1> QED
  BY <1>1, <1>2, <1>3

\* Every step of a worker keeps the types.
LEMMA WorkerKeepsType ==
  ASSUME TypeOK, NEW w \in Worker, WorkerStep(w)
  PROVE  TypeOK'
<1> USE ObjectsAssumption DEF TypeOK, DataOK, Process, Stored, Replied, objects, control, locals
<1> SUFFICES DataOK'
  BY WorkerGoes DEF PcOK
<1>1. CASE ReadStep(w)
  BY <1>1, ReadKeepsType
<1>2. CASE StartAttempt(w)
  BY <1>2 DEF StartAttempt
<1>3. CASE LookupManifest(w)
  BY <1>3 DEF LookupManifest
<1>4. CASE PutArtifact(w)
  BY <1>4 DEF PutArtifact
<1>5. CASE VerifyArtifact(w)
  BY <1>5 DEF VerifyArtifact
<1>6. CASE PutManifest(w)
  BY <1>6 DEF PutManifest
<1>7. CASE VerifyManifest(w)
  BY <1>7 DEF VerifyManifest
<1>8. CASE PutCommit(w)
  BY <1>8 DEF PutCommit
<1>9. CASE Register(w)
  BY <1>9 DEF Register
<1>10. CASE Acknowledge(w)
  BY <1>10 DEF Acknowledge
<1> QED
  BY <1>1, <1>2, <1>3, <1>4, <1>5, <1>6, <1>7, <1>8, <1>9, <1>10 DEF WorkerStep

\* Every step of a sweeper keeps the types.
LEMMA SweeperKeepsType ==
  ASSUME TypeOK, NEW s \in Sweeper, SweeperStep(s)
  PROVE  TypeOK'
<1> USE ObjectsAssumption DEF TypeOK, DataOK, Process, Stored, Replied, objects, control, locals
<1> SUFFICES DataOK'
  BY SweeperGoes DEF PcOK
<1>1. CASE ReadStep(s)
  BY <1>1, ReadKeepsType
<1>2. CASE StartSweep(s) \/ StartExpiry(s)
  BY <1>2 DEF StartSweep, StartExpiry
<1>3. CASE DeleteRaw(s)
  <2>1. (raw \in BOOLEAN)'
    BY <1>3, Zenon DEF DeleteRaw
  <2> QED
    BY <1>3, <2>1 DEF DeleteRaw
<1>4. CASE MarkDeleted(s) \/ MarkExpired(s)
  BY <1>4 DEF MarkDeleted, MarkExpired
<1>5. CASE DeleteCommit(s) \/ DeleteManifest(s)
  BY <1>5 DEF DeleteCommit, DeleteManifest
<1>6. CASE DeleteArtifact(s)
  <2>1. (artifact \in BOOLEAN)'
    BY <1>6, Zenon DEF DeleteArtifact
  <2> QED
    BY <1>6, <2>1 DEF DeleteArtifact
<1> QED
  BY <1>1, <1>2, <1>3, <1>4, <1>5, <1>6 DEF SweeperStep

\* A call that raises resets its own program counter and changes no object.
LEMMA RaiseKeepsType ==
  ASSUME TypeOK, NEW p \in Process, Raise(p)
  PROVE  TypeOK'
<1> USE ObjectsAssumption DEF TypeOK, Raise, Goto, Process, objects, control
<1>1. PcOK'
  BY DEF PcOK, WorkerCall, SweeperCall
<1>2. verified' \in [Sweeper -> BOOLEAN]
  OBVIOUS
<1>3. DataOK'
  BY <1>2 DEF DataOK
<1> QED
  BY <1>1, <1>3 DEF PcOK, DataOK

-----------------------------------------------------------------------------
(* The invariant *)

\* A worker that takes a step is the only process at work, before and after.
LEMMA WorkerAlone ==
  ASSUME ~Overlap, Inv, NEW w \in Worker, WorkerStep(w)
  PROVE  /\ \A v \in Worker : v # w => pc[v] = "idle" /\ pc'[v] = "idle"
         /\ \A s \in Sweeper : pc[s] = "idle" /\ pc'[s] = "idle"
         /\ ~acked
         /\ pc'[w] # "idle" => ~acked' /\ version'[w] # 0
<1>1. PcOK' /\ \A q \in Process : q # w => pc'[q] = pc[q]
  BY WorkerGoes DEF Inv
<1>2. ~acked /\ \A v \in Worker : v # w => pc[v] = "idle"
  BY DEF StartAttempt, LookupManifest, HeadJson, HeadCommit, GetJson, GetCommit, GetArtifact,
     PutArtifact, VerifyArtifact, PutManifest, VerifyManifest, PutCommit, Register, Acknowledge,
     WorkerStep, ReadStep, Inv, Turns
<1>3. \A s \in Sweeper : pc[s] = "idle"
  BY <1>2 DEF Inv, SweeperKnows
<1>4. pc'[w] # "idle" => ~acked' /\ version'[w] # 0
  <2>1. CASE StartAttempt(w) \/ LookupManifest(w)
    BY <2>1, <1>2 DEF StartAttempt, LookupManifest, Inv, Turns, TypeOK, control
  <2>2. CASE Acknowledge(w)
    BY <2>2 DEF Acknowledge, Replied, Goto, Inv, TypeOK, Process
  <2>3. CASE ~(StartAttempt(w) \/ LookupManifest(w) \/ Acknowledge(w))
    BY <2>3, <1>2 DEF HeadJson, HeadCommit, GetJson, GetCommit, GetArtifact,
     PutArtifact, VerifyArtifact, PutManifest, VerifyManifest, PutCommit, Register,
     WorkerStep, ReadStep, Inv, Turns, Unread, control, locals
  <2> QED
    BY <2>1, <2>2, <2>3
<1> QED
  BY <1>1, <1>2, <1>3, <1>4, ObjectsAssumption DEF Process

\* A worker writes over nothing that is whole, and registers only what is.
LEMMA WorkerKeepsInv ==
  ASSUME ~Overlap, Inv, NEW w \in Worker, WorkerStep(w)
  PROVE  Inv'
<1> DEFINE Knows ==
      /\ pc[w] = "get_commit" => seen[w].json = json
      /\ pc[w] \in Writing => commit = 0
      /\ pc[w] \in Covered => artifact
      /\ pc[w] = "put_commit" => json = version[w]
      /\ pc[w] \in {"get_artifact", "register"} => commit # 0
      /\ pc[w] = "acknowledge" => row # 0
      Rest == Knows /\ MarkerIsBacked /\ RowKnows
<1>a. TypeOK'
  BY WorkerKeepsType DEF Inv
<1>b. Turns' /\ SweeperKnows'
  BY WorkerAlone DEF Turns, SweeperKnows, Deleting, Unmarked
<1>c. SUFFICES Rest'
  BY <1>a, <1>b, WorkerAlone DEF Inv, WorkerKnows, Writing, Covered
<1>d. Rest /\ ~acked /\ (pc[w] # "idle" => version[w] # 0)
  BY WorkerAlone DEF Inv, WorkerKnows, Turns
<1> USE ObjectsAssumption DEF Inv, TypeOK, Process, Goto, Replied, Verdict, Unread, objects, control,
        locals, MarkerIsBacked, RowKnows, Writing, Covered
<1>1. CASE StartAttempt(w)
  BY <1>1, <1>d DEF StartAttempt
<1>2. CASE LookupManifest(w)
  BY <1>2, <1>d DEF LookupManifest
<1>3. CASE HeadJson(w)
  BY <1>3, <1>d DEF HeadJson
<1>4. CASE HeadCommit(w)
  BY <1>4, <1>d DEF HeadCommit
<1>5. CASE GetJson(w)
  BY <1>5, <1>d DEF GetJson
<1>6. CASE GetCommit(w)
  BY <1>6, <1>d DEF GetCommit
<1>7. CASE GetArtifact(w)
  BY <1>7, <1>d DEF GetArtifact
<1>8. CASE PutArtifact(w)
  BY <1>8, <1>d DEF PutArtifact
<1>9. CASE VerifyArtifact(w)
  BY <1>9, <1>d DEF VerifyArtifact
<1>10. CASE PutManifest(w)
  BY <1>10, <1>d DEF PutManifest
<1>11. CASE VerifyManifest(w)
  BY <1>11, <1>d DEF VerifyManifest
<1>12. CASE PutCommit(w)
  BY <1>12, <1>d DEF PutCommit
<1>13. CASE Register(w)
  BY <1>13, <1>d DEF Register
<1>14. CASE Acknowledge(w)
  BY <1>14, <1>d DEF Acknowledge
<1> QED
  BY <1>1, <1>2, <1>3, <1>4, <1>5, <1>6, <1>7, <1>8, <1>9, <1>10, <1>11, <1>12, <1>13, <1>14
     DEF WorkerStep, ReadStep

\* A sweeper at work means the workers are done, before and after its step.
LEMMA SweeperAfterWorkers ==
  ASSUME Inv, NEW s \in Sweeper, SweeperStep(s)
  PROVE  /\ acked /\ acked' /\ row' = row
         /\ \A w \in Worker : pc[w] = "idle" /\ pc'[w] = "idle"
         /\ rowState \in {"committed", "source_deleted", "expired"}
<1>1. acked /\ acked' = acked /\ row' = row
  BY DEF StartSweep, HeadJson, HeadCommit, GetJson, GetCommit, GetArtifact, DeleteRaw, MarkDeleted,
     StartExpiry, DeleteCommit, DeleteManifest, DeleteArtifact, MarkExpired, SweeperStep, ReadStep,
     Unread, control, Inv, SweeperKnows, RowKnows
<1>2. \A w \in Worker : pc[w] = "idle"
  BY <1>1 DEF Inv, Turns
<1>3. \A w \in Worker : pc'[w] = pc[w]
  BY SweeperGoes, ObjectsAssumption DEF Inv, Process
<1> QED
  BY <1>1, <1>2, <1>3 DEF Inv, RowKnows, TypeOK

\* A sweeper takes the marker first, and only after the sources are deleted.
LEMMA SweeperKeepsInv ==
  ASSUME Inv, NEW s \in Sweeper, SweeperStep(s)
  PROVE  Inv'
<1> DEFINE Knows ==
      /\ pc[s] \in Deleting => rowState \in {"source_deleted", "expired"}
      /\ pc[s] \in Unmarked => commit = 0
      Later == /\ commit' = commit \/ commit' = 0
               /\ rowState \in {"source_deleted", "expired"}
                    => rowState' \in {"source_deleted", "expired"}
      Rest == Later /\ Knows' /\ MarkerIsBacked' /\ RowKnows'
<1>a. TypeOK'
  BY SweeperKeepsType DEF Inv
<1>b. Turns' /\ WorkerKnows'
  BY SweeperAfterWorkers DEF Turns, WorkerKnows, Writing, Covered
<1>c. SUFFICES Rest
  <2>1. \A t \in Sweeper : t # s => pc'[t] = pc[t]
    BY SweeperGoes DEF Inv, Process
  <2>2. SweeperKnows'
    BY <2>1, <1>c, SweeperAfterWorkers DEF Inv, SweeperKnows
  <2> QED
    BY <1>a, <1>b, <1>c, <2>2 DEF Inv
<1> USE SweeperAfterWorkers DEF Inv, TypeOK, Process, Goto, Replied, Verdict, Unread, objects, control,
        locals, MarkerIsBacked, SweeperKnows, RowKnows, Deleting, Unmarked
<1>1. CASE StartSweep(s)
  BY <1>1 DEF StartSweep
<1>2. CASE HeadJson(s)
  BY <1>2, ObjectsAssumption DEF HeadJson
<1>3. CASE HeadCommit(s)
  BY <1>3, ObjectsAssumption DEF HeadCommit
<1>4. CASE GetJson(s)
  BY <1>4 DEF GetJson
<1>5. CASE GetCommit(s)
  BY <1>5, ObjectsAssumption DEF GetCommit
<1>6. CASE GetArtifact(s)
  BY <1>6, ObjectsAssumption DEF GetArtifact
<1>7. CASE DeleteRaw(s)
  BY <1>7 DEF DeleteRaw
<1>8. CASE MarkDeleted(s)
  BY <1>8 DEF MarkDeleted
<1>9. CASE StartExpiry(s)
  BY <1>9 DEF StartExpiry
<1>10. CASE DeleteCommit(s)
  BY <1>10 DEF DeleteCommit
<1>11. CASE DeleteManifest(s)
  BY <1>11 DEF DeleteManifest
<1>12. CASE DeleteArtifact(s)
  BY <1>12 DEF DeleteArtifact
<1>13. CASE MarkExpired(s)
  BY <1>13 DEF MarkExpired
<1> QED
  BY <1>1, <1>2, <1>3, <1>4, <1>5, <1>6, <1>7, <1>8, <1>9, <1>10, <1>11, <1>12, <1>13
     DEF SweeperStep, ReadStep

\* A call that raises leaves the objects and the row as they are.
LEMMA RaiseKeepsInv ==
  ASSUME Inv, NEW p \in Process, Raise(p)
  PROVE  Inv'
<1>1. TypeOK'
  BY RaiseKeepsType DEF Inv
<1>2. /\ UNCHANGED <<artifact, json, commit, raw, row, rowState, acked, version, seen>>
      /\ \A q \in Process : pc'[q] = pc[q] \/ pc'[q] = "idle"
  BY DEF Raise, Goto, objects, control, Inv, TypeOK
<1> QED
  BY <1>1, <1>2 DEF Inv, Turns, WorkerKnows, SweeperKnows, RowKnows, MarkerIsBacked, Process,
     Writing, Covered, Deleting, Unmarked

\* Publishing and sweeping, cut off at any call, keep the invariant.
THEOREM ArchiveInvariant == ~Overlap => (Spec => []Inv)
<1> SUFFICES ASSUME ~Overlap PROVE Spec => []Inv
  OBVIOUS
<1>1. Inv /\ [Next]_vars => Inv'
  <2> SUFFICES ASSUME Inv, [Next]_vars PROVE Inv'
    OBVIOUS
  <2>1. CASE Next
    BY <2>1, WorkerKeepsInv, SweeperKeepsInv, RaiseKeepsInv DEF Next
  <2>2. CASE UNCHANGED vars
    BY <2>2 DEF vars, objects, control, locals, Inv, TypeOK, MarkerIsBacked, Turns, WorkerKnows,
       SweeperKnows, RowKnows
  <2> QED
    BY <2>1, <2>2
<1> QED
  BY <1>1, InitInv, PTL DEF Spec

-----------------------------------------------------------------------------
(* What it gives *)

\* The raw objects are deleted only when the archive can be replayed.
THEOREM ArchiveCopyRemains == ~Overlap => (Spec => []CopyRemains)
<1>1. Inv => CopyRemains
  BY DEF Inv, TypeOK, RowKnows, MarkerIsBacked, CopyRemains, Replayable, Expiring
<1> QED
  BY <1>1, ArchiveInvariant, PTL

\* A commit marker never stands without the objects it vouches for.
THEOREM ArchiveMarkerIsBacked == ~Overlap => (Spec => []MarkerIsBacked)
<1>1. Inv => MarkerIsBacked
  BY DEF Inv
<1> QED
  BY <1>1, ArchiveInvariant, PTL

-----------------------------------------------------------------------------
(* Refinement *)

\* Each call on the three objects is one step of ArchiveLifetime or none.
LEMMA StepRefines ==
  ASSUME ~Overlap, Inv, Inv', [Next]_vars
  PROVE  [Lifetime!Commit \/ Lifetime!Expire]_Shown
<1> USE DEF Shown, Expiring, Replayable, Lifetime!Commit, Lifetime!Expire
<1>1. Replayable <=> commit # 0
  BY DEF Inv, MarkerIsBacked
<1>2. (Replayable <=> commit # 0)'
  BY DEF Inv, MarkerIsBacked
<1>3. ASSUME NEW w \in Worker, WorkerStep(w)
      PROVE  /\ rowState \in {"none", "committed"} /\ rowState' \in {"none", "committed"}
             /\ commit' = commit \/ commit = 0
  <2>1. ~acked /\ rowState \in {"none", "committed"}
    BY <1>3, WorkerAlone DEF Inv, TypeOK, RowKnows
  <2>2. rowState' = rowState \/ rowState' = "committed"
    BY <1>3 DEF StartAttempt, LookupManifest, HeadJson, HeadCommit, GetJson, GetCommit, GetArtifact,
       PutArtifact, VerifyArtifact, PutManifest, VerifyManifest, PutCommit, Register, Acknowledge,
       WorkerStep, ReadStep, Unread, control
  <2>3. commit' = commit \/ commit = 0
    BY <1>3 DEF StartAttempt, LookupManifest, HeadJson, HeadCommit, GetJson, GetCommit, GetArtifact,
       PutArtifact, VerifyArtifact, PutManifest, VerifyManifest, PutCommit, Register, Acknowledge,
       WorkerStep, ReadStep, Unread, objects, Inv, WorkerKnows, Writing
  <2> QED
    BY <2>1, <2>2, <2>3
<1>4. ASSUME NEW s \in Sweeper, SweeperStep(s)
      PROVE  /\ rowState # "none" /\ (rowState = "committed" => rowState' = "committed" \/ commit' = commit)
             /\ rowState' # "none" /\ (rowState # "committed" => rowState' # "committed")
             /\ commit' = commit \/ commit' = 0
  <2>1. rowState # "none"
    BY <1>4, SweeperAfterWorkers
  <2>2. rowState' = rowState \/ rowState' \in {"source_deleted", "expired"}
    BY <1>4 DEF StartSweep, HeadJson, HeadCommit, GetJson, GetCommit, GetArtifact, DeleteRaw, MarkDeleted,
     StartExpiry, DeleteCommit, DeleteManifest, DeleteArtifact, MarkExpired, SweeperStep, ReadStep,
     Unread, control
  <2>3. commit' = commit \/ (commit' = 0 /\ rowState' = rowState)
    BY <1>4 DEF StartSweep, HeadJson, HeadCommit, GetJson, GetCommit, GetArtifact, DeleteRaw, MarkDeleted,
     StartExpiry, DeleteCommit, DeleteManifest, DeleteArtifact, MarkExpired, SweeperStep, ReadStep,
     Unread, objects, control
  <2> QED
    BY <2>1, <2>2, <2>3
<1>5. ASSUME NEW p \in Process, Raise(p)
      PROVE  UNCHANGED <<artifact, json, commit, rowState>>
  BY <1>5 DEF Raise, objects, control
<1>6. ASSUME UNCHANGED vars
      PROVE  UNCHANGED <<artifact, json, commit, rowState>>
  BY <1>6 DEF vars, objects, control
<1>7. (rowState = "committed" => commit # 0) /\ (rowState = "committed" => commit # 0)'
  BY DEF Inv, RowKnows
<1>8. /\ rowState \in {"none", "committed", "source_deleted", "expired"}
      /\ rowState' \in {"none", "committed", "source_deleted", "expired"}
  BY DEF Inv, TypeOK
<1>9. CASE \E w \in Worker : WorkerStep(w)
  BY <1>9, <1>1, <1>2, <1>3, <1>7, <1>8
<1>10. CASE \E s \in Sweeper : SweeperStep(s)
  BY <1>10, <1>1, <1>2, <1>4, <1>7, <1>8
<1>11. CASE UNCHANGED vars \/ \E p \in Process : Raise(p)
  BY <1>11, <1>5, <1>6
<1> QED
  BY <1>9, <1>10, <1>11 DEF Next

\* The three objects are to their readers one archive that appears, stays
\* replayable and is expired, each in one step.
THEOREM ArchiveIsAtomic == ~Overlap => (Spec => AtomicArchive)
<1> SUFFICES ASSUME ~Overlap PROVE Spec => AtomicArchive
  OBVIOUS
<1>1. Init => Lifetime!Init
  BY DEF Init, Lifetime!Init, Shown, Expiring, Replayable
<1>2. Inv /\ Inv' /\ [Next]_vars => [Lifetime!Commit \/ Lifetime!Expire]_Shown
  BY StepRefines
<1>3. Spec => []Inv
  BY ArchiveInvariant
<1> QED
  BY <1>1, <1>2, <1>3, PTL DEF Spec, AtomicArchive, Lifetime!Spec
=============================================================================
