------------------------- MODULE IngestLedgerProofs -------------------------
(***************************************************************************)
(* Proofs about IngestLedger: the rows of an object are never twice in the *)
(* table, whatever is delivered twice, comes late or dies; what the ledger *)
(* calls committed, and what the program deletes, is in the table; only    *)
(* flushed rows are published; a committed row stays committed.            *)
(***************************************************************************)
EXTENDS IngestLedger, TLAPS

-----------------------------------------------------------------------------
(* The bag of messages *)

QueueOK == IsABag(queue) /\ BagToSet(queue) \subseteq Message

\* Adding one bag to another: the copies add up.
LEMMA BagSum ==
  ASSUME NEW A, NEW B, IsABag(A), IsABag(B)
  PROVE  IsABag(A (+) B) /\ DOMAIN (A (+) B) = DOMAIN A \cup DOMAIN B
  BY DEF IsABag, (+)

\* A message that is sent is a set of keys.
LEMMA SendTyped ==
  ASSUME QueueOK, NEW keys \in SUBSET Key, Send(keys)
  PROVE  QueueOK'
<1>1. CASE keys = {}
  BY <1>1 DEF Send, QueueOK
<1>2. CASE keys # {}
  <2>1. IsABag(SetToBag({keys})) /\ DOMAIN SetToBag({keys}) = {keys}
    BY DEF SetToBag, IsABag
  <2>2. IsABag(queue) /\ DOMAIN queue \subseteq Message
    BY DEF QueueOK, BagToSet
  <2>3. queue' = queue (+) SetToBag({keys})
    BY <1>2 DEF Send
  <2>4. IsABag(queue') /\ DOMAIN queue' = DOMAIN queue \cup {keys}
    <3>1. IsABag(queue (+) SetToBag({keys}))
          /\ DOMAIN (queue (+) SetToBag({keys})) = DOMAIN queue \cup DOMAIN SetToBag({keys})
      BY <2>1, <2>2, BagSum, Zenon
    <3> QED
      BY <2>1, <2>3, <3>1, Zenon
  <2>5. keys \in Message
    BY <1>2 DEF Message
  <2> QED
    BY <2>2, <2>4, <2>5 DEF QueueOK, BagToSet
<1> QED
  BY <1>1, <1>2

\* Delivering or losing a message leaves the others.
LEMMA TakeTyped ==
  ASSUME QueueOK, NEW m \in BagToSet(queue), queue' = queue (-) SetToBag({m})
  PROVE  QueueOK' /\ m \in SUBSET Key
  BY DEF QueueOK, IsABag, BagToSet, SetToBag, Message, (-)

-----------------------------------------------------------------------------
(* Rows of the ledger: what an update of one field leaves alone *)

Same(r, q) == q \in Row /\ q.status = r.status /\ q.published = r.published

\* A row with another status.
LEMMA RowStatus ==
  ASSUME NEW r \in Row, NEW s \in Status
  PROVE  /\ [r EXCEPT !.status = s] \in Row
         /\ [r EXCEPT !.status = s].status = s
         /\ [r EXCEPT !.status = s].published = r.published
  BY Zenon DEF Row

\* A row with another generation.
LEMMA RowGen ==
  ASSUME NEW r \in Row, NEW n \in Nat PROVE Same(r, [r EXCEPT !.gen = n])
  BY Zenon DEF Row, Same

\* A row with another number of attempts.
LEMMA RowAttempts ==
  ASSUME NEW r \in Row, NEW n \in Nat PROVE Same(r, [r EXCEPT !.attempts = n])
  BY Zenon DEF Row, Same

\* A row that becomes due or not.
LEMMA RowDue ==
  ASSUME NEW r \in Row, NEW b \in BOOLEAN PROVE Same(r, [r EXCEPT !.due = b])
  BY Zenon DEF Row, Same

\* A row whose claim is old or not.
LEMMA RowAged ==
  ASSUME NEW r \in Row, NEW b \in BOOLEAN PROVE Same(r, [r EXCEPT !.aged = b])
  BY Zenon DEF Row, Same

\* A row that gets published.
LEMMA RowPublished ==
  ASSUME NEW r \in Row
  PROVE  /\ [r EXCEPT !.published = TRUE] \in Row
         /\ [r EXCEPT !.published = TRUE].status = r.status
  BY Zenon DEF Row

\* A row whose grace period has passed or not.
LEMMA RowGrace ==
  ASSUME NEW r \in Row, NEW b \in BOOLEAN PROVE Same(r, [r EXCEPT !.grace = b])
  BY Zenon DEF Row, Same

\* A row whose object is deleted or not.
LEMMA RowDeleted ==
  ASSUME NEW r \in Row, NEW b \in BOOLEAN PROVE Same(r, [r EXCEPT !.deleted = b])
  BY Zenon DEF Row, Same

\* A row with another deletion token.
LEMMA RowToken ==
  ASSUME NEW r \in Row, NEW t \in Committer \cup {Nobody} PROVE Same(r, [r EXCEPT !.token = t])
  BY Zenon DEF Row, Same

\* The row of a new object, and the absence of a row.
LEMMA FreshRows ==
  /\ NewRow \in Row /\ NewRow.status = "discovered" /\ NewRow.published = FALSE
  /\ NoRow \in Row /\ NoRow.status = "none" /\ NoRow.published = FALSE
<1>1. NewRow \in Row /\ NewRow.status = "discovered" /\ NewRow.published = FALSE
  BY DEF NewRow, Row, Status
<1>2. "none" \in Status
  BY DEF Status
<1> QED
  BY <1>1, <1>2, RowStatus DEF NoRow

-----------------------------------------------------------------------------
(* The updates of the actions *)

ClaimedRow(r) == [r EXCEPT !.status = "claimed", !.gen = @ + 1, !.due = TRUE, !.aged = FALSE]
DeadRow(r) == [r EXCEPT !.status = "dead_letter"]
CommittedRow(r) == [r EXCEPT !.status = "committed"]
ReclaimedRow(r) == [r EXCEPT !.status = "discovered", !.due = TRUE, !.aged = FALSE]
PublishedRow(r) == [r EXCEPT !.published = TRUE]
RetriedRow(r) ==
  [r EXCEPT !.status = "discovered", !.attempts = 0, !.due = TRUE, !.aged = FALSE]
TokenRow(r, t) == [r EXCEPT !.token = t]
DoneRow(r) == [r EXCEPT !.deleted = TRUE, !.token = Nobody]
AgedRow(r) == [r EXCEPT !.aged = TRUE]
DueRow(r) == [r EXCEPT !.due = TRUE]
GraceRow(r) == [r EXCEPT !.grace = TRUE]

\* Row r has become q, with a status of S and published as before.
Becomes(r, q, S) == q \in Row /\ q.status \in S /\ q.published = r.published

\* A claim, with a new generation.
LEMMA ClaimedRowIs ==
  ASSUME NEW r \in Row PROVE Becomes(r, ClaimedRow(r), {"claimed"})
<1> DEFINE a == [r EXCEPT !.status = "claimed"]
           b == [a EXCEPT !.gen = r.gen + 1]
           c == [b EXCEPT !.due = TRUE]
           d == [c EXCEPT !.aged = FALSE]
<1>1. "claimed" \in Status /\ r.gen + 1 \in Nat
  BY DEF Row, Status
<1>2. a \in Row /\ a.status \in {"claimed"} /\ a.published = r.published
  BY <1>1, RowStatus
<1>3. Same(a, b)
  BY <1>1, <1>2, RowGen
<1> HIDE DEF a
<1>4. Same(b, c)
  BY <1>1, <1>3, RowDue DEF Same
<1> HIDE DEF b
<1>5. Same(c, d)
  BY <1>1, <1>4, RowAged DEF Same
<1> HIDE DEF c
<1>6. ClaimedRow(r) = d
  BY Zenon DEF ClaimedRow, a, b, c
<1> HIDE DEF d
<1> QED
  BY <1>2, <1>3, <1>4, <1>5, <1>6 DEF Same, Becomes

\* A failure puts a row back or into quarantine.
LEMMA FailedRowIs ==
  ASSUME NEW r \in Row PROVE Becomes(r, FailedRow(r), {"discovered", "quarantined"})
<1> DEFINE a == [r EXCEPT !.attempts = r.attempts + 1]
           b == [a EXCEPT !.due = (r.attempts + 1 >= MaxAttempts)]
           c == [b EXCEPT !.aged = FALSE]
           d == [c EXCEPT !.status = IF r.attempts + 1 >= MaxAttempts THEN "quarantined" ELSE "discovered"]
<1>1. /\ r.attempts + 1 \in Nat /\ (r.attempts + 1 >= MaxAttempts) \in BOOLEAN
      /\ (IF r.attempts + 1 >= MaxAttempts THEN "quarantined" ELSE "discovered") \in Status \cap {"discovered", "quarantined"}
  BY LedgerAssumption DEF Row, Status
<1>2. Same(r, a)
  BY <1>1, RowAttempts
<1>3. Same(a, b)
  BY <1>1, <1>2, RowDue DEF Same
<1> HIDE DEF a
<1>4. Same(b, c)
  BY <1>1, <1>3, RowAged DEF Same
<1> HIDE DEF b
<1>5. d \in Row /\ d.status \in {"discovered", "quarantined"} /\ d.published = c.published
  BY <1>1, <1>4, RowStatus DEF Same
<1> HIDE DEF c
<1>6. FailedRow(r) = d
  BY Zenon DEF FailedRow, a, b, c
<1> HIDE DEF d
<1> QED
  BY <1>2, <1>3, <1>4, <1>5, <1>6 DEF Same, Becomes

\* A reclaimed row waits for a worker again.
LEMMA ReclaimedRowIs ==
  ASSUME NEW r \in Row PROVE Becomes(r, ReclaimedRow(r), {"discovered"})
<1> DEFINE a == [r EXCEPT !.status = "discovered"]
           b == [a EXCEPT !.due = TRUE]
           c == [b EXCEPT !.aged = FALSE]
<1>1. "discovered" \in Status
  BY DEF Row, Status
<1>2. a \in Row /\ a.status \in {"discovered"} /\ a.published = r.published
  BY <1>1, RowStatus
<1>3. Same(a, b)
  BY <1>1, <1>2, RowDue
<1> HIDE DEF a
<1>4. Same(b, c)
  BY <1>1, <1>3, RowAged DEF Same
<1> HIDE DEF b
<1>5. ReclaimedRow(r) = c
  BY Zenon DEF ReclaimedRow, a, b
<1> HIDE DEF c
<1> QED
  BY <1>2, <1>3, <1>4, <1>5 DEF Same, Becomes

\* So does one an operator retries.
LEMMA RetriedRowIs ==
  ASSUME NEW r \in Row PROVE Becomes(r, RetriedRow(r), {"discovered"})
<1> DEFINE a == [r EXCEPT !.status = "discovered"]
           b == [a EXCEPT !.attempts = 0]
           c == [b EXCEPT !.due = TRUE]
           d == [c EXCEPT !.aged = FALSE]
<1>1. "discovered" \in Status /\ 0 \in Nat
  BY DEF Row, Status
<1>2. a \in Row /\ a.status \in {"discovered"} /\ a.published = r.published
  BY <1>1, RowStatus
<1>3. Same(a, b)
  BY <1>1, <1>2, RowAttempts
<1> HIDE DEF a
<1>4. Same(b, c)
  BY <1>1, <1>3, RowDue DEF Same
<1> HIDE DEF b
<1>5. Same(c, d)
  BY <1>1, <1>4, RowAged DEF Same
<1> HIDE DEF c
<1>6. RetriedRow(r) = d
  BY Zenon DEF RetriedRow, a, b, c
<1> HIDE DEF d
<1> QED
  BY <1>2, <1>3, <1>4, <1>5, <1>6 DEF Same, Becomes

\* A recorded deletion keeps the status.
LEMMA DoneRowIs ==
  ASSUME NEW r \in Row PROVE Becomes(r, DoneRow(r), {r.status})
<1> DEFINE a == [r EXCEPT !.deleted = TRUE]
           b == [a EXCEPT !.token = Nobody]
<1>1. Same(r, a)
  BY RowDeleted
<1>2. Same(a, b)
  BY <1>1, RowToken DEF Same
<1>3. DoneRow(r) = b
  BY Zenon DEF DoneRow, a
<1> HIDE DEF a, b
<1> QED
  BY <1>1, <1>2, <1>3 DEF Same, Becomes

\* The updates of one field.
LEMMA OneFieldRows ==
  ASSUME NEW r \in Row
  PROVE  /\ Becomes(r, DeadRow(r), {"dead_letter"})
         /\ Becomes(r, CommittedRow(r), {"committed"})
         /\ PublishedRow(r) \in Row /\ PublishedRow(r).status = r.status
         /\ Becomes(r, AgedRow(r), {r.status})
         /\ Becomes(r, DueRow(r), {r.status})
         /\ Becomes(r, GraceRow(r), {r.status})
         /\ \A t \in Committer \cup {Nobody} : Becomes(r, TokenRow(r, t), {r.status})
<1>1. "dead_letter" \in Status /\ "committed" \in Status
  BY DEF Status
<1>2. Becomes(r, DeadRow(r), {"dead_letter"}) /\ Becomes(r, CommittedRow(r), {"committed"})
  BY <1>1, RowStatus, Zenon DEF Becomes, DeadRow, CommittedRow
<1>3. PublishedRow(r) \in Row /\ PublishedRow(r).status = r.status
  BY RowPublished, Zenon DEF PublishedRow
<1>4. Becomes(r, AgedRow(r), {r.status})
  BY RowAged, Zenon DEF Becomes, AgedRow, Same
<1>5. Becomes(r, DueRow(r), {r.status})
  BY RowDue, Zenon DEF Becomes, DueRow, Same
<1>6. Becomes(r, GraceRow(r), {r.status})
  BY RowGrace, Zenon DEF Becomes, GraceRow, Same
<1>7. \A t \in Committer \cup {Nobody} : Becomes(r, TokenRow(r, t), {r.status})
  BY RowToken, Zenon DEF Becomes, TokenRow, Same
<1> QED
  BY <1>2, <1>3, <1>4, <1>5, <1>6, <1>7

-----------------------------------------------------------------------------
(* What the actions do to the ledger *)

LedgerOK == ledger \in [Key -> Row]

\* A step that neither commits nor uncommits a row, and publishes none.
RowsKept ==
  /\ ledger' \in [Key -> Row]
  /\ \A k \in Key : /\ ledger'[k].status = "committed" <=> ledger[k].status = "committed"
                    /\ ledger'[k].published => ledger[k].published

\* A step that leaves the ledger alone.
LEMMA SameRows == ASSUME LedgerOK, UNCHANGED ledger PROVE RowsKept
  BY DEF LedgerOK, RowsKept

\* _ledger_claim_batch only takes discovered rows.
LEMMA ClaimRows ==
  ASSUME LedgerOK, NEW w \in Worker, Claim(w) PROVE RowsKept
<1>1. ledger' = [k \in Key |-> IF k \in Claimable(msg[w]) THEN ClaimedRow(ledger[k]) ELSE ledger[k]]
  BY Zenon DEF Claim, UpdateRows, ClaimedRow
<1>2. \A k \in Key : Becomes(ledger[k], ClaimedRow(ledger[k]), {"claimed"})
  BY ClaimedRowIs DEF LedgerOK
<1> QED
  BY <1>1, <1>2 DEF LedgerOK, RowsKept, Claimable, Becomes

\* _ledger_record_failure only touches rows still claimed.
LEMMA MineFails ==
  ASSUME LedgerOK, NEW w \in Worker, NEW S, UpdateRows(Mine(w, S), FailedRow) PROVE RowsKept
<1>1. \A k \in Key : Becomes(ledger[k], FailedRow(ledger[k]), {"discovered", "quarantined"})
  BY FailedRowIs DEF LedgerOK
<1> QED
  BY <1>1 DEF LedgerOK, RowsKept, Mine, Becomes, UpdateRows

\* A download records at most failures.
LEMMA DownloadRows ==
  ASSUME LedgerOK, NEW w \in Worker, Download(w) PROVE RowsKept
<1>1. CASE UNCHANGED ledger
  BY <1>1, SameRows
<1>2. CASE \E bad \in SUBSET (active[w] \cap bucket) : UpdateRows(Mine(w, bad), FailedRow)
  BY <1>2, MineFails
<1> QED
  BY <1>1, <1>2, Zenon DEF Download

\* _ledger_mark_dead_letter_missing only touches rows still claimed.
LEMMA DeadLetterRows ==
  ASSUME LedgerOK, NEW w \in Worker, DeadLetterMissing(w) PROVE RowsKept
<1>1. ledger' = [k \in Key |-> IF k \in Mine(w, active[w] \ bucket)
                               THEN DeadRow(ledger[k]) ELSE ledger[k]]
  BY Zenon DEF DeadLetterMissing, UpdateRows, DeadRow
<1>2. \A k \in Key : Becomes(ledger[k], DeadRow(ledger[k]), {"dead_letter"})
  BY OneFieldRows DEF LedgerOK
<1> QED
  BY <1>1, <1>2 DEF LedgerOK, RowsKept, Mine, Becomes

\* The sweep only frees claimed rows.
LEMMA ReclaimRows ==
  ASSUME LedgerOK, ReclaimClaims PROVE RowsKept
<1> DEFINE old == {k \in Key : ledger[k].status = "claimed" /\ ledger[k].aged}
<1>1. ledger' = [k \in Key |-> IF k \in old THEN ReclaimedRow(ledger[k]) ELSE ledger[k]]
  BY Zenon DEF ReclaimClaims, UpdateRows, ReclaimedRow
<1>2. \A k \in Key : Becomes(ledger[k], ReclaimedRow(ledger[k]), {"discovered"})
  BY ReclaimedRowIs DEF LedgerOK
<1> QED
  BY <1>1, <1>2 DEF LedgerOK, RowsKept, Becomes

\* Discovery only inserts rows that are not there.
LEMMA DiscoverRows ==
  ASSUME LedgerOK, DiscoverPrefix PROVE RowsKept
<1> DEFINE S == {k \in bucket : ledger[k].status = "none"}
<1>1. ledger' = [k \in Key |-> IF k \in S THEN NewRow ELSE ledger[k]]
  BY Zenon DEF DiscoverPrefix, UpdateRows
<1> QED
  BY <1>1, FreshRows DEF LedgerOK, RowsKept

\* Claiming a deletion only writes the token.
LEMMA ClaimDeletionRows ==
  ASSUME LedgerOK, NEW c \in Committer, ClaimDeletion(c) PROVE RowsKept
<1> DEFINE S == {k \in Key : RawDeletable(k)}
<1>1. ledger' = [k \in Key |-> IF k \in S THEN TokenRow(ledger[k], c) ELSE ledger[k]]
  BY Zenon DEF ClaimDeletion, UpdateRows, TokenRow
<1>2. \A k \in Key : Becomes(ledger[k], TokenRow(ledger[k], c), {ledger[k].status})
  BY OneFieldRows DEF LedgerOK
<1> HIDE DEF S
<1> QED
  BY <1>1, <1>2 DEF LedgerOK, RowsKept, Becomes

\* A token is given back.
LEMMA TokenFreed ==
  ASSUME LedgerOK, NEW S, UpdateRows(S, LAMBDA r : [r EXCEPT !.token = Nobody]) PROVE RowsKept
<1>1. ledger' = [k \in Key |-> IF k \in S THEN TokenRow(ledger[k], Nobody) ELSE ledger[k]]
  BY Zenon DEF UpdateRows, TokenRow
<1>2. \A k \in Key : Becomes(ledger[k], TokenRow(ledger[k], Nobody), {ledger[k].status})
  BY OneFieldRows DEF LedgerOK
<1> QED
  BY <1>1, <1>2 DEF LedgerOK, RowsKept, Becomes

\* A deletion that fails gives tokens back.
LEMMA DeleteRows ==
  ASSUME LedgerOK, NEW c \in Committer, DeleteRaw(c) PROVE RowsKept
<1>1. CASE UNCHANGED ledger
  BY <1>1, SameRows
<1>2. CASE \E failed \in SUBSET todo[c] :
              UpdateRows({k \in failed : ledger[k].token = c}, LAMBDA r : [r EXCEPT !.token = Nobody])
  BY <1>2, TokenFreed
<1> QED
  BY <1>1, <1>2, Zenon DEF DeleteRaw

\* A recorded deletion keeps its row committed.
LEMMA RecordRows ==
  ASSUME LedgerOK, NEW c \in Committer, RecordDeleted(c) PROVE RowsKept
<1> DEFINE S == {k \in todo[c] : ledger[k].token = c /\ ~ledger[k].deleted}
<1>1. ledger' = [k \in Key |-> IF k \in S THEN DoneRow(ledger[k]) ELSE ledger[k]]
  BY Zenon DEF RecordDeleted, UpdateRows, DoneRow
<1>2. \A k \in Key : Becomes(ledger[k], DoneRow(ledger[k]), {ledger[k].status})
  BY DoneRowIs DEF LedgerOK
<1> HIDE DEF S
<1> QED
  BY <1>1, <1>2 DEF LedgerOK, RowsKept, Becomes

\* Operators retry and purge problem rows only.
LEMMA OperatorRows ==
  ASSUME LedgerOK, NEW k \in Key, RetryEntry(k) \/ PurgeEntry(k) PROVE RowsKept
<1>1. ledger[k].status # "committed"
  BY DEF RetryEntry, PurgeEntry, Problem
<1>2. CASE RetryEntry(k)
  <2>1. ledger' = [i \in Key |-> IF i \in {k} THEN RetriedRow(ledger[i]) ELSE ledger[i]]
    BY <1>2, Zenon DEF RetryEntry, UpdateRows, RetriedRow
  <2>2. Becomes(ledger[k], RetriedRow(ledger[k]), {"discovered"})
    BY RetriedRowIs DEF LedgerOK
  <2> QED
    BY <1>1, <2>1, <2>2 DEF LedgerOK, RowsKept, Becomes
<1>3. CASE PurgeEntry(k)
  <2>1. ledger' = [i \in Key |-> IF i \in {k} THEN NoRow ELSE ledger[i]]
    BY <1>3, Zenon DEF PurgeEntry, UpdateRows
  <2> QED
    BY <1>1, <2>1, FreshRows DEF LedgerOK, RowsKept
<1> QED
  BY <1>2, <1>3

\* The clock changes no status.
LEMMA ClockRows ==
  ASSUME LedgerOK, NEW k \in Key,
         ClaimAges(k) \/ RetryDue(k) \/ GracePasses(k) \/ DeletionClaimExpires(k)
  PROVE  RowsKept
<1>1. CASE ClaimAges(k)
  <2>1. ledger' = [i \in Key |-> IF i \in {k} THEN AgedRow(ledger[i]) ELSE ledger[i]]
    BY <1>1, Zenon DEF ClaimAges, UpdateRows, AgedRow
  <2> QED
    BY <2>1, OneFieldRows DEF LedgerOK, RowsKept, Becomes
<1>2. CASE RetryDue(k)
  <2>1. ledger' = [i \in Key |-> IF i \in {k} THEN DueRow(ledger[i]) ELSE ledger[i]]
    BY <1>2, Zenon DEF RetryDue, UpdateRows, DueRow
  <2> QED
    BY <2>1, OneFieldRows DEF LedgerOK, RowsKept, Becomes
<1>3. CASE GracePasses(k)
  <2>1. ledger' = [i \in Key |-> IF i \in {k} THEN GraceRow(ledger[i]) ELSE ledger[i]]
    BY <1>3, Zenon DEF GracePasses, UpdateRows, GraceRow
  <2> QED
    BY <2>1, OneFieldRows DEF LedgerOK, RowsKept, Becomes
<1>4. CASE DeletionClaimExpires(k)
  <2>1. UpdateRows({k}, LAMBDA r : [r EXCEPT !.token = Nobody])
    BY <1>4, Zenon DEF DeletionClaimExpires
  <2> QED
    BY <2>1, TokenFreed
<1> QED
  BY <1>1, <1>2, <1>3, <1>4

-----------------------------------------------------------------------------
(* Types *)

RestOK ==
    /\ arrived \subseteq Key /\ bucket \subseteq arrived /\ vanished \subseteq arrived
    /\ lake \in [Key -> Nat] /\ inlined \subseteq Key
    /\ admission \in Worker \cup Committer \cup {Nobody}
    /\ pc \in [Worker -> WorkerCall]
    /\ msg \in [Worker -> SUBSET Key]
    /\ held \in [Worker -> [Key -> Nat]]
    /\ active \in [Worker -> SUBSET Key]
    /\ doomed \in [Worker -> [Key -> Nat]]
    /\ spc \in {"idle", "stuck", "redispatch", "list", "dispatch"} /\ pending \subseteq Key
    /\ cpc \in [Committer -> CommitCall] /\ todo \in [Committer -> SUBSET Key]
    /\ faults \in 0..MaxFaults /\ operator \in 0..MaxOperator

\* The type invariant: ledger, queue and the other variables.
LEMMA TypeParts == TypeOK <=> LedgerOK /\ QueueOK /\ RestOK
  BY DEF TypeOK, LedgerOK, QueueOK, RestOK

\* The same in the next state.
LEMMA TypePartsNext == TypeOK' <=> LedgerOK' /\ QueueOK' /\ RestOK'
  BY DEF TypeOK, LedgerOK, QueueOK, RestOK

\* No generation and no copy of any key.
LEMMA NoKeysTyped == NoKeys \in [Key -> Nat]
  BY DEF NoKeys

\* The bound on faults is kept.
LEMMA FaultTyped == ASSUME RestOK, Fault PROVE faults' \in 0..MaxFaults
  BY LedgerAssumption DEF RestOK, Fault

\* The end of a task, for the worker's own variables.
LEMMA FinishTyped ==
  ASSUME RestOK, NEW w \in Worker, Finish(w)
  PROVE  /\ pc' \in [Worker -> WorkerCall] /\ msg' \in [Worker -> SUBSET Key]
         /\ held' \in [Worker -> [Key -> Nat]] /\ active' \in [Worker -> SUBSET Key]
         /\ pc' = [pc EXCEPT ![w] = "idle"] /\ active' = [active EXCEPT ![w] = {}]
  BY NoKeysTyped DEF RestOK, Finish, Goto, WorkerCall

\* The rest of the variables of each step.
LEMMA ReceiveType ==
  ASSUME RestOK, QueueOK, NEW w \in Worker, Receive(w) PROVE RestOK' /\ QueueOK'
<1>1. PICK m \in BagToSet(queue) : queue' = queue (-) SetToBag({m}) /\ msg' = [msg EXCEPT ![w] = m]
  BY DEF Receive
<1>2. QueueOK' /\ m \in SUBSET Key
  BY <1>1, TakeTyped
<1> QED
  BY <1>1, <1>2 DEF Receive, RestOK, Goto, WorkerCall, bucketVars, lakeVars, sweepVars, commitVars

\* The claimed generations are those of the rows.
LEMMA ClaimType ==
  ASSUME RestOK, LedgerOK, NEW w \in Worker, Claim(w) PROVE RestOK'
<1>1. Claimable(msg[w]) \in SUBSET Key
  BY DEF RestOK, Claimable
<1>2. CASE Finish(w)
  BY <1>2, FinishTyped DEF Claim, RestOK, bucketVars, lakeVars, sweepVars, commitVars
<1>3. CASE /\ held' = [held EXCEPT ![w] = [k \in Key |-> IF k \in Claimable(msg[w])
                                                       THEN ledger[k].gen + 1 ELSE 0]]
           /\ active' = [active EXCEPT ![w] = Claimable(msg[w])]
           /\ Goto(w, "download") /\ UNCHANGED msg
  <2>1. [k \in Key |-> IF k \in Claimable(msg[w]) THEN ledger[k].gen + 1 ELSE 0] \in [Key -> Nat]
    BY DEF LedgerOK, Row
  <2> QED
    BY <1>1, <1>3, <2>1
    DEF Claim, RestOK, Goto, WorkerCall, bucketVars, lakeVars, sweepVars, commitVars
<1> QED
  BY <1>2, <1>3 DEF Claim

\* The worker goes on without some of its keys.
Drops(w, bad) ==
  /\ active' = [active EXCEPT ![w] = @ \ bad]
  /\ \E call \in WorkerCall : Goto(w, call)
  /\ UNCHANGED <<msg, held>>

\* Dropping keys keeps the types.
LEMMA DropsTyped ==
  ASSUME RestOK, NEW w \in Worker, NEW bad, Drops(w, bad)
  PROVE  /\ pc' \in [Worker -> WorkerCall] /\ msg' \in [Worker -> SUBSET Key]
         /\ held' \in [Worker -> [Key -> Nat]] /\ active' \in [Worker -> SUBSET Key]
<1>1. active[w] \ bad \in SUBSET Key
  BY DEF RestOK
<1> QED
  BY <1>1 DEF RestOK, Drops, Goto

\* A download keeps the types.
LEMMA DownloadType ==
  ASSUME RestOK, NEW w \in Worker, Download(w) PROVE RestOK'
<1>1. CASE UNCHANGED <<msg, held, active>> /\ (UNCHANGED faults \/ Fault)
           /\ \E call \in WorkerCall : Goto(w, call)
  BY <1>1, FaultTyped DEF Download, RestOK, Goto, bucketVars, lakeVars, sweepVars, commitVars
<1>2. CASE Fault /\ Finish(w)
  BY <1>2, FinishTyped, FaultTyped DEF Download, RestOK, bucketVars, lakeVars, sweepVars, commitVars
<1>3. CASE Fault /\ \E bad : Drops(w, bad)
  BY <1>3, DropsTyped, FaultTyped DEF Download, RestOK, bucketVars, lakeVars, sweepVars, commitVars
<1> QED
  BY <1>1, <1>2, <1>3 DEF Download, Drops, WorkerCall

\* Setting missing objects aside keeps the types.
LEMMA DeadLetterType ==
  ASSUME RestOK, NEW w \in Worker, DeadLetterMissing(w) PROVE RestOK'
<1>1. Finish(w) \/ Drops(w, active[w] \ bucket)
  BY DEF DeadLetterMissing, Drops, WorkerCall
<1> QED
  BY <1>1, FinishTyped, DropsTyped
  DEF DeadLetterMissing, RestOK, bucketVars, lakeVars, sweepVars, commitVars

\* Taking the lock keeps the types.
LEMMA EnterType ==
  ASSUME RestOK, NEW w \in Worker, EnterAdmission(w) PROVE RestOK'
  BY FaultTyped DEF EnterAdmission, RestOK, Goto, WorkerCall, bucketVars, sweepVars, commitVars

\* Beginning the transaction keeps the types.
LEMMA BeginType ==
  ASSUME RestOK, NEW w \in Worker, BeginReplace(w) PROVE RestOK'
  BY DEF BeginReplace, RestOK, Goto, WorkerCall, bucketVars, lakeVars, sweepVars, commitVars

\* Leaving the lock keeps the types.
LEMMA LeaveType ==
  ASSUME RestOK, NEW w \in Worker, LeaveAdmission(w) PROVE RestOK'
  BY DEF LeaveAdmission, RestOK, Goto, Released, WorkerCall, bucketVars, sweepVars, commitVars

\* Marking the batch committed keeps the types.
LEMMA MarkType ==
  ASSUME RestOK, NEW w \in Worker, MarkCommitted(w) PROVE RestOK'
  BY FinishTyped DEF MarkCommitted, RestOK, bucketVars, lakeVars, sweepVars, commitVars

\* Recording a failure keeps the types.
LEMMA FailureType ==
  ASSUME RestOK, NEW w \in Worker, RecordFailure(w) PROVE RestOK'
  BY FinishTyped DEF RecordFailure, RestOK, Released, bucketVars, sweepVars, commitVars

\* A worker that dies returns its message.
LEMMA DiesType ==
  ASSUME RestOK, QueueOK, NEW w \in Worker, WorkerDies(w) PROVE RestOK' /\ QueueOK'
<1>1. QueueOK'
  BY SendTyped DEF WorkerDies, RestOK
<1> QED
  BY <1>1, FinishTyped, FaultTyped, NoKeysTyped
  DEF WorkerDies, RestOK, Released, bucketVars, sweepVars, commitVars

\* Messages that are lost or delivered twice.
LEMMA MessageType ==
  ASSUME RestOK, QueueOK, LoseMessage \/ \E w \in Worker : Redeliver(w) PROVE RestOK' /\ QueueOK'
<1>1. CASE LoseMessage
  BY <1>1, TakeTyped, FaultTyped
  DEF LoseMessage, RestOK, bucketVars, lakeVars, workerVars, sweepVars, commitVars
<1>2. CASE \E w \in Worker : Redeliver(w)
  BY <1>2, SendTyped, FaultTyped
  DEF Redeliver, RestOK, bucketVars, lakeVars, workerVars, sweepVars, commitVars
<1> QED
  BY <1>1, <1>2

\* The sweep keeps the types.
LEMMA SweepType ==
  ASSUME RestOK, QueueOK, SweepStep PROVE RestOK' /\ QueueOK'
<1> USE DEF bucketVars, lakeVars, workerVars, commitVars
<1>1. CASE ReclaimClaims
  BY <1>1 DEF ReclaimClaims, RestOK, QueueOK
<1>2. CASE FindStuck
  BY <1>2 DEF FindStuck, RestOK, QueueOK
<1>3. CASE Redispatch
  <2>1. QueueOK'
    BY <1>3, SendTyped DEF Redispatch, RestOK, QueueOK
  <2> QED
    BY <1>3, <2>1 DEF Redispatch, RestOK
<1>4. CASE DiscoverPrefix
  BY <1>4 DEF DiscoverPrefix, RestOK, QueueOK
<1>5. CASE DispatchDiscovered
  <2>1. QueueOK'
    BY <1>5, SendTyped DEF DispatchDiscovered, RestOK, QueueOK
  <2> QED
    BY <1>5, <2>1, FaultTyped DEF DispatchDiscovered, RestOK
<1> QED
  BY <1>1, <1>2, <1>3, <1>4, <1>5 DEF SweepStep

\* The commit job keeps the types.
LEMMA CommitType ==
  ASSUME RestOK, NEW c \in Committer, CommitStep(c) \/ CommitterDies(c) PROVE RestOK'
<1> USE DEF bucketVars, lakeVars, workerVars, sweepVars, CGoto, CommitCall
<1>1. CASE StartMerge(c) \/ FlushInlined(c) \/ MarkPublished(c) \/ LeaveMerge(c)
  BY <1>1 DEF StartMerge, FlushInlined, MarkPublished, LeaveMerge, RestOK, Released
<1>2. CASE ClaimDeletion(c)
  BY <1>2 DEF ClaimDeletion, RestOK
<1>3. CASE DeleteRaw(c)
  BY <1>3, FaultTyped DEF DeleteRaw, RestOK
<1>4. CASE RecordDeleted(c)
  BY <1>4 DEF RecordDeleted, RestOK
<1>5. CASE CommitterDies(c)
  BY <1>5, FaultTyped DEF CommitterDies, RestOK, Released
<1> QED
  BY <1>1, <1>2, <1>3, <1>4, <1>5 DEF CommitStep

\* Retry and purge keep the types.
LEMMA OperatorType ==
  ASSUME RestOK, QueueOK, NEW k \in Key, RetryEntry(k) \/ PurgeEntry(k) PROVE RestOK' /\ QueueOK'
<1> USE DEF bucketVars, lakeVars, workerVars, sweepVars, commitVars
<1>1. operator' \in 0..MaxOperator
  BY LedgerAssumption DEF RetryEntry, PurgeEntry, RestOK
<1>2. QueueOK'
  BY SendTyped DEF RetryEntry, PurgeEntry, QueueOK
<1> QED
  BY <1>1, <1>2 DEF RetryEntry, PurgeEntry, RestOK

\* The clock keeps the types.
LEMMA ClockType ==
  ASSUME RestOK, NEW k \in Key,
         ClaimAges(k) \/ RetryDue(k) \/ GracePasses(k) \/ DeletionClaimExpires(k)
  PROVE  RestOK'
  BY FaultTyped
  DEF ClaimAges, RetryDue, GracePasses, DeletionClaimExpires, RestOK,
      bucketVars, lakeVars, workerVars, sweepVars, commitVars

\* Arrival and expiry keep the types.
LEMMA BucketType ==
  ASSUME RestOK, NEW k \in Key, Arrive(k) \/ Vanish(k) PROVE RestOK'
  BY FaultTyped
  DEF Arrive, Vanish, RestOK, lakeVars, workerVars, sweepVars, commitVars

-----------------------------------------------------------------------------
(* The inductive invariant *)

\* The admission lock is held by whoever writes to the lake or merges it.
Locked ==
    /\ \A w \in Worker : pc[w] \in {"begin", "commit_lake", "leave"} => admission = w
    /\ \A c \in Committer : cpc[c] \in {"flush", "publish", "leave"} => admission = c

\* What its holders have established under it.  A worker that has left the
\* lock still relies on its rows when it marks them: later writers replace them
\* by one copy again.  What a committer has claimed to delete is in the table.
Writers ==
    /\ \A w \in Worker : pc[w] = "commit_lake" => \A k \in active[w] : doomed[w][k] = lake[k]
    /\ \A w \in Worker : pc[w] \in {"leave", "mark"} => \A k \in active[w] : lake[k] = 1
    /\ \A c \in Committer : cpc[c] = "publish" => inlined = {}
    /\ \A c \in Committer : \A k \in todo[c] : lake[k] = 1

Inv ==
    /\ TypeOK /\ Locked /\ Writers
    /\ NoDuplicateRows /\ CommittedIsInLake /\ DeletedIsInLake

\* Steps that only concern messages, the sweep, the clock or an operator.
LEMMA QuietStep ==
  ASSUME Inv, TypeOK', RowsKept,
         UNCHANGED <<bucketVars, lakeVars, pc, active, doomed, commitVars>>
  PROVE  Inv'
<1> USE DEF Inv, bucketVars, lakeVars, commitVars
<1>1. Locked' /\ Writers'
  BY DEF Locked, Writers
<1>2. CommittedIsInLake'
  BY DEF CommittedIsInLake, RowsKept
<1>3. NoDuplicateRows' /\ DeletedIsInLake'
  BY DEF NoDuplicateRows, DeletedIsInLake
<1> QED
  BY <1>1, <1>2, <1>3

\* Steps of worker w outside the lock, or giving it up.
LEMMA OutsideStep ==
  ASSUME Inv, TypeOK', RowsKept, NEW w \in Worker,
         UNCHANGED <<bucketVars, lake, inlined, commitVars>>,
         \A v \in Worker \ {w} : pc'[v] = pc[v] /\ active'[v] = active[v] /\ doomed'[v] = doomed[v],
         pc'[w] \in {"idle", "claim", "download", "head", "admit", "fail"},
         admission' \in {admission, Released(w)}
  PROVE  Inv'
<1> USE DEF Inv, bucketVars, commitVars
<1>1. Locked'
  BY LedgerAssumption DEF Locked, Released
<1>2. Writers'
  BY DEF Writers
<1>3. CommittedIsInLake'
  BY DEF CommittedIsInLake, RowsKept
<1>4. NoDuplicateRows' /\ DeletedIsInLake'
  BY DEF NoDuplicateRows, DeletedIsInLake
<1> QED
  BY <1>1, <1>2, <1>3, <1>4

\* What Finish, Goto and Drops do to the other workers: nothing.
LEMMA FinishOthers ==
  ASSUME RestOK, NEW w \in Worker, Finish(w)
  PROVE  /\ \A v \in Worker \ {w} : pc'[v] = pc[v] /\ active'[v] = active[v]
         /\ pc'[w] = "idle"
  BY DEF RestOK, Finish, Goto

\* Goto moves one worker.
LEMMA GotoOthers ==
  ASSUME RestOK, NEW w \in Worker, NEW call, Goto(w, call)
  PROVE  (\A v \in Worker \ {w} : pc'[v] = pc[v]) /\ pc'[w] = call
  BY DEF RestOK, Goto

\* An update of one worker's keys.
LEMMA DropsOthers ==
  ASSUME RestOK, NEW w \in Worker, NEW bad, active' = [active EXCEPT ![w] = bad]
  PROVE  (\A v \in Worker \ {w} : active'[v] = active[v]) /\ active'[w] = bad
  BY DEF RestOK

-----------------------------------------------------------------------------
(* One lemma per group of actions *)

\* Messages, sweep, clock and operators.
LEMMA NextQuiet ==
  ASSUME Inv, SweepStep \/ Clock \/ LoseMessage \/ (\E w \in Worker : Redeliver(w))
              \/ (\E k \in Key : RetryEntry(k) \/ PurgeEntry(k))
  PROVE  Inv' /\ RowsKept
<1> USE DEF bucketVars, lakeVars, workerVars, commitVars
<1>0. LedgerOK /\ QueueOK /\ RestOK
  BY TypeParts DEF Inv
<1>1. CASE SweepStep
  <2>1. RowsKept
    BY <1>0, <1>1, SameRows, ReclaimRows, DiscoverRows
    DEF SweepStep, FindStuck, Redispatch, DispatchDiscovered
  <2>2. TypeOK'
    BY <1>0, <1>1, <2>1, SweepType, TypePartsNext DEF RowsKept, LedgerOK
  <2>3. UNCHANGED <<bucketVars, lakeVars, pc, active, doomed, commitVars>>
    BY <1>1 DEF SweepStep, ReclaimClaims, FindStuck, Redispatch, DiscoverPrefix, DispatchDiscovered
  <2> QED
    BY <2>1, <2>2, <2>3, QuietStep
<1>2. CASE Clock
  <2>1. PICK k \in Key : ClaimAges(k) \/ RetryDue(k) \/ GracePasses(k) \/ DeletionClaimExpires(k)
    BY <1>2 DEF Clock
  <2>2. RowsKept
    BY <1>0, <2>1, ClockRows
  <2>3. QueueOK'
    BY <1>0, <2>1 DEF ClaimAges, RetryDue, GracePasses, DeletionClaimExpires, QueueOK
  <2>4. TypeOK'
    BY <1>0, <2>1, <2>2, <2>3, ClockType, TypePartsNext DEF RowsKept, LedgerOK
  <2>5. UNCHANGED <<bucketVars, lakeVars, pc, active, doomed, commitVars>>
    BY <2>1 DEF ClaimAges, RetryDue, GracePasses, DeletionClaimExpires
  <2> QED
    BY <2>2, <2>4, <2>5, QuietStep
<1>3. CASE LoseMessage \/ \E w \in Worker : Redeliver(w)
  <2>1. RowsKept
    BY <1>0, <1>3, SameRows DEF LoseMessage, Redeliver
  <2>2. TypeOK'
    BY <1>0, <1>3, <2>1, MessageType, TypePartsNext DEF RowsKept, LedgerOK
  <2>3. UNCHANGED <<bucketVars, lakeVars, pc, active, doomed, commitVars>>
    BY <1>3 DEF LoseMessage, Redeliver
  <2> QED
    BY <2>1, <2>2, <2>3, QuietStep
<1>4. CASE \E k \in Key : RetryEntry(k) \/ PurgeEntry(k)
  <2>1. PICK k \in Key : RetryEntry(k) \/ PurgeEntry(k)
    BY <1>4
  <2>2. RowsKept
    BY <1>0, <2>1, OperatorRows
  <2>3. TypeOK'
    BY <1>0, <2>1, <2>2, OperatorType, TypePartsNext DEF RowsKept, LedgerOK
  <2>4. UNCHANGED <<bucketVars, lakeVars, pc, active, doomed, commitVars>>
    BY <2>1 DEF RetryEntry, PurgeEntry
  <2> QED
    BY <2>2, <2>3, <2>4, QuietStep
<1> QED
  BY <1>1, <1>2, <1>3, <1>4

\* A worker before it has the lock, or when it has failed or died.
LEMMA NextOutside ==
  ASSUME Inv, NEW w \in Worker,
         \/ Receive(w) \/ Claim(w) \/ Download(w) \/ DeadLetterMissing(w)
         \/ RecordFailure(w) \/ WorkerDies(w)
  PROVE  Inv' /\ RowsKept
<1> USE DEF bucketVars, lakeVars, commitVars
<1>0. LedgerOK /\ QueueOK /\ RestOK
  BY TypeParts DEF Inv
<1>1. RowsKept
  BY <1>0, SameRows, ClaimRows, DownloadRows, DeadLetterRows, MineFails
  DEF Receive, RecordFailure, WorkerDies
<1>2. RestOK' /\ QueueOK'
  <2>1. CASE Receive(w)
    BY <1>0, <2>1, ReceiveType
  <2>2. CASE Claim(w)
    BY <1>0, <2>2, ClaimType DEF Claim, QueueOK
  <2>3. CASE Download(w)
    BY <1>0, <2>3, DownloadType DEF Download, QueueOK
  <2>4. CASE DeadLetterMissing(w)
    BY <1>0, <2>4, DeadLetterType DEF DeadLetterMissing, QueueOK
  <2>5. CASE RecordFailure(w)
    BY <1>0, <2>5, FailureType DEF RecordFailure, QueueOK
  <2>6. CASE WorkerDies(w)
    BY <1>0, <2>6, DiesType
  <2> QED
    BY <2>1, <2>2, <2>3, <2>4, <2>5, <2>6
<1>3. TypeOK'
  BY <1>1, <1>2, TypePartsNext DEF RowsKept, LedgerOK
<1>4. /\ \A v \in Worker \ {w} : pc'[v] = pc[v] /\ active'[v] = active[v] /\ doomed'[v] = doomed[v]
      /\ pc'[w] \in {"idle", "claim", "download", "head", "admit", "fail"}
  <2>1. CASE Receive(w)
    BY <1>0, <2>1, GotoOthers DEF Receive
  <2>2. CASE Claim(w)
    BY <1>0, <2>2, GotoOthers, DropsOthers, FinishOthers DEF Claim
  <2>3. CASE Download(w)
    <3>1. Finish(w) \/ (\E call \in {"admit", "head", "fail"} : Goto(w, call))
      BY <2>3 DEF Download
    <3>2. Finish(w) \/ UNCHANGED active \/ (\E s : active' = [active EXCEPT ![w] = s])
      BY <2>3 DEF Download
    <3>3. UNCHANGED doomed
      BY <2>3 DEF Download
    <3> QED
      BY <1>0, <3>1, <3>2, <3>3, GotoOthers, DropsOthers, FinishOthers
  <2>4. CASE DeadLetterMissing(w)
    BY <1>0, <2>4, GotoOthers, DropsOthers, FinishOthers DEF DeadLetterMissing
  <2>5. CASE RecordFailure(w)
    BY <1>0, <2>5, FinishOthers DEF RecordFailure
  <2>6. CASE WorkerDies(w)
    BY <1>0, <2>6, FinishOthers DEF WorkerDies, RestOK
  <2> QED
    BY <2>1, <2>2, <2>3, <2>4, <2>5, <2>6
<1>5. UNCHANGED <<bucketVars, lake, inlined, commitVars>> /\ admission' \in {admission, Released(w)}
  BY DEF Receive, Claim, Download, DeadLetterMissing, RecordFailure, WorkerDies
<1> QED
  BY <1>1, <1>3, <1>4, <1>5, OutsideStep

\* The lock is taken when nobody has it: no other writer is under way.
LEMMA NextEnter ==
  ASSUME Inv, NEW w \in Worker, EnterAdmission(w) PROVE Inv' /\ RowsKept
<1> USE DEF bucketVars, lakeVars, commitVars
<1>0. LedgerOK /\ QueueOK /\ RestOK
  BY TypeParts DEF Inv
<1>1. RowsKept
  BY <1>0, SameRows DEF EnterAdmission
<1>2. TypeOK'
  BY <1>0, <1>1, EnterType, TypePartsNext DEF RowsKept, LedgerOK, EnterAdmission, QueueOK
<1>3. UNCHANGED <<bucketVars, lake, inlined, active, doomed, commitVars>>
  BY DEF EnterAdmission
<1>4. CASE admission # Nobody
  <2>1. /\ \A v \in Worker \ {w} : pc'[v] = pc[v]
        /\ pc'[w] = "fail" /\ admission' = admission
    BY <1>0, <1>4, GotoOthers DEF EnterAdmission
  <2> QED
    BY <1>1, <1>2, <1>3, <2>1, OutsideStep
<1>5. CASE admission = Nobody
  <2>1. /\ \A v \in Worker \ {w} : pc'[v] = pc[v]
        /\ pc'[w] = "begin" /\ admission' = w
    BY <1>0, <1>5, GotoOthers DEF EnterAdmission
  <2>2. Locked'
    BY <1>3, <1>5, <2>1, LedgerAssumption DEF Inv, Locked
  <2>3. Writers'
    BY <1>3, <2>1 DEF Inv, Writers
  <2>4. CommittedIsInLake' /\ NoDuplicateRows' /\ DeletedIsInLake'
    BY <1>1, <1>3 DEF Inv, CommittedIsInLake, NoDuplicateRows, DeletedIsInLake, RowsKept
  <2> QED
    BY <1>1, <1>2, <2>2, <2>3, <2>4 DEF Inv
<1> QED
  BY <1>4, <1>5

\* The snapshot of the transaction holds the rows that are there.
LEMMA NextBegin ==
  ASSUME Inv, NEW w \in Worker, BeginReplace(w) PROVE Inv' /\ RowsKept
<1> USE DEF bucketVars, lakeVars, commitVars
<1>0. LedgerOK /\ QueueOK /\ RestOK
  BY TypeParts DEF Inv
<1>1. RowsKept
  BY <1>0, SameRows DEF BeginReplace
<1>2. TypeOK'
  BY <1>0, <1>1, BeginType, TypePartsNext DEF RowsKept, LedgerOK, BeginReplace, QueueOK
<1>3. UNCHANGED <<bucketVars, lake, inlined, admission, active, commitVars>>
  BY DEF BeginReplace
<1>4. /\ \A v \in Worker \ {w} : pc'[v] = pc[v]
      /\ pc[w] = "begin" /\ pc'[w] = "commit_lake"
  BY <1>0, GotoOthers DEF BeginReplace
<1>5. /\ \A v \in Worker \ {w} : doomed'[v] = doomed[v]
      /\ \A k \in active[w] : doomed'[w][k] = lake[k]
  BY <1>0 DEF BeginReplace, RestOK
<1>6. Locked'
  BY <1>3, <1>4 DEF Inv, Locked
<1>7. Writers'
  BY <1>3, <1>4, <1>5 DEF Inv, Writers
<1>8. CommittedIsInLake' /\ NoDuplicateRows' /\ DeletedIsInLake'
  BY <1>1, <1>3 DEF Inv, CommittedIsInLake, NoDuplicateRows, DeletedIsInLake, RowsKept
<1> QED
  BY <1>1, <1>2, <1>6, <1>7, <1>8 DEF Inv

\* The commit replaces what is there: one copy of every object of the batch.
LEMMA NextCommitLake ==
  ASSUME Inv, NEW w \in Worker, CommitLake(w) PROVE Inv' /\ RowsKept
<1> USE DEF bucketVars, lakeVars, commitVars
<1>0. LedgerOK /\ QueueOK /\ RestOK
  BY TypeParts DEF Inv
<1>1. RowsKept
  BY <1>0, SameRows DEF CommitLake
<1>2. pc[w] = "commit_lake" /\ admission = w
  BY DEF CommitLake, Inv, Locked
<1>3. UNCHANGED <<bucketVars, admission, active, commitVars, ledger, queue>>
  BY DEF CommitLake
<1>4. /\ \A v \in Worker \ {w} : doomed'[v] = doomed[v]
      /\ doomed' \in [Worker -> [Key -> Nat]]
  BY <1>0, NoKeysTyped DEF CommitLake, RestOK
<1>5. \A v \in Worker \ {w} : pc[v] \notin {"begin", "commit_lake", "leave"}
  BY <1>2 DEF Inv, Locked
<1>6. CASE UNCHANGED <<lake, inlined>> /\ Goto(w, "fail") /\ Fault
  <2>1. (\A v \in Worker \ {w} : pc'[v] = pc[v]) /\ pc'[w] = "fail"
    BY <1>0, <1>6, GotoOthers
  <2>2. RestOK'
    BY <1>0, <1>4, <1>6, FaultTyped DEF CommitLake, RestOK, Goto, WorkerCall, sweepVars
  <2>3. TypeOK'
    BY <1>0, <1>1, <1>3, <2>2, TypePartsNext DEF RowsKept, LedgerOK, QueueOK
  <2> QED
    BY <1>1, <1>3, <1>4, <1>6, <2>1, <2>3, OutsideStep
<1>7. CASE /\ lake' = [k \in Key |-> IF k \in active[w] THEN lake[k] - doomed[w][k] + 1 ELSE lake[k]]
           /\ inlined' = inlined \cup active[w]
           /\ \E call \in {"leave", "fail"} : Goto(w, call)
           /\ UNCHANGED faults \/ Fault
  <2>1. PICK call \in {"leave", "fail"} : Goto(w, call)
    BY <1>7
  <2>2. (\A v \in Worker \ {w} : pc'[v] = pc[v]) /\ pc'[w] = call
    BY <1>0, <2>1, GotoOthers
  <2>3. \A k \in active[w] : doomed[w][k] = lake[k] /\ lake[k] \in Nat /\ k \in Key
    BY <1>0, <1>2 DEF Inv, Writers, RestOK
  <2>4. lake' = [k \in Key |-> IF k \in active[w] THEN 1 ELSE lake[k]]
    BY <1>7, <2>3
  <2>5. \A k \in Key : lake'[k] = 1 \/ lake'[k] = lake[k]
    BY <2>4
  <2>6. RestOK'
    <3>1. lake' \in [Key -> Nat] /\ inlined' \subseteq Key
      BY <1>0, <1>7, <2>4 DEF RestOK
    <3>2. pc' \in [Worker -> WorkerCall]
      BY <1>0, <2>1 DEF RestOK, Goto, WorkerCall
    <3>3. faults' \in 0..MaxFaults
      BY <1>0, <1>7, FaultTyped DEF RestOK
    <3> QED
      BY <1>0, <1>4, <3>1, <3>2, <3>3 DEF CommitLake, RestOK, sweepVars
  <2>7. TypeOK'
    BY <1>0, <1>1, <1>3, <2>6, TypePartsNext DEF RowsKept, LedgerOK, QueueOK
  <2>8. Locked'
    BY <1>2, <1>3, <2>2 DEF Inv, Locked
  <2>9. Writers'
    <3>1. \A v \in Worker : pc'[v] # "commit_lake"
      BY <1>5, <2>2
    <3>2. ASSUME NEW v \in Worker, pc'[v] \in {"leave", "mark"}, NEW k \in active'[v]
          PROVE  lake'[k] = 1
      <4>1. k \in Key
        BY <1>0, <1>3 DEF RestOK
      <4> QED
        BY <1>0, <1>3, <2>2, <2>4, <2>5, <3>2, <4>1 DEF Inv, Writers, RestOK
    <3>3. \A c \in Committer : cpc'[c] # "publish"
      BY <1>2, <1>3, LedgerAssumption DEF Inv, Locked
    <3>4. \A c \in Committer : \A k \in todo'[c] : lake'[k] = 1
      BY <1>0, <1>3, <2>5 DEF Inv, Writers, RestOK
    <3> QED
      BY <3>1, <3>2, <3>3, <3>4 DEF Writers
  <2>10. NoDuplicateRows'
    <3> SUFFICES ASSUME NEW k \in Key PROVE lake'[k] <= 1
      BY DEF NoDuplicateRows
    <3>1. lake[k] <= 1
      BY DEF Inv, NoDuplicateRows
    <3> QED
      BY <2>4, <3>1
  <2>11. CommittedIsInLake'
    BY <1>3, <2>5 DEF Inv, CommittedIsInLake
  <2>12. DeletedIsInLake'
    BY <1>0, <1>3, <2>5 DEF Inv, DeletedIsInLake, RestOK
  <2> QED
    BY <1>1, <2>7, <2>8, <2>9, <2>10, <2>11, <2>12 DEF Inv
<1> QED
  BY <1>6, <1>7 DEF CommitLake

\* The lock is left before the ledger is written.
LEMMA NextLeave ==
  ASSUME Inv, NEW w \in Worker, LeaveAdmission(w) PROVE Inv' /\ RowsKept
<1> USE DEF bucketVars, lakeVars, commitVars
<1>0. LedgerOK /\ QueueOK /\ RestOK
  BY TypeParts DEF Inv
<1>1. RowsKept
  BY <1>0, SameRows DEF LeaveAdmission
<1>2. TypeOK'
  BY <1>0, <1>1, LeaveType, TypePartsNext DEF RowsKept, LedgerOK, LeaveAdmission, QueueOK
<1>3. UNCHANGED <<bucketVars, lake, inlined, active, doomed, commitVars>> /\ admission' = Released(w)
  BY DEF LeaveAdmission
<1>4. /\ \A v \in Worker \ {w} : pc'[v] = pc[v]
      /\ pc[w] = "leave" /\ pc'[w] = "mark"
  BY <1>0, GotoOthers DEF LeaveAdmission
<1>5. Locked'
  BY <1>3, <1>4, LedgerAssumption DEF Inv, Locked, Released
<1>6. Writers'
  BY <1>3, <1>4 DEF Inv, Writers
<1>7. CommittedIsInLake' /\ NoDuplicateRows' /\ DeletedIsInLake'
  BY <1>1, <1>3 DEF Inv, CommittedIsInLake, NoDuplicateRows, DeletedIsInLake, RowsKept
<1> QED
  BY <1>1, <1>2, <1>5, <1>6, <1>7 DEF Inv

\* The one step that commits rows of the ledger.
LEMMA NextMark ==
  ASSUME Inv, NEW w \in Worker, MarkCommitted(w)
  PROVE  /\ Inv'
         /\ \A k \in Key : /\ ledger[k].status = "committed" => ledger'[k].status = "committed"
                           /\ ledger'[k].published => ledger[k].published
<1> USE DEF bucketVars, lakeVars, commitVars
<1>0. LedgerOK /\ QueueOK /\ RestOK
  BY TypeParts DEF Inv
<1>1. ledger' = [k \in Key |-> IF k \in Mine(w, active[w]) THEN CommittedRow(ledger[k]) ELSE ledger[k]]
  BY Zenon DEF MarkCommitted, UpdateRows, CommittedRow
<1>2. \A k \in Key : Becomes(ledger[k], CommittedRow(ledger[k]), {"committed"})
  BY <1>0, OneFieldRows DEF LedgerOK
<1>3. /\ ledger' \in [Key -> Row]
      /\ \A k \in Key : /\ ledger[k].status = "committed" => ledger'[k].status = "committed"
                        /\ ledger'[k].published => ledger[k].published
                        /\ k \notin active[w] => ledger'[k] = ledger[k]
  BY <1>0, <1>1, <1>2 DEF LedgerOK, Mine, Becomes
<1>4. TypeOK'
  BY <1>0, <1>3, MarkType, TypePartsNext DEF LedgerOK, MarkCommitted, QueueOK
<1>5. /\ \A v \in Worker \ {w} : pc'[v] = pc[v] /\ active'[v] = active[v]
      /\ pc[w] = "mark" /\ pc'[w] = "idle"
  BY <1>0, FinishOthers DEF MarkCommitted
<1>6. UNCHANGED <<bucketVars, lakeVars, doomed, commitVars>>
  BY DEF MarkCommitted
<1>7. Locked'
  BY <1>5, <1>6 DEF Inv, Locked
<1>8. Writers'
  BY <1>5, <1>6 DEF Inv, Writers
<1>9. CommittedIsInLake'
  <2>1. \A k \in active[w] : lake[k] = 1
    BY <1>5 DEF Inv, Writers
  <2> QED
    BY <1>3, <1>6, <2>1 DEF Inv, CommittedIsInLake
<1>10. NoDuplicateRows' /\ DeletedIsInLake'
  BY <1>6 DEF Inv, NoDuplicateRows, DeletedIsInLake
<1> QED
  BY <1>3, <1>4, <1>7, <1>8, <1>9, <1>10 DEF Inv

\* The commit job up to the publication, which finds nothing inlined.
LEMMA NextMerge ==
  ASSUME Inv, NEW c \in Committer,
         StartMerge(c) \/ FlushInlined(c) \/ MarkPublished(c) \/ LeaveMerge(c)
  PROVE  /\ Inv'
         /\ \A k \in Key : /\ ledger'[k].status = ledger[k].status
                           /\ ledger'[k].published /\ ~ledger[k].published => k \notin inlined
<1> USE DEF bucketVars, lakeVars, commitVars, workerVars
<1>0. LedgerOK /\ QueueOK /\ RestOK
  BY TypeParts DEF Inv
<1>1. /\ ledger' \in [Key -> Row]
      /\ \A k \in Key : ledger'[k].status = ledger[k].status
      /\ UNCHANGED ledger \/ MarkPublished(c)
  <2>1. CASE UNCHANGED ledger
    BY <1>0, <2>1 DEF LedgerOK
  <2>2. CASE MarkPublished(c)
    <3> DEFINE S == {k \in Key : ledger[k].status = "committed"}
    <3>1. ledger' = [k \in Key |-> IF k \in S THEN PublishedRow(ledger[k]) ELSE ledger[k]]
      BY <2>2, Zenon DEF MarkPublished, UpdateRows, PublishedRow
    <3>2. \A k \in Key : PublishedRow(ledger[k]) \in Row /\ PublishedRow(ledger[k]).status = ledger[k].status
      BY <1>0, OneFieldRows DEF LedgerOK
    <3> QED
      BY <1>0, <2>2, <3>1, <3>2 DEF LedgerOK
  <2> QED
    BY <2>1, <2>2 DEF StartMerge, FlushInlined, LeaveMerge
<1>2. TypeOK'
  <2>1. QueueOK'
    BY <1>0 DEF StartMerge, FlushInlined, MarkPublished, LeaveMerge, QueueOK
  <2>2. RestOK'
    BY <1>0, CommitType DEF CommitStep
  <2> QED
    BY <1>1, <2>1, <2>2, TypePartsNext DEF LedgerOK
<1>3. UNCHANGED <<bucketVars, lake, pc, active, doomed, todo>>
  BY DEF StartMerge, FlushInlined, MarkPublished, LeaveMerge
<1>4. \A d \in Committer \ {c} : cpc'[d] = cpc[d]
  BY <1>0 DEF StartMerge, FlushInlined, MarkPublished, LeaveMerge, CGoto, RestOK
<1>5. \/ cpc'[c] = "flush" /\ admission = Nobody /\ admission' = c /\ inlined' = inlined
      \/ cpc[c] = "flush" /\ cpc'[c] = "publish" /\ admission' = admission /\ inlined' = {}
      \/ cpc[c] = "publish" /\ cpc'[c] = "leave" /\ admission' = admission /\ inlined' = inlined
      \/ cpc[c] = "leave" /\ cpc'[c] = "select" /\ admission' = Released(c) /\ inlined' = inlined
  BY <1>0 DEF StartMerge, FlushInlined, MarkPublished, LeaveMerge, CGoto, RestOK
<1>6. Locked'
  BY <1>3, <1>4, <1>5, LedgerAssumption DEF Inv, Locked, Released
<1>7. Writers'
  BY <1>3, <1>4, <1>5 DEF Inv, Writers
<1>8. CommittedIsInLake' /\ NoDuplicateRows' /\ DeletedIsInLake'
  BY <1>1, <1>3 DEF Inv, CommittedIsInLake, NoDuplicateRows, DeletedIsInLake
<1>9. \A k \in Key : ledger'[k].published /\ ~ledger[k].published => k \notin inlined
  <2>1. CASE MarkPublished(c)
    BY <2>1 DEF MarkPublished, Inv, Writers
  <2> QED
    BY <1>1, <2>1
<1> QED
  BY <1>1, <1>2, <1>6, <1>7, <1>8, <1>9 DEF Inv

\* The deletions of the commit job: what it has claimed is in the table, and
\* stays there while the token is lost, expires or is taken by another run.
LEMMA NextDeletion ==
  ASSUME Inv, NEW c \in Committer,
         ClaimDeletion(c) \/ DeleteRaw(c) \/ RecordDeleted(c) \/ CommitterDies(c)
  PROVE  Inv' /\ RowsKept
<1> USE DEF bucketVars, lakeVars, commitVars, workerVars
<1>0. LedgerOK /\ QueueOK /\ RestOK
  BY TypeParts DEF Inv
<1>1. RowsKept
  BY <1>0, SameRows, ClaimDeletionRows, DeleteRows, RecordRows DEF CommitterDies
<1>2. TypeOK'
  <2>1. QueueOK'
    BY <1>0 DEF ClaimDeletion, DeleteRaw, RecordDeleted, CommitterDies, QueueOK
  <2>2. RestOK'
    BY <1>0, CommitType DEF CommitStep
  <2> QED
    BY <1>1, <2>1, <2>2, TypePartsNext DEF RowsKept, LedgerOK
<1>3. UNCHANGED <<arrived, vanished, lake, inlined, pc, active, doomed>>
  BY DEF ClaimDeletion, DeleteRaw, RecordDeleted, CommitterDies
<1>4. /\ \A d \in Committer \ {c} : cpc'[d] = cpc[d] /\ todo'[d] = todo[d]
      /\ cpc'[c] \in {"idle", "delete", "record"}
  BY <1>0 DEF ClaimDeletion, DeleteRaw, RecordDeleted, CommitterDies, CGoto, RestOK
<1>5. admission' \in {admission, Released(c)}
  BY DEF ClaimDeletion, DeleteRaw, RecordDeleted, CommitterDies
<1>6. \A k \in todo'[c] : lake[k] = 1
  <2>1. CASE ClaimDeletion(c)
    <3>1. \A k \in todo'[c] : k \in Key /\ ledger[k].status = "committed"
      BY <1>0, <2>1 DEF ClaimDeletion, RawDeletable, RestOK
    <3> QED
      BY <3>1 DEF Inv, CommittedIsInLake
  <2>2. CASE DeleteRaw(c) \/ RecordDeleted(c) \/ CommitterDies(c)
    <3>1. todo'[c] \subseteq todo[c]
      BY <1>0, <2>2 DEF DeleteRaw, RecordDeleted, CommitterDies, RestOK
    <3> QED
      BY <3>1 DEF Inv, Writers
  <2> QED
    BY <2>1, <2>2
<1>7. Locked'
  BY <1>3, <1>4, <1>5, LedgerAssumption DEF Inv, Locked, Released
<1>8. Writers'
  BY <1>3, <1>4, <1>6 DEF Inv, Writers
<1>9. CommittedIsInLake' /\ NoDuplicateRows'
  BY <1>1, <1>3 DEF Inv, CommittedIsInLake, NoDuplicateRows, RowsKept
<1>10. DeletedIsInLake'
  <2>1. \A k \in bucket \ bucket' : lake[k] = 1
    BY DEF ClaimDeletion, DeleteRaw, RecordDeleted, CommitterDies, Inv, Writers
  <2> QED
    BY <1>3, <2>1 DEF Inv, DeletedIsInLake
<1> QED
  BY <1>1, <1>2, <1>7, <1>8, <1>9, <1>10 DEF Inv

\* The bucket: objects arrive, or expire.
LEMMA NextBucket ==
  ASSUME Inv, NEW k \in Key, Arrive(k) \/ Vanish(k) PROVE Inv' /\ RowsKept
<1> USE DEF lakeVars, commitVars, workerVars
<1>0. LedgerOK /\ QueueOK /\ RestOK
  BY TypeParts DEF Inv
<1>1. RowsKept
  BY <1>0, SameRows DEF Arrive, Vanish
<1>2. TypeOK'
  BY <1>0, <1>1, BucketType, TypePartsNext DEF RowsKept, LedgerOK, Arrive, Vanish, QueueOK
<1>3. UNCHANGED <<lakeVars, pc, active, doomed, commitVars>>
  BY DEF Arrive, Vanish
<1>4. Locked' /\ Writers'
  BY <1>3 DEF Inv, Locked, Writers
<1>5. CommittedIsInLake' /\ NoDuplicateRows'
  BY <1>1, <1>3 DEF Inv, CommittedIsInLake, NoDuplicateRows, RowsKept
<1>6. DeletedIsInLake'
  BY <1>3 DEF Inv, DeletedIsInLake, Arrive, Vanish
<1> QED
  BY <1>1, <1>2, <1>4, <1>5, <1>6 DEF Inv

-----------------------------------------------------------------------------
(* The theorems *)

\* What every step does to the ledger, besides preserving the invariant.
LedgerStep ==
  \A k \in Key : /\ ledger[k].status = "committed" => ledger'[k].status = "committed"
                 /\ ledger'[k].published /\ ~ledger[k].published => k \notin inlined

\* The invariant holds before anything has arrived.
LEMMA InitInv == Init => Inv
<1> SUFFICES ASSUME Init PROVE Inv
  OBVIOUS
<1>1. LedgerOK
  BY FreshRows DEF Init, LedgerOK
<1>2. QueueOK
  BY DEF Init, QueueOK, IsABag, EmptyBag, SetToBag, BagToSet
<1>3. RestOK
  BY NoKeysTyped, LedgerAssumption DEF Init, RestOK, WorkerCall, CommitCall
<1>4. TypeOK
  BY <1>1, <1>2, <1>3, TypeParts
<1>5. Locked /\ Writers
  BY DEF Init, Locked, Writers
<1>6. \A k \in Key : lake[k] = 0 /\ ledger[k] = NoRow
  BY DEF Init, NoKeys
<1>7. NoDuplicateRows
  BY <1>6 DEF NoDuplicateRows
<1>8. CommittedIsInLake /\ DeletedIsInLake
  BY <1>6, FreshRows DEF Init, CommittedIsInLake, DeletedIsInLake
<1> QED
  BY <1>4, <1>5, <1>7, <1>8 DEF Inv

\* Steps that commit and publish nothing.
LEMMA KeptIsStep == RowsKept => LedgerStep
  BY DEF RowsKept, LedgerStep

\* Every step keeps the invariant and what the ledger has promised.
LEMMA NextInv == Inv /\ [Next]_vars => Inv' /\ LedgerStep
<1> SUFFICES ASSUME Inv, [Next]_vars PROVE Inv' /\ LedgerStep
  OBVIOUS
<1>1. CASE UNCHANGED vars
  <2>1. RowsKept
    BY <1>1, SameRows, TypeParts DEF Inv, vars
  <2>2. TypeOK'
    BY <1>1 DEF Inv, TypeOK, vars, bucketVars, lakeVars, workerVars, sweepVars, commitVars
  <2> QED
    BY <1>1, <2>1, <2>2, QuietStep, KeptIsStep
    DEF vars, bucketVars, lakeVars, workerVars, sweepVars, commitVars
<1>2. ASSUME NEW w \in Worker, WorkerStep(w) PROVE Inv' /\ LedgerStep
  BY <1>2, NextOutside, NextEnter, NextBegin, NextCommitLake, NextLeave, NextMark, KeptIsStep
  DEF WorkerStep, LedgerStep
<1>3. ASSUME SweepStep \/ Clock PROVE Inv' /\ LedgerStep
  BY <1>3, NextQuiet, KeptIsStep
<1>4. ASSUME NEW c \in Committer, CommitStep(c) PROVE Inv' /\ LedgerStep
  BY <1>4, NextMerge, NextDeletion, KeptIsStep DEF CommitStep, LedgerStep
<1>5. ASSUME Environment PROVE Inv' /\ LedgerStep
  BY <1>5, NextOutside, NextQuiet, NextDeletion, NextBucket, KeptIsStep DEF Environment
<1> QED
  BY <1>1, <1>2, <1>3, <1>4, <1>5 DEF Next

\* The invariant holds for any number of objects, workers and committers, and
\* any number of failures.
THEOREM LedgerInvariant == Spec => []Inv
<1>1. Inv /\ [Next]_vars => Inv'
  BY NextInv
<1> QED
  BY <1>1, InitInv, PTL DEF Spec

\* Rows are never twice in the table (_ducklake_replace_source_rows under
\* ducklake_write_admission).
THEOREM LedgerNoDuplicates == Spec => []NoDuplicateRows
<1>1. Inv => NoDuplicateRows
  BY DEF Inv
<1> QED
  BY <1>1, LedgerInvariant, PTL

\* What the ledger calls committed is in the table
\* (_ledger_mark_committed_batch after the lock has been left).
THEOREM LedgerCommittedInLake == Spec => []CommittedIsInLake
<1>1. Inv => CommittedIsInLake
  BY DEF Inv
<1> QED
  BY <1>1, LedgerInvariant, PTL

\* No raw object is deleted whose rows are not in the table
\* (finalize_committed_raw).
THEOREM LedgerDeletedInLake == Spec => []DeletedIsInLake
<1>1. Inv => DeletedIsInLake
  BY DEF Inv
<1> QED
  BY <1>1, LedgerInvariant, PTL

\* Only flushed rows are published (merge_lake_files, _mark_ledger_published).
THEOREM LedgerPublishedFlushed == Spec => PublishedIsFlushed
<1>1. Inv /\ [Next]_vars =>
        [\A k \in Key : ledger'[k].published /\ ~ledger[k].published => k \notin inlined]_vars
  BY NextInv DEF LedgerStep
<1> QED
  BY <1>1, LedgerInvariant, PTL DEF Spec, PublishedIsFlushed

\* A committed row is never taken back: the generation check of late workers
\* and the conditions of reclaim, failure and operators together.
THEOREM LedgerCommittedFinal == Spec => CommittedIsFinal
<1>1. Inv /\ [Next]_vars =>
        [\A k \in Key : ledger[k].status = "committed" => ledger'[k].status = "committed"]_vars
  BY NextInv DEF LedgerStep
<1> QED
  BY <1>1, LedgerInvariant, PTL DEF Spec, CommittedIsFinal
=============================================================================
