-------------------------- MODULE FairPageSelector --------------------------
(***************************************************************************)
(* Which (service, domain) pages a worker runs in each round of its loop:  *)
(* FairPageSelector, a weighted deficit round robin over one FIFO of       *)
(* domains per service, and the loop that calls it                         *)
(* (backend/high_scale/worker.py).  One action per pop or top-up, so that  *)
(* the inner while loop of select can fail to end.                         *)
(*                                                                         *)
(* Services are numbered in sorted order; every service has the same       *)
(* domains, as the loop builds the pairs.  Capacity and weights come from  *)
(* the environment and are fixed for the life of a process: Init chooses   *)
(* them among the values the constructor accepts.                          *)
(***************************************************************************)
EXTENDS Integers, Sequences, SequencesExt, FiniteSets

CONSTANTS
    NServices,      \* number of services
    NDomains,       \* domains of each service
    MaxWeight,      \* bound: largest service weight
    MaxTicks        \* max_iterations of the loop

ASSUME SelectorAssumption ==
    /\ NServices \in Nat \ {0} /\ NDomains \in Nat \ {0}
    /\ MaxWeight \in Nat \ {0} /\ MaxTicks \in Nat

Service == 1..NServices
Domain == 1..NDomains
Pair == Service \X Domain

VARIABLES
    capacity,       \* pages per tick
    weights,        \* _weights
    queues,         \* _queues
    deficits,       \* _deficits
    queued,         \* _queued
    selected,       \* pairs chosen in this tick, in the order chosen
    pc,             \* "idle", or the loop of select that runs
    turn,           \* service the loop has come to
    progressed,     \* local of select
    ticks,          \* history: calls of select so far
    waited,         \* history: ticks in a row that left a pair out
    served          \* history: pages given to each service

config == <<capacity, weights>>
history == <<ticks, waited, served>>
vars == <<config, queues, deficits, queued, selected, pc, turn, progressed, history>>

TypeOK ==
    /\ capacity \in Nat \ {0}
    /\ weights \in [Service -> 1..MaxWeight]
    /\ queues \in [Service -> Seq(Domain)]
    /\ deficits \in [Service -> Nat]
    /\ queued \subseteq Pair
    /\ selected \in Seq(Pair)
    /\ pc \in {"idle", "first", "spend"}
    /\ turn \in 1..(NServices + 1)
    /\ progressed \in BOOLEAN
    /\ ticks \in 0..MaxTicks
    /\ waited \in [Pair -> Nat]
    /\ served \in [Service -> Nat]

\* Capacity 0 or unset means every pair; a capacity below the number of
\* services is refused.
Init ==
    /\ capacity \in NServices..(NServices * NDomains + 1)
    /\ weights \in [Service -> 1..MaxWeight]
    /\ queues = [s \in Service |-> <<>>]
    /\ deficits = [s \in Service |-> 0]
    /\ queued = {}
    /\ selected = <<>>
    /\ pc = "idle"
    /\ turn = 1
    /\ progressed = FALSE
    /\ ticks = 0
    /\ waited = [p \in Pair |-> 0]
    /\ served = [s \in Service |-> 0]

-----------------------------------------------------------------------------
Full == Len(selected) >= capacity
Backlog == {s \in Service : queues[s] # <<>>}

\* Domains in the order in which _pairs lists them.
Sorted(D) ==
    CHOOSE q \in [1..Cardinality(D) -> D] : \A i, j \in 1..Cardinality(D) : i < j => q[i] < q[j]

\* select begins: pairs that are not waiting join the queue of their service.
Enqueue ==
    queues' = [s \in Service |-> queues[s] \o Sorted({d \in Domain : <<s, d>> \notin queued})]

StartSelect ==
    /\ pc = "idle"
    /\ ticks < MaxTicks
    /\ Enqueue
    /\ queued' = Pair
    /\ selected' = <<>>
    /\ pc' = "first"
    /\ turn' = 1
    /\ ticks' = ticks + 1
    /\ UNCHANGED <<config, deficits, progressed, waited, served>>

\* selected.append((s, queue.popleft()))
Pop(s) ==
    /\ selected' = Append(selected, <<s, Head(queues[s])>>)
    /\ queues' = [queues EXCEPT ![s] = Tail(@)]

\* Mutant: no minimum of one page per service, only its credit.
FirstPageOnCredit ==
    /\ pc = "first" /\ turn <= NServices
    /\ deficits' = [deficits EXCEPT ![turn] = @ + weights[turn] - 1]
    /\ turn' = turn + 1
    /\ UNCHANGED <<config, queues, selected, queued, pc, progressed, history>>

\* The first loop: one page for every service.  Its queue is not empty, all of
\* its pairs having just been queued, and capacity is no obstacle.
FirstPage ==
    /\ pc = "first" /\ turn <= NServices
    /\ turn \in Backlog /\ ~Full
    /\ Pop(turn)
    /\ deficits' = [deficits EXCEPT ![turn] = @ + weights[turn] - 1]
    /\ turn' = turn + 1
    /\ UNCHANGED <<config, queued, pc, progressed, history>>

FirstLoopEnds ==
    /\ pc = "first" /\ turn > NServices
    /\ pc' = "spend" /\ turn' = 1 /\ progressed' = FALSE
    /\ UNCHANGED <<config, queues, deficits, queued, selected, history>>

-----------------------------------------------------------------------------
\* The condition of the outer while loop.
MorePages == ~Full /\ Backlog # {}

\* The condition of the inner while loop.
MaySpend(s) == s \in Backlog /\ deficits[s] >= 1 /\ ~Full

\* Mutant: the inner loop does not pay for the pages it takes.
SpendForFree ==
    /\ pc = "spend" /\ turn <= NServices
    /\ MaySpend(turn)
    /\ Pop(turn)
    /\ progressed' = TRUE
    /\ UNCHANGED <<config, deficits, queued, pc, turn, history>>

Spend ==
    /\ pc = "spend" /\ turn <= NServices
    /\ MaySpend(turn)
    /\ Pop(turn)
    /\ deficits' = [deficits EXCEPT ![turn] = @ - 1]
    /\ progressed' = TRUE
    /\ UNCHANGED <<config, queued, pc, turn, history>>

\* The for loop goes on to the next service.  It is entered only while there
\* is room and backlog; services after the last page have nothing to spend on.
NextService ==
    /\ pc = "spend" /\ turn <= NServices
    /\ turn > 1 \/ MorePages
    /\ ~MaySpend(turn)
    /\ turn' = turn + 1
    /\ UNCHANGED <<config, queues, deficits, queued, selected, pc, progressed, history>>

\* Mutant: the pass itself costs each service one credit, as the first loop does.
NewCreditLessOne == [s \in Service |-> IF s \in Backlog THEN weights[s] - 1 ELSE 0]

\* What a pass without progress adds to the deficits.
NewCredit == [s \in Service |-> IF s \in Backlog THEN weights[s] ELSE 0]

\* A pass over the services is over.
NextPass ==
    /\ pc = "spend" /\ turn > NServices
    /\ deficits' = IF progressed THEN deficits
                   ELSE [s \in Service |-> deficits[s] + NewCredit[s]]
    /\ turn' = 1 /\ progressed' = FALSE
    /\ UNCHANGED <<config, queues, queued, selected, pc, history>>

\* Mutant: a pass in which nobody had credit ends the tick.
SelectReturnsEarly ==
    /\ pc = "spend"
    /\ (turn = 1 /\ ~MorePages) \/ (turn > NServices /\ ~progressed)
    /\ queued' = queued \ ToSet(selected)
    /\ pc' = "idle"
    /\ waited' = [p \in Pair |-> IF p \in ToSet(selected) THEN 0 ELSE waited[p] + 1]
    /\ served' = [s \in Service |-> served[s] + Cardinality({p \in ToSet(selected) : p[1] = s})]
    /\ UNCHANGED <<config, queues, deficits, selected, turn, progressed, ticks>>

\* select returns; run_once runs every page of it, in a fixed order, whatever
\* becomes of the others.
SelectReturns ==
    /\ pc = "spend" /\ turn = 1 /\ ~MorePages
    /\ queued' = queued \ ToSet(selected)
    /\ pc' = "idle"
    /\ waited' = [p \in Pair |-> IF p \in ToSet(selected) THEN 0 ELSE waited[p] + 1]
    /\ served' = [s \in Service |-> served[s] + Cardinality({p \in ToSet(selected) : p[1] = s})]
    /\ UNCHANGED <<config, queues, deficits, selected, turn, progressed, ticks>>

Next ==
    \/ StartSelect \/ FirstPage \/ FirstLoopEnds
    \/ Spend \/ NextService \/ NextPass \/ SelectReturns

Spec == Init /\ [][Next]_vars

\* The statements of select run one after the other.
FairSpec == Spec /\ WF_vars(Next)

-----------------------------------------------------------------------------
(* Properties *)

\* No pair starves: whatever the weights and however much credit a busy
\* service has kept from earlier ticks, a pair is left out at most once for
\* each other domain of its own service.
BoundedWait == \A p \in Pair : waited[p] < NDomains

\* Idle capacity is lent: a tick runs as many pages as it has room for.
WorkConserving ==
    pc = "idle" /\ ticks > 0 =>
        Len(selected) = IF capacity < NServices * NDomains THEN capacity
                        ELSE NServices * NDomains

\* Credit that a tick could not honour is honoured in the next one: with the
\* default weights, and a capacity that leaves as many pages waiting as there
\* are services, no service is ever more than one page behind another,
\* although the spare capacity of a tick goes to the first that has credit.
EqualShares ==
    /\ pc = "idle"
    /\ \A s \in Service : weights[s] = 1
    /\ capacity <= NServices * (NDomains - 1)
    => \A s, t \in Service : served[s] <= served[t] + 1

\* The while loop of select ends: a pass without progress gives some waiting
\* service the credit to go on.
SelectEnds == (pc # "idle") ~> (pc = "idle")
=============================================================================
