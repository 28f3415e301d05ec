---------------------------- MODULE ConnectionPool ----------------------------
(***************************************************************************)
(* The DuckDB connection pool of one service                               *)
(* (backend/core/duckdb_pool.py) under request threads, the recycle job    *)
(* (backend/cron/jobs/duckdb_recycle.py) and the warm-up and reset of idle *)
(* connections.                                                            *)
(*                                                                         *)
(* One action per stretch under the pool's condition lock, per unlocked    *)
(* read and per call that builds, attaches or closes a connection.  A      *)
(* recycle retires the pool object and the next request creates another.   *)
(* The recycle barrier only delays a build (it fails open) and the view    *)
(* bindings of a connection are left out.                                  *)
(***************************************************************************)
EXTENDS Naturals, Sequences, SequencesExt, FiniteSets

CONSTANTS
    Request,        \* request threads
    Heavy,          \* those of heavy routes
    ReuseOnly,      \* those that only take an idle connection (reuse_only)
    Recycler,       \* the thread that drains a pool (duckdb_recycle, reset)
    MaxSize,        \* max_size of a pool
    HeavyCap,       \* heavy_cap of a pool
    MaxPools        \* bound: pool objects, and recycles

ASSUME PoolAssumption ==
    /\ Heavy \subseteq Request /\ ReuseOnly \subseteq Request /\ Recycler \notin Request
    /\ IsFiniteSet(Request)
    /\ MaxSize \in Nat \ {0} /\ MaxPools \in Nat \ {0}
    /\ HeavyCap \in 1..MaxSize

Thread == Request \cup {Recycler}
Pool == 1..MaxPools
NoPool == 0
ConnOf(p) == {p} \X (1..MaxSize)     \* the connections of p: it never has more at a time
Conn == Pool \X (1..MaxSize)
NoConn == <<NoPool, 0>>

VARIABLES
    current, created,   \* _pools[service_key], pool objects created so far
    idle,               \* _idle: the last one is taken first
    inUse,              \* _in_use: checked out, being built and idle
    draining,           \* _draining
    waiters,            \* threads asleep on _cond, the first is notified first
    heavyUsed,          \* slots of _heavy_sem taken
    open,               \* open connections
    pc, late,           \* thread: next step, its deadline has passed
    pool, con,          \* thread: its pool, its connection
    keeper              \* warm_idle or discard_idle: its pool and the connections it took

poolVars == <<idle, inUse, draining, waiters>>
vars == <<current, created, poolVars, heavyUsed, open, pc, late, pool, con, keeper>>

RequestStep == {"idle", "slot", "check", "wait", "build", "attach", "use", "put", "close", "drop", "leave"}
Holding == {"build", "attach", "use", "put", "close", "drop"}   \* counted in _in_use

TypeOK ==
    /\ current \in Pool \cup {NoPool} /\ created \in 0..MaxPools
    /\ idle \in [Pool -> Seq(Conn)] /\ inUse \in [Pool -> 0..MaxSize]
    /\ draining \in [Pool -> BOOLEAN] /\ waiters \in [Pool -> Seq(Thread)]
    /\ heavyUsed \in [Pool -> 0..HeavyCap]
    /\ open \subseteq Conn
    /\ pc \in [Thread -> RequestStep] /\ late \in [Thread -> BOOLEAN]
    /\ pool \in [Thread -> Pool \cup {NoPool}] /\ con \in [Thread -> Conn \cup {NoConn}]
    /\ keeper \in [pool : Pool \cup {NoPool}, took : Seq(Conn)]

Init ==
    /\ current = NoPool /\ created = 0
    /\ idle = [p \in Pool |-> <<>>] /\ inUse = [p \in Pool |-> 0]
    /\ draining = [p \in Pool |-> FALSE] /\ waiters = [p \in Pool |-> <<>>]
    /\ heavyUsed = [p \in Pool |-> 0]
    /\ open = {}
    /\ pc = [t \in Thread |-> "idle"] /\ late = [t \in Thread |-> FALSE]
    /\ pool = [t \in Thread |-> NoPool] /\ con = [t \in Thread |-> NoConn]
    /\ keeper = [pool |-> NoPool, took |-> <<>>]

-----------------------------------------------------------------------------
(* threading.Condition *)

Min2(m, n) == IF m < n THEN m ELSE n

\* The first n threads asleep on the condition of p.
Notified(p, n) == ToSet(SubSeq(waiters[p], 1, Min2(n, Len(waiters[p]))))

\* n threads are woken; they look at their condition again.
Woken(p, n) == [u \in Thread |-> IF u \in Notified(p, n) THEN "check" ELSE pc[u]]
Unlisted(p, n) == waiters' = [waiters EXCEPT ![p] = SubSeq(@, n + 1, Len(@))]

\* Thread t wakes n threads and goes on at s.
Notify(p, n, t, s) == pc' = [Woken(p, n) EXCEPT ![t] = s] /\ Unlisted(p, n)

Goto(t, s) == pc' = [pc EXCEPT ![t] = s]

\* A thread that woke up at its deadline is still listed, and may be notified in
\* another's place, until it holds the lock again.
Others(t) == RemoveFirst(waiters[pool[t]], t)
Awake(t) == waiters' = [waiters EXCEPT ![pool[t]] = Others(t)]

Sleep(t) ==
    /\ Goto(t, "wait")
    /\ waiters' = [waiters EXCEPT ![pool[t]] = Append(Others(t), t)]

\* The deadline of a thread passes; asleep, it wakes up by itself.
Deadline(t) ==
    /\ pc[t] \in {"slot", "check", "wait"} /\ ~late[t]
    /\ late' = [late EXCEPT ![t] = TRUE]
    /\ pc' = IF pc[t] = "wait" THEN [pc EXCEPT ![t] = "check"] ELSE pc
    /\ UNCHANGED <<current, created, poolVars, heavyUsed, open, pool, con, keeper>>

-----------------------------------------------------------------------------
(* checkout_connection *)

\* _get_pool
GetPool(r) ==
    /\ pc[r] = "idle"
    /\ IF current # NoPool THEN UNCHANGED <<current, created>>
       ELSE /\ created < MaxPools
            /\ created' = created + 1 /\ current' = created'
    /\ pool' = [pool EXCEPT ![r] = current']
    /\ Goto(r, IF r \in Heavy THEN "slot" ELSE "check")
    /\ UNCHANGED <<poolVars, heavyUsed, open, late, con, keeper>>

\* The end of a checkout: without a connection, or after it was returned.
Left(r) ==
    /\ pool' = [pool EXCEPT ![r] = NoPool]
    /\ late' = [late EXCEPT ![r] = FALSE]
    /\ Goto(r, "idle")

\* acquire_heavy_slot
AcquireHeavySlot(r) ==
    /\ pc[r] = "slot"
    /\ \/ /\ heavyUsed[pool[r]] < HeavyCap
          /\ heavyUsed' = [heavyUsed EXCEPT ![pool[r]] = @ + 1]
          /\ Goto(r, "check") /\ UNCHANGED <<pool, late>>
       \/ heavyUsed[pool[r]] = HeavyCap /\ late[r] /\ Left(r) /\ UNCHANGED heavyUsed
    /\ UNCHANGED <<current, created, poolVars, open, con, keeper>>

\* The connection at the end of the queue is taken out.
TakeIdle(r) ==
    LET p == pool[r] IN
    /\ ~draining[p] /\ idle[p] # <<>>
    /\ con' = [con EXCEPT ![r] = Last(idle[p])]
    /\ idle' = [idle EXCEPT ![p] = Front(@)]
    /\ Goto(r, "attach") /\ Awake(r)
    /\ UNCHANGED inUse

\* A slot for a connection that is still to be built.
TakeSlot(r) ==
    LET p == pool[r] IN
    /\ ~draining[p] /\ idle[p] = <<>> /\ r \notin ReuseOnly
    /\ inUse[p] < MaxSize
    /\ inUse' = [inUse EXCEPT ![p] = @ + 1]
    /\ Goto(r, "build") /\ Awake(r)
    /\ UNCHANGED <<con, idle>>

\* Neither: the thread waits until its deadline, or gives up (_PoolBusy).
WaitOrGiveUp(r) ==
    LET p == pool[r] IN
    /\ draining[p] \/ (idle[p] = <<>> /\ (inUse[p] >= MaxSize \/ r \in ReuseOnly))
    /\ IF late[r] \/ r \in ReuseOnly THEN Goto(r, "leave") /\ Awake(r) ELSE Sleep(r)
    /\ UNCHANGED <<con, idle, inUse>>

\* acquire, one turn of its loop
Acquire(r) ==
    /\ pc[r] = "check"
    /\ TakeIdle(r) \/ TakeSlot(r) \/ WaitOrGiveUp(r)
    /\ UNCHANGED <<current, created, draining, heavyUsed, open, late, pool, keeper>>

\* Mutant: the slot of a build that fails is not given back.
BuildKeepsSlot(r) ==
    /\ pc[r] = "build"
    /\ \/ LET c == CHOOSE c \in ConnOf(pool[r]) : c \notin open IN
          /\ open' = open \cup {c}
          /\ con' = [con EXCEPT ![r] = c]
          /\ Goto(r, "use")
       \/ Goto(r, "leave") /\ UNCHANGED <<open, con>>
    /\ UNCHANGED <<inUse, waiters, current, created, idle, draining, heavyUsed, late, pool, keeper>>

\* get_connection, or its failure, outside the lock.
Build(r) ==
    /\ pc[r] = "build"
    /\ \/ LET c == CHOOSE c \in ConnOf(pool[r]) : c \notin open IN
          /\ open' = open \cup {c}
          /\ con' = [con EXCEPT ![r] = c]
          /\ Goto(r, "use")
          /\ UNCHANGED <<inUse, waiters>>
       \/ /\ inUse' = [inUse EXCEPT ![pool[r]] = @ - 1]
          /\ Notify(pool[r], 1, r, "leave")
          /\ UNCHANGED <<open, con>>
    /\ UNCHANGED <<current, created, idle, draining, heavyUsed, late, pool, keeper>>

\* _ducklake_attach and _prepare_checkout of a reused connection, which is
\* discarded when they fail.
Attach(r) ==
    /\ pc[r] = "attach"
    /\ Goto(r, "use") \/ Goto(r, "close")
    /\ UNCHANGED <<current, created, poolVars, heavyUsed, open, late, pool, con, keeper>>

\* The request ends and release begins: it looks at _draining without the lock.
EndUse(r) ==
    /\ pc[r] = "use"
    /\ \/ Goto(r, "close")                                          \* errored
       \/ Goto(r, IF draining[pool[r]] THEN "close" ELSE "put")
    /\ UNCHANGED <<current, created, poolVars, heavyUsed, open, late, pool, con, keeper>>

\* Mutant: the threads that wait are not told of the connection.
PutSilently(r) ==
    /\ pc[r] = "put"
    /\ idle' = [idle EXCEPT ![pool[r]] = Append(@, con[r])]
    /\ con' = [con EXCEPT ![r] = NoConn]
    /\ Goto(r, "leave")
    /\ UNCHANGED <<current, created, inUse, draining, waiters, heavyUsed, open, late, pool, keeper>>

\* release: the connection is idle again.  The queue has room for max_size, and never
\* has more (SlotsAreCounted): the branch for a full queue is not taken.
Put(r) ==
    /\ pc[r] = "put"
    /\ idle' = [idle EXCEPT ![pool[r]] = Append(@, con[r])]
    /\ con' = [con EXCEPT ![r] = NoConn]
    /\ Notify(pool[r], 1, r, "leave")
    /\ UNCHANGED <<current, created, inUse, draining, heavyUsed, open, late, pool, keeper>>

\* _discard: the connection is closed ...
Close(r) ==
    /\ pc[r] = "close"
    /\ open' = open \ {con[r]}
    /\ con' = [con EXCEPT ![r] = NoConn]
    /\ Goto(r, "drop")
    /\ UNCHANGED <<current, created, poolVars, heavyUsed, late, pool, keeper>>

\* ... and then no longer counted.
Drop(r) ==
    /\ pc[r] = "drop"
    /\ inUse' = [inUse EXCEPT ![pool[r]] = @ - 1]
    /\ Notify(pool[r], 1, r, "leave")
    /\ UNCHANGED <<current, created, idle, draining, heavyUsed, open, late, pool, con, keeper>>

\* Mutant: the heavy slot is only released after a successful checkout.
LeaveKeepsSlot(r) ==
    /\ pc[r] = "leave"
    /\ heavyUsed' = IF r \in Heavy /\ ~late[r] THEN [heavyUsed EXCEPT ![pool[r]] = @ - 1] ELSE heavyUsed
    /\ Left(r)
    /\ UNCHANGED <<current, created, poolVars, open, con, keeper>>

\* release_heavy_slot
Leave(r) ==
    /\ pc[r] = "leave"
    /\ heavyUsed' = IF r \in Heavy THEN [heavyUsed EXCEPT ![pool[r]] = @ - 1] ELSE heavyUsed
    /\ Left(r)
    /\ UNCHANGED <<current, created, poolVars, open, con, keeper>>

-----------------------------------------------------------------------------
(* Recycle: begin_drain_pools, wait_pools_drained, end_drain_pools *)

\* _drain_idle_locked
CloseIdle(p) ==
    /\ open' = open \ ToSet(idle[p])
    /\ inUse' = [inUse EXCEPT ![p] = @ - Len(idle[p])]
    /\ idle' = [idle EXCEPT ![p] = <<>>]

\* The pool is retired, its idle connections are closed and everyone is woken.
BeginDrain ==
    /\ pc[Recycler] = "idle" /\ current # NoPool
    /\ current' = NoPool
    /\ pool' = [pool EXCEPT ![Recycler] = current]
    /\ draining' = [draining EXCEPT ![current] = TRUE]
    /\ CloseIdle(current)
    /\ Notify(current, Len(waiters[current]), Recycler, "check")
    /\ UNCHANGED <<created, heavyUsed, late, con, keeper>>

\* wait_drained
WaitDrained ==
    /\ pc[Recycler] = "check"
    /\ IF inUse[pool[Recycler]] = 0 \/ late[Recycler]
       THEN Goto(Recycler, "leave") /\ Awake(Recycler) ELSE Sleep(Recycler)
    /\ UNCHANGED <<current, created, idle, inUse, draining, heavyUsed, open, late, pool, con, keeper>>

EndDrain ==
    /\ pc[Recycler] = "leave"
    /\ LET p == pool[Recycler] IN
       /\ draining' = [draining EXCEPT ![p] = FALSE]
       /\ Notify(p, Len(waiters[p]), Recycler, "idle")
    /\ pool' = [pool EXCEPT ![Recycler] = NoPool]
    /\ late' = [late EXCEPT ![Recycler] = FALSE]
    /\ UNCHANGED <<current, created, idle, inUse, heavyUsed, open, con, keeper>>

-----------------------------------------------------------------------------
(* warm_pool_for_service and reset_pool_for_service *)

KeeperStarts ==
    /\ keeper.pool = NoPool /\ current # NoPool
    /\ keeper' = [keeper EXCEPT !.pool = current]
    /\ UNCHANGED <<current, created, poolVars, heavyUsed, open, pc, late, pool, con>>

\* Mutant: the connections that are rebound stay in the queue.
WarmIdleShared ==
    /\ keeper.pool # NoPool /\ keeper.took = <<>>
    /\ LET p == keeper.pool IN
       keeper' = IF draining[p] \/ idle[p] = <<>> THEN [pool |-> NoPool, took |-> <<>>]
                 ELSE [keeper EXCEPT !.took = idle[p]]
    /\ UNCHANGED <<current, created, poolVars, heavyUsed, open, pc, late, pool, con>>

\* warm_idle takes all idle connections out ...
WarmIdle ==
    /\ keeper.pool # NoPool /\ keeper.took = <<>>
    /\ LET p == keeper.pool IN
       IF draining[p] \/ idle[p] = <<>>
       THEN keeper' = [pool |-> NoPool, took |-> <<>>] /\ UNCHANGED idle
       ELSE /\ keeper' = [keeper EXCEPT !.took = idle[p]]
            /\ idle' = [idle EXCEPT ![p] = <<>>]
    /\ UNCHANGED <<current, created, inUse, draining, waiters, heavyUsed, open, pc, late, pool, con>>

\* ... and, when they are rebound, puts them back.
Requeue ==
    /\ keeper.took # <<>>
    /\ LET p == keeper.pool IN
       /\ idle' = [idle EXCEPT ![p] = @ \o keeper.took]
       /\ pc' = Woken(p, Len(keeper.took)) /\ Unlisted(p, Len(keeper.took))
    /\ keeper' = [pool |-> NoPool, took |-> <<>>]
    /\ UNCHANGED <<current, created, inUse, draining, heavyUsed, open, late, pool, con>>

\* discard_idle
DiscardIdle ==
    /\ keeper.pool # NoPool /\ keeper.took = <<>>
    /\ LET p == keeper.pool IN
       /\ CloseIdle(p)
       /\ pc' = Woken(p, Len(waiters[p])) /\ Unlisted(p, Len(waiters[p]))
    /\ keeper' = [keeper EXCEPT !.pool = NoPool]
    /\ UNCHANGED <<current, created, draining, heavyUsed, late, pool, con>>

\* A retired pool that no thread refers to is freed, and its connections with it.
Collect(p) ==
    /\ p <= created /\ p # current /\ idle[p] # <<>>
    /\ \A t \in Thread : pool[t] # p
    /\ keeper.pool # p
    /\ CloseIdle(p)
    /\ UNCHANGED <<current, created, draining, waiters, heavyUsed, pc, late, pool, con, keeper>>

-----------------------------------------------------------------------------
Checkout(r) == AcquireHeavySlot(r) \/ Acquire(r) \/ Build(r) \/ Attach(r)
Checkin(r) == EndUse(r) \/ Put(r) \/ Close(r) \/ Drop(r) \/ Leave(r)
Recycle == WaitDrained \/ EndDrain
Keep == WarmIdle \/ Requeue \/ DiscardIdle

Next ==
    \/ \E r \in Request : GetPool(r) \/ Checkout(r) \/ Checkin(r)
    \/ \E t \in Thread : Deadline(t)
    \/ BeginDrain \/ Recycle
    \/ KeeperStarts \/ Keep
    \/ \E p \in Pool : Collect(p)

Spec == Init /\ [][Next]_vars

-----------------------------------------------------------------------------
(* Properties *)

Holders(p) == {r \in Request : pool[r] = p /\ pc[r] \in Holding}
Taken(p) == IF keeper.pool = p THEN keeper.took ELSE <<>>

\* No slot is lost or given back twice, whichever of build, attach, query, check-in,
\* drain, warm-up or reset fails or overlaps: _in_use is the number of connections.
SlotsAreCounted ==
    \A p \in Pool : inUse[p] = Len(idle[p]) + Cardinality(Holders(p)) + Len(Taken(p))

\* A connection has one user at a time, stays open while it is used or idle, and is
\* closed otherwise:
\* "Active user queries are NOT terminated or interrupted during recycling".
OneUserEach ==
    LET Users == {r \in Request : con[r] # NoConn}
        Queued == UNION {ToSet(idle[p]) \cup ToSet(Taken(p)) : p \in Pool} IN
    /\ \A r, s \in Users : con[r] = con[s] => r = s
    /\ {con[r] : r \in Users} \cap Queued = {}
    /\ {con[r] : r \in Users} \cup Queued = open
    /\ \A p \in Pool : IsInjective(idle[p] \o Taken(p))

\* No request sleeps beside a connection or slot it could have: for each one there
\* is a request that has been woken, or has come, and is still to look.  Every
\* check-in, failure, warm-up and end of a drain tells as many as it must, also when
\* it tells a thread whose deadline has passed.
NobodyOversleeps ==
    \A p \in Pool :
        (\E r \in Request : pool[r] = p /\ pc[r] = "wait") /\ ~draining[p]
        => Len(idle[p]) + (MaxSize - inUse[p])
             <= Cardinality({r \in Request \ ReuseOnly : pool[r] = p /\ pc[r] = "check"})

\* Heavy requests leave room for light ones, and their slots come back in full.
HeavyIsBounded ==
    \A p \in Pool : heavyUsed[p] = Cardinality({r \in Heavy : pool[r] = p /\ pc[r] \notin {"idle", "slot"}})
=============================================================================
