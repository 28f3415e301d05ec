------------------------ MODULE ConnectionPoolProofs ------------------------
(***************************************************************************)
(* Proofs about ConnectionPool for every set of request threads, size of a *)
(* pool, number of heavy slots and number of recycles.                     *)
(*                                                                         *)
(* The argument: a slot of _in_use has one owner at a time, which is a     *)
(* request, the queue or the keeper, so each step moves it from one to the *)
(* other or gives it back; and a connection goes where its slot goes.      *)
(* Nobody oversleeps because what is free is matched with threads that     *)
(* have already left the condition's queue and are still to look: a notify *)
(* that reaches a thread still listed takes it off the list, and a thread  *)
(* that looks and takes nothing has found nothing.                         *)
(***************************************************************************)
EXTENDS ConnectionPool, FiniteSetTheorems, SequenceTheorems, TLAPS

Waiting == {"wait", "check"}                       \* inside acquire's loop or wait_drained
Carrying == {"attach", "use", "put", "close"}      \* has a connection

\* Where threads are: a request has a pool from _get_pool to its end, only heavy
\* ones queue for a heavy slot, the recycler has a draining pool.
Places ==
    /\ \A r \in Request : pc[r] # "idle" => pool[r] \in Pool
    /\ \A r \in Request : pc[r] = "slot" => r \in Heavy
    /\ pc[Recycler] \in {"idle", "leave"} \cup Waiting
    /\ pc[Recycler] # "idle" => pool[Recycler] \in Pool /\ draining[pool[Recycler]]
    /\ keeper.pool = NoPool => keeper.took = <<>>

\* The queue of a condition has each sleeper once, and besides sleepers only threads
\* that woke up at their deadline; reuse_only requests never sleep.
Listed ==
    /\ \A p \in Pool : IsInjective(waiters[p])
    /\ \A p \in Pool : \A u \in ToSet(waiters[p]) : pool[u] = p /\ pc[u] \in Waiting /\ u \notin ReuseOnly
    /\ \A t \in Thread : pc[t] = "wait" => t \in ToSet(waiters[pool[t]])

\* Requests that were notified, or have just come, and are still to look.  A thread
\* that woke at its deadline and is still listed does not count: the next notify
\* may be spent on it.
Ready(p) == {r \in Request \ ReuseOnly : pool[r] = p /\ pc[r] = "check" /\ r \notin ToSet(waiters[p])}

Free(p) == Len(idle[p]) + (MaxSize - inUse[p])

\* NobodyOversleeps, with the threads that really were told.
Told(p) ==
    (\E r \in Request : pool[r] = p /\ pc[r] = "wait") /\ ~draining[p]
    => Free(p) <= Cardinality(Ready(p))

Queued(p) == ToSet(idle[p]) \cup ToSet(Taken(p))

\* Who has which connection, and that it is open and one of the pool's.
Conns ==
    /\ \A r \in Request : con[r] # NoConn <=> pc[r] \in Carrying
    /\ \A r \in Request : con[r] # NoConn => con[r] \in ConnOf(pool[r])
    /\ \A p \in Pool : Queued(p) \subseteq ConnOf(p)
    /\ \A p \in Pool : IsInjective(idle[p]) /\ IsInjective(Taken(p))
    /\ \A p \in Pool : ToSet(idle[p]) \cap ToSet(Taken(p)) = {}
    /\ \A r, s \in Request : con[r] # NoConn /\ con[r] = con[s] => r = s
    /\ \A r \in Request : con[r] # NoConn => \A p \in Pool : con[r] \notin Queued(p)
    /\ \A c \in Conn : c \in open <=> (\E p \in Pool : c \in Queued(p)) \/ (\E r \in Request : con[r] = c)

\* The inductive invariant.
Inv ==
    /\ TypeOK /\ Places /\ Listed /\ (\A p \in Pool : Told(p)) /\ Conns
    /\ SlotsAreCounted /\ HeavyIsBounded

-----------------------------------------------------------------------------
(* Sequences without repetition *)

\* The elements of a sequence.
LEMMA Elements ==
  ASSUME NEW S, NEW s \in Seq(S)
  PROVE  /\ ToSet(s) \subseteq S /\ Len(s) \in Nat
         /\ DOMAIN s = 1..Len(s)
         /\ s = <<>> <=> ToSet(s) = {}
         /\ s = <<>> <=> Len(s) = 0
<1>1. Len(s) \in Nat /\ DOMAIN s = 1..Len(s) /\ \A i \in 1..Len(s) : s[i] \in S
  BY LenProperties, ElementOfSeq
<1>2. s = <<>> <=> Len(s) = 0
  BY EmptySeq
<1>3. s # <<>> => s[1] \in ToSet(s)
  BY <1>1, <1>2 DEF ToSet
<1>4. s = <<>> => ToSet(s) = {}
  BY <1>1, <1>2 DEF ToSet
<1>5. ToSet(s) \subseteq S
  BY <1>1 DEF ToSet
<1> QED
  BY <1>1, <1>2, <1>3, <1>4, <1>5

\* The empty sequence.
LEMMA EmptyElements == ToSet(<<>>) = {} /\ Len(<<>>) = 0 /\ IsInjective(<<>>)
  BY DEF ToSet, IsInjective

\* An element at the end.
LEMMA Appended ==
  ASSUME NEW S, NEW s \in Seq(S), NEW e \in S
  PROVE  /\ Append(s, e) \in Seq(S) /\ Len(Append(s, e)) = Len(s) + 1
         /\ ToSet(Append(s, e)) = ToSet(s) \cup {e}
         /\ IsInjective(s) /\ e \notin ToSet(s) => IsInjective(Append(s, e))
<1> DEFINE a == Append(s, e)
<1>1. /\ a \in Seq(S) /\ Len(a) = Len(s) + 1 /\ a[Len(s) + 1] = e
      /\ \A i \in 1..Len(s) : a[i] = s[i]
  BY AppendProperties
<1>2. DOMAIN s = 1..Len(s) /\ DOMAIN a = 1..(Len(s) + 1) /\ Len(s) \in Nat
  BY <1>1, Elements
<1> HIDE DEF a
<1>3. ToSet(a) = ToSet(s) \cup {e}
  BY <1>1, <1>2 DEF ToSet
<1>4. IsInjective(s) /\ e \notin ToSet(s) => IsInjective(a)
  BY <1>1, <1>2 DEF ToSet, IsInjective
<1> QED
  BY <1>1, <1>3, <1>4 DEF a

\* The part between two positions.
LEMMA Parts ==
  ASSUME NEW S, NEW s \in Seq(S), NEW m \in Nat \ {0}, NEW n \in Nat, n <= Len(s)
  PROVE  LET p == SubSeq(s, m, n) IN
         /\ p \in Seq(S) /\ Len(p) = IF m <= n THEN n - m + 1 ELSE 0
         /\ ToSet(p) = {s[i] : i \in m..n}
         /\ IsInjective(s) => IsInjective(p)
<1> DEFINE p == SubSeq(s, m, n)
<1>0. Len(s) \in Nat /\ DOMAIN s = 1..Len(s)
  BY Elements
<1>1. \A i \in m..n : s[i] \in S
  BY <1>0, ElementOfSeq
<1>2. /\ p \in Seq(S) /\ Len(p) = (IF m <= n THEN n - m + 1 ELSE 0)
      /\ \A i \in 1..Len(p) : p[i] = s[m + i - 1]
  BY <1>1, SubSeqProperties
<1>3. DOMAIN p = 1..Len(p)
  BY <1>2, Elements
<1> HIDE DEF p
<1>4. ToSet(p) = {s[i] : i \in m..n}
  <2>1. ASSUME NEW x \in ToSet(p) PROVE x \in {s[i] : i \in m..n}
    <3>1. PICK i \in 1..Len(p) : x = p[i]
      BY <1>3 DEF ToSet
    <3>2. m + i - 1 \in m..n /\ x = s[m + i - 1]
      BY <3>1, <1>2
    <3> QED
      BY <3>2
  <2>2. ASSUME NEW i \in m..n PROVE s[i] \in ToSet(p)
    <3>1. i - m + 1 \in 1..Len(p) /\ m + (i - m + 1) - 1 = i
      BY <1>2
    <3>2. p[i - m + 1] = s[i]
      BY <3>1, <1>2
    <3> QED
      BY <3>1, <3>2, <1>3 DEF ToSet
  <2> QED
    BY <2>1, <2>2
<1>5. IsInjective(s) => IsInjective(p)
  <2> SUFFICES ASSUME IsInjective(s), NEW i \in 1..Len(p), NEW j \in 1..Len(p), p[i] = p[j]
               PROVE  i = j
    BY <1>3 DEF IsInjective
  <2>1. s[m + i - 1] = s[m + j - 1] /\ m + i - 1 \in DOMAIN s /\ m + j - 1 \in DOMAIN s
    BY <1>0, <1>2
  <2>2. m + i - 1 = m + j - 1
    BY <2>1 DEF IsInjective
  <2> QED
    BY <2>2
<1> QED
  BY <1>2, <1>4, <1>5 DEF p

\* Two sequences, one after the other.
LEMMA Joined ==
  ASSUME NEW S, NEW s \in Seq(S), NEW t \in Seq(S)
  PROVE  /\ s \o t \in Seq(S) /\ Len(s \o t) = Len(s) + Len(t)
         /\ ToSet(s \o t) = ToSet(s) \cup ToSet(t)
         /\ IsInjective(s) /\ IsInjective(t) /\ ToSet(s) \cap ToSet(t) = {} => IsInjective(s \o t)
<1> DEFINE a == s \o t
<1>1. /\ a \in Seq(S) /\ Len(a) = Len(s) + Len(t)
      /\ \A i \in 1..(Len(s) + Len(t)) : a[i] = IF i <= Len(s) THEN s[i] ELSE t[i - Len(s)]
  BY ConcatProperties
<1>2. /\ DOMAIN s = 1..Len(s) /\ DOMAIN t = 1..Len(t) /\ DOMAIN a = 1..(Len(s) + Len(t))
      /\ Len(s) \in Nat /\ Len(t) \in Nat
  BY <1>1, Elements
<1> HIDE DEF a
<1>3. ToSet(a) = ToSet(s) \cup ToSet(t)
  <2>1. \A i \in 1..Len(s) : a[i] = s[i]
    BY <1>1, <1>2
  <2>2. ASSUME NEW i \in 1..Len(t) PROVE Len(s) + i \in DOMAIN a /\ a[Len(s) + i] = t[i]
    <3>1. Len(s) + i \in 1..(Len(s) + Len(t)) /\ ~(Len(s) + i <= Len(s)) /\ Len(s) + i - Len(s) = i
      BY <1>2
    <3> QED
      BY <3>1, <1>1, <1>2
  <2>3. ToSet(s) \subseteq ToSet(a) /\ ToSet(t) \subseteq ToSet(a)
    BY <2>1, <2>2, <1>2 DEF ToSet
  <2>4. ASSUME NEW i \in DOMAIN a PROVE a[i] \in ToSet(s) \cup ToSet(t)
    <3>1. CASE i <= Len(s)
      BY <3>1, <1>1, <1>2 DEF ToSet
    <3>2. CASE i > Len(s)
      <4>1. i - Len(s) \in 1..Len(t) /\ a[i] = t[i - Len(s)]
        BY <3>2, <1>1, <1>2
      <4> QED
        BY <4>1, <1>2 DEF ToSet
    <3> QED
      BY <3>1, <3>2, <1>2
  <2>5. ToSet(a) = {a[i] : i \in DOMAIN a}
    BY DEF ToSet
  <2> QED
    BY <2>3, <2>4, <2>5
<1>4. ASSUME IsInjective(s), IsInjective(t), ToSet(s) \cap ToSet(t) = {} PROVE IsInjective(a)
  <2> SUFFICES ASSUME NEW i \in DOMAIN a, NEW j \in DOMAIN a, a[i] = a[j] PROVE i = j
    BY DEF IsInjective
  <2>1. \A k \in 1..Len(s), l \in 1..Len(t) : s[k] # t[l]
    BY <1>2, <1>4 DEF ToSet
  <2>2. CASE i <= Len(s) /\ j <= Len(s)
    BY <2>2, <1>1, <1>2, <1>4 DEF IsInjective
  <2>3. CASE i > Len(s) /\ j > Len(s)
    <3>1. i - Len(s) \in 1..Len(t) /\ j - Len(s) \in 1..Len(t) /\ t[i - Len(s)] = t[j - Len(s)]
      BY <2>3, <1>1, <1>2
    <3>2. i - Len(s) = j - Len(s)
      BY <3>1, <1>2, <1>4 DEF IsInjective
    <3>3. PICK k \in Nat : k = Len(s)
      BY <1>2
    <3>4. i \in Int /\ j \in Int
      BY <1>2
    <3>5. i - k = j - k
      BY <3>2, <3>3
    <3> QED
      BY <3>4, <3>5
  <2>4. CASE i <= Len(s) /\ j > Len(s)
    <3>1. i \in 1..Len(s) /\ j - Len(s) \in 1..Len(t) /\ s[i] = t[j - Len(s)]
      BY <2>4, <1>1, <1>2
    <3> QED
      BY <3>1, <2>1, Zenon
  <2>5. CASE i > Len(s) /\ j <= Len(s)
    <3>1. j \in 1..Len(s) /\ i - Len(s) \in 1..Len(t) /\ s[j] = t[i - Len(s)]
      BY <2>5, <1>1, <1>2
    <3> QED
      BY <3>1, <2>1, Zenon
  <2> QED
    BY <2>2, <2>3, <2>4, <2>5, <1>2
<1> QED
  BY <1>1, <1>3, <1>4 DEF a

\* The last element is taken out.
LEMMA LastTaken ==
  ASSUME NEW S, NEW s \in Seq(S), s # <<>>, IsInjective(s)
  PROVE  /\ Last(s) \in ToSet(s) /\ Front(s) \in Seq(S) /\ Len(Front(s)) = Len(s) - 1
         /\ ToSet(Front(s)) = ToSet(s) \ {Last(s)} /\ IsInjective(Front(s))
<1>1. Len(s) \in Nat \ {0} /\ DOMAIN s = 1..Len(s)
  BY Elements
<1>2. /\ Front(s) \in Seq(S) /\ Len(Front(s)) = Len(s) - 1
      /\ ToSet(Front(s)) = {s[i] : i \in 1..(Len(s) - 1)} /\ IsInjective(Front(s))
  <2>1. Len(s) - 1 \in Nat /\ Len(s) - 1 <= Len(s) /\ 1 \in Nat \ {0}
    BY <1>1
  <2>2. Len(SubSeq(s, 1, Len(s) - 1)) = IF 1 <= Len(s) - 1 THEN (Len(s) - 1) - 1 + 1 ELSE 0
    BY <2>1, Parts
  <2>3. /\ Front(s) \in Seq(S) /\ ToSet(Front(s)) = {s[i] : i \in 1..(Len(s) - 1)}
        /\ IsInjective(Front(s))
    BY <2>1, Parts DEF Front
  <2> QED
    BY <2>2, <2>3, <1>1 DEF Front
<1>3. \A i \in 1..(Len(s) - 1) : s[i] # s[Len(s)]
  BY <1>1 DEF IsInjective
<1>4. ToSet(s) = {s[i] : i \in 1..(Len(s) - 1)} \cup {s[Len(s)]}
  BY <1>1 DEF ToSet
<1> QED
  BY <1>1, <1>2, <1>3, <1>4 DEF Last

\* One element is taken out of its place.
LEMMA Removed ==
  ASSUME NEW S, NEW s \in Seq(S), NEW e, IsInjective(s)
  PROVE  /\ RemoveFirst(s, e) \in Seq(S) /\ IsInjective(RemoveFirst(s, e))
         /\ ToSet(RemoveFirst(s, e)) = ToSet(s) \ {e}
<1>1. Len(s) \in Nat /\ DOMAIN s = 1..Len(s)
  BY Elements
<1>2. CASE ~ \E i \in 1..Len(s) : s[i] = e
  <2>1. RemoveFirst(s, e) = s
    BY <1>2 DEF RemoveFirst
  <2>2. e \notin ToSet(s)
    BY <1>1, <1>2 DEF ToSet
  <2> QED
    BY <2>1, <2>2
<1>3. CASE \E i \in 1..Len(s) : s[i] = e
  <2>1. PICK i \in 1..Len(s) : s[i] = e
    BY <1>3
  <2>2. \A j \in 1..Len(s) : s[j] = e => j = i
    BY <2>1, <1>1 DEF IsInjective
  <2> DEFINE I == {j \in 1..Len(s) : s[j] = e}
  <2>3. I = {i}
    BY <2>1, <2>2
  <2>4. SelectInSeq(s, LAMBDA v : v = e) = i
    <3>1. SelectInSeq(s, LAMBDA v : v = e) = IF I # {} THEN Min(I) ELSE 0
      BY DEF SelectInSeq
    <3>2. Min({i}) = i
      BY DEF Min
    <3> QED
      BY <3>1, <3>2, <2>3
  <2> DEFINE a == SubSeq(s, 1, i - 1)
             b == SubSeq(s, i + 1, Len(s))
  <2>5. RemoveFirst(s, e) = a \o b
    BY <1>3, <2>4 DEF RemoveFirst, RemoveAt
  <2>6. a \in Seq(S) /\ ToSet(a) = {s[j] : j \in 1..(i - 1)} /\ IsInjective(a)
    <3>1. 1 \in Nat \ {0} /\ i - 1 \in Nat /\ i - 1 <= Len(s)
      BY <1>1
    <3> QED
      BY <3>1, Parts
  <2>7. b \in Seq(S) /\ ToSet(b) = {s[j] : j \in (i + 1)..Len(s)} /\ IsInjective(b)
    <3>1. i + 1 \in Nat \ {0} /\ Len(s) \in Nat /\ Len(s) <= Len(s)
      BY <1>1
    <3> QED
      BY <3>1, Parts
  <2> HIDE DEF a, b
  <2>8. \A j \in 1..(i - 1), k \in (i + 1)..Len(s) : s[j] # s[k]
    BY <1>1 DEF IsInjective
  <2>9. ToSet(a) \cap ToSet(b) = {}
    BY <2>6, <2>7, <2>8
  <2>10. ToSet(a) \cup ToSet(b) = ToSet(s) \ {e}
    <3>1. \A j \in 1..Len(s) : j \in 1..(i - 1) \/ j = i \/ j \in (i + 1)..Len(s)
      BY <1>1
    <3>2. \A j \in 1..(i - 1) : j \in 1..Len(s) /\ j # i
      BY <1>1
    <3>3. \A j \in (i + 1)..Len(s) : j \in 1..Len(s) /\ j # i
      BY <1>1
    <3>4. ToSet(s) = {s[j] : j \in 1..Len(s)}
      BY <1>1 DEF ToSet
    <3> QED
      BY <2>1, <2>2, <2>6, <2>7, <3>1, <3>2, <3>3, <3>4
  <2>11. a \o b \in Seq(S) /\ ToSet(a \o b) = ToSet(a) \cup ToSet(b) /\ IsInjective(a \o b)
    <3>1. a \in Seq(S) /\ b \in Seq(S) /\ IsInjective(a) /\ IsInjective(b)
      BY <2>6, <2>7
    <3>2. ToSet(a) \cap ToSet(b) = {} => IsInjective(a \o b)
      BY <3>1, Joined
    <3>3. a \o b \in Seq(S) /\ ToSet(a \o b) = ToSet(a) \cup ToSet(b)
      BY <3>1, Joined
    <3> QED
      BY <2>9, <3>2, <3>3
  <2> QED
    BY <2>5, <2>10, <2>11, Zenon
<1> QED
  BY <1>2, <1>3

-----------------------------------------------------------------------------
(* Counting *)

\* A set that gains or loses one element.
LEMMA CountChange ==
  ASSUME NEW A, NEW B, NEW t, IsFiniteSet(A), A \ {t} = B \ {t}
  PROVE  /\ IsFiniteSet(B) /\ Cardinality(A) \in Nat /\ Cardinality(B) \in Nat
         /\ (t \in A <=> t \in B) => Cardinality(B) = Cardinality(A)
         /\ t \in A /\ t \notin B => Cardinality(B) = Cardinality(A) - 1
         /\ t \notin A /\ t \in B => Cardinality(B) = Cardinality(A) + 1
<1>1. CASE t \in A <=> t \in B
  <2>1. A = B
    BY <1>1
  <2> QED
    BY <1>1, <2>1, FS_CardinalityType
<1>2. CASE t \in A /\ t \notin B
  <2>1. B = A \ {t}
    BY <1>2
  <2>2. IsFiniteSet(B) /\ Cardinality(B) = Cardinality(A) - 1
    BY <1>2, <2>1, FS_RemoveElement
  <2> QED
    BY <1>2, <2>2, FS_CardinalityType
<1>3. CASE t \notin A /\ t \in B
  <2>1. B = A \cup {t}
    BY <1>3
  <2>2. IsFiniteSet(B) /\ Cardinality(B) = Cardinality(A) + 1
    BY <1>3, <2>1, FS_AddElement
  <2> QED
    BY <1>3, <2>2, FS_CardinalityType
<1> QED
  BY <1>1, <1>2, <1>3

\* k different elements outside a set make it larger by k at least.
LEMMA CountMore ==
  ASSUME NEW A, NEW B, NEW k \in Nat, NEW f, IsFiniteSet(B), A \subseteq B,
         \A i \in 1..k : f[i] \in B \ A,
         \A i, j \in 1..k : f[i] = f[j] => i = j
  PROVE  Cardinality(A) + k <= Cardinality(B)
<1> DEFINE n == Cardinality(A)
<1>1. IsFiniteSet(A) /\ n \in Nat /\ ExistsBijection(1..n, A)
  BY FS_Subset, FS_CardinalityType
<1>2. PICK g \in Bijection(1..n, A) : TRUE
  BY <1>1 DEF ExistsBijection
<1>3. /\ g \in [1..n -> A] /\ \A i, j \in 1..n : g[i] = g[j] => i = j
  BY <1>2 DEF Bijection, Injection, IsInjective
<1> HIDE DEF n
<1> DEFINE h == [i \in 1..(n + k) |-> IF i <= n THEN g[i] ELSE f[i - n]]
<1>4. ASSUME NEW i \in 1..(n + k)
      PROVE  /\ i <= n => i \in 1..n /\ h[i] = g[i] /\ h[i] \in A
             /\ i > n => i - n \in 1..k /\ h[i] = f[i - n] /\ h[i] \in B \ A
  BY <1>1, <1>3
<1>5. h \in [1..(n + k) -> B]
  BY <1>1, <1>4
<1>6. ASSUME NEW i \in 1..(n + k), NEW j \in 1..(n + k), h[i] = h[j] PROVE i = j
  <2>1. (i <= n /\ j <= n) \/ (i > n /\ j > n)
    BY <1>1, <1>4, <1>6
  <2>2. CASE i <= n /\ j <= n
    <3>1. i \in 1..n /\ j \in 1..n /\ g[i] = g[j]
      BY <2>2, <1>4, <1>6
    <3> QED
      BY <3>1, <1>3
  <2>3. CASE i > n /\ j > n
    <3>1. i - n \in 1..k /\ j - n \in 1..k /\ f[i - n] = f[j - n]
      BY <2>3, <1>4, <1>6
    <3>2. i - n = j - n
      BY <3>1
    <3> QED
      BY <3>2, <1>1
  <2> QED
    BY <2>1, <2>2, <2>3
<1> HIDE DEF h
<1>7. h \in Injection(1..(n + k), B)
  BY <1>5, <1>6 DEF Injection, IsInjective
<1>8. Cardinality(1..(n + k)) <= Cardinality(B)
  BY <1>7, FS_Injection
<1>9. Cardinality(1..(n + k)) = n + k
  <2>1. 1 \in Int /\ n + k \in Int
    BY <1>1
  <2>2. Cardinality(1..(n + k)) = IF 1 > n + k THEN 0 ELSE (n + k) - 1 + 1
    BY <2>1, FS_Interval
  <2> QED
    BY <2>2, <1>1
<1> QED
  BY <1>8, <1>9 DEF n

\* Two sets together have no more elements than both.
LEMMA CountUnion ==
  ASSUME NEW A, NEW B, IsFiniteSet(A), IsFiniteSet(B)
  PROVE  IsFiniteSet(A \cup B) /\ Cardinality(A \cup B) <= Cardinality(A) + Cardinality(B)
<1> DEFINE a == Cardinality(A)
           b == Cardinality(B)
<1>1. a \in Nat /\ b \in Nat /\ ExistsBijection(1..a, A) /\ ExistsBijection(1..b, B)
  BY FS_CardinalityType
<1>2. PICK f \in Bijection(1..a, A) : TRUE
  BY <1>1 DEF ExistsBijection
<1>3. PICK g \in Bijection(1..b, B) : TRUE
  BY <1>1 DEF ExistsBijection
<1>4. /\ f \in [1..a -> A] /\ \A x \in A : \E i \in 1..a : f[i] = x
      /\ g \in [1..b -> B] /\ \A x \in B : \E i \in 1..b : g[i] = x
  BY <1>2, <1>3 DEF Bijection, Surjection
<1> HIDE DEF a, b
<1> DEFINE h == [i \in 1..(a + b) |-> IF i <= a THEN f[i] ELSE g[i - a]]
<1>5. ASSUME NEW i \in 1..(a + b) PROVE h[i] \in A \cup B
  <2>1. CASE i <= a
    BY <2>1, <1>1, <1>4
  <2>2. CASE i > a
    <3>1. i - a \in 1..b /\ h[i] = g[i - a]
      BY <2>2, <1>1
    <3> QED
      BY <3>1, <1>4
  <2> QED
    BY <2>1, <2>2, <1>1
<1>6. h \in [1..(a + b) -> A \cup B]
  BY <1>5
<1>7. ASSUME NEW x \in A \cup B PROVE \E i \in 1..(a + b) : h[i] = x
  <2>1. CASE x \in A
    <3>1. PICK i \in 1..a : f[i] = x
      BY <2>1, <1>4
    <3>2. i \in 1..(a + b) /\ h[i] = x
      BY <3>1, <1>1
    <3> QED
      BY <3>2
  <2>2. CASE x \in B
    <3>1. PICK i \in 1..b : g[i] = x
      BY <2>2, <1>4
    <3>2. a + i \in 1..(a + b) /\ a + i > a /\ (a + i) - a = i
      BY <1>1
    <3>3. PICK j \in 1..(a + b) : j > a /\ j - a = i
      BY <3>2
    <3>4. h[j] = g[j - a]
      BY <3>3, <1>1
    <3> QED
      BY <3>1, <3>3, <3>4
  <2> QED
    BY <2>1, <2>2
<1> HIDE DEF h
<1>8. ExistsSurjection(1..(a + b), A \cup B)
  BY <1>6, <1>7 DEF ExistsSurjection, Surjection
<1>9. a + b \in Nat
  BY <1>1
<1>10. Cardinality(A \cup B) <= a + b
  BY <1>8, <1>9, FS_SurjCardinalityBound
<1>11. IsFiniteSet(A \cup B)
  BY <1>8, <1>9, FS_NatSurjection
<1> QED
  BY <1>10, <1>11 DEF a, b

\* A sequence has no more elements than positions.
LEMMA CountElements ==
  ASSUME NEW S, NEW s \in Seq(S)
  PROVE  IsFiniteSet(ToSet(s)) /\ Cardinality(ToSet(s)) <= Len(s)
<1>1. Len(s) \in Nat /\ s \in [1..Len(s) -> ToSet(s)] /\ ToSet(s) = {s[i] : i \in 1..Len(s)}
  <2>1. Len(s) \in Nat /\ DOMAIN s = 1..Len(s) /\ s \in [1..Len(s) -> S]
    BY LenProperties
  <2>2. ToSet(s) = {s[i] : i \in 1..Len(s)}
    BY <2>1 DEF ToSet
  <2> QED
    BY <2>1, <2>2
<1>2. \A x \in ToSet(s) : \E i \in 1..Len(s) : s[i] = x
  BY <1>1
<1>3. ExistsSurjection(1..Len(s), ToSet(s))
  BY <1>1, <1>2 DEF ExistsSurjection, Surjection
<1> QED
  BY <1>1, <1>3, FS_SurjCardinalityBound, FS_NatSurjection

-----------------------------------------------------------------------------
(* What a step of one thread does to the others *)

\* Every thread but t stays where it is or is woken.
Stays(t) ==
    \A u \in Thread \ {t} :
        /\ pool'[u] = pool[u]
        /\ pc'[u] = pc[u] \/ (pc[u] \in Waiting /\ pc'[u] = "check")

HeavyUsers(p) == {r \in Heavy : pool[r] = p /\ pc[r] \notin {"idle", "slot"}}

\* Slots of connections that the threads count for.
LEMMA HoldersChange ==
  ASSUME NEW t \in Thread, Stays(t), NEW p \in Pool
  PROVE  /\ Cardinality(Holders(p)) \in Nat /\ Cardinality(Holders(p)') \in Nat
         /\ (t \in Holders(p) <=> t \in Holders(p)') => Cardinality(Holders(p)') = Cardinality(Holders(p))
         /\ t \in Holders(p) /\ t \notin Holders(p)' => Cardinality(Holders(p)') = Cardinality(Holders(p)) - 1
         /\ t \notin Holders(p) /\ t \in Holders(p)' => Cardinality(Holders(p)') = Cardinality(Holders(p)) + 1
<1>1. IsFiniteSet(Holders(p))
  BY FS_Subset, PoolAssumption DEF Holders
<1>2. Holders(p) \ {t} = Holders(p)' \ {t}
  BY DEF Holders, Stays, Waiting, Holding, Thread
<1> QED
  BY <1>1, <1>2, CountChange

\* Heavy slots that the threads count for.
LEMMA HeavyChange ==
  ASSUME NEW t \in Thread, Stays(t), NEW p \in Pool
  PROVE  /\ Cardinality(HeavyUsers(p)) \in Nat /\ Cardinality(HeavyUsers(p)') \in Nat
         /\ (t \in HeavyUsers(p) <=> t \in HeavyUsers(p)')
              => Cardinality(HeavyUsers(p)') = Cardinality(HeavyUsers(p))
         /\ t \in HeavyUsers(p) /\ t \notin HeavyUsers(p)'
              => Cardinality(HeavyUsers(p)') = Cardinality(HeavyUsers(p)) - 1
         /\ t \notin HeavyUsers(p) /\ t \in HeavyUsers(p)'
              => Cardinality(HeavyUsers(p)') = Cardinality(HeavyUsers(p)) + 1
<1>1. IsFiniteSet(HeavyUsers(p))
  <2>1. HeavyUsers(p) \subseteq Request
    BY PoolAssumption DEF HeavyUsers
  <2> QED
    BY <2>1, FS_Subset, PoolAssumption
<1>2. HeavyUsers(p) \ {t} = HeavyUsers(p)' \ {t}
  BY PoolAssumption DEF HeavyUsers, Stays, Waiting, Thread
<1> QED
  BY <1>1, <1>2, CountChange

\* Heavy slots are untouched by a thread that has as many before as after.
LEMMA HeavyKept ==
  ASSUME TypeOK, HeavyIsBounded, heavyUsed' = heavyUsed, NEW t \in Thread, Stays(t),
         \A p \in Pool : t \in HeavyUsers(p) <=> t \in HeavyUsers(p)'
  PROVE  HeavyIsBounded'
<1> SUFFICES ASSUME NEW p \in Pool
             PROVE  heavyUsed'[p] = Cardinality(HeavyUsers(p)')
  BY DEF HeavyIsBounded, HeavyUsers
<1>1. heavyUsed[p] = Cardinality(HeavyUsers(p))
  BY DEF HeavyIsBounded, HeavyUsers
<1> QED
  BY <1>1, HeavyChange

\* Likewise the slots of connections.
LEMMA SlotsKept ==
  ASSUME SlotsAreCounted, NEW t \in Thread, Stays(t),
         \A p \in Pool : /\ inUse'[p] = inUse[p] /\ idle'[p] = idle[p] /\ Taken(p)' = Taken(p)
                         /\ t \in Holders(p) <=> t \in Holders(p)'
  PROVE  SlotsAreCounted'
<1> SUFFICES ASSUME NEW p \in Pool
             PROVE  inUse'[p] = Len(idle'[p]) + Cardinality(Holders(p)') + Len(Taken(p)')
  BY DEF SlotsAreCounted
<1>1. inUse[p] = Len(idle[p]) + Cardinality(Holders(p)) + Len(Taken(p))
  BY DEF SlotsAreCounted
<1>2. Cardinality(Holders(p)') = Cardinality(Holders(p))
  BY HoldersChange
<1> QED
  BY <1>1, <1>2

\* The queue of the condition when nobody joins or leaves it.
LEMMA ListedKept ==
  ASSUME TypeOK, Listed, waiters' = waiters,
         \A u \in Thread : pc[u] \in Waiting => pool'[u] = pool[u] /\ pc'[u] \in Waiting,
         \A u \in Thread : pc'[u] = "wait" => pc[u] = "wait"
  PROVE  Listed'
<1>1. \A p \in Pool : ToSet(waiters[p]) \subseteq Thread
  BY Elements DEF TypeOK
<1> QED
  BY <1>1 DEF Listed, Waiting

\* First: the first n elements, or all of them.  Rest: the others.
First(w, n) == SubSeq(w, 1, Min2(n, Len(w)))
Rest(w, n) == SubSeq(w, n + 1, Len(w))

\* The elements of both parts of a sequence without repetition.
LEMMA Prefix ==
  ASSUME NEW S, NEW w \in Seq(S), NEW n \in Nat, IsInjective(w)
  PROVE  /\ \A i \in 1..Len(w) : i <= n => w[i] \in ToSet(First(w, n))
         /\ ToSet(First(w, n)) \subseteq ToSet(w)
         /\ n >= Len(w) => ToSet(First(w, n)) = ToSet(w)
         /\ ToSet(Rest(w, n)) = ToSet(w) \ ToSet(First(w, n))
         /\ Rest(w, n) \in Seq(S) /\ IsInjective(Rest(w, n))
<1>1. Len(w) \in Nat
  BY Elements
<1>9. DOMAIN w = 1..Len(w)
  BY Elements
<1>0. PICK m \in Nat : m = Min2(n, Len(w))
  BY <1>1 DEF Min2
<1>2. m <= Len(w) /\ m <= n /\ (m = n \/ m = Len(w)) /\ (n >= Len(w) => m = Len(w))
  BY <1>0, <1>1 DEF Min2
<1>3. ToSet(SubSeq(w, 1, m)) = {w[i] : i \in 1..m}
  <2>1. 1 \in Nat \ {0}
    OBVIOUS
  <2> QED
    BY <2>1, <1>1, <1>2, Parts
<1>4. /\ SubSeq(w, n + 1, Len(w)) \in Seq(S) /\ IsInjective(SubSeq(w, n + 1, Len(w)))
      /\ ToSet(SubSeq(w, n + 1, Len(w))) = {w[i] : i \in (n + 1)..Len(w)}
  <2>1. n + 1 \in Nat \ {0} /\ Len(w) <= Len(w)
    BY <1>1
  <2> QED
    BY <2>1, <1>1, Parts
<1>5. ToSet(w) = {w[i] : i \in 1..Len(w)}
  BY <1>9 DEF ToSet
<1>6. {w[i] : i \in (n + 1)..Len(w)} = {w[i] : i \in 1..Len(w)} \ {w[i] : i \in 1..m}
  <2>1. \A i \in 1..Len(w) : i \in 1..m \/ i \in (n + 1)..Len(w)
    BY <1>1, <1>2
  <2>2. \A i \in 1..m : i \in 1..Len(w)
    BY <1>1, <1>2
  <2>3. \A i \in (n + 1)..Len(w) : i \in 1..Len(w)
    BY <1>1
  <2>4. \A i \in (n + 1)..Len(w), j \in 1..m : w[i] # w[j]
    <3>1. \A i, j \in 1..Len(w) : w[i] = w[j] => i = j
      BY <1>9 DEF IsInjective
    <3>2. \A i \in (n + 1)..Len(w), j \in 1..m : i # j
      BY <1>1, <1>2
    <3> QED
      BY <2>2, <2>3, <3>1, <3>2
  <2> QED
    BY <2>1, <2>2, <2>3, <2>4
<1>7. {w[i] : i \in 1..m} \subseteq ToSet(w) /\ (n >= Len(w) => {w[i] : i \in 1..m} = ToSet(w))
  BY <1>1, <1>2, <1>5
<1>8. \A i \in 1..Len(w) : i <= n => i \in 1..m
  BY <1>1, <1>2
<1> QED
  BY <1>3, <1>4, <1>5, <1>6, <1>7, <1>8, <1>0 DEF First, Rest

\* The first n threads of the queue.
LEMMA NotifiedOnes ==
  ASSUME TypeOK, Listed, NEW p \in Pool, NEW n \in Nat
  PROVE  /\ Notified(p, n) \subseteq ToSet(waiters[p])
         /\ n >= Len(waiters[p]) => Notified(p, n) = ToSet(waiters[p])
         /\ ToSet(SubSeq(waiters[p], n + 1, Len(waiters[p]))) = ToSet(waiters[p]) \ Notified(p, n)
         /\ SubSeq(waiters[p], n + 1, Len(waiters[p])) \in Seq(Thread)
         /\ IsInjective(SubSeq(waiters[p], n + 1, Len(waiters[p])))
         /\ \A i \in 1..Len(waiters[p]) : i <= n => waiters[p][i] \in Notified(p, n)
<1>1. PICK w : w = waiters[p]
  OBVIOUS
<1>2. w \in Seq(Thread) /\ IsInjective(w)
  BY <1>1 DEF TypeOK, Listed
<1>3. /\ \A i \in 1..Len(w) : i <= n => w[i] \in ToSet(First(w, n))
      /\ ToSet(First(w, n)) \subseteq ToSet(w)
      /\ n >= Len(w) => ToSet(First(w, n)) = ToSet(w)
      /\ ToSet(Rest(w, n)) = ToSet(w) \ ToSet(First(w, n))
      /\ Rest(w, n) \in Seq(Thread) /\ IsInjective(Rest(w, n))
  BY <1>2, Prefix
<1>4. Notified(p, n) = ToSet(First(w, n)) /\ SubSeq(w, n + 1, Len(w)) = Rest(w, n)
  BY <1>1, Zenon DEF Notified, First, Rest
<1> QED
  BY <1>1, <1>3, <1>4, Zenon

\* The queue of the condition when threads are notified.
LEMMA ListedWoken ==
  ASSUME TypeOK, Places, Listed, NEW p \in Pool, NEW n \in Nat, Unlisted(p, n),
         \A u \in Thread : pc[u] \in Waiting => pool'[u] = pool[u] /\ pc'[u] = Woken(p, n)[u],
         \A u \in Thread : pc'[u] = "wait" => pc[u] = "wait"
  PROVE  Listed' /\ waiters' \in [Pool -> Seq(Thread)]
<1> DEFINE w == waiters[p]
           v == SubSeq(w, n + 1, Len(w))
<1>1. waiters' = [waiters EXCEPT ![p] = v] /\ waiters \in [Pool -> Seq(Thread)]
  BY DEF Unlisted, TypeOK
<1>2. /\ ToSet(v) = ToSet(w) \ Notified(p, n) /\ v \in Seq(Thread) /\ IsInjective(v)
      /\ Notified(p, n) \subseteq ToSet(w)
  BY NotifiedOnes
<1> HIDE DEF v
<1>3. \A q \in Pool : waiters'[q] = IF q = p THEN v ELSE waiters[q]
  BY <1>1
<1>4. waiters' \in [Pool -> Seq(Thread)]
  BY <1>1, <1>2
<1>5. \A q \in Pool : ToSet(waiters[q]) \subseteq Thread
  BY Elements DEF TypeOK
<1>6. \A q \in Pool : ToSet(waiters'[q]) = ToSet(waiters[q]) \ Notified(p, n)
  <2>1. ASSUME NEW q \in Pool, q # p PROVE ToSet(waiters[q]) \cap Notified(p, n) = {}
    <3>1. (\A u \in ToSet(waiters[q]) : pool[u] = q) /\ \A u \in ToSet(w) : pool[u] = p
      BY DEF Listed
    <3> QED
      BY <2>1, <3>1, <1>2
  <2> QED
    BY <2>1, <1>2, <1>3
<1>7. \A u \in Thread : Woken(p, n)[u] = IF u \in Notified(p, n) THEN "check" ELSE pc[u]
  BY DEF Woken
<1>8. ASSUME NEW u \in Thread, pc'[u] = "wait" PROVE u \in ToSet(waiters'[pool'[u]])
  <2>1. pc[u] = "wait" /\ pool'[u] = pool[u] /\ u \notin Notified(p, n) /\ u \in ToSet(waiters[pool[u]])
    BY <1>7, <1>8 DEF Listed, Waiting
  <2>2. pool[u] \in Pool
    BY <2>1 DEF Places, Thread
  <2> QED
    BY <2>1, <2>2, <1>6
<1>9. \A q \in Pool : \A u \in ToSet(waiters'[q]) : pool'[u] = q /\ pc'[u] \in Waiting /\ u \notin ReuseOnly
  BY <1>5, <1>6, <1>7 DEF Listed, Waiting
<1>10. \A q \in Pool : IsInjective(waiters'[q])
  BY <1>2, <1>3 DEF Listed
<1> QED
  BY <1>4, <1>8, <1>9, <1>10 DEF Listed

\* The queue of the condition when a thread that looked leaves it or lies down again.
LEMMA ListedMoved ==
  ASSUME TypeOK, Places, Listed, NEW t \in Thread, pc[t] = "check", pool' = pool,
         \A u \in Thread \ {t} : pc'[u] = pc[u],
         \/ Awake(t) /\ pc'[t] # "wait"
         \/ Sleep(t) /\ t \notin ReuseOnly
  PROVE  /\ Listed' /\ waiters' \in [Pool -> Seq(Thread)]
         /\ \A q \in Pool : ToSet(waiters'[q]) \ {t} = ToSet(waiters[q]) \ {t}
         /\ pc'[t] # "wait" => \A q \in Pool : t \notin ToSet(waiters'[q])
<1>1. pool[t] \in Pool
  BY DEF Places, Thread
<1>2. PICK p \in Pool : p = pool[t]
  BY <1>1
<1>3. waiters[p] \in Seq(Thread) /\ IsInjective(waiters[p]) /\ waiters \in [Pool -> Seq(Thread)]
  BY DEF TypeOK, Listed
<1>4. /\ Others(t) \in Seq(Thread) /\ IsInjective(Others(t))
      /\ ToSet(Others(t)) = ToSet(waiters[p]) \ {t}
  BY <1>2, <1>3, Removed DEF Others
<1>5. PICK w : w = IF pc'[t] # "wait" THEN Others(t) ELSE Append(Others(t), t)
  OBVIOUS
<1>6. waiters' = [waiters EXCEPT ![p] = w]
  <2>1. Sleep(t) => pc'[t] = "wait"
    BY DEF Sleep, Goto, TypeOK
  <2>2. CASE pc'[t] # "wait"
    BY <2>1, <2>2, <1>2, <1>5, Zenon DEF Awake
  <2>3. CASE pc'[t] = "wait"
    BY <2>3, <1>2, <1>5, Zenon DEF Sleep
  <2> QED
    BY <2>2, <2>3
<1>7. /\ w \in Seq(Thread) /\ IsInjective(w)
      /\ ToSet(w) = IF pc'[t] # "wait" THEN ToSet(waiters[p]) \ {t} ELSE ToSet(waiters[p]) \cup {t}
  <2>1. CASE pc'[t] # "wait"
    BY <2>1, <1>4, <1>5
  <2>2. CASE pc'[t] = "wait"
    <3>1. t \notin ToSet(Others(t))
      BY <1>4
    <3>2. PICK o : o = Others(t)
      OBVIOUS
    <3>3. /\ Append(o, t) \in Seq(Thread) /\ ToSet(Append(o, t)) = ToSet(o) \cup {t}
          /\ IsInjective(Append(o, t))
      BY <3>1, <3>2, <1>4, Appended
    <3> QED
      BY <2>2, <1>4, <1>5, <3>2, <3>3
  <2> QED
    BY <2>1, <2>2
<1>8. /\ waiters' \in [Pool -> Seq(Thread)]
      /\ \A q \in Pool : waiters'[q] = IF q = p THEN w ELSE waiters[q]
  BY <1>3, <1>6, <1>7
<1>9. \A q \in Pool : q # p => t \notin ToSet(waiters[q])
  BY <1>2 DEF Listed
<1>10. \A q \in Pool : ToSet(waiters'[q]) \ {t} = ToSet(waiters[q]) \ {t}
  <2> TAKE q \in Pool
  <2>1. CASE q = p
    <3>1. waiters'[q] = w /\ waiters[q] = waiters[p]
      BY <2>1, <1>8
    <3> QED
      BY <3>1, <1>7
  <2>2. CASE q # p
    BY <2>2, <1>8
  <2> QED
    BY <2>1, <2>2
<1>11. pc'[t] # "wait" => \A q \in Pool : t \notin ToSet(waiters'[q])
  BY <1>7, <1>8, <1>9
<1>12. pc'[t] = "wait" => t \in ToSet(waiters'[p]) /\ t \notin ReuseOnly
  BY <1>7, <1>8
<1>13. \A q \in Pool : ToSet(waiters[q]) \subseteq Thread /\ ToSet(waiters'[q]) \subseteq Thread
  BY <1>8, Elements DEF TypeOK
<1>14. \A q \in Pool : IsInjective(waiters'[q])
  BY <1>7, <1>8 DEF Listed
<1>15. ASSUME NEW q \in Pool, NEW u \in ToSet(waiters'[q])
       PROVE  pool'[u] = q /\ pc'[u] \in Waiting /\ u \notin ReuseOnly
  <2>1. CASE u # t
    BY <2>1, <1>10, <1>13, <1>15 DEF Listed
  <2>2. CASE u = t
    <3>1. pc'[t] = "wait" /\ q = p
      BY <2>2, <1>8, <1>9, <1>11
    <3> QED
      BY <2>2, <3>1, <1>2, <1>12 DEF Waiting
  <2> QED
    BY <2>1, <2>2
<1>16. ASSUME NEW u \in Thread, pc'[u] = "wait" PROVE u \in ToSet(waiters'[pool'[u]])
  <2>1. CASE u # t
    <3>1. pc[u] = "wait" /\ pool[u] \in Pool
      BY <2>1, <1>16 DEF Places, Thread
    <3>2. u \in ToSet(waiters[pool[u]])
      BY <3>1 DEF Listed
    <3> QED
      BY <2>1, <3>1, <3>2, <1>10
  <2>2. CASE u = t
    BY <2>2, <1>2, <1>12, <1>16
  <2> QED
    BY <2>1, <2>2
<1>17. Listed'
  BY <1>14, <1>15, <1>16 DEF Listed
<1> QED
  BY <1>8, <1>10, <1>11, <1>17

-----------------------------------------------------------------------------
(* Wake-ups *)

\* Requests that are to look are finitely many.
LEMMA ReadyFinite ==
  ASSUME NEW p \in Pool
  PROVE  /\ IsFiniteSet(Ready(p)) /\ Cardinality(Ready(p)) \in Nat
         /\ IsFiniteSet(Ready(p)') /\ Cardinality(Ready(p)') \in Nat
<1>1. IsFiniteSet(Ready(p)) /\ IsFiniteSet(Ready(p)')
  BY FS_Subset, PoolAssumption DEF Ready
<1> QED
  BY <1>1, FS_CardinalityType

\* Numbers of connections.
LEMMA FreeType ==
  ASSUME TypeOK, NEW p \in Pool
  PROVE  Len(idle[p]) \in Nat /\ inUse[p] \in Nat /\ inUse[p] <= MaxSize /\ MaxSize \in Nat /\ Free(p) \in Nat
<1>1. idle[p] \in Seq(Conn)
  BY DEF TypeOK
<1>2. inUse[p] \in 0..MaxSize /\ MaxSize \in Nat
  BY PoolAssumption DEF TypeOK
<1>3. Len(idle[p]) \in Nat
  BY <1>1, Elements
<1> QED
  BY <1>2, <1>3 DEF Free

\* The same after a step.
LEMMA FreeTypeNext ==
  ASSUME TypeOK', NEW p \in Pool
  PROVE  Len(idle'[p]) \in Nat /\ inUse'[p] \in Nat /\ inUse'[p] <= MaxSize /\ Free(p)' \in Nat
<1>1. idle'[p] \in Seq(Conn)
  BY DEF TypeOK
<1>2. inUse'[p] \in 0..MaxSize /\ MaxSize \in Nat
  BY PoolAssumption DEF TypeOK
<1>3. Len(idle'[p]) \in Nat
  BY <1>1, Elements
<1> QED
  BY <1>2, <1>3 DEF Free

\* Nothing becomes free and nobody who was to look goes away.
LEMMA ToldKept ==
  ASSUME NEW p \in Pool, Told(p), Free(p) \in Int, Free(p)' \in Int, Free(p)' <= Free(p),
         draining[p] => draining'[p],
         Ready(p) \subseteq Ready(p)',
         \A r \in Request : pool'[r] = p /\ pc'[r] = "wait" => pool[r] = p /\ pc[r] = "wait"
  PROVE  Told(p)'
<1> SUFFICES ASSUME NEW r \in Request, pool'[r] = p /\ pc'[r] = "wait", ~draining'[p]
             PROVE  Free(p)' <= Cardinality(Ready(p)')
  BY DEF Told
<1>1. Free(p) <= Cardinality(Ready(p))
  BY DEF Told
<1>2. Cardinality(Ready(p)) <= Cardinality(Ready(p)')
  BY ReadyFinite, FS_Subset
<1>3. Cardinality(Ready(p)) \in Nat /\ Cardinality(Ready(p)') \in Nat
  BY ReadyFinite
<1> QED
  BY <1>1, <1>2, <1>3

\* Threads of the condition of p are woken: for each thing that becomes free there,
\* one more looks, or nobody is left asleep.
LEMMA ToldWoken ==
  ASSUME TypeOK, TypeOK', Places, Listed, \A q \in Pool : Told(q),
         NEW p \in Pool, NEW n \in Nat, Unlisted(p, n),
         \A u \in Thread : pc[u] \in Waiting => pool'[u] = pool[u] /\ pc'[u] = Woken(p, n)[u],
         \A u \in Thread : pc'[u] = "wait" => pc[u] = "wait",
         \A q \in Pool \ {p} : idle'[q] = idle[q] /\ inUse'[q] = inUse[q] /\ draining'[q] = draining[q],
         \/ draining'[p]
         \/ n >= Len(waiters[p])
         \/ draining'[p] = draining[p] /\ Free(p)' <= Free(p) + n
  PROVE  \A q \in Pool : Told(q)'
<1>1. \A u \in Thread : Woken(p, n)[u] = IF u \in Notified(p, n) THEN "check" ELSE pc[u]
  BY DEF Woken
<1>2. \A r \in Request : pc'[r] = "wait" => pc[r] = "wait" /\ pool'[r] = pool[r] /\ r \notin Notified(p, n)
  BY <1>1 DEF Waiting, Thread
<1>3. /\ Notified(p, n) \subseteq ToSet(waiters[p])
      /\ n >= Len(waiters[p]) => Notified(p, n) = ToSet(waiters[p])
      /\ ToSet(SubSeq(waiters[p], n + 1, Len(waiters[p]))) = ToSet(waiters[p]) \ Notified(p, n)
      /\ \A i \in 1..Len(waiters[p]) : i <= n => waiters[p][i] \in Notified(p, n)
  BY NotifiedOnes
<1>4. /\ ToSet(waiters'[p]) = ToSet(waiters[p]) \ Notified(p, n)
      /\ \A q \in Pool \ {p} : waiters'[q] = waiters[q]
  <2>1. waiters' = [waiters EXCEPT ![p] = SubSeq(waiters[p], n + 1, Len(waiters[p]))] /\ DOMAIN waiters = Pool
    BY DEF Unlisted, TypeOK
  <2>2. waiters'[p] = SubSeq(waiters[p], n + 1, Len(waiters[p]))
    BY <2>1, Zenon
  <2>3. \A q \in Pool \ {p} : waiters'[q] = waiters[q]
    BY <2>1, Zenon
  <2> QED
    BY <2>2, <2>3, <1>3
<1>5. \A q \in Pool : Ready(q) \subseteq Ready(q)'
  BY <1>1, <1>4 DEF Ready, Waiting, Thread
<1>6. ASSUME NEW q \in Pool, q # p PROVE Told(q)'
  <2>1. Free(q)' = Free(q) /\ Free(q) \in Int /\ (draining[q] => draining'[q])
    <3>1. Free(q)' = Free(q)
      BY <1>6, Zenon DEF Free
    <3>2. Free(q) \in Int
      BY FreeType
    <3>3. draining'[q] = draining[q]
      BY <1>6
    <3> QED
      BY <3>1, <3>2, <3>3
  <2> QED
    BY <2>1, <1>2, <1>5, ToldKept
<1>7. Told(p)'
  <2> SUFFICES ASSUME NEW r \in Request, pool'[r] = p /\ pc'[r] = "wait", ~draining'[p]
               PROVE  Free(p)' <= Cardinality(Ready(p)')
    BY DEF Told
  <2>1. pc[r] = "wait" /\ pool[r] = p /\ r \notin Notified(p, n) /\ r \in ToSet(waiters[p])
    BY <1>2 DEF Listed, Thread
  <2>2. n < Len(waiters[p]) /\ Len(waiters[p]) \in Nat
    <3>1. Len(waiters[p]) \in Nat
      BY Elements DEF TypeOK
    <3> QED
      BY <2>1, <1>3, <3>1
  <2>3. ~draining[p] /\ Free(p)' <= Free(p) + n /\ Free(p) <= Cardinality(Ready(p))
    BY <2>1, <2>2 DEF Told
  <2>4. PICK f : f = waiters[p]
    OBVIOUS
  <2>5. ASSUME NEW i \in 1..n PROVE i \in 1..Len(f) /\ f[i] \in Ready(p)' \ Ready(p)
    <3>1. i \in 1..Len(f) /\ f[i] \in Notified(p, n)
      BY <2>2, <2>4, <1>3
    <3>2. f[i] \in ToSet(waiters[p]) /\ f[i] \in Thread
      BY <3>1, <1>3, Elements DEF TypeOK
    <3>3. pool[f[i]] = p /\ pc[f[i]] \in Waiting /\ f[i] \notin ReuseOnly
      BY <3>2 DEF Listed
    <3>4. f[i] # Recycler
      BY <3>3, <2>3 DEF Places, Waiting
    <3>5. pc'[f[i]] = "check" /\ pool'[f[i]] = p /\ f[i] \notin ToSet(waiters'[p])
      BY <3>1, <3>2, <3>3, <1>1, <1>4
    <3> QED
      BY <3>1, <3>2, <3>3, <3>4, <3>5 DEF Ready, Thread
  <2>6. \A i, j \in 1..n : f[i] = f[j] => i = j
    <3>1. IsInjective(f) /\ DOMAIN f = 1..Len(f)
      BY <2>4, Elements DEF Listed, TypeOK
    <3> QED
      BY <3>1, <2>5 DEF IsInjective
  <2>7. Cardinality(Ready(p)) + n <= Cardinality(Ready(p)')
    BY <2>5, <2>6, <1>5, ReadyFinite, CountMore
  <2>8. Cardinality(Ready(p)) \in Nat /\ Cardinality(Ready(p)') \in Nat /\ Free(p) \in Nat /\ Free(p)' \in Nat
    <3>1. Free(p)' \in Nat
      BY FreeTypeNext
    <3> QED
      BY <3>1, FreeType, ReadyFinite
  <2> QED
    BY <2>3, <2>7, <2>8
<1> QED
  BY <1>6, <1>7

\* One thread looks: it takes one of what is free, or nothing is.
LEMMA ToldMoved ==
  ASSUME TypeOK, TypeOK', Places, \A q \in Pool : Told(q),
         NEW t \in Thread, pc[t] = "check", pool' = pool, draining' = draining,
         \A u \in Thread \ {t} : pc'[u] = pc[u],
         \A q \in Pool : ToSet(waiters'[q]) \ {t} = ToSet(waiters[q]) \ {t},
         \A q \in Pool \ {pool[t]} : idle'[q] = idle[q] /\ inUse'[q] = inUse[q],
         \/ draining[pool[t]]
         \/ Free(pool[t])' = 0
         \/ pc'[t] # "wait" /\ Free(pool[t])' = Free(pool[t]) - 1
         \/ pc'[t] # "wait" /\ Free(pool[t])' = Free(pool[t]) /\ t \notin Request \ ReuseOnly
  PROVE  \A q \in Pool : Told(q)'
<1>0. PICK p \in Pool : p = pool[t]
  BY DEF Places, Thread
<1>1. \A q \in Pool : Ready(q) \ {t} \subseteq Ready(q)'
  BY DEF Ready, Thread
<1>2. ASSUME NEW q \in Pool, q # p PROVE Told(q)'
  <2>1. Free(q)' = Free(q) /\ Free(q) \in Int
    BY <1>0, <1>2, FreeType DEF Free
  <2>2. Ready(q) \subseteq Ready(q)'
    BY <1>0, <1>1, <1>2 DEF Ready
  <2>3. \A r \in Request : pool'[r] = q /\ pc'[r] = "wait" => pool[r] = q /\ pc[r] = "wait"
    BY <1>0, <1>2 DEF Thread
  <2> QED
    BY <2>1, <2>2, <2>3, ToldKept
<1>3. Told(p)'
  <2> SUFFICES ASSUME NEW r \in Request, pool'[r] = p /\ pc'[r] = "wait", ~draining'[p]
               PROVE  Free(p)' <= Cardinality(Ready(p)')
    BY DEF Told
  <2>1. Cardinality(Ready(p)) \in Nat /\ Cardinality(Ready(p)') \in Nat /\ Free(p) \in Nat /\ Free(p)' \in Nat
    <3>1. Free(p)' \in Nat
      BY FreeTypeNext
    <3> QED
      BY <3>1, FreeType, ReadyFinite
  <2>2. CASE Free(p)' = 0
    BY <2>1, <2>2
  <2>3. ASSUME pc'[t] # "wait" PROVE Free(p) <= Cardinality(Ready(p))
    BY <2>3, <1>0 DEF Told, Thread
  <2>4. CASE pc'[t] # "wait" /\ Free(p)' = Free(p) - 1
    <3>1. IsFiniteSet(Ready(p) \ {t}) /\ Cardinality(Ready(p) \ {t}) >= Cardinality(Ready(p)) - 1
          /\ Cardinality(Ready(p) \ {t}) \in Nat
      <4>1. IsFiniteSet(Ready(p))
        BY ReadyFinite
      <4>2. /\ IsFiniteSet(Ready(p) \ {t})
            /\ Cardinality(Ready(p) \ {t})
                 = IF t \in Ready(p) THEN Cardinality(Ready(p)) - 1 ELSE Cardinality(Ready(p))
        BY <4>1, FS_RemoveElement
      <4>3. Cardinality(Ready(p) \ {t}) \in Nat
        BY <4>2, FS_CardinalityType
      <4> QED
        BY <2>1, <4>2, <4>3
    <3>2. Cardinality(Ready(p) \ {t}) <= Cardinality(Ready(p)')
      BY <1>1, ReadyFinite, FS_Subset
    <3> QED
      BY <2>1, <2>3, <2>4, <3>1, <3>2
  <2>5. CASE pc'[t] # "wait" /\ Free(p)' = Free(p) /\ t \notin Request \ ReuseOnly
    <3>1. Ready(p) \subseteq Ready(p)'
      BY <1>1, <2>5 DEF Ready
    <3>2. Cardinality(Ready(p)) <= Cardinality(Ready(p)')
      BY <3>1, ReadyFinite, FS_Subset
    <3> QED
      BY <2>1, <2>3, <2>5, <3>2
  <2>6. Free(pool[t])' = Free(p)'
    BY <1>0 DEF Free
  <2> QED
    BY <1>0, <2>2, <2>4, <2>5, <2>6
<1> QED
  BY <1>2, <1>3

-----------------------------------------------------------------------------
(* Steps that leave the connections alone *)

\* What is taken from a pool to be rebound.
LEMMA TakenType ==
  ASSUME TypeOK, NEW p \in Pool
  PROVE  Taken(p) \in Seq(Conn) /\ Len(Taken(p)) \in Nat
<1>1. keeper.took \in Seq(Conn) /\ <<>> \in Seq(Conn)
  BY EmptySeq DEF TypeOK
<1>2. Taken(p) \in Seq(Conn)
  BY <1>1 DEF Taken
<1> QED
  BY <1>2, Elements

\* A thread that is not of the condition's queue moves on.
LEMMA ThreadMoves ==
  ASSUME Inv, TypeOK', NEW t \in Thread, pc[t] \notin Waiting, pc'[t] # "wait",
         \A u \in Thread \ {t} : pc'[u] = pc[u] /\ pool'[u] = pool[u],
         UNCHANGED <<idle, inUse, draining, waiters, keeper>>,
         \A p \in Pool : t \in Holders(p) <=> t \in Holders(p)'
  PROVE  Stays(t) /\ Listed' /\ (\A q \in Pool : Told(q)') /\ SlotsAreCounted'
<1> USE DEF Inv
<1>1. Stays(t)
  BY DEF Stays
<1>2. Listed'
  BY ListedKept
<1>3. ASSUME NEW q \in Pool PROVE Told(q)'
  <2>1. Free(q)' = Free(q) /\ Free(q) \in Int
    BY FreeType DEF Free
  <2>2. Ready(q) \subseteq Ready(q)'
    BY DEF Ready, Waiting, Thread
  <2>3. \A r \in Request : pool'[r] = q /\ pc'[r] = "wait" => pool[r] = q /\ pc[r] = "wait"
    BY DEF Thread
  <2> QED
    BY <2>1, <2>2, <2>3, ToldKept
<1>4. SlotsAreCounted'
  <2>1. \A p \in Pool : Taken(p)' = Taken(p) /\ Len(Taken(p)) \in Nat /\ Len(idle[p]) \in Nat
    BY TakenType, FreeType DEF Taken
  <2> QED
    BY <1>1, <2>1, SlotsKept
<1> QED
  BY <1>1, <1>2, <1>3, <1>4

\* Who is woken was asleep or has woken already.
LEMMA WokenFacts ==
  ASSUME TypeOK, Listed, NEW p \in Pool, NEW n \in Nat
  PROVE  /\ Woken(p, n) \in [Thread -> RequestStep]
         /\ \A u \in Thread : \/ Woken(p, n)[u] = pc[u]
                              \/ pc[u] \in Waiting /\ Woken(p, n)[u] = "check"
<1>1. \A u \in Thread : Woken(p, n)[u] = IF u \in Notified(p, n) THEN "check" ELSE pc[u]
  BY DEF Woken
<1>2. \A u \in Notified(p, n) : pc[u] \in Waiting
  BY NotifiedOnes DEF Listed
<1>3. \A u \in Thread : pc[u] \in RequestStep
  BY DEF TypeOK
<1>4. "check" \in RequestStep
  BY DEF RequestStep
<1>5. \A u \in Thread : Woken(p, n)[u] \in RequestStep
  BY <1>1, <1>3, <1>4
<1>6. Woken(p, n) = [u \in Thread |-> Woken(p, n)[u]]
  BY DEF Woken
<1>7. Woken(p, n) \in [Thread -> RequestStep]
  BY <1>5, <1>6
<1> QED
  BY <1>1, <1>2, <1>7

\* A thread that is not of the condition's queue moves on and wakes others.
LEMMA ThreadNotifies ==
  ASSUME TypeOK, Places, Listed, NEW t \in Thread, pc[t] \notin Waiting,
         NEW s \in RequestStep \ {"wait"}, NEW p \in Pool, NEW n \in Nat, Notify(p, n, t, s),
         \A u \in Thread \ {t} : pool'[u] = pool[u]
  PROVE  /\ Stays(t) /\ Listed' /\ waiters' \in [Pool -> Seq(Thread)]
         /\ pc' \in [Thread -> RequestStep] /\ pc'[t] = s /\ Unlisted(p, n)
         /\ \A u \in Thread : pc[u] \in Waiting => pool'[u] = pool[u] /\ pc'[u] = Woken(p, n)[u]
         /\ \A u \in Thread : pc'[u] = "wait" => pc[u] = "wait"
<1>1. pc' = [Woken(p, n) EXCEPT ![t] = s] /\ Unlisted(p, n)
  BY DEF Notify
<1>2. /\ Woken(p, n) \in [Thread -> RequestStep]
      /\ \A u \in Thread : \/ Woken(p, n)[u] = pc[u]
                           \/ pc[u] \in Waiting /\ Woken(p, n)[u] = "check"
  BY WokenFacts
<1>3. /\ pc' \in [Thread -> RequestStep] /\ pc'[t] = s
      /\ \A u \in Thread \ {t} : pc'[u] = Woken(p, n)[u]
  BY <1>1, <1>2
<1>4. Stays(t)
  BY <1>2, <1>3 DEF Stays
<1>5. \A u \in Thread : pc[u] \in Waiting => pool'[u] = pool[u] /\ pc'[u] = Woken(p, n)[u]
  BY <1>3
<1>6. \A u \in Thread : pc'[u] = "wait" => pc[u] = "wait"
  BY <1>2, <1>3
<1>7. Listed' /\ waiters' \in [Pool -> Seq(Thread)]
  BY <1>1, <1>5, <1>6, ListedWoken
<1> QED
  BY <1>1, <1>3, <1>4, <1>5, <1>6, <1>7

\* Connections whose users keep them.
LEMMA ConnsKept ==
  ASSUME Conns, UNCHANGED <<idle, con, open>>, \A p \in Pool : Taken(p)' = Taken(p),
         \A r \in Request : pc[r] \in Carrying => pool'[r] = pool[r],
         \A r \in Request : pc[r] \in Carrying <=> pc'[r] \in Carrying
  PROVE  Conns'
<1>1. \A p \in Pool : Queued(p)' = Queued(p)
  BY DEF Queued
<1>2. \A r \in Request : con[r] # NoConn => pool'[r] = pool[r]
  BY DEF Conns
<1>3. (\A r \in Request : con[r] # NoConn => con[r] \in ConnOf(pool[r]))'
  BY <1>2 DEF Conns, ConnOf
<1>4. (\A p \in Pool : IsInjective(idle[p]) /\ IsInjective(Taken(p)) /\ ToSet(idle[p]) \cap ToSet(Taken(p)) = {})'
  BY DEF Conns
<1>5. (\A p \in Pool : Queued(p) \subseteq ConnOf(p))'
  BY <1>1 DEF Conns, ConnOf
<1>6. (\A c \in Conn : c \in open <=> (\E p \in Pool : c \in Queued(p)) \/ (\E r \in Request : con[r] = c))'
  BY <1>1 DEF Conns
<1>7. (\A r \in Request : con[r] # NoConn <=> pc[r] \in Carrying)'
  BY DEF Conns
<1>8. (\A r \in Request : con[r] # NoConn => \A p \in Pool : con[r] \notin Queued(p))'
  BY <1>1 DEF Conns
<1>9. (\A r, s \in Request : con[r] # NoConn /\ con[r] = con[s] => r = s)'
  BY DEF Conns
<1> QED
  BY <1>3, <1>4, <1>5, <1>6, <1>7, <1>8, <1>9 DEF Conns

\* There is a connection to build for everyone who has a slot for it.
LEMMA FreshConn ==
  ASSUME Inv, NEW r \in Request, pc[r] = "build"
  PROVE  \E c \in ConnOf(pool[r]) : c \notin open
<1> USE DEF Inv
<1>1. PICK p \in Pool : p = pool[r]
  BY DEF Places
<1> DEFINE H == Holders(p) \ {r}
           C == {con[s] : s \in H}
           U == Queued(p) \cup C
<1>2. IsFiniteSet(H) /\ Cardinality(H) = Cardinality(Holders(p)) - 1 /\ Cardinality(H) \in Nat
  <2>1. IsFiniteSet(Holders(p)) /\ r \in Holders(p)
    BY <1>1, FS_Subset, PoolAssumption DEF Holders, Holding
  <2> QED
    BY <2>1, FS_RemoveElement, FS_CardinalityType
<1>3. IsFiniteSet(C) /\ Cardinality(C) <= Cardinality(H)
  <2>1. [s \in H |-> con[s]] \in Surjection(H, C)
    BY DEF Surjection
  <2> QED
    BY <2>1, <1>2, FS_Surjection
<1>4. /\ IsFiniteSet(ToSet(idle[p])) /\ Cardinality(ToSet(idle[p])) <= Len(idle[p])
      /\ IsFiniteSet(ToSet(Taken(p))) /\ Cardinality(ToSet(Taken(p))) <= Len(Taken(p))
  <2>1. idle[p] \in Seq(Conn) /\ Taken(p) \in Seq(Conn)
    BY TakenType DEF TypeOK
  <2> QED
    BY <2>1, CountElements
<1>5. IsFiniteSet(Queued(p)) /\ Cardinality(Queued(p)) <= Cardinality(ToSet(idle[p])) + Cardinality(ToSet(Taken(p)))
  BY <1>4, CountUnion DEF Queued
<1>6. IsFiniteSet(U) /\ Cardinality(U) <= Cardinality(Queued(p)) + Cardinality(C)
  BY <1>3, <1>5, CountUnion
<1> HIDE DEF H, C, U
<1>7. Cardinality(U) < MaxSize
  <2>1. inUse[p] = Len(idle[p]) + Cardinality(Holders(p)) + Len(Taken(p))
    BY DEF SlotsAreCounted
  <2>2. Len(idle[p]) \in Nat /\ Len(Taken(p)) \in Nat /\ inUse[p] \in Nat /\ inUse[p] <= MaxSize /\ MaxSize \in Nat
    BY FreeType, TakenType
  <2>3. /\ Cardinality(U) \in Nat /\ Cardinality(C) \in Nat /\ Cardinality(Queued(p)) \in Nat
        /\ Cardinality(ToSet(idle[p])) \in Nat /\ Cardinality(ToSet(Taken(p))) \in Nat
    BY <1>3, <1>4, <1>5, <1>6, FS_CardinalityType
  <2>4. Cardinality(Holders(p)) \in Nat
    BY FS_Subset, FS_CardinalityType, PoolAssumption DEF Holders
  <2>5. PICK u, c, k, i, j, h \in Nat :
          /\ u = Cardinality(U) /\ c = Cardinality(C) /\ k = Cardinality(Queued(p))
          /\ i = Cardinality(ToSet(idle[p])) /\ j = Cardinality(ToSet(Taken(p))) /\ h = Cardinality(Holders(p))
    BY <2>3, <2>4
  <2>6. u <= k + c /\ k <= i + j /\ c <= h - 1 /\ i <= Len(idle[p]) /\ j <= Len(Taken(p))
    BY <2>5, <1>2, <1>3, <1>4, <1>5, <1>6
  <2>7. Len(idle[p]) + h + Len(Taken(p)) <= MaxSize
    BY <2>1, <2>2, <2>5
  <2>8. u < MaxSize
    BY <2>2, <2>6, <2>7
  <2> QED
    BY <2>5, <2>8
<1> SUFFICES ASSUME \A c \in ConnOf(p) : c \in open PROVE FALSE
  BY <1>1
<1>8. ASSUME NEW i \in 1..MaxSize PROVE <<p, i>> \in U
  <2>1. <<p, i>> \in ConnOf(p) /\ <<p, i>> \in Conn
    BY DEF ConnOf, Conn
  <2>2. <<p, i>> \in open
    BY <2>1
  <2>3. CASE \E q \in Pool : <<p, i>> \in Queued(q)
    <3>1. PICK q \in Pool : <<p, i>> \in Queued(q)
      BY <2>3
    <3>2. q = p
      BY <3>1 DEF Conns, ConnOf
    <3> QED
      BY <3>1, <3>2 DEF U
  <2>4. CASE \E s \in Request : con[s] = <<p, i>>
    <3>1. PICK s \in Request : con[s] = <<p, i>>
      BY <2>4
    <3>2. con[s] # NoConn
      BY <3>1 DEF NoConn, NoPool, Pool
    <3>3. pc[s] \in Carrying /\ con[s] \in ConnOf(pool[s])
      BY <3>2 DEF Conns
    <3>4. pool[s] = p
      BY <3>1, <3>3 DEF ConnOf
    <3>5. s \in H
      BY <3>3, <3>4 DEF H, Holders, Carrying, Holding
    <3> QED
      BY <3>1, <3>5 DEF U, C
  <2> QED
    BY <2>1, <2>2, <2>3, <2>4 DEF Conns
<1>9. [i \in 1..MaxSize |-> <<p, i>>] \in Injection(1..MaxSize, U)
  BY <1>8 DEF Injection, IsInjective
<1>10. Cardinality(1..MaxSize) <= Cardinality(U)
  BY <1>6, <1>9, FS_Injection
<1>11. Cardinality(1..MaxSize) = MaxSize
  <2>1. 1 \in Int /\ MaxSize \in Int /\ MaxSize >= 1
    BY PoolAssumption
  <2>2. Cardinality(1..MaxSize) = IF 1 > MaxSize THEN 0 ELSE MaxSize - 1 + 1
    BY <2>1, FS_Interval
  <2> QED
    BY <2>1, <2>2
<1>12. Cardinality(U) \in Nat /\ MaxSize \in Nat
  BY <1>6, FS_CardinalityType, PoolAssumption
<1> QED
  BY <1>7, <1>10, <1>11, <1>12

-----------------------------------------------------------------------------
(* The actions *)

\* A request begins.
LEMMA GetPoolStep ==
  ASSUME Inv, NEW r \in Request, GetPool(r) PROVE Inv'
<1> USE DEF Inv
<1>1. pc[r] = "idle" /\ current' \in Pool /\ created' \in 0..MaxPools
  <2>1. current \in Pool \cup {NoPool} /\ created \in 0..MaxPools /\ MaxPools \in Nat
    BY PoolAssumption DEF TypeOK
  <2>2. CASE current # NoPool
    BY <2>1, <2>2 DEF GetPool
  <2>3. CASE current = NoPool
    <3>1. created < MaxPools /\ created' = created + 1 /\ current' = created' /\ pc[r] = "idle"
      BY <2>3 DEF GetPool
    <3> QED
      BY <2>1, <3>1 DEF Pool
  <2> QED
    BY <2>2, <2>3
<1>2. /\ pool' = [pool EXCEPT ![r] = current']
      /\ pc' = [pc EXCEPT ![r] = IF r \in Heavy THEN "slot" ELSE "check"]
      /\ UNCHANGED <<idle, inUse, draining, waiters, heavyUsed, open, late, con, keeper>>
  BY DEF GetPool, Goto, poolVars
<1>3. TypeOK'
  BY <1>1, <1>2 DEF TypeOK, RequestStep
<1>4. /\ \A u \in Thread \ {r} : pc'[u] = pc[u] /\ pool'[u] = pool[u]
      /\ pc'[r] = (IF r \in Heavy THEN "slot" ELSE "check") /\ pool'[r] = current' /\ r \in Thread
  BY <1>2 DEF TypeOK, Thread
<1>5. \A p \in Pool : r \in Holders(p) <=> r \in Holders(p)'
  BY <1>1, <1>4 DEF Holders, Holding
<1>6. Stays(r) /\ Listed' /\ (\A q \in Pool : Told(q)') /\ SlotsAreCounted'
  BY <1>1, <1>2, <1>3, <1>4, <1>5, ThreadMoves DEF Waiting
<1>7. Places'
  BY <1>1, <1>2, <1>4, PoolAssumption DEF Places, Thread
<1>8. Conns'
  <2>1. \A s \in Request : pc[s] \in Carrying <=> pc'[s] \in Carrying
    BY <1>1, <1>4 DEF Carrying, Thread
  <2>2. \A s \in Request : pc[s] \in Carrying => pool'[s] = pool[s]
    BY <1>1, <1>4 DEF Carrying, Thread
  <2> QED
    BY <1>2, <2>1, <2>2, ConnsKept DEF Taken
<1>9. HeavyIsBounded'
  <2>1. \A p \in Pool : r \in HeavyUsers(p) <=> r \in HeavyUsers(p)'
    BY <1>1, <1>4 DEF HeavyUsers
  <2> QED
    BY <1>2, <1>4, <1>6, <2>1, HeavyKept
<1> QED
  BY <1>3, <1>6, <1>7, <1>8, <1>9

\* A deadline passes.
LEMMA DeadlineStep ==
  ASSUME Inv, NEW t \in Thread, Deadline(t) PROVE Inv'
<1> USE DEF Inv
<1>1. /\ pc[t] \in {"slot", "check", "wait"} /\ late' = [late EXCEPT ![t] = TRUE]
      /\ pc' = (IF pc[t] = "wait" THEN [pc EXCEPT ![t] = "check"] ELSE pc)
      /\ UNCHANGED <<current, created, idle, inUse, draining, waiters, heavyUsed, open, pool, con, keeper>>
  BY DEF Deadline, poolVars
<1>2. TypeOK'
  BY <1>1 DEF TypeOK, RequestStep
<1>3. \A u \in Thread : pc'[u] = IF u = t /\ pc[t] = "wait" THEN "check" ELSE pc[u]
  BY <1>1 DEF TypeOK
<1>4. Places'
  BY <1>1, <1>3, PoolAssumption DEF Places, Thread, Waiting
<1>5. Listed'
  BY <1>1, <1>3, ListedKept DEF Waiting
<1>6. ASSUME NEW q \in Pool PROVE Told(q)'
  <2>1. Free(q)' = Free(q) /\ Free(q) \in Int
    BY <1>1, FreeType DEF Free
  <2>2. Ready(q) \subseteq Ready(q)'
    BY <1>1, <1>3 DEF Ready, Thread
  <2>3. \A r \in Request : pool'[r] = q /\ pc'[r] = "wait" => pool[r] = q /\ pc[r] = "wait"
    BY <1>1, <1>3 DEF Thread
  <2> QED
    BY <1>1, <2>1, <2>2, <2>3, ToldKept
<1>7. Stays(t)
  BY <1>1, <1>3 DEF Stays
<1>8. SlotsAreCounted'
  <2>1. \A p \in Pool : Taken(p)' = Taken(p) /\ Len(Taken(p)) \in Nat /\ Len(idle[p]) \in Nat
    BY <1>1, TakenType, FreeType DEF Taken
  <2>2. \A p \in Pool : t \in Holders(p) <=> t \in Holders(p)'
    BY <1>1, <1>3 DEF Holders, Holding
  <2> QED
    BY <1>1, <1>7, <2>1, <2>2, SlotsKept
<1>9. HeavyIsBounded'
  <2>1. \A p \in Pool : t \in HeavyUsers(p) <=> t \in HeavyUsers(p)'
    BY <1>1, <1>3 DEF HeavyUsers
  <2> QED
    BY <1>1, <1>7, <2>1, HeavyKept
<1>10. Conns'
  <2>1. \A s \in Request : pc[s] \in Carrying <=> pc'[s] \in Carrying
    BY <1>1, <1>3 DEF Carrying, Thread
  <2> QED
    BY <1>1, <2>1, ConnsKept DEF Taken
<1> QED
  BY <1>2, <1>4, <1>5, <1>6, <1>8, <1>9, <1>10

\* A heavy request gets its slot, or does not.
LEMMA AcquireHeavySlotStep ==
  ASSUME Inv, NEW r \in Request, AcquireHeavySlot(r) PROVE Inv'
<1> USE DEF Inv
<1>1. /\ pc[r] = "slot" /\ pool[r] \in Pool
      /\ UNCHANGED <<current, created, idle, inUse, draining, waiters, open, con, keeper>>
  BY DEF AcquireHeavySlot, Places, poolVars
<1>2. PICK p \in Pool : p = pool[r]
  BY <1>1
<1>3. heavyUsed[p] \in 0..HeavyCap /\ HeavyCap \in Nat
  BY PoolAssumption DEF TypeOK
<1>4. /\ TypeOK' /\ \A u \in Thread \ {r} : pc'[u] = pc[u] /\ pool'[u] = pool[u]
      /\ \/ /\ pc'[r] = "check" /\ pool'[r] = p
            /\ heavyUsed' = [heavyUsed EXCEPT ![p] = @ + 1]
         \/ pc'[r] = "idle" /\ heavyUsed' = heavyUsed
  <2>1. CASE /\ heavyUsed[p] < HeavyCap /\ heavyUsed' = [heavyUsed EXCEPT ![p] = @ + 1]
             /\ Goto(r, "check") /\ UNCHANGED <<pool, late>>
    <3>1. heavyUsed[p] + 1 \in 0..HeavyCap
      BY <1>3, <2>1
    <3>2. heavyUsed' \in [Pool -> 0..HeavyCap]
      BY <2>1, <3>1 DEF TypeOK
    <3>3. pc' \in [Thread -> RequestStep]
      BY <2>1 DEF TypeOK, Goto, RequestStep
    <3> QED
      BY <1>1, <1>2, <2>1, <3>2, <3>3 DEF TypeOK, Goto, Thread
  <2>2. CASE Left(r) /\ UNCHANGED heavyUsed
    BY <1>1, <2>2 DEF TypeOK, Left, Goto, Thread, RequestStep
  <2> QED
    BY <1>2, <2>1, <2>2 DEF AcquireHeavySlot
<1>5. r \in Thread /\ pc[r] \notin Waiting /\ pc'[r] # "wait"
  BY <1>1, <1>4 DEF Thread, Waiting
<1>6. \A q \in Pool : r \in Holders(q) <=> r \in Holders(q)'
  BY <1>1, <1>4 DEF Holders, Holding
<1>7. Stays(r) /\ Listed' /\ (\A q \in Pool : Told(q)') /\ SlotsAreCounted'
  BY <1>1, <1>4, <1>5, <1>6, ThreadMoves
<1>8. Places'
  BY <1>1, <1>4, PoolAssumption DEF Places, Thread
<1>9. Conns'
  <2>1. \A s \in Request : pc[s] \in Carrying <=> pc'[s] \in Carrying
    BY <1>1, <1>4 DEF Carrying, Thread
  <2>2. \A s \in Request : pc[s] \in Carrying => pool'[s] = pool[s]
    BY <1>1, <1>4 DEF Carrying, Thread
  <2> QED
    BY <1>1, <2>1, <2>2, ConnsKept DEF Taken
<1>10. HeavyIsBounded'
  <2> SUFFICES ASSUME NEW q \in Pool PROVE heavyUsed'[q] = Cardinality(HeavyUsers(q)')
    BY DEF HeavyIsBounded, HeavyUsers
  <2>1. heavyUsed[q] = Cardinality(HeavyUsers(q))
    BY DEF HeavyIsBounded, HeavyUsers
  <2>2. r \notin HeavyUsers(q)
    BY <1>1 DEF HeavyUsers
  <2>3. r \in HeavyUsers(q)' <=> q = p /\ pc'[r] = "check"
    <3>1. r \in Heavy
      BY <1>1, <1>4 DEF Places
    <3> QED
      BY <3>1, <1>4 DEF HeavyUsers
  <2>4. heavyUsed'[q] = IF q = p /\ pc'[r] = "check" THEN heavyUsed[q] + 1 ELSE heavyUsed[q]
    <3>1. heavyUsed \in [Pool -> 0..HeavyCap]
      BY DEF TypeOK
    <3> QED
      BY <3>1, <1>4
  <2>5. Cardinality(HeavyUsers(q)') = IF q = p /\ pc'[r] = "check" THEN Cardinality(HeavyUsers(q)) + 1
                                      ELSE Cardinality(HeavyUsers(q))
    <3>1. CASE q = p /\ pc'[r] = "check"
      BY <3>1, <2>2, <2>3, <1>5, <1>7, HeavyChange
    <3>2. CASE ~(q = p /\ pc'[r] = "check")
      BY <3>2, <2>2, <2>3, <1>5, <1>7, HeavyChange
    <3> QED
      BY <3>1, <3>2
  <2> QED
    BY <2>1, <2>4, <2>5
<1> QED
  BY <1>4, <1>7, <1>8, <1>9, <1>10

\* A request goes on with the connection it has.
LEMMA RequestAdvances ==
  ASSUME Inv, NEW r \in Request, NEW s \in Carrying, pc[r] \in Carrying, Goto(r, s),
         UNCHANGED <<current, created, poolVars, heavyUsed, open, late, pool, con, keeper>>
  PROVE  Inv'
<1> USE DEF Inv
<1>1. /\ UNCHANGED <<current, created, idle, inUse, draining, waiters, heavyUsed, open, late, pool, con, keeper>>
      /\ pc' = [pc EXCEPT ![r] = s]
  BY DEF poolVars, Goto
<1>2. TypeOK'
  BY <1>1 DEF TypeOK, RequestStep, Carrying
<1>3. /\ r \in Thread /\ pc'[r] = s /\ \A u \in Thread \ {r} : pc'[u] = pc[u] /\ pool'[u] = pool[u]
  BY <1>1 DEF TypeOK, Thread
<1>4. Stays(r) /\ Listed' /\ (\A q \in Pool : Told(q)') /\ SlotsAreCounted'
  <2>1. pc[r] \notin Waiting /\ pc'[r] # "wait"
    BY <1>3 DEF Carrying, Waiting
  <2>2. \A p \in Pool : r \in Holders(p) <=> r \in Holders(p)'
    BY <1>1, <1>3 DEF Holders, Holding, Carrying
  <2> QED
    BY <1>1, <1>2, <1>3, <2>1, <2>2, ThreadMoves
<1>5. Places'
  BY <1>1, <1>3, PoolAssumption DEF Places, Thread, Carrying
<1>6. Conns'
  <2>1. \A u \in Request : pc[u] \in Carrying <=> pc'[u] \in Carrying
    BY <1>3 DEF Thread
  <2> QED
    BY <1>1, <2>1, ConnsKept DEF Taken
<1>7. HeavyIsBounded'
  <2>1. \A p \in Pool : r \in HeavyUsers(p) <=> r \in HeavyUsers(p)'
    BY <1>1, <1>3 DEF HeavyUsers, Carrying
  <2> QED
    BY <1>1, <1>3, <1>4, <2>1, HeavyKept
<1> QED
  BY <1>2, <1>4, <1>5, <1>6, <1>7

\* A reused connection is attached, or is to be discarded.
LEMMA AttachStep ==
  ASSUME Inv, NEW r \in Request, Attach(r) PROVE Inv'
  BY RequestAdvances DEF Attach, Carrying

\* A request ends.
LEMMA EndUseStep ==
  ASSUME Inv, NEW r \in Request, EndUse(r) PROVE Inv'
<1>1. PICK s \in Carrying : Goto(r, s)
  BY DEF EndUse, Carrying
<1> QED
  BY <1>1, RequestAdvances DEF EndUse, Carrying

\* A checkout is over.
LEMMA LeaveStep ==
  ASSUME Inv, NEW r \in Request, Leave(r) PROVE Inv'
<1> USE DEF Inv
<1>1. /\ pc[r] = "leave" /\ pool[r] \in Pool
      /\ heavyUsed' = (IF r \in Heavy THEN [heavyUsed EXCEPT ![pool[r]] = @ - 1] ELSE heavyUsed)
      /\ pool' = [pool EXCEPT ![r] = NoPool] /\ late' = [late EXCEPT ![r] = FALSE]
      /\ pc' = [pc EXCEPT ![r] = "idle"]
      /\ UNCHANGED <<current, created, idle, inUse, draining, waiters, open, con, keeper>>
  BY DEF Leave, Left, Goto, Places, poolVars
<1>2. PICK p \in Pool : p = pool[r]
  BY <1>1
<1>3. /\ r \in Thread /\ pc'[r] = "idle" /\ pool'[r] = NoPool
      /\ \A u \in Thread \ {r} : pc'[u] = pc[u] /\ pool'[u] = pool[u]
  BY <1>1 DEF TypeOK, Thread
<1>4. Stays(r)
  BY <1>3 DEF Stays
<1>5. \A q \in Pool : /\ r \in HeavyUsers(q) <=> q = p /\ r \in Heavy
                      /\ r \notin HeavyUsers(q)'
  BY <1>1, <1>2, <1>3 DEF HeavyUsers
<1>6. \A q \in Pool : /\ Cardinality(HeavyUsers(q)) \in Nat /\ Cardinality(HeavyUsers(q)') \in Nat
                      /\ Cardinality(HeavyUsers(q)') = IF q = p /\ r \in Heavy THEN Cardinality(HeavyUsers(q)) - 1
                                                       ELSE Cardinality(HeavyUsers(q))
  <2> TAKE q \in Pool
  <2>1. CASE q = p /\ r \in Heavy
    BY <2>1, <1>3, <1>4, <1>5, HeavyChange
  <2>2. CASE ~(q = p /\ r \in Heavy)
    BY <2>2, <1>3, <1>4, <1>5, HeavyChange
  <2> QED
    BY <2>1, <2>2
<1>7. \A q \in Pool : heavyUsed[q] = Cardinality(HeavyUsers(q)) /\ heavyUsed[q] \in 0..HeavyCap
  BY DEF HeavyIsBounded, HeavyUsers, TypeOK
<1>8. \A q \in Pool : heavyUsed'[q] = IF q = p /\ r \in Heavy THEN heavyUsed[q] - 1 ELSE heavyUsed[q]
  BY <1>1, <1>2 DEF TypeOK
<1>9. \A q \in Pool : heavyUsed'[q] = Cardinality(HeavyUsers(q)') /\ heavyUsed'[q] \in 0..HeavyCap
  <2> TAKE q \in Pool
  <2>1. HeavyCap \in Nat
    BY PoolAssumption
  <2>2. heavyUsed'[q] = Cardinality(HeavyUsers(q)')
    BY <1>6, <1>7, <1>8
  <2>3. heavyUsed'[q] \in 0..HeavyCap
    BY <2>1, <2>2, <1>6, <1>7
  <2> QED
    BY <2>2, <2>3
<1>10. TypeOK'
  <2>1. heavyUsed' \in [Pool -> 0..HeavyCap]
    <3>1. heavyUsed' = [q \in Pool |-> heavyUsed'[q]]
      BY <1>1, <1>2 DEF TypeOK
    <3> QED
      BY <3>1, <1>9
  <2> QED
    BY <1>1, <2>1 DEF TypeOK, RequestStep
<1>11. HeavyIsBounded'
  BY <1>9 DEF HeavyIsBounded, HeavyUsers
<1>12. Listed' /\ (\A q \in Pool : Told(q)') /\ SlotsAreCounted'
  <2>1. \A q \in Pool : r \in Holders(q) <=> r \in Holders(q)'
    BY <1>1, <1>3 DEF Holders, Holding
  <2> QED
    BY <1>1, <1>3, <1>10, <2>1, ThreadMoves DEF Waiting
<1>13. Places'
  BY <1>1, <1>3, PoolAssumption DEF Places, Thread
<1>14. Conns'
  <2>1. \A s \in Request : pc[s] \in Carrying <=> pc'[s] \in Carrying
    BY <1>1, <1>3 DEF Carrying, Thread
  <2>2. \A s \in Request : pc[s] \in Carrying => pool'[s] = pool[s]
    BY <1>1, <1>3 DEF Carrying, Thread
  <2> QED
    BY <1>1, <2>1, <2>2, ConnsKept DEF Taken
<1> QED
  BY <1>10, <1>11, <1>12, <1>13, <1>14

\* What all outcomes of a turn of acquire have in common.
LEMMA AcquireMoves ==
  ASSUME Inv, NEW r \in Request, Acquire(r), TypeOK'
  PROVE  /\ pc[r] = "check" /\ r \in Thread /\ pool[r] \in Pool
         /\ UNCHANGED <<current, created, draining, heavyUsed, open, late, pool, keeper>>
         /\ \A u \in Thread \ {r} : pc'[u] = pc[u]
         /\ pc'[r] \in {"attach", "build", "leave", "wait"}
         /\ Stays(r) /\ Listed' /\ Places' /\ HeavyIsBounded'
         /\ \A q \in Pool : ToSet(waiters'[q]) \ {r} = ToSet(waiters[q]) \ {r}
<1> USE DEF Inv
<1>1. /\ pc[r] = "check" /\ r \in Thread /\ pool[r] \in Pool
      /\ UNCHANGED <<current, created, draining, heavyUsed, open, late, pool, keeper>>
  BY DEF Acquire, Places, Thread
<1>2. PICK s \in {"attach", "build", "leave", "wait"} :
        /\ Goto(r, s)
        /\ (Awake(r) /\ s # "wait") \/ (Sleep(r) /\ r \notin ReuseOnly)
  BY DEF Acquire, TakeIdle, TakeSlot, WaitOrGiveUp, Sleep
<1>3. pc'[r] = s /\ \A u \in Thread \ {r} : pc'[u] = pc[u]
  BY <1>1, <1>2 DEF Goto, TypeOK
<1>4. Stays(r)
  BY <1>1, <1>3 DEF Stays
<1>5. Listed' /\ \A q \in Pool : ToSet(waiters'[q]) \ {r} = ToSet(waiters[q]) \ {r}
  BY <1>1, <1>2, <1>3, ListedMoved
<1>6. Places'
  BY <1>1, <1>3, PoolAssumption DEF Places, Thread
<1>7. HeavyIsBounded'
  <2>1. \A p \in Pool : r \in HeavyUsers(p) <=> r \in HeavyUsers(p)'
    BY <1>1, <1>3 DEF HeavyUsers
  <2> QED
    BY <1>1, <1>4, <2>1, HeavyKept
<1> QED
  BY <1>1, <1>3, <1>4, <1>5, <1>6, <1>7

\* Types after a turn of acquire.
LEMMA AcquireType ==
  ASSUME Inv, NEW r \in Request, Acquire(r),
         idle' \in [Pool -> Seq(Conn)], inUse' \in [Pool -> 0..MaxSize], con' \in [Thread -> Conn \cup {NoConn}]
  PROVE  TypeOK'
<1> USE DEF Inv
<1>1. /\ pc[r] = "check" /\ r \in Thread /\ pool[r] \in Pool
      /\ UNCHANGED <<current, created, draining, heavyUsed, open, late, pool, keeper>>
  BY DEF Acquire, Places, Thread
<1>2. PICK s \in {"attach", "build", "leave", "wait"} :
        /\ Goto(r, s)
        /\ (Awake(r) /\ s # "wait") \/ (Sleep(r) /\ r \notin ReuseOnly)
  BY DEF Acquire, TakeIdle, TakeSlot, WaitOrGiveUp, Sleep
<1>3. /\ pc' \in [Thread -> RequestStep] /\ pc'[r] = s /\ \A u \in Thread \ {r} : pc'[u] = pc[u]
  BY <1>1, <1>2 DEF Goto, TypeOK, RequestStep
<1>4. waiters' \in [Pool -> Seq(Thread)]
  BY <1>1, <1>2, <1>3, ListedMoved
<1> QED
  BY <1>1, <1>3, <1>4 DEF TypeOK

\* A connection of the queue is taken.
LEMMA TakeIdleStep ==
  ASSUME Inv, NEW r \in Request, Acquire(r), TakeIdle(r) PROVE Inv'
<1> USE DEF Inv
<1>0. pool[r] \in Pool
  BY DEF Acquire, Places
<1>1. PICK p \in Pool : p = pool[r]
  BY <1>0
<1>2. PICK w : w = idle[p]
  OBVIOUS
<1>3. /\ ~draining[p] /\ w # <<>> /\ con' = [con EXCEPT ![r] = Last(w)]
      /\ idle' = [idle EXCEPT ![p] = Front(w)] /\ pc' = [pc EXCEPT ![r] = "attach"]
      /\ inUse' = inUse
  BY <1>1, <1>2 DEF TakeIdle, Goto
<1>4. w \in Seq(Conn) /\ IsInjective(w)
  BY <1>2 DEF TypeOK, Conns
<1>5. PICK c \in Conn : c = Last(w) /\ c \in ToSet(w)
  BY <1>3, <1>4, LastTaken, Elements
<1>6. PICK f \in Seq(Conn) : /\ f = Front(w) /\ Len(f) = Len(w) - 1
                             /\ ToSet(f) = ToSet(w) \ {c} /\ IsInjective(f)
  BY <1>3, <1>4, <1>5, LastTaken
<1>7. TypeOK'
  <2>1. idle' \in [Pool -> Seq(Conn)] /\ inUse' \in [Pool -> 0..MaxSize]
    BY <1>3, <1>6 DEF TypeOK
  <2>2. con' \in [Thread -> Conn \cup {NoConn}]
    BY <1>3, <1>5 DEF TypeOK
  <2> QED
    BY <2>1, <2>2, AcquireType
<1>8. /\ pc[r] = "check" /\ r \in Thread
      /\ UNCHANGED <<current, created, draining, heavyUsed, open, late, pool, keeper>>
      /\ \A u \in Thread \ {r} : pc'[u] = pc[u]
      /\ Stays(r) /\ Listed' /\ Places' /\ HeavyIsBounded'
      /\ \A q \in Pool : ToSet(waiters'[q]) \ {r} = ToSet(waiters[q]) \ {r}
  BY <1>7, AcquireMoves
<1>9. /\ pc'[r] = "attach" /\ con'[r] = c /\ \A u \in Thread \ {r} : con'[u] = con[u]
      /\ \A q \in Pool : idle'[q] = IF q = p THEN f ELSE idle[q]
  BY <1>3, <1>5, <1>6, <1>8 DEF TypeOK
<1>10. \A q \in Pool : Told(q)'
  <2>1. Free(p)' = Free(p) - 1
    <3>1. Len(w) \in Nat /\ MaxSize - inUse[p] \in Int
      BY <1>2, FreeType
    <3>2. Free(p) = Len(w) + (MaxSize - inUse[p])
      BY <1>2 DEF Free
    <3>3. Free(p)' = Len(f) + (MaxSize - inUse[p])
      BY <1>3, <1>9 DEF Free
    <3> QED
      BY <3>1, <3>2, <3>3, <1>6
  <2>2. \A q \in Pool \ {pool[r]} : idle'[q] = idle[q] /\ inUse'[q] = inUse[q]
    BY <1>1, <1>3, <1>9
  <2>3. /\ pool' = pool /\ draining' = draining /\ pc'[r] # "wait" /\ Free(pool[r])' = Free(pool[r]) - 1
    BY <1>1, <1>8, <1>9, <2>1
  <2> QED
    BY <1>7, <1>8, <2>2, <2>3, ToldMoved
<1>11. SlotsAreCounted'
  <2> SUFFICES ASSUME NEW q \in Pool PROVE inUse'[q] = Len(idle'[q]) + Cardinality(Holders(q)') + Len(Taken(q)')
    BY DEF SlotsAreCounted
  <2>1. /\ inUse[q] = Len(idle[q]) + Cardinality(Holders(q)) + Len(Taken(q))
        /\ Taken(q)' = Taken(q) /\ inUse'[q] = inUse[q]
    BY <1>3, <1>8 DEF SlotsAreCounted, Taken
  <2>2. Len(idle[q]) \in Nat /\ Len(Taken(q)) \in Nat /\ Cardinality(Holders(q)) \in Nat /\ Len(f) \in Nat
    BY FreeType, TakenType, HoldersChange, <1>8, Elements
  <2>3. r \notin Holders(q)
    BY <1>8 DEF Holders, Holding
  <2>4. CASE q = p
    <3>1. r \in Holders(q)'
      BY <2>4, <1>1, <1>8, <1>9 DEF Holders, Holding
    <3>2. Cardinality(Holders(q)') = Cardinality(Holders(q)) + 1
      BY <3>1, <2>3, <1>8, HoldersChange
    <3>3. Len(idle'[q]) = Len(idle[q]) - 1
      BY <2>4, <1>2, <1>6, <1>9
    <3> QED
      BY <3>2, <3>3, <2>1, <2>2
  <2>5. CASE q # p
    <3>1. r \notin Holders(q)'
      BY <2>5, <1>1, <1>8 DEF Holders
    <3>2. Cardinality(Holders(q)') = Cardinality(Holders(q))
      BY <3>1, <2>3, <1>8, HoldersChange
    <3> QED
      BY <2>5, <3>2, <2>1, <1>9
  <2> QED
    BY <2>4, <2>5
<1>12. Conns'
  <2>1. \A q \in Pool : /\ Taken(q)' = Taken(q)
                        /\ ToSet(idle'[q]) = IF q = p THEN ToSet(idle[q]) \ {c} ELSE ToSet(idle[q])
                        /\ IsInjective(idle'[q])
    BY <1>2, <1>6, <1>8, <1>9 DEF Taken, Conns
  <2>2. c \in Queued(p) /\ c \in ConnOf(p) /\ c # NoConn
    <3>1. c \in Queued(p) /\ c \in ConnOf(p)
      BY <1>2, <1>5 DEF Queued, Conns
    <3> QED
      BY <3>1 DEF ConnOf, NoConn, NoPool, Pool
  <2>3. \A q \in Pool : q # p => c \notin Queued(q)
    BY <2>2 DEF Conns, ConnOf
  <2>4. \A q \in Pool : Queued(q)' = Queued(q) \ {c}
    <3> TAKE q \in Pool
    <3>1. CASE q = p
      <4>1. c \notin ToSet(Taken(p))
        BY <1>2, <1>5 DEF Conns
      <4> QED
        BY <3>1, <4>1, <2>1 DEF Queued
    <3>2. CASE q # p
      BY <3>2, <2>1, <2>3 DEF Queued
    <3> QED
      BY <3>1, <3>2
  <2>5. con[r] = NoConn /\ \A s \in Request : con[s] # c
    BY <1>8, <2>2 DEF Conns, Carrying
  <2>6. \A s \in Request : con'[s] = IF s = r THEN c ELSE con[s]
    BY <1>9 DEF Thread
  <2>7. (\A s \in Request : con[s] # NoConn <=> pc[s] \in Carrying)'
    BY <1>8, <1>9, <2>2, <2>6 DEF Conns, Carrying, Thread
  <2>8. (\A s \in Request : con[s] # NoConn => con[s] \in ConnOf(pool[s]))'
    BY <1>1, <1>8, <2>2, <2>6 DEF Conns, ConnOf
  <2>9. (\A q \in Pool : Queued(q) \subseteq ConnOf(q))'
    BY <2>4 DEF Conns, ConnOf
  <2>10. (\A q \in Pool : IsInjective(idle[q]) /\ IsInjective(Taken(q)) /\ ToSet(idle[q]) \cap ToSet(Taken(q)) = {})'
    BY <2>1 DEF Conns
  <2>11. (\A s, u \in Request : con[s] # NoConn /\ con[s] = con[u] => s = u)'
    BY <2>5, <2>6 DEF Conns
  <2>12. (\A s \in Request : con[s] # NoConn => \A q \in Pool : con[s] \notin Queued(q))'
    BY <2>4, <2>6 DEF Conns
  <2>13. (\A d \in Conn : d \in open <=> (\E q \in Pool : d \in Queued(q)) \/ (\E s \in Request : con[s] = d))'
    <3> SUFFICES ASSUME NEW d \in Conn
                 PROVE  d \in open' <=> (\E q \in Pool : d \in Queued(q)') \/ (\E s \in Request : con'[s] = d)
      OBVIOUS
    <3>1. d \in open' <=> (\E q \in Pool : d \in Queued(q)) \/ (\E s \in Request : con[s] = d)
      BY <1>8 DEF Conns
    <3>2. CASE d = c
      BY <3>1, <3>2, <2>2, <2>6
    <3>3. CASE d # c
      <4>1. d # NoConn
        BY DEF Conn, NoConn, NoPool, Pool
      <4>2. \A s \in Request : con'[s] = d <=> con[s] = d
        BY <3>3, <4>1, <2>5, <2>6
      <4> QED
        BY <3>1, <3>3, <4>2, <2>4
    <3> QED
      BY <3>2, <3>3
  <2> QED
    BY <2>7, <2>8, <2>9, <2>10, <2>11, <2>12, <2>13 DEF Conns
<1> QED
  BY <1>7, <1>8, <1>10, <1>11, <1>12

\* A slot is taken for a connection that is to be built.
LEMMA TakeSlotStep ==
  ASSUME Inv, NEW r \in Request, Acquire(r), TakeSlot(r) PROVE Inv'
<1> USE DEF Inv
<1>0. pool[r] \in Pool
  BY DEF Acquire, Places
<1>1. PICK p \in Pool : p = pool[r]
  BY <1>0
<1>2. /\ inUse[p] < MaxSize /\ inUse' = [inUse EXCEPT ![p] = @ + 1]
      /\ pc' = [pc EXCEPT ![r] = "build"] /\ UNCHANGED <<con, idle>>
  BY <1>1 DEF TakeSlot, Goto
<1>3. TypeOK'
  <2>1. inUse[p] + 1 \in 0..MaxSize
    BY <1>2, FreeType
  <2>2. inUse' \in [Pool -> 0..MaxSize]
    BY <1>2, <2>1 DEF TypeOK
  <2>3. idle' \in [Pool -> Seq(Conn)] /\ con' \in [Thread -> Conn \cup {NoConn}]
    BY <1>2 DEF TypeOK
  <2> QED
    BY <2>2, <2>3, AcquireType
<1>4. /\ pc[r] = "check" /\ r \in Thread
      /\ UNCHANGED <<current, created, draining, heavyUsed, open, late, pool, keeper>>
      /\ \A u \in Thread \ {r} : pc'[u] = pc[u]
      /\ Stays(r) /\ Listed' /\ Places' /\ HeavyIsBounded'
      /\ \A q \in Pool : ToSet(waiters'[q]) \ {r} = ToSet(waiters[q]) \ {r}
  BY <1>3, AcquireMoves
<1>5. pc'[r] = "build" /\ \A q \in Pool : inUse'[q] = IF q = p THEN inUse[q] + 1 ELSE inUse[q]
  BY <1>2, <1>4 DEF TypeOK
<1>6. \A q \in Pool : Told(q)'
  <2>1. Free(p)' = Free(p) - 1
    <3>1. Len(idle[p]) \in Nat /\ inUse[p] \in Nat /\ MaxSize \in Nat
      BY FreeType
    <3>2. Free(p) = Len(idle[p]) + (MaxSize - inUse[p])
      BY DEF Free
    <3>3. Free(p)' = Len(idle[p]) + (MaxSize - (inUse[p] + 1))
      BY <1>2, <1>5 DEF Free
    <3> QED
      BY <3>1, <3>2, <3>3
  <2>2. \A q \in Pool \ {pool[r]} : idle'[q] = idle[q] /\ inUse'[q] = inUse[q]
    BY <1>1, <1>2, <1>5
  <2>3. /\ pool' = pool /\ draining' = draining /\ pc'[r] # "wait" /\ Free(pool[r])' = Free(pool[r]) - 1
    BY <1>1, <1>4, <1>5, <2>1
  <2> QED
    BY <1>3, <1>4, <2>2, <2>3, ToldMoved
<1>7. SlotsAreCounted'
  <2> SUFFICES ASSUME NEW q \in Pool PROVE inUse'[q] = Len(idle'[q]) + Cardinality(Holders(q)') + Len(Taken(q)')
    BY DEF SlotsAreCounted
  <2>1. inUse[q] = Len(idle[q]) + Cardinality(Holders(q)) + Len(Taken(q)) /\ Taken(q)' = Taken(q) /\ idle'[q] = idle[q]
    BY <1>2, <1>4 DEF SlotsAreCounted, Taken
  <2>2. Len(idle[q]) \in Nat /\ Len(Taken(q)) \in Nat /\ Cardinality(Holders(q)) \in Nat
    BY FreeType, TakenType, HoldersChange, <1>4
  <2>3. r \notin Holders(q)
    BY <1>4 DEF Holders, Holding
  <2>4. r \in Holders(q)' <=> q = p
    BY <1>1, <1>4, <1>5 DEF Holders, Holding
  <2>5. Cardinality(Holders(q)') = IF q = p THEN Cardinality(Holders(q)) + 1 ELSE Cardinality(Holders(q))
    BY <2>3, <2>4, <1>4, HoldersChange
  <2> QED
    BY <2>1, <2>2, <2>5, <1>5
<1>8. Conns'
  <2>1. \A s \in Request : pc[s] \in Carrying <=> pc'[s] \in Carrying
    BY <1>4, <1>5 DEF Carrying, Thread
  <2> QED
    BY <1>2, <1>4, <2>1, ConnsKept DEF Taken
<1> QED
  BY <1>3, <1>4, <1>6, <1>7, <1>8

\* There is nothing for the request, which waits or gives up.
LEMMA WaitOrGiveUpStep ==
  ASSUME Inv, NEW r \in Request, Acquire(r), WaitOrGiveUp(r) PROVE Inv'
<1> USE DEF Inv
<1>0. pool[r] \in Pool
  BY DEF Acquire, Places
<1>1. PICK p \in Pool : p = pool[r]
  BY <1>0
<1>2. /\ draining[p] \/ (idle[p] = <<>> /\ (inUse[p] >= MaxSize \/ r \in ReuseOnly))
      /\ UNCHANGED <<con, idle, inUse>>
      /\ Goto(r, "leave") \/ (Goto(r, "wait") /\ r \notin ReuseOnly)
  BY <1>1 DEF WaitOrGiveUp, Sleep
<1>3. TypeOK'
  <2>1. idle' \in [Pool -> Seq(Conn)] /\ inUse' \in [Pool -> 0..MaxSize] /\ con' \in [Thread -> Conn \cup {NoConn}]
    BY <1>2 DEF TypeOK
  <2> QED
    BY <2>1, AcquireType
<1>4. /\ pc[r] = "check" /\ r \in Thread
      /\ UNCHANGED <<current, created, draining, heavyUsed, open, late, pool, keeper>>
      /\ \A u \in Thread \ {r} : pc'[u] = pc[u]
      /\ Stays(r) /\ Listed' /\ Places' /\ HeavyIsBounded'
      /\ \A q \in Pool : ToSet(waiters'[q]) \ {r} = ToSet(waiters[q]) \ {r}
  BY <1>3, AcquireMoves
<1>5. pc'[r] = "leave" \/ (pc'[r] = "wait" /\ r \notin ReuseOnly)
  BY <1>2, <1>4 DEF Goto, TypeOK
<1>6. \A q \in Pool : Told(q)'
  <2>1. \A q \in Pool : Free(q)' = Free(q)
    BY <1>2 DEF Free
  <2>2. CASE draining[p]
    BY <2>2, <1>1, <1>2, <1>3, <1>4, ToldMoved
  <2>3. CASE idle[p] = <<>> /\ inUse[p] >= MaxSize
    <3>1. Free(p) = 0
      <4>1. Len(idle[p]) = 0
        BY <2>3
      <4>2. inUse[p] \in Nat /\ MaxSize \in Nat /\ inUse[p] <= MaxSize
        BY FreeType
      <4> QED
        BY <4>1, <4>2, <2>3 DEF Free
    <3>2. Free(pool[r])' = 0
      BY <3>1, <2>1, <1>1, <1>4
    <3> QED
      BY <3>2, <1>2, <1>3, <1>4, ToldMoved
  <2>4. CASE r \in ReuseOnly
    <3>1. pc'[r] # "wait" /\ r \notin Request \ ReuseOnly
      BY <2>4, <1>5
    <3>2. Free(pool[r])' = Free(pool[r])
      BY <2>1, <1>1, <1>4
    <3> QED
      BY <3>1, <3>2, <1>2, <1>3, <1>4, ToldMoved
  <2> QED
    BY <2>2, <2>3, <2>4, <1>2
<1>7. SlotsAreCounted'
  <2>1. \A q \in Pool : Taken(q)' = Taken(q) /\ Len(Taken(q)) \in Nat /\ Len(idle[q]) \in Nat
    BY <1>4, TakenType, FreeType DEF Taken
  <2>2. \A q \in Pool : r \in Holders(q) <=> r \in Holders(q)'
    BY <1>4, <1>5 DEF Holders, Holding
  <2> QED
    BY <1>2, <1>4, <2>1, <2>2, SlotsKept
<1>8. Conns'
  <2>1. \A s \in Request : pc[s] \in Carrying <=> pc'[s] \in Carrying
    BY <1>4, <1>5 DEF Carrying, Thread
  <2> QED
    BY <1>2, <1>4, <2>1, ConnsKept DEF Taken
<1> QED
  BY <1>3, <1>4, <1>6, <1>7, <1>8

\* A turn of acquire.
LEMMA AcquireStep ==
  ASSUME Inv, NEW r \in Request, Acquire(r) PROVE Inv'
  BY TakeIdleStep, TakeSlotStep, WaitOrGiveUpStep, Zenon DEF Acquire

\* The connections of a pool.
LEMMA ConnFacts ==
  ASSUME NEW p \in Pool, NEW c \in ConnOf(p)
  PROVE  c \in Conn /\ c # NoConn /\ \A q \in Pool : c \in ConnOf(q) => q = p
<1>1. PICK i \in 1..MaxSize : c = <<p, i>>
  BY DEF ConnOf
<1>2. c \in Conn
  BY <1>1 DEF Conn
<1>3. p # 0
  BY DEF Pool
<1>4. c # NoConn
  BY <1>1, <1>3 DEF NoConn, NoPool
<1> QED
  BY <1>1, <1>2, <1>4 DEF ConnOf

\* A slot whose connection was not built, or was closed, is given back.
LEMMA SlotIsGivenBack ==
  ASSUME Inv, NEW r \in Request, pc[r] \in {"build", "drop"},
         inUse' = [inUse EXCEPT ![pool[r]] = @ - 1], Notify(pool[r], 1, r, "leave"),
         UNCHANGED <<current, created, idle, draining, heavyUsed, open, late, pool, con, keeper>>
  PROVE  Inv'
<1> USE DEF Inv
<1>1. PICK p \in Pool : p = pool[r]
  BY DEF Places
<1>2. /\ Stays(r) /\ Listed' /\ waiters' \in [Pool -> Seq(Thread)]
      /\ pc' \in [Thread -> RequestStep] /\ pc'[r] = "leave" /\ Unlisted(p, 1) /\ r \in Thread
      /\ \A u \in Thread : pc[u] \in Waiting => pool'[u] = pool[u] /\ pc'[u] = Woken(p, 1)[u]
      /\ \A u \in Thread : pc'[u] = "wait" => pc[u] = "wait"
  <2>1. r \in Thread /\ pc[r] \notin Waiting /\ 1 \in Nat /\ "leave" \in RequestStep \ {"wait"}
    BY DEF Thread, Waiting, RequestStep
  <2>2. Notify(p, 1, r, "leave")
    BY <1>1
  <2> QED
    BY <2>1, <2>2, ThreadNotifies
<1>3. \A q \in Pool : /\ Cardinality(Holders(q)) \in Nat /\ Cardinality(Holders(q)') \in Nat
                      /\ Cardinality(Holders(q)') = IF q = p THEN Cardinality(Holders(q)) - 1
                                                    ELSE Cardinality(Holders(q))
  <2> TAKE q \in Pool
  <2>1. (r \in Holders(q) <=> q = p) /\ r \notin Holders(q)'
    BY <1>1, <1>2 DEF Holders, Holding
  <2> QED
    BY <2>1, <1>2, HoldersChange
<1>4. \A q \in Pool : inUse'[q] = IF q = p THEN inUse[q] - 1 ELSE inUse[q]
  BY <1>1 DEF TypeOK
<1>5. \A q \in Pool : /\ inUse[q] = Len(idle[q]) + Cardinality(Holders(q)) + Len(Taken(q))
                      /\ Len(idle[q]) \in Nat /\ Len(Taken(q)) \in Nat
                      /\ inUse[q] \in Nat /\ inUse[q] <= MaxSize /\ MaxSize \in Nat
  BY FreeType, TakenType DEF SlotsAreCounted
<1>6. \A q \in Pool : inUse'[q] = Len(idle[q]) + Cardinality(Holders(q)') + Len(Taken(q))
  <2> TAKE q \in Pool
  <2>1. PICK h \in Nat : h = Cardinality(Holders(q))
    BY <1>3
  <2>2. PICK k \in Nat : k = Cardinality(Holders(q)')
    BY <1>3
  <2>3. /\ k = IF q = p THEN h - 1 ELSE h
        /\ inUse'[q] = IF q = p THEN inUse[q] - 1 ELSE inUse[q]
        /\ inUse[q] = Len(idle[q]) + h + Len(Taken(q))
        /\ Len(idle[q]) \in Nat /\ Len(Taken(q)) \in Nat
    BY <2>1, <2>2, <1>3, <1>4, <1>5
  <2>4. inUse'[q] = Len(idle[q]) + k + Len(Taken(q))
    BY <2>3
  <2> QED
    BY <2>2, <2>4
<1>7. SlotsAreCounted'
  <2>1. \A q \in Pool : Taken(q)' = Taken(q)
    BY DEF Taken
  <2> QED
    BY <1>6, <2>1 DEF SlotsAreCounted
<1>8. TypeOK'
  <2>1. \A q \in Pool : inUse'[q] \in 0..MaxSize
    <3> TAKE q \in Pool
    <3>1. inUse'[q] \in Nat
      <4>1. PICK k \in Nat : k = Cardinality(Holders(q)')
        BY <1>3
      <4>2. inUse'[q] = Len(idle[q]) + k + Len(Taken(q)) /\ Len(idle[q]) \in Nat /\ Len(Taken(q)) \in Nat
        BY <4>1, <1>5, <1>6
      <4> QED
        BY <4>2
    <3>2. inUse'[q] <= MaxSize
      BY <1>4, <1>5
    <3> QED
      BY <1>5, <3>1, <3>2
  <2>2. inUse' = [q \in Pool |-> inUse'[q]]
    BY <1>1 DEF TypeOK
  <2>3. inUse' \in [Pool -> 0..MaxSize]
    BY <2>1, <2>2
  <2> QED
    BY <1>2, <2>3 DEF TypeOK
<1>9. \A q \in Pool : Told(q)'
  <2>1. Free(p)' <= Free(p) + 1
    <3>1. Free(p) = Len(idle[p]) + (MaxSize - inUse[p]) /\ Free(p)' = Len(idle[p]) + (MaxSize - inUse'[p])
      BY DEF Free
    <3>2. inUse'[p] = inUse[p] - 1 /\ Len(idle[p]) \in Nat /\ inUse[p] \in Nat /\ MaxSize \in Nat
      BY <1>4, <1>5
    <3> QED
      BY <3>1, <3>2
  <2>2. \A q \in Pool \ {p} : idle'[q] = idle[q] /\ inUse'[q] = inUse[q] /\ draining'[q] = draining[q]
    BY <1>4
  <2>3. 1 \in Nat /\ draining'[p] = draining[p]
    OBVIOUS
  <2> QED
    BY <1>2, <1>8, <2>1, <2>2, <2>3, ToldWoken
<1>10. Places'
  BY <1>2, PoolAssumption DEF Places, Stays, Thread, Waiting
<1>11. Conns'
  <2>1. \A s \in Request : pc[s] \in Carrying <=> pc'[s] \in Carrying
    BY <1>2 DEF Carrying, Thread, Stays, Waiting
  <2> QED
    BY <2>1, ConnsKept DEF Taken
<1>12. HeavyIsBounded'
  <2>1. \A q \in Pool : r \in HeavyUsers(q) <=> r \in HeavyUsers(q)'
    BY <1>2 DEF HeavyUsers
  <2> QED
    BY <1>2, <2>1, HeavyKept
<1> QED
  BY <1>2, <1>7, <1>8, <1>9, <1>10, <1>11, <1>12

\* A connection is built.
LEMMA BuiltStep ==
  ASSUME Inv, NEW r \in Request, pc[r] = "build", NEW c, c = CHOOSE d \in ConnOf(pool[r]) : d \notin open,
         open' = open \cup {c}, con' = [con EXCEPT ![r] = c], Goto(r, "use"),
         UNCHANGED <<inUse, waiters, current, created, idle, draining, heavyUsed, late, pool, keeper>>
  PROVE  Inv'
<1> USE DEF Inv
<1>1. PICK p \in Pool : p = pool[r]
  BY DEF Places
<1>2. c \in ConnOf(p) /\ c \notin open
  BY <1>1, FreshConn
<1>3. c \in Conn /\ c # NoConn
  BY <1>2, ConnFacts
<1>4. pc' = [pc EXCEPT ![r] = "use"]
  BY DEF Goto
<1>5. TypeOK'
  BY <1>3, <1>4 DEF TypeOK, RequestStep
<1>6. /\ r \in Thread /\ pc'[r] = "use" /\ \A u \in Thread \ {r} : pc'[u] = pc[u] /\ pool'[u] = pool[u]
      /\ \A s \in Request : con'[s] = IF s = r THEN c ELSE con[s]
  BY <1>4 DEF TypeOK, Thread
<1>7. Stays(r) /\ Listed' /\ (\A q \in Pool : Told(q)') /\ SlotsAreCounted'
  <2>1. pc[r] \notin Waiting /\ pc'[r] # "wait"
    BY <1>6 DEF Waiting
  <2>2. \A q \in Pool : r \in Holders(q) <=> r \in Holders(q)'
    BY <1>6 DEF Holders, Holding
  <2> QED
    BY <1>5, <1>6, <2>1, <2>2, ThreadMoves
<1>8. Places'
  BY <1>6, PoolAssumption DEF Places, Thread
<1>9. HeavyIsBounded'
  <2>1. \A q \in Pool : r \in HeavyUsers(q) <=> r \in HeavyUsers(q)'
    BY <1>6 DEF HeavyUsers
  <2> QED
    BY <1>6, <1>7, <2>1, HeavyKept
<1>10. Conns'
  <2>1. \A q \in Pool : Queued(q)' = Queued(q) /\ Taken(q)' = Taken(q)
    BY DEF Queued, Taken
  <2>2. /\ \A q \in Pool : c \notin Queued(q)
        /\ \A s \in Request : con[s] # c
    BY <1>2, <1>3 DEF Conns
  <2>3. con[r] = NoConn
    BY DEF Conns, Carrying
  <2>4. (\A s \in Request : con[s] # NoConn <=> pc[s] \in Carrying)'
    BY <1>3, <1>6 DEF Conns, Carrying, Thread
  <2>5. (\A s \in Request : con[s] # NoConn => con[s] \in ConnOf(pool[s]))'
    BY <1>1, <1>2, <1>6 DEF Conns, ConnOf
  <2>6. (\A q \in Pool : Queued(q) \subseteq ConnOf(q))'
    BY <2>1 DEF Conns, ConnOf
  <2>7. (\A q \in Pool : IsInjective(idle[q]) /\ IsInjective(Taken(q)) /\ ToSet(idle[q]) \cap ToSet(Taken(q)) = {})'
    BY <2>1 DEF Conns
  <2>8. (\A s, u \in Request : con[s] # NoConn /\ con[s] = con[u] => s = u)'
    BY <2>2, <1>6 DEF Conns
  <2>9. (\A s \in Request : con[s] # NoConn => \A q \in Pool : con[s] \notin Queued(q))'
    BY <2>1, <2>2, <1>6 DEF Conns
  <2>10. (\A d \in Conn : d \in open <=> (\E q \in Pool : d \in Queued(q)) \/ (\E s \in Request : con[s] = d))'
    <3> SUFFICES ASSUME NEW d \in Conn
                 PROVE  d \in open' <=> (\E q \in Pool : d \in Queued(q)') \/ (\E s \in Request : con'[s] = d)
      OBVIOUS
    <3>1. d \in open <=> (\E q \in Pool : d \in Queued(q)) \/ (\E s \in Request : con[s] = d)
      BY DEF Conns
    <3>2. d # NoConn
      BY DEF Conn, NoConn, NoPool, Pool
    <3>3. CASE d = c
      BY <3>3, <1>6
    <3>4. CASE d # c
      BY <3>1, <3>2, <3>4, <2>1, <2>3, <1>6
    <3> QED
      BY <3>3, <3>4
  <2> QED
    BY <2>4, <2>5, <2>6, <2>7, <2>8, <2>9, <2>10 DEF Conns
<1> QED
  BY <1>5, <1>7, <1>8, <1>9, <1>10

\* A build succeeds or fails.
LEMMA BuildStep ==
  ASSUME Inv, NEW r \in Request, Build(r) PROVE Inv'
<1>1. CASE /\ inUse' = [inUse EXCEPT ![pool[r]] = @ - 1]
           /\ Notify(pool[r], 1, r, "leave")
           /\ UNCHANGED <<open, con>>
  BY <1>1, SlotIsGivenBack DEF Build
<1>2. CASE LET c == CHOOSE c \in ConnOf(pool[r]) : c \notin open IN
           /\ open' = open \cup {c}
           /\ con' = [con EXCEPT ![r] = c]
           /\ Goto(r, "use")
           /\ UNCHANGED <<inUse, waiters>>
  BY <1>2, BuiltStep DEF Build
<1> QED
  BY <1>1, <1>2 DEF Build

\* A connection that was closed is no longer counted.
LEMMA DropStep ==
  ASSUME Inv, NEW r \in Request, Drop(r) PROVE Inv'
  BY SlotIsGivenBack DEF Drop

\* A connection is closed.
LEMMA CloseStep ==
  ASSUME Inv, NEW r \in Request, Close(r) PROVE Inv'
<1> USE DEF Inv
<1>1. /\ pc[r] = "close" /\ open' = open \ {con[r]} /\ con' = [con EXCEPT ![r] = NoConn]
      /\ pc' = [pc EXCEPT ![r] = "drop"]
      /\ UNCHANGED <<current, created, idle, inUse, draining, waiters, heavyUsed, late, pool, keeper>>
  BY DEF Close, Goto, poolVars
<1>2. TypeOK'
  BY <1>1 DEF TypeOK, RequestStep
<1>3. /\ r \in Thread /\ pc'[r] = "drop" /\ \A u \in Thread \ {r} : pc'[u] = pc[u] /\ pool'[u] = pool[u]
      /\ \A s \in Request : con'[s] = IF s = r THEN NoConn ELSE con[s]
  BY <1>1 DEF TypeOK, Thread
<1>4. Stays(r) /\ Listed' /\ (\A q \in Pool : Told(q)') /\ SlotsAreCounted'
  <2>1. pc[r] \notin Waiting /\ pc'[r] # "wait"
    BY <1>1, <1>3 DEF Waiting
  <2>2. \A q \in Pool : r \in Holders(q) <=> r \in Holders(q)'
    BY <1>1, <1>3 DEF Holders, Holding
  <2> QED
    BY <1>1, <1>2, <1>3, <2>1, <2>2, ThreadMoves
<1>5. Places'
  BY <1>1, <1>3, PoolAssumption DEF Places, Thread
<1>6. HeavyIsBounded'
  <2>1. \A q \in Pool : r \in HeavyUsers(q) <=> r \in HeavyUsers(q)'
    BY <1>1, <1>3 DEF HeavyUsers
  <2> QED
    BY <1>1, <1>3, <1>4, <2>1, HeavyKept
<1>7. Conns'
  <2>1. \A q \in Pool : Queued(q)' = Queued(q) /\ Taken(q)' = Taken(q)
    BY <1>1 DEF Queued, Taken
  <2>2. con[r] # NoConn
    BY <1>1 DEF Conns, Carrying
  <2>3. (\A s \in Request : con[s] # NoConn <=> pc[s] \in Carrying)'
    BY <1>3 DEF Conns, Carrying, Thread
  <2>4. (\A s \in Request : con[s] # NoConn => con[s] \in ConnOf(pool[s]))'
    BY <1>1, <1>3 DEF Conns, ConnOf
  <2>5. (\A q \in Pool : Queued(q) \subseteq ConnOf(q))'
    BY <2>1 DEF Conns, ConnOf
  <2>6. (\A q \in Pool : IsInjective(idle[q]) /\ IsInjective(Taken(q)) /\ ToSet(idle[q]) \cap ToSet(Taken(q)) = {})'
    BY <2>1, <1>1 DEF Conns
  <2>7. (\A s, u \in Request : con[s] # NoConn /\ con[s] = con[u] => s = u)'
    BY <1>3 DEF Conns
  <2>8. (\A s \in Request : con[s] # NoConn => \A q \in Pool : con[s] \notin Queued(q))'
    BY <2>1, <1>3 DEF Conns
  <2>9. (\A d \in Conn : d \in open <=> (\E q \in Pool : d \in Queued(q)) \/ (\E s \in Request : con[s] = d))'
    <3> SUFFICES ASSUME NEW d \in Conn
                 PROVE  d \in open' <=> (\E q \in Pool : d \in Queued(q)') \/ (\E s \in Request : con'[s] = d)
      OBVIOUS
    <3>1. d \in open <=> (\E q \in Pool : d \in Queued(q)) \/ (\E s \in Request : con[s] = d)
      BY DEF Conns
    <3>2. d # NoConn
      BY DEF Conn, NoConn, NoPool, Pool
    <3>3. CASE d = con[r]
      <4>1. \A s \in Request : con'[s] # d
        BY <3>2, <3>3, <1>3, <2>2 DEF Conns
      <4>2. \A q \in Pool : d \notin Queued(q)'
        BY <3>3, <2>1, <2>2 DEF Conns
      <4> QED
        BY <3>3, <4>1, <4>2, <1>1
    <3>4. CASE d # con[r]
      <4>1. \A s \in Request : con'[s] = d <=> con[s] = d
        BY <3>2, <3>4, <1>3
      <4> QED
        BY <3>1, <3>4, <4>1, <2>1, <1>1
    <3> QED
      BY <3>3, <3>4
  <2> QED
    BY <2>3, <2>4, <2>5, <2>6, <2>7, <2>8, <2>9 DEF Conns
<1> QED
  BY <1>2, <1>4, <1>5, <1>6, <1>7

\* A connection is idle again.
LEMMA PutStep ==
  ASSUME Inv, NEW r \in Request, Put(r) PROVE Inv'
<1> USE DEF Inv
<1>1. PICK p \in Pool : p = pool[r]
  BY DEF Places, Put
<1>2. PICK c : c = con[r]
  OBVIOUS
<1>3. /\ pc[r] = "put" /\ idle' = [idle EXCEPT ![p] = Append(@, c)] /\ con' = [con EXCEPT ![r] = NoConn]
      /\ Notify(p, 1, r, "leave")
      /\ UNCHANGED <<current, created, inUse, draining, heavyUsed, open, late, pool, keeper>>
  BY <1>1, <1>2 DEF Put
<1>4. /\ Stays(r) /\ Listed' /\ waiters' \in [Pool -> Seq(Thread)]
      /\ pc' \in [Thread -> RequestStep] /\ pc'[r] = "leave" /\ Unlisted(p, 1) /\ r \in Thread
      /\ \A u \in Thread : pc[u] \in Waiting => pool'[u] = pool[u] /\ pc'[u] = Woken(p, 1)[u]
      /\ \A u \in Thread : pc'[u] = "wait" => pc[u] = "wait"
  <2>1. r \in Thread /\ pc[r] \notin Waiting /\ 1 \in Nat /\ "leave" \in RequestStep \ {"wait"}
    BY <1>3 DEF Thread, Waiting, RequestStep
  <2>2. \A u \in Thread \ {r} : pool'[u] = pool[u]
    BY <1>3
  <2> QED
    BY <1>3, <2>1, <2>2, ThreadNotifies
<1>5. /\ c # NoConn /\ c \in ConnOf(p) /\ c \in Conn
      /\ \A q \in Pool : c \notin Queued(q)
  <2>1. c # NoConn
    BY <1>2, <1>3 DEF Conns, Carrying
  <2>2. c \in ConnOf(p)
    BY <2>1, <1>1, <1>2 DEF Conns
  <2> QED
    BY <2>1, <2>2, <1>2, ConnFacts DEF Conns
<1>6. PICK a : a = Append(idle[p], c)
  OBVIOUS
<1>7. /\ a \in Seq(Conn) /\ Len(a) = Len(idle[p]) + 1 /\ ToSet(a) = ToSet(idle[p]) \cup {c} /\ IsInjective(a)
  <2>1. idle[p] \in Seq(Conn) /\ IsInjective(idle[p]) /\ c \notin ToSet(idle[p])
    BY <1>5 DEF TypeOK, Conns, Queued
  <2> QED
    BY <2>1, <1>5, <1>6, Appended
<1>8. /\ \A q \in Pool : idle'[q] = IF q = p THEN a ELSE idle[q]
      /\ idle' \in [Pool -> Seq(Conn)]
      /\ \A s \in Request : con'[s] = IF s = r THEN NoConn ELSE con[s]
      /\ con' \in [Thread -> Conn \cup {NoConn}]
  BY <1>3, <1>4, <1>6, <1>7 DEF TypeOK, Thread
<1>9. TypeOK'
  BY <1>3, <1>4, <1>8 DEF TypeOK
<1>10. \A q \in Pool : Told(q)'
  <2>1. Free(p)' <= Free(p) + 1
    <3>1. Free(p) = Len(idle[p]) + (MaxSize - inUse[p]) /\ Free(p)' = Len(a) + (MaxSize - inUse[p])
      BY <1>3, <1>8 DEF Free
    <3>2. Len(idle[p]) \in Nat /\ inUse[p] \in Nat /\ MaxSize \in Nat
      BY FreeType
    <3> QED
      BY <3>1, <3>2, <1>7
  <2>2. \A q \in Pool \ {p} : idle'[q] = idle[q] /\ inUse'[q] = inUse[q] /\ draining'[q] = draining[q]
    BY <1>3, <1>8
  <2>3. 1 \in Nat /\ draining'[p] = draining[p]
    BY <1>3
  <2> QED
    BY <1>4, <1>9, <2>1, <2>2, <2>3, ToldWoken
<1>11. SlotsAreCounted'
  <2> SUFFICES ASSUME NEW q \in Pool PROVE inUse'[q] = Len(idle'[q]) + Cardinality(Holders(q)') + Len(Taken(q)')
    BY DEF SlotsAreCounted
  <2>1. /\ inUse[q] = Len(idle[q]) + Cardinality(Holders(q)) + Len(Taken(q))
        /\ Taken(q)' = Taken(q) /\ inUse'[q] = inUse[q]
    BY <1>3 DEF SlotsAreCounted, Taken
  <2>2. Len(idle[q]) \in Nat /\ Len(Taken(q)) \in Nat
    BY FreeType, TakenType
  <2>3. (r \in Holders(q) <=> q = p) /\ r \notin Holders(q)'
    BY <1>1, <1>3, <1>4 DEF Holders, Holding
  <2>4. PICK h \in Nat : h = Cardinality(Holders(q))
    BY <1>4, HoldersChange
  <2>5. PICK k \in Nat : k = Cardinality(Holders(q)')
    BY <1>4, HoldersChange
  <2>6. k = IF q = p THEN h - 1 ELSE h
    BY <2>3, <2>4, <2>5, <1>4, HoldersChange
  <2>7. Len(idle'[q]) = IF q = p THEN Len(idle[q]) + 1 ELSE Len(idle[q])
    BY <1>7, <1>8
  <2>8. inUse[q] = Len(idle[q]) + h + Len(Taken(q))
    BY <2>1, <2>4
  <2>9. inUse[q] = Len(idle'[q]) + k + Len(Taken(q))
    BY <2>2, <2>6, <2>7, <2>8
  <2> QED
    BY <2>1, <2>5, <2>9
<1>12. Places'
  BY <1>3, <1>4, PoolAssumption DEF Places, Stays, Thread, Waiting
<1>13. HeavyIsBounded'
  <2>1. \A q \in Pool : r \in HeavyUsers(q) <=> r \in HeavyUsers(q)'
    BY <1>3, <1>4 DEF HeavyUsers
  <2> QED
    BY <1>3, <1>4, <2>1, HeavyKept
<1>14. Conns'
  <2>1. \A q \in Pool : /\ Taken(q)' = Taken(q)
                        /\ ToSet(idle'[q]) = IF q = p THEN ToSet(idle[q]) \cup {c} ELSE ToSet(idle[q])
                        /\ IsInjective(idle'[q])
    BY <1>3, <1>7, <1>8 DEF Taken, Conns
  <2>2. \A q \in Pool : Queued(q)' = IF q = p THEN Queued(q) \cup {c} ELSE Queued(q)
    BY <2>1 DEF Queued
  <2>3. \A s \in Request : con'[s] # NoConn => con'[s] = con[s] /\ con[s] # c
    BY <1>2, <1>5, <1>8 DEF Conns
  <2>4. (\A s \in Request : con[s] # NoConn <=> pc[s] \in Carrying)'
    <3>1. \A s \in Request \ {r} : pc[s] \in Carrying <=> pc'[s] \in Carrying
      BY <1>4 DEF Stays, Thread, Waiting, Carrying
    <3>2. con'[r] = NoConn /\ pc'[r] \notin Carrying
      BY <1>4, <1>8 DEF Carrying
    <3>3. \A s \in Request \ {r} : con'[s] # NoConn <=> pc[s] \in Carrying
      BY <1>8 DEF Conns
    <3> QED
      BY <3>1, <3>2, <3>3
  <2>5. (\A s \in Request : con[s] # NoConn => con[s] \in ConnOf(pool[s]))'
    BY <1>3, <2>3 DEF Conns, ConnOf
  <2>6. (\A q \in Pool : Queued(q) \subseteq ConnOf(q))'
    BY <2>2, <1>5 DEF Conns, ConnOf
  <2>7. (\A q \in Pool : IsInjective(idle[q]) /\ IsInjective(Taken(q)) /\ ToSet(idle[q]) \cap ToSet(Taken(q)) = {})'
    <3> SUFFICES ASSUME NEW q \in Pool
                 PROVE  IsInjective(idle'[q]) /\ IsInjective(Taken(q)') /\ ToSet(idle'[q]) \cap ToSet(Taken(q)') = {}
      OBVIOUS
    <3>1. c \notin ToSet(Taken(q))
      BY <1>5 DEF Queued
    <3>2. ToSet(idle[q]) \cap ToSet(Taken(q)) = {} /\ IsInjective(Taken(q))
      BY DEF Conns
    <3> QED
      BY <3>1, <3>2, <2>1
  <2>8. (\A s, u \in Request : con[s] # NoConn /\ con[s] = con[u] => s = u)'
    BY <2>3 DEF Conns
  <2>9. (\A s \in Request : con[s] # NoConn => \A q \in Pool : con[s] \notin Queued(q))'
    BY <2>2, <2>3 DEF Conns
  <2>10. (\A d \in Conn : d \in open <=> (\E q \in Pool : d \in Queued(q)) \/ (\E s \in Request : con[s] = d))'
    <3> SUFFICES ASSUME NEW d \in Conn
                 PROVE  d \in open' <=> (\E q \in Pool : d \in Queued(q)') \/ (\E s \in Request : con'[s] = d)
      OBVIOUS
    <3>1. d \in open' <=> (\E q \in Pool : d \in Queued(q)) \/ (\E s \in Request : con[s] = d)
      BY <1>3 DEF Conns
    <3>2. d # NoConn
      BY DEF Conn, NoConn, NoPool, Pool
    <3>3. CASE d = c
      BY <3>1, <3>3, <2>2, <1>2
    <3>4. CASE d # c
      <4>1. \A s \in Request : con'[s] = d <=> con[s] = d
        BY <3>2, <3>4, <1>2, <1>8
      <4> QED
        BY <3>1, <3>4, <4>1, <2>2
    <3> QED
      BY <3>3, <3>4
  <2> QED
    BY <2>4, <2>5, <2>6, <2>7, <2>8, <2>9, <2>10 DEF Conns
<1> QED
  BY <1>4, <1>9, <1>10, <1>11, <1>12, <1>13, <1>14

-----------------------------------------------------------------------------
(* Steps of the recycle and of the keeper *)

\* The idle connections of a pool are closed.
LEMMA IdleIsClosed ==
  ASSUME Inv, NEW p \in Pool, CloseIdle(p), con' = con, \A q \in Pool : Taken(q)' = Taken(q),
         \A r \in Request : pool'[r] = pool[r],
         \A r \in Request : pc'[r] = pc[r] \/ (pc[r] \in Waiting /\ pc'[r] \in Waiting)
  PROVE  /\ Conns' /\ SlotsAreCounted'
         /\ idle' \in [Pool -> Seq(Conn)] /\ inUse' \in [Pool -> 0..MaxSize] /\ open' \subseteq Conn
         /\ \A q \in Pool : Free(q)' = Free(q)
         /\ \A q \in Pool \ {p} : idle'[q] = idle[q] /\ inUse'[q] = inUse[q]
<1> USE DEF Inv
<1>1. /\ open' = open \ ToSet(idle[p]) /\ inUse' = [inUse EXCEPT ![p] = @ - Len(idle[p])]
      /\ idle' = [idle EXCEPT ![p] = <<>>]
  BY DEF CloseIdle
<1>2. /\ \A q \in Pool : idle'[q] = IF q = p THEN <<>> ELSE idle[q]
      /\ idle' \in [Pool -> Seq(Conn)]
  BY <1>1, EmptySeq DEF TypeOK
<1>3. \A q \in Pool : inUse'[q] = IF q = p THEN inUse[q] - Len(idle[q]) ELSE inUse[q]
  BY <1>1 DEF TypeOK
<1>4. \A q \in Pool : Len(idle'[q]) = (IF q = p THEN 0 ELSE Len(idle[q]))
                      /\ ToSet(idle'[q]) = (IF q = p THEN {} ELSE ToSet(idle[q])) /\ IsInjective(idle'[q])
  BY <1>2, EmptyElements DEF Conns
<1>5. \A q \in Pool : Holders(q)' = Holders(q)
  BY DEF Holders, Holding, Waiting
<1>6. \A q \in Pool : /\ inUse'[q] = Len(idle'[q]) + Cardinality(Holders(q)) + Len(Taken(q))
                      /\ inUse'[q] \in 0..MaxSize /\ Free(q)' = Free(q)
  <2> TAKE q \in Pool
  <2>1. PICK h \in Nat : h = Cardinality(Holders(q))
    BY FS_Subset, FS_CardinalityType, PoolAssumption DEF Holders
  <2>2. /\ Len(idle[q]) \in Nat /\ Len(Taken(q)) \in Nat
        /\ inUse[q] \in Nat /\ inUse[q] <= MaxSize /\ MaxSize \in Nat
    BY FreeType, TakenType
  <2>3. inUse[q] = Len(idle[q]) + h + Len(Taken(q))
    BY <2>1 DEF SlotsAreCounted
  <2>4. /\ inUse'[q] = IF q = p THEN inUse[q] - Len(idle[q]) ELSE inUse[q]
        /\ Len(idle'[q]) = IF q = p THEN 0 ELSE Len(idle[q])
    BY <1>3, <1>4
  <2>5. inUse'[q] = Len(idle'[q]) + h + Len(Taken(q)) /\ inUse'[q] \in 0..MaxSize
    BY <2>2, <2>3, <2>4
  <2>6. Len(idle'[q]) + (MaxSize - inUse'[q]) = Len(idle[q]) + (MaxSize - inUse[q])
    BY <2>2, <2>4
  <2> QED
    BY <2>1, <2>5, <2>6 DEF Free
<1>7. SlotsAreCounted'
  BY <1>5, <1>6 DEF SlotsAreCounted
<1>8. inUse' \in [Pool -> 0..MaxSize]
  <2>1. inUse' = [q \in Pool |-> inUse'[q]]
    BY <1>1 DEF TypeOK
  <2> QED
    BY <2>1, <1>6
<1>9. open' \subseteq Conn
  BY <1>1 DEF TypeOK
<1>10. Conns'
  <2>1. \A q \in Pool : Queued(q)' = IF q = p THEN Queued(q) \ ToSet(idle[q]) ELSE Queued(q)
    <3> TAKE q \in Pool
    <3>1. ToSet(idle[q]) \cap ToSet(Taken(q)) = {}
      BY DEF Conns
    <3> QED
      BY <3>1, <1>4 DEF Queued
  <2>2. (\A r \in Request : con[r] # NoConn <=> pc[r] \in Carrying)'
    BY DEF Conns, Carrying, Waiting
  <2>3. (\A r \in Request : con[r] # NoConn => con[r] \in ConnOf(pool[r]))'
    BY DEF Conns, ConnOf
  <2>4. (\A q \in Pool : Queued(q) \subseteq ConnOf(q))'
    BY <2>1 DEF Conns, ConnOf
  <2>5. (\A q \in Pool : IsInjective(idle[q]) /\ IsInjective(Taken(q)) /\ ToSet(idle[q]) \cap ToSet(Taken(q)) = {})'
    BY <1>4 DEF Conns
  <2>6. (\A r, s \in Request : con[r] # NoConn /\ con[r] = con[s] => r = s)'
    BY DEF Conns
  <2>7. (\A r \in Request : con[r] # NoConn => \A q \in Pool : con[r] \notin Queued(q))'
    BY <2>1 DEF Conns
  <2>8. (\A d \in Conn : d \in open <=> (\E q \in Pool : d \in Queued(q)) \/ (\E r \in Request : con[r] = d))'
    <3> SUFFICES ASSUME NEW d \in Conn
                 PROVE  d \in open' <=> (\E q \in Pool : d \in Queued(q)') \/ (\E r \in Request : con[r] = d)
      OBVIOUS
    <3>1. d \in open <=> (\E q \in Pool : d \in Queued(q)) \/ (\E r \in Request : con[r] = d)
      BY DEF Conns
    <3>2. d # NoConn
      BY DEF Conn, NoConn, NoPool, Pool
    <3>3. CASE d \in ToSet(idle[p])
      <4>1. d \in Queued(p) /\ d \in ConnOf(p)
        BY <3>3 DEF Queued, Conns
      <4>2. \A q \in Pool : q # p => d \notin Queued(q)
        BY <4>1, ConnFacts DEF Conns
      <4>3. \A r \in Request : con[r] # d
        BY <4>1, <3>2 DEF Conns
      <4>4. d \notin Queued(p)'
        BY <3>3, <2>1
      <4> QED
        BY <3>3, <4>2, <4>3, <4>4, <2>1, <1>1
    <3>4. CASE d \notin ToSet(idle[p])
      <4>1. \A q \in Pool : d \in Queued(q)' <=> d \in Queued(q)
        BY <3>4, <2>1
      <4> QED
        BY <3>1, <3>4, <4>1, <1>1
    <3> QED
      BY <3>3, <3>4
  <2> QED
    BY <2>2, <2>3, <2>4, <2>5, <2>6, <2>7, <2>8 DEF Conns
<1> QED
  BY <1>2, <1>3, <1>6, <1>7, <1>8, <1>9, <1>10

\* Heavy slots are untouched by a step of the recycle or of the keeper.
LEMMA HeavyUntouched ==
  ASSUME HeavyIsBounded, heavyUsed' = heavyUsed, \A r \in Request : pool'[r] = pool[r],
         \A r \in Request : pc'[r] = pc[r] \/ (pc[r] \in Waiting /\ pc'[r] \in Waiting)
  PROVE  HeavyIsBounded'
<1>1. \A p \in Pool : HeavyUsers(p)' = HeavyUsers(p)
  BY PoolAssumption DEF HeavyUsers, Waiting
<1> QED
  BY <1>1 DEF HeavyIsBounded, HeavyUsers

\* A pool is retired.
LEMMA BeginDrainStep ==
  ASSUME Inv, BeginDrain PROVE Inv'
<1> USE DEF Inv
<1>1. current \in Pool
  BY DEF BeginDrain, TypeOK
<1>2. PICK p \in Pool : p = current
  BY <1>1
<1>3. /\ pc[Recycler] = "idle" /\ current' = NoPool /\ pool' = [pool EXCEPT ![Recycler] = p]
      /\ draining' = [draining EXCEPT ![p] = TRUE] /\ CloseIdle(p)
      /\ Notify(p, Len(waiters[p]), Recycler, "check")
      /\ UNCHANGED <<created, heavyUsed, late, con, keeper>>
  BY <1>2, Zenon DEF BeginDrain
<1>4. /\ Recycler \in Thread /\ pool'[Recycler] = p /\ \A u \in Thread \ {Recycler} : pool'[u] = pool[u]
      /\ \A r \in Request : r \in Thread \ {Recycler}
      /\ pool' \in [Thread -> Pool \cup {NoPool}]
      /\ draining'[p] /\ \A q \in Pool \ {p} : draining'[q] = draining[q]
      /\ draining' \in [Pool -> BOOLEAN]
  BY <1>3, PoolAssumption DEF TypeOK, Thread
<1>5. PICK n \in Nat : n = Len(waiters[p])
  BY Elements DEF TypeOK
<1>6. /\ Stays(Recycler) /\ Listed' /\ waiters' \in [Pool -> Seq(Thread)]
      /\ pc' \in [Thread -> RequestStep] /\ pc'[Recycler] = "check" /\ Unlisted(p, n)
      /\ \A u \in Thread : pc[u] \in Waiting => pool'[u] = pool[u] /\ pc'[u] = Woken(p, n)[u]
      /\ \A u \in Thread : pc'[u] = "wait" => pc[u] = "wait"
  <2>1. pc[Recycler] \notin Waiting /\ "check" \in RequestStep \ {"wait"} /\ Notify(p, n, Recycler, "check")
    BY <1>3, <1>5 DEF Waiting, RequestStep
  <2> QED
    BY <1>4, <2>1, ThreadNotifies
<1>7. /\ \A r \in Request : pool'[r] = pool[r]
      /\ \A r \in Request : pc'[r] = pc[r] \/ (pc[r] \in Waiting /\ pc'[r] \in Waiting)
  BY <1>4, <1>6 DEF Stays, Waiting
<1>8. /\ Conns' /\ SlotsAreCounted'
      /\ idle' \in [Pool -> Seq(Conn)] /\ inUse' \in [Pool -> 0..MaxSize] /\ open' \subseteq Conn
      /\ \A q \in Pool \ {p} : idle'[q] = idle[q] /\ inUse'[q] = inUse[q]
  <2>1. \A q \in Pool : Taken(q)' = Taken(q)
    BY <1>3 DEF Taken
  <2> QED
    BY <1>3, <1>7, <2>1, IdleIsClosed
<1>9. TypeOK'
  BY <1>3, <1>4, <1>6, <1>8 DEF TypeOK
<1>10. \A q \in Pool : Told(q)'
  <2>1. \A q \in Pool \ {p} : idle'[q] = idle[q] /\ inUse'[q] = inUse[q] /\ draining'[q] = draining[q]
    BY <1>4, <1>8
  <2>2. n >= Len(waiters[p])
    BY <1>5
  <2> QED
    BY <1>6, <1>9, <2>1, <2>2, ToldWoken
<1>11. Places'
  <2>1. \A r \in Request : pc'[r] # "idle" => pool'[r] \in Pool
    BY <1>7 DEF Places, Waiting
  <2>2. \A r \in Request : pc'[r] = "slot" => r \in Heavy
    BY <1>7 DEF Places, Waiting
  <2>3. pc'[Recycler] \in {"idle", "leave"} \cup Waiting
    BY <1>6 DEF Waiting
  <2>4. pool'[Recycler] \in Pool /\ draining'[pool'[Recycler]]
    BY <1>4
  <2>5. keeper'.pool = NoPool => keeper'.took = <<>>
    BY <1>3 DEF Places
  <2> QED
    BY <2>1, <2>2, <2>3, <2>4, <2>5 DEF Places
<1>12. HeavyIsBounded'
  BY <1>3, <1>7, HeavyUntouched
<1> QED
  BY <1>6, <1>8, <1>9, <1>10, <1>11, <1>12

\* The recycle looks whether the pool is empty.
LEMMA WaitDrainedStep ==
  ASSUME Inv, WaitDrained PROVE Inv'
<1> USE DEF Inv
<1>1. /\ pc[Recycler] = "check" /\ Recycler \in Thread /\ Recycler \notin Request
      /\ UNCHANGED <<current, created, idle, inUse, draining, heavyUsed, open, late, pool, con, keeper>>
  BY PoolAssumption DEF WaitDrained, Thread
<1>2. PICK p \in Pool : p = pool[Recycler] /\ draining[p]
  BY <1>1 DEF Places
<1>3. PICK s \in {"leave", "wait"} : Goto(Recycler, s) /\ ((Awake(Recycler) /\ s # "wait") \/ Sleep(Recycler))
  BY DEF WaitDrained, Sleep
<1>4. /\ pc' \in [Thread -> RequestStep] /\ pc'[Recycler] = s
      /\ \A u \in Thread \ {Recycler} : pc'[u] = pc[u]
      /\ \A r \in Request : pc'[r] = pc[r]
  BY <1>1, <1>3 DEF Goto, TypeOK, RequestStep, Thread
<1>5. /\ Listed' /\ waiters' \in [Pool -> Seq(Thread)]
      /\ \A q \in Pool : ToSet(waiters'[q]) \ {Recycler} = ToSet(waiters[q]) \ {Recycler}
  <2>1. Recycler \notin ReuseOnly
    BY PoolAssumption
  <2> QED
    BY <1>1, <1>3, <1>4, <2>1, ListedMoved
<1>6. TypeOK'
  BY <1>1, <1>4, <1>5 DEF TypeOK
<1>7. \A q \in Pool : Told(q)'
  <2>1. draining[pool[Recycler]]
    BY <1>2
  <2> QED
    BY <1>1, <1>4, <1>5, <1>6, <2>1, ToldMoved
<1>8. Places'
  <2>1. pc'[Recycler] \in {"idle", "leave"} \cup Waiting
    BY <1>4 DEF Waiting
  <2>2. pool'[Recycler] \in Pool /\ draining'[pool'[Recycler]]
    BY <1>1, <1>2
  <2> QED
    BY <1>1, <1>4, <2>1, <2>2 DEF Places
<1>9. Conns' /\ HeavyIsBounded'
  BY <1>1, <1>4, ConnsKept, HeavyUntouched DEF Taken
<1>10. SlotsAreCounted'
  <2>1. \A q \in Pool : Holders(q)' = Holders(q) /\ Taken(q)' = Taken(q)
    BY <1>1, <1>4 DEF Holders, Taken
  <2> QED
    BY <1>1, <2>1 DEF SlotsAreCounted
<1> QED
  BY <1>5, <1>6, <1>7, <1>8, <1>9, <1>10

\* The recycle is over: requests that still have the pool may go on.
LEMMA EndDrainStep ==
  ASSUME Inv, EndDrain PROVE Inv'
<1> USE DEF Inv
<1>1. pc[Recycler] = "leave" /\ Recycler \in Thread /\ Recycler \notin Request
  BY PoolAssumption DEF EndDrain, Thread
<1>2. PICK p \in Pool : p = pool[Recycler]
  BY <1>1 DEF Places
<1>3. /\ draining' = [draining EXCEPT ![p] = FALSE] /\ Notify(p, Len(waiters[p]), Recycler, "idle")
      /\ pool' = [pool EXCEPT ![Recycler] = NoPool] /\ late' = [late EXCEPT ![Recycler] = FALSE]
      /\ UNCHANGED <<current, created, idle, inUse, heavyUsed, open, con, keeper>>
  BY <1>2, Zenon DEF EndDrain
<1>4. /\ \A u \in Thread \ {Recycler} : pool'[u] = pool[u]
      /\ \A r \in Request : r \in Thread \ {Recycler}
      /\ pool' \in [Thread -> Pool \cup {NoPool}] /\ late' \in [Thread -> BOOLEAN]
      /\ \A q \in Pool \ {p} : draining'[q] = draining[q]
      /\ draining' \in [Pool -> BOOLEAN]
  BY <1>1, <1>3 DEF TypeOK, Thread
<1>5. PICK n \in Nat : n = Len(waiters[p])
  BY Elements DEF TypeOK
<1>6. /\ Stays(Recycler) /\ Listed' /\ waiters' \in [Pool -> Seq(Thread)]
      /\ pc' \in [Thread -> RequestStep] /\ pc'[Recycler] = "idle" /\ Unlisted(p, n)
      /\ \A u \in Thread : pc[u] \in Waiting => pool'[u] = pool[u] /\ pc'[u] = Woken(p, n)[u]
      /\ \A u \in Thread : pc'[u] = "wait" => pc[u] = "wait"
  <2>1. pc[Recycler] \notin Waiting /\ "idle" \in RequestStep \ {"wait"} /\ Notify(p, n, Recycler, "idle")
    BY <1>1, <1>3, <1>5 DEF Waiting, RequestStep
  <2> QED
    BY <1>1, <1>4, <2>1, ThreadNotifies
<1>7. /\ \A r \in Request : pool'[r] = pool[r]
      /\ \A r \in Request : pc'[r] = pc[r] \/ (pc[r] \in Waiting /\ pc'[r] \in Waiting)
  BY <1>4, <1>6 DEF Stays, Waiting
<1>8. TypeOK'
  BY <1>3, <1>4, <1>6 DEF TypeOK
<1>9. \A q \in Pool : Told(q)'
  <2>1. \A q \in Pool \ {p} : idle'[q] = idle[q] /\ inUse'[q] = inUse[q] /\ draining'[q] = draining[q]
    BY <1>3, <1>4
  <2>2. n >= Len(waiters[p])
    BY <1>5
  <2> QED
    BY <1>6, <1>8, <2>1, <2>2, ToldWoken
<1>10. Places'
  BY <1>3, <1>6, <1>7 DEF Places, Waiting
<1>11. Conns'
  <2>1. \A r \in Request : pc[r] \in Carrying <=> pc'[r] \in Carrying
    BY <1>7 DEF Carrying, Waiting
  <2> QED
    BY <1>3, <1>7, <2>1, ConnsKept DEF Taken
<1>12. HeavyIsBounded'
  BY <1>3, <1>7, HeavyUntouched
<1>13. SlotsAreCounted'
  <2>1. \A q \in Pool : Holders(q)' = Holders(q) /\ Taken(q)' = Taken(q)
    BY <1>3, <1>7 DEF Holders, Taken, Holding, Waiting
  <2> QED
    BY <1>3, <2>1 DEF SlotsAreCounted
<1> QED
  BY <1>6, <1>8, <1>9, <1>10, <1>11, <1>12, <1>13

\* The keeper comes to a pool.
LEMMA KeeperStartsStep ==
  ASSUME Inv, KeeperStarts PROVE Inv'
<1> USE DEF Inv
<1>1. /\ keeper.pool = NoPool /\ current \in Pool /\ keeper.took = <<>>
      /\ keeper' = [keeper EXCEPT !.pool = current]
      /\ UNCHANGED <<current, created, idle, inUse, draining, waiters, heavyUsed, open, pc, late, pool, con>>
  BY DEF KeeperStarts, TypeOK, poolVars, Places
<1>2. keeper' = [pool |-> current, took |-> <<>>]
  BY <1>1 DEF TypeOK
<1>3. TypeOK'
  BY <1>1, <1>2, EmptySeq DEF TypeOK
<1>4. \A q \in Pool : Taken(q)' = Taken(q)
  BY <1>1, <1>2 DEF Taken
<1>5. Places'
  BY <1>1, <1>2 DEF Places
<1>6. Listed'
  BY <1>1 DEF Listed
<1>7. \A q \in Pool : Told(q)'
  BY <1>1 DEF Told, Free, Ready
<1>8. Conns' /\ HeavyIsBounded'
  BY <1>1, <1>4, ConnsKept, HeavyUntouched
<1>9. SlotsAreCounted'
  BY <1>1, <1>4 DEF SlotsAreCounted, Holders
<1> QED
  BY <1>3, <1>5, <1>6, <1>7, <1>8, <1>9

\* Connections go from the queue to the keeper or back.
LEMMA ConnsRequeued ==
  ASSUME Conns, UNCHANGED <<con, open, pool>>,
         \A r \in Request : pc[r] \in Carrying <=> pc'[r] \in Carrying,
         \A q \in Pool : /\ Queued(q)' = Queued(q)
                         /\ IsInjective(idle'[q]) /\ IsInjective(Taken(q)')
                         /\ ToSet(idle'[q]) \cap ToSet(Taken(q)') = {}
  PROVE  Conns'
<1>1. (\A r \in Request : con[r] # NoConn <=> pc[r] \in Carrying)'
  BY DEF Conns
<1>2. (\A r \in Request : con[r] # NoConn => con[r] \in ConnOf(pool[r]))'
  BY DEF Conns, ConnOf
<1>3. (\A q \in Pool : Queued(q) \subseteq ConnOf(q))'
  BY DEF Conns, ConnOf
<1>4. (\A r, s \in Request : con[r] # NoConn /\ con[r] = con[s] => r = s)'
  BY DEF Conns
<1>5. (\A r \in Request : con[r] # NoConn => \A q \in Pool : con[r] \notin Queued(q))'
  BY DEF Conns
<1>6. (\A d \in Conn : d \in open <=> (\E q \in Pool : d \in Queued(q)) \/ (\E r \in Request : con[r] = d))'
  BY DEF Conns
<1> QED
  BY <1>1, <1>2, <1>3, <1>4, <1>5, <1>6 DEF Conns

\* The idle connections are taken out to be rebound.
LEMMA WarmIdleStep ==
  ASSUME Inv, WarmIdle PROVE Inv'
<1> USE DEF Inv
<1>1. /\ keeper.pool \in Pool /\ keeper.took = <<>>
      /\ UNCHANGED <<current, created, inUse, draining, waiters, heavyUsed, open, pc, late, pool, con>>
  BY DEF WarmIdle, TypeOK
<1>2. PICK p \in Pool : p = keeper.pool
  BY <1>1
<1>3. \A q \in Pool : Taken(q) = <<>>
  BY <1>1 DEF Taken
<1>4. NoPool \notin Pool
  BY DEF NoPool, Pool
<1>5. HeavyIsBounded' /\ Listed' /\ \A q \in Pool : Holders(q)' = Holders(q) /\ Ready(q)' = Ready(q)
  BY <1>1, HeavyUntouched DEF Listed, Holders, Ready
<1>6. CASE keeper' = [pool |-> NoPool, took |-> <<>>] /\ UNCHANGED idle
  <2>1. TypeOK' /\ Places'
    BY <1>1, <1>6, EmptySeq DEF TypeOK, Places
  <2>2. \A q \in Pool : Taken(q)' = Taken(q)
    BY <1>3, <1>6 DEF Taken
  <2>3. \A q \in Pool : Told(q)'
    BY <1>1, <1>6 DEF Told, Free, Ready
  <2>4. Conns'
    BY <1>1, <1>6, <2>2, ConnsKept
  <2>5. SlotsAreCounted'
    BY <1>1, <1>5, <1>6, <2>2 DEF SlotsAreCounted
  <2> QED
    BY <1>5, <2>1, <2>3, <2>4, <2>5
<1>7. CASE /\ keeper' = [keeper EXCEPT !.took = idle[p]]
           /\ idle' = [idle EXCEPT ![p] = <<>>]
  <2>1. /\ keeper' = [pool |-> p, took |-> idle[p]] /\ idle[p] \in Seq(Conn)
        /\ \A q \in Pool : idle'[q] = IF q = p THEN <<>> ELSE idle[q]
        /\ idle' \in [Pool -> Seq(Conn)]
    BY <1>2, <1>7, EmptySeq DEF TypeOK
  <2>2. TypeOK'
    BY <1>1, <2>1 DEF TypeOK
  <2>3. Places'
    BY <1>1, <1>4, <2>1 DEF Places
  <2>4. \A q \in Pool : Taken(q)' = IF q = p THEN idle[q] ELSE <<>>
    BY <2>1 DEF Taken
  <2>5. \A q \in Pool : /\ Len(idle'[q]) + Len(Taken(q)') = Len(idle[q]) + Len(Taken(q))
                        /\ Len(idle[q]) \in Nat /\ Len(Taken(q)) \in Nat
                        /\ Len(idle'[q]) \in Nat /\ Len(Taken(q)') \in Nat /\ Len(idle'[q]) <= Len(idle[q])
    <3> TAKE q \in Pool
    <3>1. Len(idle[q]) \in Nat /\ Len(Taken(q)) = 0
      BY FreeType, <1>3, EmptyElements
    <3>2. /\ Len(idle'[q]) = IF q = p THEN 0 ELSE Len(idle[q])
          /\ Len(Taken(q)') = IF q = p THEN Len(idle[q]) ELSE 0
      BY <2>1, <2>4, EmptyElements
    <3> QED
      BY <3>1, <3>2
  <2>6. ASSUME NEW q \in Pool PROVE Told(q)'
    <3>1. Free(q) \in Nat /\ Free(q)' \in Nat
      BY <2>2, FreeType, FreeTypeNext
    <3>2. Free(q)' <= Free(q)
      <4>1. Free(q) = Len(idle[q]) + (MaxSize - inUse[q]) /\ Free(q)' = Len(idle'[q]) + (MaxSize - inUse[q])
        BY <1>1 DEF Free
      <4>2. MaxSize \in Nat /\ inUse[q] \in Nat
        BY FreeType
      <4>3. PICK i, k \in Nat : i = Len(idle[q]) /\ k = Len(idle'[q]) /\ k <= i
        BY <2>5
      <4>4. k + (MaxSize - inUse[q]) <= i + (MaxSize - inUse[q])
        BY <4>2, <4>3
      <4> QED
        BY <4>1, <4>3, <4>4
    <3>3. /\ \A r \in Request : pool'[r] = q /\ pc'[r] = "wait" => pool[r] = q /\ pc[r] = "wait"
          /\ draining[q] => draining'[q]
      BY <1>1
    <3> QED
      BY <3>1, <3>2, <3>3, <1>5, ToldKept
  <2>7. Conns'
    <3>1. \A q \in Pool : /\ Queued(q)' = Queued(q)
                          /\ IsInjective(idle'[q]) /\ IsInjective(Taken(q)')
                          /\ ToSet(idle'[q]) \cap ToSet(Taken(q)') = {}
      <4> TAKE q \in Pool
      <4>1. IsInjective(idle[q]) /\ ToSet(<<>>) = {} /\ IsInjective(<<>>)
        BY EmptyElements DEF Conns
      <4>2. Queued(q) = ToSet(idle[q]) /\ Queued(q)' = ToSet(idle'[q]) \cup ToSet(Taken(q)')
        BY <4>1, <1>3 DEF Queued
      <4>3. CASE q = p
        BY <4>1, <4>2, <4>3, <2>1, <2>4
      <4>4. CASE q # p
        BY <4>1, <4>2, <4>4, <2>1, <2>4
      <4> QED
        BY <4>3, <4>4
    <3> QED
      BY <1>1, <3>1, ConnsRequeued
  <2>8. SlotsAreCounted'
    <3> SUFFICES ASSUME NEW q \in Pool PROVE inUse'[q] = Len(idle'[q]) + Cardinality(Holders(q)) + Len(Taken(q)')
      BY <1>5 DEF SlotsAreCounted
    <3>1. PICK h \in Nat : h = Cardinality(Holders(q))
      BY FS_Subset, FS_CardinalityType, PoolAssumption DEF Holders
    <3>2. inUse'[q] = Len(idle[q]) + h + Len(Taken(q))
      BY <3>1, <1>1 DEF SlotsAreCounted
    <3>3. PICK i, j, k, l \in Nat : /\ i = Len(idle[q]) /\ j = Len(Taken(q))
                                    /\ k = Len(idle'[q]) /\ l = Len(Taken(q)')
      BY <2>5
    <3>4. i + h + j = k + h + l
      <4>1. k + l = i + j
        BY <3>3, <2>5
      <4> QED
        BY <4>1
    <3> QED
      BY <3>1, <3>2, <3>3, <3>4
  <2> QED
    BY <1>5, <2>2, <2>3, <2>6, <2>7, <2>8
<1> QED
  BY <1>2, <1>6, <1>7 DEF WarmIdle

\* Threads are woken by the keeper.
LEMMA KeeperNotifies ==
  ASSUME TypeOK, Places, Listed, NEW p \in Pool, NEW n \in Nat, pc' = Woken(p, n), Unlisted(p, n), pool' = pool
  PROVE  /\ Listed' /\ waiters' \in [Pool -> Seq(Thread)] /\ pc' \in [Thread -> RequestStep]
         /\ \A u \in Thread : pc[u] \in Waiting => pool'[u] = pool[u] /\ pc'[u] = Woken(p, n)[u]
         /\ \A u \in Thread : pc'[u] = "wait" => pc[u] = "wait"
         /\ \A u \in Thread : pc'[u] = pc[u] \/ (pc[u] \in Waiting /\ pc'[u] \in Waiting)
<1>1. /\ Woken(p, n) \in [Thread -> RequestStep]
      /\ \A u \in Thread : \/ Woken(p, n)[u] = pc[u]
                           \/ pc[u] \in Waiting /\ Woken(p, n)[u] = "check"
  BY WokenFacts
<1>2. \A u \in Thread : pc'[u] = "wait" => pc[u] = "wait"
  BY <1>1
<1>3. \A u \in Thread : pc'[u] = pc[u] \/ (pc[u] \in Waiting /\ pc'[u] \in Waiting)
  BY <1>1 DEF Waiting
<1>4. Listed' /\ waiters' \in [Pool -> Seq(Thread)]
  BY <1>2, ListedWoken
<1> QED
  BY <1>1, <1>2, <1>3, <1>4

\* The idle connections are closed and everyone is woken.
LEMMA DiscardIdleStep ==
  ASSUME Inv, DiscardIdle PROVE Inv'
<1> USE DEF Inv
<1>1. /\ keeper.pool \in Pool /\ keeper.took = <<>> /\ keeper' = [keeper EXCEPT !.pool = NoPool]
      /\ UNCHANGED <<current, created, draining, heavyUsed, late, pool, con>>
  BY DEF DiscardIdle, TypeOK
<1>2. PICK p \in Pool : p = keeper.pool
  BY <1>1
<1>3. PICK n \in Nat : n = Len(waiters[p])
  BY Elements DEF TypeOK
<1>4. CloseIdle(p) /\ pc' = Woken(p, n) /\ Unlisted(p, n)
  BY <1>2, <1>3 DEF DiscardIdle
<1>5. /\ Listed' /\ waiters' \in [Pool -> Seq(Thread)] /\ pc' \in [Thread -> RequestStep]
      /\ \A u \in Thread : pc[u] \in Waiting => pool'[u] = pool[u] /\ pc'[u] = Woken(p, n)[u]
      /\ \A u \in Thread : pc'[u] = "wait" => pc[u] = "wait"
      /\ \A u \in Thread : pc'[u] = pc[u] \/ (pc[u] \in Waiting /\ pc'[u] \in Waiting)
  BY <1>1, <1>4, KeeperNotifies
<1>6. /\ \A r \in Request : pc'[r] = pc[r] \/ (pc[r] \in Waiting /\ pc'[r] \in Waiting)
      /\ \A r \in Request : pool'[r] = pool[r]
  BY <1>1, <1>5 DEF Thread
<1>7. keeper' = [pool |-> NoPool, took |-> <<>>] /\ keeper' \in [pool : Pool \cup {NoPool}, took : Seq(Conn)]
  BY <1>1, EmptySeq DEF TypeOK
<1>8. \A q \in Pool : Taken(q)' = Taken(q)
  BY <1>1, <1>7 DEF Taken
<1>9. /\ Conns' /\ SlotsAreCounted'
      /\ idle' \in [Pool -> Seq(Conn)] /\ inUse' \in [Pool -> 0..MaxSize] /\ open' \subseteq Conn
      /\ \A q \in Pool \ {p} : idle'[q] = idle[q] /\ inUse'[q] = inUse[q]
  BY <1>1, <1>4, <1>6, <1>8, IdleIsClosed
<1>10. TypeOK'
  BY <1>1, <1>5, <1>7, <1>9 DEF TypeOK
<1>11. \A q \in Pool : Told(q)'
  <2>1. \A q \in Pool \ {p} : idle'[q] = idle[q] /\ inUse'[q] = inUse[q] /\ draining'[q] = draining[q]
    BY <1>1, <1>9
  <2>2. n >= Len(waiters[p])
    BY <1>3
  <2> QED
    BY <1>4, <1>5, <1>10, <2>1, <2>2, ToldWoken
<1>12. Places'
  <2>1. pc'[Recycler] \in {"idle", "leave"} \cup Waiting /\ (pc'[Recycler] # "idle" => pc[Recycler] # "idle")
    BY <1>5 DEF Places, Thread, Waiting
  <2> QED
    BY <1>1, <1>6, <1>7, <2>1 DEF Places, Waiting
<1>13. HeavyIsBounded'
  BY <1>1, <1>6, HeavyUntouched
<1> QED
  BY <1>5, <1>9, <1>10, <1>11, <1>12, <1>13

\* The connections that were rebound are idle again.
LEMMA RequeueStep ==
  ASSUME Inv, Requeue PROVE Inv'
<1> USE DEF Inv
<1>1. /\ keeper.pool \in Pool /\ keeper.took # <<>> /\ keeper' = [pool |-> NoPool, took |-> <<>>]
      /\ UNCHANGED <<current, created, inUse, draining, heavyUsed, open, late, pool, con>>
  BY DEF Requeue, TypeOK, Places
<1>2. PICK p \in Pool : p = keeper.pool
  BY <1>1
<1>3. PICK w \in Seq(Conn) : w = keeper.took /\ w = Taken(p)
  BY <1>2 DEF TypeOK, Taken
<1>4. PICK n \in Nat : n = Len(w)
  BY Elements
<1>5. idle' = [idle EXCEPT ![p] = @ \o w] /\ pc' = Woken(p, n) /\ Unlisted(p, n)
  BY <1>2, <1>3, <1>4 DEF Requeue
<1>6. PICK a : a = idle[p] \o w
  OBVIOUS
<1>7. /\ a \in Seq(Conn) /\ Len(a) = Len(idle[p]) + n /\ ToSet(a) = ToSet(idle[p]) \cup ToSet(w)
      /\ IsInjective(a)
  <2>1. idle[p] \in Seq(Conn) /\ IsInjective(idle[p]) /\ IsInjective(w) /\ ToSet(idle[p]) \cap ToSet(w) = {}
    BY <1>3 DEF TypeOK, Conns
  <2> QED
    BY <2>1, <1>4, <1>6, Joined
<1>8. idle' \in [Pool -> Seq(Conn)] /\ \A q \in Pool : idle'[q] = IF q = p THEN a ELSE idle[q]
  BY <1>5, <1>6, <1>7 DEF TypeOK
<1>9. /\ Listed' /\ waiters' \in [Pool -> Seq(Thread)] /\ pc' \in [Thread -> RequestStep]
      /\ \A u \in Thread : pc[u] \in Waiting => pool'[u] = pool[u] /\ pc'[u] = Woken(p, n)[u]
      /\ \A u \in Thread : pc'[u] = "wait" => pc[u] = "wait"
      /\ \A u \in Thread : pc'[u] = pc[u] \/ (pc[u] \in Waiting /\ pc'[u] \in Waiting)
  BY <1>1, <1>5, KeeperNotifies
<1>10. /\ \A r \in Request : pc'[r] = pc[r] \/ (pc[r] \in Waiting /\ pc'[r] \in Waiting)
       /\ \A r \in Request : pool'[r] = pool[r]
  BY <1>1, <1>9 DEF Thread
<1>11. TypeOK'
  BY <1>1, <1>8, <1>9, EmptySeq DEF TypeOK
<1>12. \A q \in Pool : Taken(q)' = <<>> /\ (q # p => Taken(q) = <<>>)
  BY <1>1, <1>2 DEF Taken
<1>13. \A q \in Pool : Told(q)'
  <2>1. \A q \in Pool \ {p} : idle'[q] = idle[q] /\ inUse'[q] = inUse[q] /\ draining'[q] = draining[q]
    BY <1>1, <1>8
  <2>2. Free(p)' <= Free(p) + n
    <3>1. Free(p) = Len(idle[p]) + (MaxSize - inUse[p]) /\ Free(p)' = Len(a) + (MaxSize - inUse[p])
      BY <1>1, <1>8 DEF Free
    <3>2. Len(idle[p]) \in Nat /\ inUse[p] \in Nat /\ MaxSize \in Nat
      BY FreeType
    <3> QED
      BY <3>1, <3>2, <1>7
  <2>3. draining'[p] = draining[p]
    BY <1>1
  <2> QED
    BY <1>5, <1>9, <1>11, <2>1, <2>2, <2>3, ToldWoken
<1>14. Places'
  <2>1. pc'[Recycler] \in {"idle", "leave"} \cup Waiting /\ (pc'[Recycler] # "idle" => pc[Recycler] # "idle")
    BY <1>9 DEF Places, Thread, Waiting
  <2> QED
    BY <1>1, <1>10, <2>1 DEF Places, Waiting
<1>15. HeavyIsBounded'
  BY <1>1, <1>10, HeavyUntouched
<1>16. Conns'
  <2>1. \A q \in Pool : /\ Queued(q)' = Queued(q)
                        /\ IsInjective(idle'[q]) /\ IsInjective(Taken(q)')
                        /\ ToSet(idle'[q]) \cap ToSet(Taken(q)') = {}
    <3> TAKE q \in Pool
    <3>1. Queued(q) = ToSet(idle[q]) \cup ToSet(Taken(q)) /\ Queued(q)' = ToSet(idle'[q]) \cup ToSet(Taken(q)')
      BY DEF Queued
    <3>2. IsInjective(idle[q]) /\ ToSet(<<>>) = {} /\ IsInjective(<<>>) /\ Taken(q)' = <<>>
      BY EmptyElements, <1>12 DEF Conns
    <3>3. CASE q = p
      BY <3>1, <3>2, <3>3, <1>3, <1>7, <1>8
    <3>4. CASE q # p
      BY <3>1, <3>2, <3>4, <1>8, <1>12
    <3> QED
      BY <3>3, <3>4
  <2>2. \A r \in Request : pc[r] \in Carrying <=> pc'[r] \in Carrying
    BY <1>10 DEF Carrying, Waiting
  <2> QED
    BY <1>1, <2>1, <2>2, ConnsRequeued
<1>17. SlotsAreCounted'
  <2> SUFFICES ASSUME NEW q \in Pool PROVE inUse'[q] = Len(idle'[q]) + Cardinality(Holders(q)') + Len(Taken(q)')
    BY DEF SlotsAreCounted
  <2>1. Holders(q)' = Holders(q)
    BY <1>10 DEF Holders, Holding, Waiting
  <2>2. PICK h \in Nat : h = Cardinality(Holders(q))
    BY FS_Subset, FS_CardinalityType, PoolAssumption DEF Holders
  <2>3. inUse'[q] = Len(idle[q]) + h + Len(Taken(q)) /\ Len(idle[q]) \in Nat
    BY <2>2, <1>1, FreeType DEF SlotsAreCounted
  <2>4. Len(Taken(q)') = 0 /\ Len(Taken(q)) = IF q = p THEN n ELSE 0
    BY <1>3, <1>4, <1>12, EmptyElements
  <2>5. Len(idle'[q]) = IF q = p THEN Len(idle[q]) + n ELSE Len(idle[q])
    BY <1>7, <1>8
  <2>6. PICK i \in Nat : i = Len(idle[q])
    BY <2>3
  <2>7. CASE q = p
    <3>1. inUse'[q] = i + h + n /\ Len(idle'[q]) = i + n
      BY <2>3, <2>4, <2>5, <2>6, <2>7
    <3> QED
      BY <3>1, <2>1, <2>2, <2>4
  <2>8. CASE q # p
    <3>1. inUse'[q] = i + h + 0 /\ Len(idle'[q]) = i
      BY <2>3, <2>4, <2>5, <2>6, <2>8
    <3> QED
      BY <3>1, <2>1, <2>2, <2>4
  <2> QED
    BY <2>7, <2>8
<1> QED
  BY <1>9, <1>11, <1>13, <1>14, <1>15, <1>16, <1>17

\* A pool that nobody refers to is freed.
LEMMA CollectStep ==
  ASSUME Inv, NEW p \in Pool, Collect(p) PROVE Inv'
<1> USE DEF Inv
<1>1. CloseIdle(p) /\ UNCHANGED <<current, created, draining, waiters, heavyUsed, pc, late, pool, con, keeper>>
  BY DEF Collect
<1>2. /\ Conns' /\ SlotsAreCounted'
      /\ idle' \in [Pool -> Seq(Conn)] /\ inUse' \in [Pool -> 0..MaxSize] /\ open' \subseteq Conn
      /\ \A q \in Pool : Free(q)' = Free(q)
  <2>1. \A q \in Pool : Taken(q)' = Taken(q)
    BY <1>1 DEF Taken
  <2> QED
    BY <1>1, <2>1, IdleIsClosed
<1>3. TypeOK'
  BY <1>1, <1>2 DEF TypeOK
<1>4. Places' /\ Listed' /\ HeavyIsBounded'
  BY <1>1, HeavyUntouched DEF Places, Listed
<1>5. \A q \in Pool : Told(q)'
  <2> TAKE q \in Pool
  <2>1. Ready(q)' = Ready(q) /\ Free(q)' = Free(q) /\ Told(q)
    BY <1>1, <1>2 DEF Ready
  <2> QED
    BY <2>1, <1>1 DEF Told
<1> QED
  BY <1>2, <1>3, <1>4, <1>5

-----------------------------------------------------------------------------
(* The theorems *)

\* Before the first request there is no pool.
LEMMA InvInit ==
  ASSUME Init PROVE Inv
<1> USE DEF Init
<1>1. NoPool \notin Pool /\ 0 \in 0..MaxSize /\ 0 \in 0..HeavyCap /\ 0 \in 0..MaxPools
  BY PoolAssumption DEF NoPool, Pool
<1>2. TypeOK
  BY <1>1, EmptySeq DEF TypeOK, RequestStep
<1>3. \A t \in Thread : pc[t] = "idle" /\ con[t] = NoConn /\ pool[t] = NoPool
  OBVIOUS
<1>4. Recycler \in Thread /\ \A r \in Request : r \in Thread
  BY DEF Thread
<1>5. \A p \in Pool : /\ idle[p] = <<>> /\ waiters[p] = <<>> /\ inUse[p] = 0 /\ heavyUsed[p] = 0
                      /\ Taken(p) = <<>>
  BY DEF Taken
<1>6. Places
  BY <1>3, <1>4 DEF Places
<1>7. Listed
  BY <1>3, <1>5, EmptyElements DEF Listed
<1>8. \A p \in Pool : Told(p)
  BY <1>3, <1>4 DEF Told
<1>9. Conns
  <2>1. \A p \in Pool : Queued(p) = {}
    BY <1>5, EmptyElements DEF Queued
  <2>2. \A r \in Request : con[r] = NoConn /\ pc[r] \notin Carrying
    BY <1>3, <1>4 DEF Carrying
  <2>3. \A c \in Conn : c # NoConn
    BY DEF Conn, NoConn, NoPool, Pool
  <2>4. \A p \in Pool : IsInjective(idle[p]) /\ IsInjective(Taken(p)) /\ ToSet(idle[p]) \cap ToSet(Taken(p)) = {}
    BY <1>5, EmptyElements
  <2> QED
    BY <2>1, <2>2, <2>3, <2>4 DEF Conns
<1>10. SlotsAreCounted
  <2>1. \A p \in Pool : Holders(p) = {}
    BY <1>3, <1>4 DEF Holders, Holding
  <2>2. Len(<<>>) = 0 /\ Cardinality({}) = 0
    BY EmptyElements, FS_EmptySet
  <2> QED
    <3> SUFFICES ASSUME NEW p \in Pool PROVE inUse[p] = Len(idle[p]) + Cardinality(Holders(p)) + Len(Taken(p))
      BY DEF SlotsAreCounted
    <3>1. inUse[p] = 0 /\ Len(idle[p]) = 0 /\ Cardinality(Holders(p)) = 0 /\ Len(Taken(p)) = 0
      BY <1>5, <2>1, <2>2
    <3> QED
      BY <3>1
<1>11. HeavyIsBounded
  <2>1. \A p \in Pool : HeavyUsers(p) = {}
    BY <1>3, <1>4, PoolAssumption DEF HeavyUsers
  <2>2. Cardinality({}) = 0
    BY FS_EmptySet
  <2> QED
    BY <1>5, <2>1, <2>2 DEF HeavyIsBounded, HeavyUsers
<1> QED
  BY <1>2, <1>6, <1>7, <1>8, <1>9, <1>10, <1>11 DEF Inv

\* A step that changes nothing.
LEMMA InvStutter ==
  ASSUME Inv, UNCHANGED vars PROVE Inv'
<1> USE DEF vars, poolVars
<1>1. TypeOK' /\ Places' /\ Listed'
  BY DEF Inv, TypeOK, Places, Listed
<1>2. \A p \in Pool : Told(p)'
  BY DEF Inv, Told, Free, Ready
<1>3. Conns'
  BY ConnsKept DEF Inv, Taken
<1>4. SlotsAreCounted' /\ HeavyIsBounded'
  BY DEF Inv, SlotsAreCounted, Holders, Taken, HeavyIsBounded
<1> QED
  BY <1>1, <1>2, <1>3, <1>4 DEF Inv

\* The inductive invariant holds in every reachable state: one lemma per action of
\* duckdb_pool.py, the recycle job and the keeper.
THEOREM PoolInvariant == Spec => []Inv
<1>1. Init => Inv
  BY InvInit
<1>2. Inv /\ [Next]_vars => Inv'
  <2> SUFFICES ASSUME Inv, [Next]_vars PROVE Inv'
    OBVIOUS
  <2>1. CASE \E r \in Request : GetPool(r) \/ Checkout(r) \/ Checkin(r)
    <3>1. PICK r \in Request : GetPool(r) \/ Checkout(r) \/ Checkin(r)
      BY <2>1
    <3>2. CASE GetPool(r)
      BY <3>2, GetPoolStep
    <3>3. CASE Checkout(r)
      BY <3>3, AcquireHeavySlotStep, AcquireStep, BuildStep, AttachStep DEF Checkout
    <3>4. CASE Checkin(r)
      BY <3>4, EndUseStep, PutStep, CloseStep, DropStep, LeaveStep DEF Checkin
    <3> QED
      BY <3>1, <3>2, <3>3, <3>4
  <2>2. CASE \E t \in Thread : Deadline(t)
    BY <2>2, DeadlineStep
  <2>3. CASE BeginDrain \/ Recycle
    BY <2>3, BeginDrainStep, WaitDrainedStep, EndDrainStep DEF Recycle
  <2>4. CASE KeeperStarts \/ Keep
    BY <2>4, KeeperStartsStep, WarmIdleStep, RequeueStep, DiscardIdleStep DEF Keep
  <2>5. CASE \E p \in Pool : Collect(p)
    BY <2>5, CollectStep
  <2>6. CASE UNCHANGED vars
    BY <2>6, InvStutter
  <2> QED
    BY <2>1, <2>2, <2>3, <2>4, <2>5, <2>6 DEF Next
<1> QED
  BY <1>1, <1>2, PTL DEF Spec

\* Every variable of the pool stays in its type; _in_use is never negative and never
\* above max_size, the heavy semaphore never above its cap.
THEOREM PoolTypes == Spec => []TypeOK
<1>1. Inv => TypeOK
  BY DEF Inv
<1> QED
  BY <1>1, PoolInvariant, PTL

\* _in_use is the number of connections idle, checked out, being built or taken out
\* by warm_idle, whatever fails or overlaps.
THEOREM PoolSlotsAreCounted == Spec => []SlotsAreCounted
<1>1. Inv => SlotsAreCounted
  BY DEF Inv
<1> QED
  BY <1>1, PoolInvariant, PTL

\* The slots of _heavy_sem in use are those of the heavy requests past
\* acquire_heavy_slot: each is released once, however its request ends.
THEOREM PoolHeavyIsBounded == Spec => []HeavyIsBounded
<1>1. Inv => HeavyIsBounded
  BY DEF Inv
<1> QED
  BY <1>1, PoolInvariant, PTL

\* A connection has one user, is open while it is used or idle, and none is left open
\* without one: a recycle interrupts no query and leaks no connection.
THEOREM PoolOneUserEach == Spec => []OneUserEach
<1>1. Inv => OneUserEach
  <2> SUFFICES ASSUME Inv PROVE OneUserEach
    OBVIOUS
  <2> USE DEF Inv
  <2> DEFINE Users == {r \in Request : con[r] # NoConn}
             Used == {con[r] : r \in Users}
             AllQueued == UNION {ToSet(idle[p]) \cup ToSet(Taken(p)) : p \in Pool}
  <2>1. \A c : c \in AllQueued <=> \E p \in Pool : c \in Queued(p)
    BY DEF Queued
  <2>2. \A c : c \in Used <=> c # NoConn /\ \E r \in Request : con[r] = c
    OBVIOUS
  <2> HIDE DEF AllQueued, Used
  <2>3. \A r, s \in Users : con[r] = con[s] => r = s
    BY DEF Conns
  <2>4. Used \cap AllQueued = {}
    BY <2>1, <2>2 DEF Conns
  <2>5. Used \cup AllQueued = open
    <3>1. Used \subseteq Conn
      BY <2>2 DEF TypeOK, Thread
    <3>2. AllQueued \subseteq Conn
      BY <2>1, ConnFacts DEF Conns
    <3>3. \A c \in Conn : c # NoConn
      BY DEF Conn, NoConn, NoPool, Pool
    <3>4. \A c \in Conn : c \in open <=> c \in Used \/ c \in AllQueued
      BY <2>1, <2>2, <3>3 DEF Conns
    <3>5. open \subseteq Conn
      BY DEF TypeOK
    <3> QED
      BY <3>1, <3>2, <3>4, <3>5
  <2>6. \A p \in Pool : IsInjective(idle[p] \o Taken(p))
    <3> TAKE p \in Pool
    <3>1. idle[p] \in Seq(Conn) /\ Taken(p) \in Seq(Conn)
      BY TakenType DEF TypeOK
    <3> QED
      BY <3>1, Joined DEF Conns
  <2> QED
    BY <2>3, <2>4, <2>5, <2>6 DEF OneUserEach, AllQueued, Used
<1> QED
  BY <1>1, PoolInvariant, PTL

\* No request sleeps beside a free connection or slot that nobody was told of.
THEOREM PoolNobodyOversleeps == Spec => []NobodyOversleeps
<1>1. Inv => NobodyOversleeps
  <2> SUFFICES ASSUME Inv, NEW p \in Pool, NEW r \in Request, pool[r] = p /\ pc[r] = "wait", ~draining[p]
               PROVE  Len(idle[p]) + (MaxSize - inUse[p])
                        <= Cardinality({s \in Request \ ReuseOnly : pool[s] = p /\ pc[s] = "check"})
    BY DEF NobodyOversleeps
  <2> DEFINE Looking == {s \in Request \ ReuseOnly : pool[s] = p /\ pc[s] = "check"}
  <2>1. Free(p) <= Cardinality(Ready(p)) /\ Free(p) \in Nat
    BY FreeType DEF Inv, Told
  <2>2. Ready(p) \subseteq Looking
    BY DEF Ready
  <2>3. IsFiniteSet(Looking)
    BY FS_Subset, PoolAssumption
  <2> HIDE DEF Looking
  <2>4. Cardinality(Ready(p)) <= Cardinality(Looking) /\ Cardinality(Ready(p)) \in Nat /\ Cardinality(Looking) \in Nat
    BY <2>2, <2>3, FS_Subset, FS_CardinalityType
  <2>5. Free(p) <= Cardinality(Looking)
    BY <2>1, <2>4
  <2> QED
    BY <2>5 DEF Free, Looking
<1> QED
  BY <1>1, PoolInvariant, PTL
=============================================================================
