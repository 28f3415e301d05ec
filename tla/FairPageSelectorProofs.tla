----------------------- MODULE FairPageSelectorProofs -----------------------
(***************************************************************************)
(* Proofs about FairPageSelector for every number of services and domains, *)
(* every capacity and every weight the constructor accepts.                *)
(*                                                                         *)
(* The argument: a domain at place i of its queue has waited, and still    *)
(* has to wait, for at most NDomains ticks in all, because every tick      *)
(* takes one place off the front of every queue.  What a tick selects and  *)
(* what it leaves queued are all the pairs, each once, so a tick that ends *)
(* with room has left nothing.  With equal weights, pages given plus       *)
(* credit kept are the same for every service, as long as a pass that      *)
(* tops up credit finds every service with backlog.                        *)
(***************************************************************************)
EXTENDS FairPageSelector, FiniteSetTheorems, SequenceTheorems, TLAPS

\* What a tick has selected and what is queued are all pairs, each of them once.
\* Between ticks the queues hold what queued says.
Queues ==
    /\ capacity >= NServices
    /\ IsInjective(selected) /\ \A s \in Service : IsInjective(queues[s])
    /\ pc # "idle" => queued = Pair
    /\ pc # "idle" => \A s \in Service, d \in Domain : d \in ToSet(queues[s]) <=> <<s, d>> \notin ToSet(selected)
    /\ pc = "idle" => \A s \in Service, d \in Domain : d \in ToSet(queues[s]) <=> <<s, d>> \in queued

\* One page for this tick has been taken from the queue of s.
Got(s) == IF pc = "spend" \/ (pc = "first" /\ s < turn) THEN 1 ELSE 0

\* How far the first loop has come; when it is over, every service has its page.
Room ==
    /\ Len(selected) <= capacity
    /\ pc = "first" => Len(selected) = turn - 1
    /\ pc = "first" => \A s \in Service : s >= turn => \A p \in ToSet(selected) : p[1] # s
    /\ pc # "idle" => \A s \in Service : Got(s) = 1 => \E p \in ToSet(selected) : p[1] = s
    /\ pc = "idle" /\ ticks > 0 => \A s \in Service : \E p \in ToSet(selected) : p[1] = s
    /\ pc = "idle" /\ ticks > 0 => Full \/ ToSet(selected) = Pair

\* A domain at place i of its queue has waited for at most NDomains - i ticks, one
\* less once this tick has taken its first page.
Places ==
    /\ \A s \in Service : \A i \in 1..Len(queues[s]) :
           waited[<<s, queues[s][i]>>] + i + Got(s) <= NDomains
    /\ pc = "idle" => \A p \in Pair : p \notin queued => waited[p] = 0
    /\ BoundedWait

\* A pass that has made no progress so far has found room and backlog, and nobody
\* with both backlog and credit.
Stuck ==
    pc = "spend" /\ turn > 1 /\ ~progressed =>
        ~Full /\ Backlog # {} /\ \A s \in Service : s < turn /\ s \in Backlog => deficits[s] = 0

\* The case EqualShares is about.
Even == (\A s \in Service : weights[s] = 1) /\ capacity <= NServices * (NDomains - 1)

\* Pages given, with credit kept, without what is still queued.
Left(s) == IF pc = "idle" THEN 0 ELSE Len(queues[s])
Account(s) == served[s] + deficits[s] - Left(s) - Got(s)

Shares ==
    Even => /\ \A s \in Service : deficits[s] <= 1
            /\ \A s, t \in Service : Account(s) = Account(t)
            /\ \A s, t \in Service : served[s] <= served[t] + 1

\* The inductive invariant.
Inv == TypeOK /\ Queues /\ Room /\ Places /\ Stuck /\ Shares

\* The first loop never skips a service: neither its break nor its test of the
\* queue ever applies.
FirstLoopServes == pc = "first" /\ turn <= NServices => turn \in Backlog /\ ~Full

\* A tick never runs a pair twice, and runs a page of every service.
EveryServiceOnce ==
    /\ IsInjective(selected)
    /\ pc = "idle" /\ ticks > 0 => \A s \in Service : \E p \in ToSet(selected) : p[1] = s

\* A pass that made no progress leaves someone who can go on in the next one.
IdlePassFunds == [][NextPass /\ ~progressed => \E s \in Service : MaySpend(s)']_vars

-----------------------------------------------------------------------------
(* Sequences without repetition *)

\* The elements of a sequence.
LEMMA Elements ==
  ASSUME NEW S, NEW s \in Seq(S)
  PROVE  /\ ToSet(s) \subseteq S /\ Len(s) \in Nat
         /\ DOMAIN s = 1..Len(s)
         /\ s = <<>> <=> ToSet(s) = {}
         /\ s = <<>> <=> Len(s) = 0
<1>1. Len(s) \in Nat /\ DOMAIN s = 1..Len(s) /\ \A i \in 1..Len(s) : s[i] \in S
  BY LenProperties, ElementOfSeq
<1>2. s = <<>> <=> Len(s) = 0
  BY EmptySeq
<1>3. s # <<>> => s[1] \in ToSet(s)
  BY <1>1, <1>2 DEF ToSet
<1>4. s = <<>> => ToSet(s) = {}
  BY <1>1, <1>2 DEF ToSet
<1>5. ToSet(s) \subseteq S
  BY <1>1 DEF ToSet
<1> QED
  BY <1>1, <1>2, <1>3, <1>4, <1>5

\* The empty sequence.
LEMMA EmptyElements == ToSet(<<>>) = {} /\ Len(<<>>) = 0 /\ IsInjective(<<>>)
  BY DEF ToSet, IsInjective

\* An element at the end.
LEMMA Appended ==
  ASSUME NEW S, NEW s \in Seq(S), NEW e \in S
  PROVE  /\ Append(s, e) \in Seq(S) /\ Len(Append(s, e)) = Len(s) + 1
         /\ ToSet(Append(s, e)) = ToSet(s) \cup {e}
         /\ IsInjective(s) /\ e \notin ToSet(s) => IsInjective(Append(s, e))
<1> DEFINE a == Append(s, e)
<1>1. /\ a \in Seq(S) /\ Len(a) = Len(s) + 1 /\ a[Len(s) + 1] = e
      /\ \A i \in 1..Len(s) : a[i] = s[i]
  BY AppendProperties
<1>2. DOMAIN s = 1..Len(s) /\ DOMAIN a = 1..(Len(s) + 1) /\ Len(s) \in Nat
  BY <1>1, Elements
<1> HIDE DEF a
<1>3. ToSet(a) = ToSet(s) \cup {e}
  BY <1>1, <1>2 DEF ToSet
<1>4. IsInjective(s) /\ e \notin ToSet(s) => IsInjective(a)
  BY <1>1, <1>2 DEF ToSet, IsInjective
<1> QED
  BY <1>1, <1>3, <1>4 DEF a

\* Two sequences, one after the other.
LEMMA Joined ==
  ASSUME NEW S, NEW s \in Seq(S), NEW t \in Seq(S)
  PROVE  /\ s \o t \in Seq(S) /\ Len(s \o t) = Len(s) + Len(t)
         /\ ToSet(s \o t) = ToSet(s) \cup ToSet(t)
         /\ IsInjective(s) /\ IsInjective(t) /\ ToSet(s) \cap ToSet(t) = {} => IsInjective(s \o t)
<1> DEFINE a == s \o t
<1>1. /\ a \in Seq(S) /\ Len(a) = Len(s) + Len(t)
      /\ \A i \in 1..(Len(s) + Len(t)) : a[i] = IF i <= Len(s) THEN s[i] ELSE t[i - Len(s)]
  BY ConcatProperties
<1>2. /\ DOMAIN s = 1..Len(s) /\ DOMAIN t = 1..Len(t) /\ DOMAIN a = 1..(Len(s) + Len(t))
      /\ Len(s) \in Nat /\ Len(t) \in Nat
  BY <1>1, Elements
<1> HIDE DEF a
<1>3. ToSet(a) = ToSet(s) \cup ToSet(t)
  <2>1. \A i \in 1..Len(s) : a[i] = s[i]
    BY <1>1, <1>2
  <2>2. ASSUME NEW i \in 1..Len(t) PROVE Len(s) + i \in DOMAIN a /\ a[Len(s) + i] = t[i]
    <3>1. Len(s) + i \in 1..(Len(s) + Len(t)) /\ ~(Len(s) + i <= Len(s)) /\ Len(s) + i - Len(s) = i
      BY <1>2
    <3> QED
      BY <3>1, <1>1, <1>2
  <2>3. ToSet(s) \subseteq ToSet(a) /\ ToSet(t) \subseteq ToSet(a)
    BY <2>1, <2>2, <1>2 DEF ToSet
  <2>4. ASSUME NEW i \in DOMAIN a PROVE a[i] \in ToSet(s) \cup ToSet(t)
    <3>1. CASE i <= Len(s)
      BY <3>1, <1>1, <1>2 DEF ToSet
    <3>2. CASE i > Len(s)
      <4>1. i - Len(s) \in 1..Len(t) /\ a[i] = t[i - Len(s)]
        BY <3>2, <1>1, <1>2
      <4> QED
        BY <4>1, <1>2 DEF ToSet
    <3> QED
      BY <3>1, <3>2, <1>2
  <2>5. ToSet(a) = {a[i] : i \in DOMAIN a}
    BY DEF ToSet
  <2> QED
    BY <2>3, <2>4, <2>5
<1>4. ASSUME IsInjective(s), IsInjective(t), ToSet(s) \cap ToSet(t) = {} PROVE IsInjective(a)
  <2> SUFFICES ASSUME NEW i \in DOMAIN a, NEW j \in DOMAIN a, a[i] = a[j] PROVE i = j
    BY DEF IsInjective
  <2>1. \A k \in 1..Len(s), l \in 1..Len(t) : s[k] # t[l]
    BY <1>2, <1>4 DEF ToSet
  <2>2. CASE i <= Len(s) /\ j <= Len(s)
    BY <2>2, <1>1, <1>2, <1>4 DEF IsInjective
  <2>3. CASE i > Len(s) /\ j > Len(s)
    <3>1. i - Len(s) \in 1..Len(t) /\ j - Len(s) \in 1..Len(t) /\ t[i - Len(s)] = t[j - Len(s)]
      BY <2>3, <1>1, <1>2
    <3>2. i - Len(s) = j - Len(s)
      BY <3>1, <1>2, <1>4 DEF IsInjective
    <3>3. PICK k \in Nat : k = Len(s)
      BY <1>2
    <3>4. i \in Int /\ j \in Int
      BY <1>2
    <3>5. i - k = j - k
      BY <3>2, <3>3
    <3> QED
      BY <3>4, <3>5
  <2>4. CASE i <= Len(s) /\ j > Len(s)
    <3>1. i \in 1..Len(s) /\ j - Len(s) \in 1..Len(t) /\ s[i] = t[j - Len(s)]
      BY <2>4, <1>1, <1>2
    <3> QED
      BY <3>1, <2>1, Zenon
  <2>5. CASE i > Len(s) /\ j <= Len(s)
    <3>1. j \in 1..Len(s) /\ i - Len(s) \in 1..Len(t) /\ s[j] = t[i - Len(s)]
      BY <2>5, <1>1, <1>2
    <3> QED
      BY <3>1, <2>1, Zenon
  <2> QED
    BY <2>2, <2>3, <2>4, <2>5, <1>2
<1> QED
  BY <1>1, <1>3, <1>4 DEF a

\* The first element is taken out: everyone else moves up one place.
LEMMA Popped ==
  ASSUME NEW S, NEW s \in Seq(S), s # <<>>
  PROVE  /\ Head(s) \in ToSet(s) /\ Tail(s) \in Seq(S) /\ Len(Tail(s)) = Len(s) - 1
         /\ Len(s) >= 1
         /\ \A i \in 1..Len(Tail(s)) : i + 1 \in 1..Len(s) /\ Tail(s)[i] = s[i + 1]
         /\ IsInjective(s) => IsInjective(Tail(s)) /\ ToSet(Tail(s)) = ToSet(s) \ {Head(s)}
<1> DEFINE t == Tail(s)
<1>1. Len(s) \in Nat \ {0} /\ DOMAIN s = 1..Len(s)
  BY Elements
<1>2. /\ Head(s) = s[1] /\ t \in Seq(S) /\ Len(t) = Len(s) - 1
      /\ \A i \in 1..Len(t) : t[i] = s[i + 1]
  BY HeadTailProperties
<1>3. DOMAIN t = 1..Len(t)
  BY <1>2, Elements
<1> HIDE DEF t
<1>4. \A i \in 1..Len(t) : i + 1 \in 1..Len(s)
  BY <1>1, <1>2
<1>5. Head(s) \in ToSet(s)
  BY <1>1, <1>2 DEF ToSet
<1>6. ASSUME IsInjective(s) PROVE IsInjective(t) /\ ToSet(t) = ToSet(s) \ {Head(s)}
  <2>1. ASSUME NEW i \in 1..Len(t), NEW j \in 1..Len(t), t[i] = t[j] PROVE i = j
    <3>1. s[i + 1] = s[j + 1] /\ i + 1 \in DOMAIN s /\ j + 1 \in DOMAIN s
      BY <2>1, <1>1, <1>2, <1>4
    <3>2. i + 1 = j + 1
      BY <3>1, <1>6 DEF IsInjective
    <3> QED
      BY <3>2
  <2>2. IsInjective(t)
    BY <2>1, <1>3 DEF IsInjective
  <2>3. ASSUME NEW i \in 1..Len(t) PROVE t[i] \in ToSet(s) /\ t[i] # Head(s)
    <3>1. t[i] = s[i + 1] /\ i + 1 \in DOMAIN s /\ i + 1 # 1 /\ 1 \in DOMAIN s
      BY <1>1, <1>2, <1>4
    <3> QED
      BY <3>1, <1>2, <1>6 DEF IsInjective, ToSet
  <2>4. ASSUME NEW x \in ToSet(s) \ {Head(s)} PROVE x \in ToSet(t)
    <3>1. PICK i \in 1..Len(s) : x = s[i]
      BY <1>1 DEF ToSet
    <3>2. i # 1
      BY <3>1, <1>2, <2>4
    <3>3. i - 1 \in 1..Len(t) /\ (i - 1) + 1 = i
      BY <3>2, <1>1, <1>2
    <3>4. t[i - 1] = x
      BY <3>1, <3>3, <1>2
    <3> QED
      BY <3>3, <3>4, <1>3 DEF ToSet
  <2>5. ToSet(t) = {t[i] : i \in 1..Len(t)}
    BY <1>3 DEF ToSet
  <2> QED
    BY <2>2, <2>3, <2>4, <2>5
<1> QED
  BY <1>1, <1>2, <1>4, <1>5, <1>6 DEF t

-----------------------------------------------------------------------------
(* Counting *)

\* A sequence without repetition has as many elements as places.
LEMMA CountElements ==
  ASSUME NEW S, NEW s \in Seq(S), IsInjective(s)
  PROVE  IsFiniteSet(ToSet(s)) /\ Cardinality(ToSet(s)) = Len(s)
<1>1. Len(s) \in Nat /\ DOMAIN s = 1..Len(s) /\ s \in [1..Len(s) -> S]
  BY LenProperties
<1>2. ToSet(s) = {s[i] : i \in 1..Len(s)}
  BY <1>1 DEF ToSet
<1>3. s \in [1..Len(s) -> ToSet(s)] /\ \A x \in ToSet(s) : \E i \in 1..Len(s) : s[i] = x
  BY <1>1, <1>2
<1>4. \A i, j \in 1..Len(s) : s[i] = s[j] => i = j
  BY <1>1 DEF IsInjective
<1>5. s \in Bijection(1..Len(s), ToSet(s))
  BY <1>3, <1>4 DEF Bijection, Injection, Surjection, IsInjective
<1>6. ExistsBijection(1..Len(s), ToSet(s))
  BY <1>5 DEF ExistsBijection
<1>7. IsFiniteSet(1..Len(s)) /\ Cardinality(1..Len(s)) = Len(s)
  <2>1. 1 \in Int /\ Len(s) \in Int
    BY <1>1
  <2>2. IsFiniteSet(1..Len(s)) /\ Cardinality(1..Len(s)) = IF 1 > Len(s) THEN 0 ELSE Len(s) - 1 + 1
    BY <2>1, FS_Interval
  <2> QED
    BY <2>2, <1>1
<1> QED
  BY <1>6, <1>7, FS_Bijection

\* How many domains, services and pairs there are.
LEMMA Sizes ==
  /\ IsFiniteSet(Domain) /\ Cardinality(Domain) = NDomains
  /\ IsFiniteSet(Service) /\ Cardinality(Service) = NServices
  /\ IsFiniteSet(Pair) /\ Cardinality(Pair) = NServices * NDomains
  /\ NDomains \in Nat \ {0} /\ NServices \in Nat \ {0}
<1>0. NDomains \in Nat \ {0} /\ NServices \in Nat \ {0}
  BY SelectorAssumption
<1>1. 1 \in Int /\ NDomains \in Int /\ NServices \in Int
  BY <1>0
<1>2. IsFiniteSet(Domain) /\ Cardinality(Domain) = IF 1 > NDomains THEN 0 ELSE NDomains - 1 + 1
  BY <1>1, FS_Interval DEF Domain
<1>3. IsFiniteSet(Service) /\ Cardinality(Service) = IF 1 > NServices THEN 0 ELSE NServices - 1 + 1
  BY <1>1, FS_Interval DEF Service
<1>4. Cardinality(Domain) = NDomains /\ Cardinality(Service) = NServices
  BY <1>0, <1>2, <1>3
<1>5. IsFiniteSet(Pair) /\ Cardinality(Pair) = Cardinality(Service) * Cardinality(Domain)
  BY <1>2, <1>3, FS_Product DEF Pair
<1> QED
  BY <1>0, <1>2, <1>3, <1>4, <1>5

\* Sorted lists every domain of a set once.
LEMMA SortedLists ==
  ASSUME NEW D \in SUBSET Domain
  PROVE  Sorted(D) \in Seq(Domain) /\ IsInjective(Sorted(D)) /\ ToSet(Sorted(D)) = D
<1> DEFINE n == Cardinality(D)
           Below(d) == {e \in D : e < d}
           rank == [d \in D |-> Cardinality(Below(d)) + 1]
           Ordered(q) == \A i, j \in 1..n : i < j => q[i] < q[j]
<1>1. IsFiniteSet(D) /\ n \in Nat
  BY Sizes, FS_Subset, FS_CardinalityType
<1>2. \A d \in D : d \in Int
  BY DEF Domain
<1>3. ASSUME NEW d \in D
      PROVE  IsFiniteSet(Below(d)) /\ Cardinality(Below(d)) \in Nat /\ Cardinality(Below(d)) < n
  <2>1. Below(d) \in SUBSET D /\ d \notin Below(d)
    BY <1>2
  <2>2. IsFiniteSet(Below(d)) /\ Cardinality(Below(d)) <= n /\ (n = Cardinality(Below(d)) => D = Below(d))
    BY <2>1, <1>1, FS_Subset
  <2>3. Cardinality(Below(d)) \in Nat
    BY <2>2, FS_CardinalityType
  <2>4. n # Cardinality(Below(d))
    BY <2>1, <2>2
  <2> QED
    BY <2>2, <2>3, <2>4, <1>1
<1>4. ASSUME NEW d \in D, NEW e \in D, d < e PROVE Cardinality(Below(d)) < Cardinality(Below(e))
  <2>1. Below(d) \in SUBSET Below(e) /\ d \in Below(e) /\ d \notin Below(d)
    BY <1>2, <1>4
  <2>2. /\ Cardinality(Below(d)) <= Cardinality(Below(e))
        /\ Cardinality(Below(e)) = Cardinality(Below(d)) => Below(e) = Below(d)
    BY <2>1, <1>3, FS_Subset
  <2>3. Cardinality(Below(d)) # Cardinality(Below(e))
    BY <2>1, <2>2
  <2>4. Cardinality(Below(d)) \in Nat /\ Cardinality(Below(e)) \in Nat
    BY <1>3
  <2> QED
    BY <2>2, <2>3, <2>4
<1>5. \A d \in D : rank[d] \in 1..n
  <2> TAKE d \in D
  <2>1. Cardinality(Below(d)) \in Nat /\ Cardinality(Below(d)) < n
    BY <1>3
  <2>2. rank[d] = Cardinality(Below(d)) + 1
    OBVIOUS
  <2> QED
    BY <2>1, <2>2, <1>1
<1>6. \A d, e \in D : d < e => rank[d] < rank[e]
  <2> SUFFICES ASSUME NEW d \in D, NEW e \in D, d < e PROVE rank[d] < rank[e]
    OBVIOUS
  <2>1. Cardinality(Below(d)) < Cardinality(Below(e))
    BY <1>4
  <2>2. rank[d] = Cardinality(Below(d)) + 1 /\ rank[e] = Cardinality(Below(e)) + 1
    OBVIOUS
  <2>3. Cardinality(Below(d)) \in Nat /\ Cardinality(Below(e)) \in Nat
    BY <1>3
  <2> QED
    BY <2>1, <2>2, <2>3
<1>7. rank \in [D -> 1..n]
  BY <1>5
<1> HIDE DEF rank, Below
<1>8. \A d, e \in D : rank[d] = rank[e] => d = e
  <2> SUFFICES ASSUME NEW d \in D, NEW e \in D, rank[d] = rank[e], d # e PROVE FALSE
    OBVIOUS
  <2>1. d < e \/ e < d
    BY <1>2
  <2>2. rank[d] < rank[e] \/ rank[e] < rank[d]
    BY <2>1, <1>6
  <2>3. rank[d] \in Int /\ rank[e] \in Int
    BY <1>5
  <2> QED
    BY <2>2, <2>3
<1>9. IsFiniteSet(1..n) /\ Cardinality(1..n) = n
  <2>1. 1 \in Int /\ n \in Int
    BY <1>1
  <2>2. IsFiniteSet(1..n) /\ Cardinality(1..n) = IF 1 > n THEN 0 ELSE n - 1 + 1
    BY <2>1, FS_Interval
  <2> QED
    BY <2>2, <1>1
<1>10. rank \in Surjection(D, 1..n)
  <2>1. rank \in Injection(D, 1..n)
    BY <1>7, <1>8 DEF Injection, IsInjective
  <2> QED
    BY <2>1, <1>9, FS_Injection
<1>11. \A i \in 1..n : \E d \in D : rank[d] = i
  BY <1>10 DEF Surjection
<1> DEFINE q == [i \in 1..n |-> CHOOSE d \in D : rank[d] = i]
<1>12. \A i \in 1..n : q[i] \in D /\ rank[q[i]] = i
  BY <1>11
<1>13. q \in [1..n -> D]
  BY <1>12
<1> HIDE DEF q
<1>14. Ordered(q)
  <2> SUFFICES ASSUME NEW i \in 1..n, NEW j \in 1..n, i < j PROVE q[i] < q[j]
    OBVIOUS
  <2>1. q[i] \in D /\ q[j] \in D /\ rank[q[i]] = i /\ rank[q[j]] = j
    BY <1>12
  <2>2. ~(q[j] < q[i]) /\ q[i] # q[j]
    <3>1. q[j] < q[i] => j < i
      BY <2>1, <1>6
    <3>2. q[i] = q[j] => i = j
      BY <2>1
    <3> QED
      BY <3>1, <3>2
  <2> QED
    BY <2>1, <2>2, <1>2
<1> DEFINE w == Sorted(D)
<1>15. w \in [1..n -> D] /\ Ordered(w)
  <2>1. \E r \in [1..n -> D] : Ordered(r)
    BY <1>13, <1>14
  <2>2. w = CHOOSE r \in [1..n -> D] : Ordered(r)
    BY DEF Sorted
  <2> HIDE DEF w, Ordered, n
  <2> QED
    BY <2>1, <2>2
<1> HIDE DEF w
<1>16. \A i, j \in 1..n : w[i] = w[j] => i = j
  <2> SUFFICES ASSUME NEW i \in 1..n, NEW j \in 1..n, w[i] = w[j], i # j PROVE FALSE
    OBVIOUS
  <2>1. i < j \/ j < i
    BY <1>1
  <2>2. w[i] \in Int /\ w[j] \in Int
    BY <1>2, <1>15
  <2>3. w[i] < w[j] \/ w[j] < w[i]
    BY <2>1, <1>15
  <2> QED
    BY <2>2, <2>3
<1>17. w \in Seq(Domain) /\ DOMAIN w = 1..n
  <2>1. w \in [1..n -> Domain]
    BY <1>15
  <2> HIDE DEF n
  <2>2. w \in Seq(Domain)
    BY <2>1, <1>1, SeqDef
  <2> QED
    BY <2>1, <2>2
<1>18. w \in Injection(1..n, D)
  BY <1>15, <1>16 DEF Injection, IsInjective
<1>19. w \in Surjection(1..n, D)
  BY <1>18, <1>9, <1>1, FS_Injection
<1>20. ToSet(w) = D
  <2>1. \A d \in D : \E i \in 1..n : w[i] = d
    BY <1>19 DEF Surjection
  <2> QED
    BY <2>1, <1>15, <1>17 DEF ToSet
<1>21. IsInjective(w)
  BY <1>16, <1>17 DEF IsInjective
<1> QED
  BY <1>17, <1>20, <1>21 DEF w

-----------------------------------------------------------------------------
(* One lemma per action *)

\* A fresh selector, before its first tick.
LEMMA InitInv == Init => Inv
<1> SUFFICES ASSUME Init PROVE Inv
  OBVIOUS
<1> USE DEF Init
<1>1. NServices \in Nat \ {0} /\ NDomains \in Nat \ {0} /\ MaxTicks \in Nat
  BY SelectorAssumption
<1>2. PICK k \in Int : k = NServices * NDomains + 1
  BY <1>1
<1>3. capacity \in Nat \ {0} /\ capacity >= NServices
  BY <1>1, <1>2
<1>4. \A s \in Service : queues[s] = <<>> /\ deficits[s] = 0 /\ served[s] = 0
  OBVIOUS
<1>5. ToSet(<<>>) = {} /\ Len(<<>>) = 0 /\ IsInjective(<<>>)
  BY EmptyElements
<1>6. TypeOK
  <2>1. <<>> \in Seq(Domain) /\ <<>> \in Seq(Pair)
    OBVIOUS
  <2>2. queues \in [Service -> Seq(Domain)] /\ selected \in Seq(Pair)
    BY <2>1
  <2>3. /\ deficits \in [Service -> Nat] /\ waited \in [Pair -> Nat] /\ served \in [Service -> Nat]
        /\ weights \in [Service -> 1..MaxWeight] /\ queued \subseteq Pair
        /\ pc \in {"idle", "first", "spend"} /\ progressed \in BOOLEAN
    OBVIOUS
  <2>4. turn \in 1..(NServices + 1) /\ ticks \in 0..MaxTicks
    BY <1>1
  <2> HIDE DEF Init
  <2> QED
    BY <1>3, <2>2, <2>3, <2>4 DEF TypeOK
<1>7. Queues
  BY <1>3, <1>4, <1>5 DEF Queues
<1>8. Room
  BY <1>1, <1>3, <1>5 DEF Room
<1>9. Places
  <2>1. \A s \in Service : 1..Len(queues[s]) = {}
    BY <1>4, <1>5
  <2>2. BoundedWait
    BY <1>1 DEF BoundedWait
  <2> QED
    BY <2>1, <2>2 DEF Places
<1>10. Stuck
  BY DEF Stuck
<1>11. Shares
  BY <1>4 DEF Shares, Account, Left, Got
<1> QED
  BY <1>6, <1>7, <1>8, <1>9, <1>10, <1>11 DEF Inv

\* A queue has no more places than there are domains, and none is free if all
\* domains are queued.
LEMMA QueueLength ==
  ASSUME NEW q \in Seq(Domain), IsInjective(q)
  PROVE  /\ Len(q) \in Nat /\ Len(q) <= NDomains
         /\ ToSet(q) = Domain => Len(q) = NDomains
<1>1. Len(q) \in Nat /\ ToSet(q) \in SUBSET Domain
  BY Elements
<1>2. Cardinality(ToSet(q)) = Len(q)
  BY CountElements
<1>3. Cardinality(ToSet(q)) <= Cardinality(Domain)
  BY <1>1, Sizes, FS_Subset
<1> QED
  BY <1>1, <1>2, <1>3, Sizes

\* select begins.
LEMMA StartSelectInv == Inv /\ StartSelect => Inv'
<1> SUFFICES ASSUME Inv, StartSelect PROVE Inv'
  OBVIOUS
<1> USE DEF Inv
<1> DEFINE New(s) == {d \in Domain : <<s, d>> \notin queued}
           old(s) == queues[s]
           add(s) == Sorted(New(s))
<1>0. NServices \in Nat \ {0} /\ NDomains \in Nat \ {0} /\ MaxTicks \in Nat
  BY SelectorAssumption
<1>1. /\ pc = "idle" /\ pc' = "first" /\ turn' = 1 /\ selected' = <<>> /\ queued' = Pair
      /\ ticks' = ticks + 1 /\ ticks < MaxTicks
      /\ capacity' = capacity /\ weights' = weights /\ deficits' = deficits
      /\ progressed' = progressed /\ waited' = waited /\ served' = served
      /\ queues' = [s \in Service |-> old(s) \o add(s)]
  BY DEF StartSelect, Enqueue, config
<1>2. ASSUME NEW s \in Service
      PROVE  /\ old(s) \in Seq(Domain) /\ IsInjective(old(s))
             /\ add(s) \in Seq(Domain) /\ IsInjective(add(s))
             /\ ToSet(add(s)) = New(s) /\ ToSet(old(s)) = Domain \ New(s)
  <2>1. New(s) \in SUBSET Domain
    OBVIOUS
  <2>2. add(s) \in Seq(Domain) /\ IsInjective(add(s)) /\ ToSet(add(s)) = New(s)
    BY <2>1, SortedLists
  <2>3. old(s) \in Seq(Domain) /\ IsInjective(old(s))
    BY DEF TypeOK, Queues
  <2>4. ToSet(old(s)) \subseteq Domain
    BY <2>3, Elements
  <2>5. \A d \in Domain : d \in ToSet(old(s)) <=> <<s, d>> \in queued
    BY <1>1 DEF Queues
  <2>6. ToSet(old(s)) = Domain \ New(s)
    BY <2>4, <2>5
  <2> QED
    BY <2>2, <2>3, <2>6
<1> HIDE DEF old, add, New
<1>3. ASSUME NEW s \in Service
      PROVE  /\ queues'[s] \in Seq(Domain) /\ IsInjective(queues'[s]) /\ ToSet(queues'[s]) = Domain
             /\ Len(queues'[s]) = NDomains /\ Len(queues'[s]) = Len(old(s)) + Len(add(s))
  <2>1. queues'[s] = old(s) \o add(s)
    BY <1>1
  <2>2. New(s) \subseteq Domain
    BY DEF New
  <2>3. ToSet(old(s)) \cap ToSet(add(s)) = {} /\ ToSet(old(s)) \cup ToSet(add(s)) = Domain
    BY <1>2, <2>2
  <2>4. /\ old(s) \o add(s) \in Seq(Domain) /\ Len(old(s) \o add(s)) = Len(old(s)) + Len(add(s))
        /\ ToSet(old(s) \o add(s)) = ToSet(old(s)) \cup ToSet(add(s))
        /\ IsInjective(old(s)) /\ IsInjective(add(s)) /\ ToSet(old(s)) \cap ToSet(add(s)) = {}
             => IsInjective(old(s) \o add(s))
    <3>1. old(s) \in Seq(Domain) /\ add(s) \in Seq(Domain)
      BY <1>2
    <3> QED
      BY <3>1, Joined
  <2>5. queues'[s] \in Seq(Domain) /\ IsInjective(queues'[s]) /\ ToSet(queues'[s]) = Domain
    BY <1>2, <2>1, <2>3, <2>4
  <2>6. Len(queues'[s]) = NDomains
    BY <2>5, QueueLength
  <2> QED
    BY <2>1, <2>4, <2>5, <2>6
<1>4. ToSet(selected') = {} /\ Len(selected') = 0 /\ IsInjective(selected')
  BY <1>1, EmptyElements
<1>5. TypeOK'
  <2>1. queues' \in [Service -> Seq(Domain)]
    BY <1>1, <1>3
  <2>2. ticks' \in 0..MaxTicks
    BY <1>0, <1>1 DEF TypeOK
  <2>3. selected' \in Seq(Pair) /\ turn' \in 1..(NServices + 1)
    BY <1>0, <1>1
  <2> QED
    BY <1>1, <2>1, <2>2, <2>3 DEF TypeOK
<1>6. Queues'
  <2>1. \A s \in Service, d \in Domain : d \in ToSet(queues'[s]) <=> <<s, d>> \notin ToSet(selected')
    BY <1>3, <1>4
  <2> QED
    BY <1>1, <1>3, <1>4, <2>1 DEF Queues
<1>7. Room'
  <2>1. \A s \in Service : ~(s < turn')
    BY <1>0, <1>1 DEF Service
  <2>2. Len(selected') <= capacity'
    BY <1>0, <1>1, <1>4 DEF TypeOK
  <2> QED
    BY <1>0, <1>1, <1>4, <2>1, <2>2 DEF Room, Got
<1>8. Places'
  <2>1. ASSUME NEW s \in Service, NEW i \in 1..Len(queues'[s])
        PROVE  waited'[<<s, queues'[s][i]>>] + i + Got(s)' <= NDomains
    <3>1. Got(s)' = 0 /\ Got(s) = 0
      BY <1>0, <1>1 DEF Got, Service
    <3>2. Len(old(s)) \in Nat /\ Len(add(s)) \in Nat /\ i \in Nat /\ i <= NDomains
      <4>1. old(s) \in Seq(Domain) /\ add(s) \in Seq(Domain)
        BY <1>2
      <4>2. Len(old(s)) \in Nat /\ Len(add(s)) \in Nat
        BY <4>1, Elements
      <4> QED
        BY <4>2, <1>3, <1>0
    <3>3. queues'[s][i] = IF i <= Len(old(s)) THEN old(s)[i] ELSE add(s)[i - Len(old(s))]
      <4>1. old(s) \in Seq(Domain) /\ add(s) \in Seq(Domain)
        BY <1>2
      <4>2. \A j \in 1..(Len(old(s)) + Len(add(s))) :
              (old(s) \o add(s))[j] = IF j <= Len(old(s)) THEN old(s)[j] ELSE add(s)[j - Len(old(s))]
        BY <4>1, ConcatProperties
      <4> QED
        BY <4>2, <1>1, <1>3
    <3>4. CASE i <= Len(old(s))
      <4>1. i \in 1..Len(old(s)) /\ queues'[s][i] = old(s)[i]
        BY <3>2, <3>3, <3>4
      <4>2. waited[<<s, old(s)[i]>>] + i + Got(s) <= NDomains
        BY <4>1 DEF Places, old
      <4> QED
        BY <1>1, <3>1, <4>1, <4>2
    <3>5. CASE i > Len(old(s))
      <4>1. i - Len(old(s)) \in 1..Len(add(s)) /\ queues'[s][i] = add(s)[i - Len(old(s))]
        BY <3>2, <3>3, <3>5, <1>3
      <4>2. queues'[s][i] \in New(s)
        <5>1. DOMAIN add(s) = 1..Len(add(s))
          BY <1>2, Elements
        <5> QED
          BY <4>1, <5>1, <1>2 DEF ToSet
      <4>3. <<s, queues'[s][i]>> \in Pair /\ <<s, queues'[s][i]>> \notin queued
        BY <4>2 DEF New, Pair
      <4>4. waited[<<s, queues'[s][i]>>] = 0
        BY <4>3, <1>1 DEF Places
      <4> QED
        BY <1>1, <3>1, <3>2, <4>4
    <3> QED
      BY <3>2, <3>4, <3>5
  <2>2. BoundedWait'
    BY <1>1 DEF Places, BoundedWait
  <2> QED
    BY <1>1, <2>1, <2>2 DEF Places
<1>9. Stuck'
  BY <1>1 DEF Stuck
<1>10. Shares'
  <2> SUFFICES ASSUME Even' PROVE
          /\ \A s \in Service : deficits'[s] <= 1
          /\ \A s, t \in Service : Account(s)' = Account(t)'
          /\ \A s, t \in Service : served'[s] <= served'[t] + 1
    BY DEF Shares
  <2>1. Even
    BY <1>1 DEF Even
  <2>2. ASSUME NEW s \in Service
        PROVE  /\ Account(s)' = served[s] + deficits[s] - NDomains
               /\ Account(s) = served[s] + deficits[s]
               /\ served[s] \in Nat /\ deficits[s] \in Nat
    <3>1. Got(s)' = 0 /\ Got(s) = 0 /\ Left(s) = 0 /\ Left(s)' = NDomains
      BY <1>0, <1>1, <1>3 DEF Got, Left, Service
    <3>2. served[s] \in Nat /\ deficits[s] \in Nat
      BY DEF TypeOK
    <3>3. Account(s)' = served[s] + deficits[s] - NDomains - 0
      BY <3>1, <1>1 DEF Account
    <3>4. Account(s) = served[s] + deficits[s] - 0 - 0
      BY <3>1 DEF Account
    <3> QED
      BY <1>0, <3>2, <3>3, <3>4
  <2>3. ASSUME NEW s \in Service, NEW t \in Service PROVE Account(s)' = Account(t)'
    <3>1. Account(s) = Account(t)
      BY <2>1 DEF Shares
    <3>2. served[s] + deficits[s] = served[t] + deficits[t]
      BY <3>1, <2>2
    <3>3. /\ Account(s)' = served[s] + deficits[s] - NDomains
          /\ Account(t)' = served[t] + deficits[t] - NDomains
          /\ served[s] \in Nat /\ deficits[s] \in Nat /\ served[t] \in Nat /\ deficits[t] \in Nat
      BY <2>2
    <3> QED
      BY <1>0, <3>2, <3>3
  <2> QED
    BY <1>1, <2>1, <2>3 DEF Shares
<1> QED
  BY <1>5, <1>6, <1>7, <1>8, <1>9, <1>10

\* What a pop does: the head of a queue becomes the last page selected.
LEMMA PopStep ==
  ASSUME Inv, pc # "idle", NEW s \in Service, s \in Backlog, Pop(s)
  PROVE  /\ queues' \in [Service -> Seq(Domain)] /\ selected' \in Seq(Pair)
         /\ IsInjective(selected') /\ Len(selected') = Len(selected) + 1
         /\ ToSet(selected') = ToSet(selected) \cup {<<s, Head(queues[s])>>}
         /\ \A t \in Service : IsInjective(queues'[t])
         /\ \A t \in Service : t # s => queues'[t] = queues[t]
         /\ Len(queues'[s]) = Len(queues[s]) - 1 /\ Len(queues[s]) >= 1
         /\ \A i \in 1..Len(queues'[s]) : i + 1 \in 1..Len(queues[s]) /\ queues'[s][i] = queues[s][i + 1]
         /\ \A t \in Service, d \in Domain : d \in ToSet(queues'[t]) <=> <<t, d>> \notin ToSet(selected')
<1> DEFINE q == queues[s]
           h == Head(q)
           new == <<s, h>>
<1>1. q \in Seq(Domain) /\ q # <<>> /\ IsInjective(q) /\ selected \in Seq(Pair) /\ IsInjective(selected)
  BY DEF Inv, TypeOK, Queues, Backlog
<1>2. /\ h \in ToSet(q) /\ Tail(q) \in Seq(Domain) /\ Len(Tail(q)) = Len(q) - 1 /\ Len(q) >= 1
      /\ \A i \in 1..Len(Tail(q)) : i + 1 \in 1..Len(q) /\ Tail(q)[i] = q[i + 1]
      /\ IsInjective(Tail(q)) /\ ToSet(Tail(q)) = ToSet(q) \ {h}
  BY <1>1, Popped
<1>3. h \in Domain
  BY <1>1, <1>2, Elements
<1>4. \A t \in Service, d \in Domain : d \in ToSet(queues[t]) <=> <<t, d>> \notin ToSet(selected)
  BY DEF Inv, Queues
<1>5. new \in Pair /\ new \notin ToSet(selected)
  BY <1>2, <1>3, <1>4 DEF Pair
<1>6. selected' = Append(selected, new) /\ queues' = [queues EXCEPT ![s] = Tail(q)]
  BY DEF Pop
<1>7. queues \in [Service -> Seq(Domain)] /\ \A t \in Service : IsInjective(queues[t])
  BY DEF Inv, TypeOK, Queues
<1> HIDE DEF q, h, new
<1>8. /\ selected' \in Seq(Pair) /\ IsInjective(selected') /\ Len(selected') = Len(selected) + 1
      /\ ToSet(selected') = ToSet(selected) \cup {new}
  BY <1>1, <1>5, <1>6, Appended
<1>9. queues' \in [Service -> Seq(Domain)] /\ queues'[s] = Tail(q) /\ \A t \in Service : t # s => queues'[t] = queues[t]
  BY <1>2, <1>6, <1>7
<1>10. \A t \in Service : IsInjective(queues'[t])
  BY <1>2, <1>7, <1>9
<1>11. ASSUME NEW t \in Service, NEW d \in Domain
       PROVE  d \in ToSet(queues'[t]) <=> <<t, d>> \notin ToSet(selected')
  <2>1. CASE t # s
    <3>1. <<t, d>> # new /\ queues'[t] = queues[t]
      BY <2>1, <1>9 DEF new
    <3> QED
      BY <3>1, <1>4, <1>8
  <2>2. CASE t = s
    <3>1. <<t, d>> = new <=> d = h
      BY <2>2 DEF new
    <3>2. d \in ToSet(q) <=> <<t, d>> \notin ToSet(selected)
      BY <2>2, <1>4 DEF q
    <3>3. ToSet(queues'[t]) = ToSet(q) \ {h}
      BY <2>2, <1>2, <1>9
    <3> QED
      BY <3>1, <3>2, <3>3, <1>8
  <2> QED
    BY <2>1, <2>2
<1>12. /\ Len(queues'[s]) = Len(q) - 1 /\ Len(q) >= 1
       /\ \A i \in 1..Len(queues'[s]) : i + 1 \in 1..Len(q) /\ queues'[s][i] = q[i + 1]
  BY <1>2, <1>9
<1> QED
  BY <1>8, <1>9, <1>10, <1>11, <1>12 DEF q, h, new

\* A pop moves everyone in its queue up one place, which pays for the page of this tick.
LEMMA PopPlaces ==
  ASSUME Inv, pc # "idle", pc' = pc, NEW s \in Service, s \in Backlog, Pop(s), waited' = waited,
         Got(s)' = 1, \A t \in Service : t # s => Got(t)' = Got(t)
  PROVE  Places'
<1>1. /\ \A t \in Service : t # s => queues'[t] = queues[t]
      /\ \A i \in 1..Len(queues'[s]) : i + 1 \in 1..Len(queues[s]) /\ queues'[s][i] = queues[s][i + 1]
      /\ queues' \in [Service -> Seq(Domain)]
  BY PopStep
<1>2. \A t \in Service : \A i \in 1..Len(queues[t]) : waited[<<t, queues[t][i]>>] + i + Got(t) <= NDomains
  BY DEF Inv, Places
<1>3. ASSUME NEW t \in Service, NEW i \in 1..Len(queues'[t])
      PROVE  waited'[<<t, queues'[t][i]>>] + i + Got(t)' <= NDomains
  <2>1. CASE t # s
    BY <2>1, <1>1, <1>2
  <2>2. CASE t = s
    <3>1. i + 1 \in 1..Len(queues[s]) /\ queues'[s][i] = queues[s][i + 1]
      BY <2>2, <1>1
    <3> DEFINE d == queues[s][i + 1]
    <3>2. waited[<<s, d>>] + (i + 1) + Got(s) <= NDomains
      BY <3>1, <1>2
    <3>3. d \in Domain
      BY <3>1, ElementOfSeq DEF Inv, TypeOK
    <3>4. waited[<<s, d>>] \in Nat
      BY <3>3 DEF Inv, TypeOK, Pair
    <3>5. Got(s) \in {0, 1} /\ NDomains \in Nat /\ i \in Int
      BY SelectorAssumption DEF Got
    <3>6. waited'[<<t, queues'[t][i]>>] = waited[<<s, d>>]
      BY <2>2, <3>1
    <3>7. PICK w \in Nat : w = waited[<<s, d>>]
      BY <3>4
    <3>8. w + (i + 1) + Got(s) <= NDomains
      BY <3>2, <3>7
    <3>9. w + i + 1 <= NDomains
      BY <3>5, <3>8
    <3>10. waited'[<<t, queues'[t][i]>>] = w /\ Got(t)' = 1
      BY <2>2, <3>6, <3>7
    <3> QED
      BY <3>9, <3>10
  <2> QED
    BY <2>1, <2>2
<1>4. BoundedWait'
  BY DEF Inv, Places, BoundedWait
<1> QED
  BY <1>3, <1>4 DEF Places

\* The first page of a service.
LEMMA FirstPageInv == Inv /\ FirstPage => Inv'
<1> SUFFICES ASSUME Inv, FirstPage PROVE Inv'
  OBVIOUS
<1>0. NServices \in Nat \ {0} /\ NDomains \in Nat \ {0}
  BY SelectorAssumption
<1>1. /\ pc = "first" /\ pc' = "first" /\ turn <= NServices /\ turn' = turn + 1
      /\ turn \in Backlog /\ ~Full /\ Pop(turn)
      /\ capacity' = capacity /\ weights' = weights /\ queued' = queued /\ progressed' = progressed
      /\ ticks' = ticks /\ waited' = waited /\ served' = served
      /\ deficits' = [deficits EXCEPT ![turn] = deficits[turn] + weights[turn] - 1]
  BY DEF FirstPage, config, history
<1>2. turn \in Service /\ turn \in Nat
  BY <1>0, <1>1 DEF Inv, TypeOK, Service
<1>3. /\ queues' \in [Service -> Seq(Domain)] /\ selected' \in Seq(Pair)
      /\ IsInjective(selected') /\ Len(selected') = Len(selected) + 1
      /\ ToSet(selected') = ToSet(selected) \cup {<<turn, Head(queues[turn])>>}
      /\ \A t \in Service : IsInjective(queues'[t])
      /\ \A t \in Service : t # turn => queues'[t] = queues[t]
      /\ Len(queues'[turn]) = Len(queues[turn]) - 1
      /\ \A t \in Service, d \in Domain : d \in ToSet(queues'[t]) <=> <<t, d>> \notin ToSet(selected')
  BY <1>1, <1>2, PopStep
<1>4. \A t \in Service : t \in Nat
  BY DEF Service
<1>s. PICK s \in Service : s = turn
  BY <1>2
<1>5. Got(s)' = 1 /\ \A t \in Service : t # turn => Got(t)' = Got(t)
  <2>1. s < turn'
    BY <1>1, <1>2, <1>s
  <2>2. Got(s)' = 1
    BY <2>1, <1>1 DEF Got
  <2>3. \A t \in Service : t # turn => (t < turn' <=> t < turn)
    BY <1>1, <1>2, <1>4
  <2> QED
    BY <2>2, <2>3, <1>1 DEF Got
<1>6. /\ deficits \in [Service -> Nat] /\ weights \in [Service -> 1..MaxWeight] /\ MaxWeight \in Nat
      /\ capacity \in Nat /\ Len(selected) \in Nat
  BY SelectorAssumption, Elements DEF Inv, TypeOK
<1>7. deficits' \in [Service -> Nat]
  <2>1. deficits[turn] \in Nat /\ weights[turn] \in Nat \ {0}
    BY <1>2, <1>6
  <2>2. deficits[turn] + weights[turn] - 1 \in Nat
    BY <2>1
  <2> QED
    BY <2>2, <1>1, <1>6
<1>8. TypeOK'
  <2>1. turn' \in 1..(NServices + 1)
    BY <1>0, <1>1, <1>2
  <2> QED
    BY <1>1, <1>3, <1>7, <2>1 DEF Inv, TypeOK
<1>9. Queues'
  BY <1>1, <1>3 DEF Inv, Queues
<1>10. Room'
  <2>1. Len(selected) = turn - 1 /\ Len(selected) < capacity
    BY <1>1, <1>6 DEF Inv, Room, Full
  <2>2. Len(selected') <= capacity' /\ Len(selected') = turn' - 1
    BY <2>1, <1>1, <1>2, <1>3, <1>6
  <2>3. ASSUME NEW t \in Service, t >= turn', NEW p \in ToSet(selected') PROVE p[1] # t
    <3>1. t >= turn /\ t # turn
      BY <2>3, <1>1, <1>2, <1>4
    <3>2. \A r \in ToSet(selected) : r[1] # t
      BY <3>1, <1>1 DEF Inv, Room
    <3>3. <<turn, Head(queues[turn])>>[1] = turn
      OBVIOUS
    <3> QED
      BY <3>1, <3>2, <3>3, <1>3
  <2>4. ASSUME NEW t \in Service, Got(t)' = 1 PROVE \E p \in ToSet(selected') : p[1] = t
    <3>1. CASE t = turn
      <4>1. <<turn, Head(queues[turn])>>[1] = turn
        OBVIOUS
      <4> QED
        BY <3>1, <4>1, <1>3
    <3>2. CASE t # turn
      <4>1. Got(t) = 1
        BY <2>4, <3>2, <1>5
      <4>2. \E p \in ToSet(selected) : p[1] = t
        BY <4>1, <1>1 DEF Inv, Room
      <4> QED
        BY <4>2, <1>3
    <3> QED
      BY <3>1, <3>2
  <2> QED
    BY <1>1, <2>2, <2>3, <2>4 DEF Room
<1>11. Places'
  <2>1. s \in Backlog /\ Pop(s) /\ \A t \in Service : t # s => Got(t)' = Got(t)
    BY <1>1, <1>5, <1>s
  <2> QED
    BY <2>1, <1>1, <1>5, PopPlaces
<1>12. Stuck'
  BY <1>1 DEF Stuck
<1>13. Shares'
  <2> SUFFICES ASSUME Even' PROVE
          /\ \A t \in Service : deficits'[t] <= 1
          /\ \A t, u \in Service : Account(t)' = Account(u)'
          /\ \A t, u \in Service : served'[t] <= served'[u] + 1
    BY DEF Shares
  <2>1. Even
    BY <1>1 DEF Even
  <2>2. deficits' = deficits
    <3>1. weights[turn] = 1 /\ deficits[turn] \in Nat
      BY <2>1, <1>2, <1>6 DEF Even
    <3>2. deficits[turn] + weights[turn] - 1 = deficits[turn]
      BY <3>1
    <3> QED
      BY <3>2, <1>1, <1>6
  <2>3. ASSUME NEW t \in Service PROVE Account(t)' = Account(t)
    <3>1. CASE t = turn
      <4>1. Got(t) = 0 /\ Got(t)' = 1
        BY <3>1, <1>1, <1>2, <1>5, <1>s DEF Got
      <4>2. Left(t) = Len(queues[t]) /\ Left(t)' = Len(queues[t]) - 1
        BY <3>1, <1>1, <1>3 DEF Left
      <4>3. served[t] \in Nat /\ deficits[t] \in Nat /\ Len(queues[t]) \in Nat
        <5>1. queues[t] \in Seq(Domain)
          BY DEF Inv, TypeOK
        <5> QED
          BY <5>1, Elements DEF Inv, TypeOK
      <4>4. Account(t)' = served[t] + deficits[t] - (Len(queues[t]) - 1) - 1
        BY <4>1, <4>2, <1>1, <2>2 DEF Account
      <4>5. Account(t) = served[t] + deficits[t] - Len(queues[t]) - 0
        BY <4>1, <4>2 DEF Account
      <4> QED
        BY <4>3, <4>4, <4>5
    <3>2. CASE t # turn
      <4>1. Got(t)' = Got(t) /\ Left(t)' = Left(t)
        BY <3>2, <1>1, <1>3, <1>5 DEF Left
      <4> QED
        BY <4>1, <1>1, <2>2 DEF Account
    <3> QED
      BY <3>1, <3>2
  <2>4. \A t, u \in Service : Account(t) = Account(u)
    BY <2>1 DEF Inv, Shares
  <2>5. \A t, u \in Service : Account(t)' = Account(u)'
    BY <2>3, <2>4
  <2> QED
    BY <2>1, <2>2, <2>5, <1>1 DEF Inv, Shares
<1> QED
  BY <1>8, <1>9, <1>10, <1>11, <1>12, <1>13 DEF Inv

\* The first loop ends.
LEMMA FirstLoopEndsInv == Inv /\ FirstLoopEnds => Inv'
<1> SUFFICES ASSUME Inv, FirstLoopEnds PROVE Inv'
  OBVIOUS
<1>0. NServices \in Nat \ {0}
  BY SelectorAssumption
<1>1. /\ pc = "first" /\ pc' = "spend" /\ turn > NServices /\ turn' = 1 /\ progressed' = FALSE
      /\ capacity' = capacity /\ weights' = weights /\ queued' = queued /\ queues' = queues
      /\ deficits' = deficits /\ selected' = selected
      /\ ticks' = ticks /\ waited' = waited /\ served' = served
  BY DEF FirstLoopEnds, config, history
<1>2. \A s \in Service : s < turn
  BY <1>0, <1>1 DEF Inv, TypeOK, Service
<1>3. \A s \in Service : Got(s) = 1 /\ Got(s)' = 1 /\ Left(s)' = Left(s)
  BY <1>1, <1>2 DEF Got, Left
<1>4. TypeOK'
  <2>1. turn' \in 1..(NServices + 1)
    BY <1>0, <1>1
  <2> QED
    BY <1>1, <2>1 DEF Inv, TypeOK
<1>5. Queues'
  BY <1>1 DEF Inv, Queues
<1>6. Room'
  BY <1>1, <1>3 DEF Inv, Room
<1>7. Places'
  <2>1. BoundedWait'
    BY <1>1 DEF Inv, Places, BoundedWait
  <2> QED
    BY <1>1, <1>3, <2>1 DEF Inv, Places
<1>8. Stuck'
  BY <1>1 DEF Stuck
<1>9. Shares'
  <2>1. \A s \in Service : Account(s)' = Account(s)
    BY <1>1, <1>3 DEF Account
  <2> QED
    BY <1>1, <2>1 DEF Inv, Shares, Even
<1> QED
  BY <1>4, <1>5, <1>6, <1>7, <1>8, <1>9 DEF Inv

\* A page on credit.
LEMMA SpendInv == Inv /\ Spend => Inv'
<1> SUFFICES ASSUME Inv, Spend PROVE Inv'
  OBVIOUS
<1>0. NServices \in Nat \ {0} /\ NDomains \in Nat \ {0}
  BY SelectorAssumption
<1>1. /\ pc = "spend" /\ pc' = "spend" /\ turn <= NServices /\ turn' = turn /\ progressed' = TRUE
      /\ MaySpend(turn) /\ Pop(turn)
      /\ capacity' = capacity /\ weights' = weights /\ queued' = queued
      /\ ticks' = ticks /\ waited' = waited /\ served' = served
      /\ deficits' = [deficits EXCEPT ![turn] = deficits[turn] - 1]
  BY DEF Spend, config, history
<1>2. turn \in Service
  BY <1>0, <1>1 DEF Inv, TypeOK, Service
<1>3. PICK s \in Service : s = turn
  BY <1>2
<1>4. s \in Backlog /\ deficits[s] >= 1 /\ ~Full /\ Pop(s) /\ deficits' = [deficits EXCEPT ![s] = deficits[s] - 1]
  BY <1>1, <1>3 DEF MaySpend
<1>5. /\ queues' \in [Service -> Seq(Domain)] /\ selected' \in Seq(Pair)
      /\ IsInjective(selected') /\ Len(selected') = Len(selected) + 1
      /\ ToSet(selected) \subseteq ToSet(selected')
      /\ \A t \in Service : IsInjective(queues'[t])
      /\ \A t \in Service : t # s => queues'[t] = queues[t]
      /\ Len(queues'[s]) = Len(queues[s]) - 1
      /\ \A t \in Service, d \in Domain : d \in ToSet(queues'[t]) <=> <<t, d>> \notin ToSet(selected')
  BY <1>1, <1>4, PopStep
<1>6. \A t \in Service : Got(t) = 1 /\ Got(t)' = 1
  BY <1>1 DEF Got
<1>7. deficits \in [Service -> Nat] /\ capacity \in Nat /\ Len(selected) \in Nat
  BY Elements DEF Inv, TypeOK
<1>8. TypeOK'
  <2>1. deficits[s] - 1 \in Nat
    BY <1>4, <1>7
  <2>2. deficits' \in [Service -> Nat]
    BY <2>1, <1>4, <1>7
  <2> QED
    BY <1>1, <1>5, <2>2 DEF Inv, TypeOK
<1>9. Queues'
  BY <1>1, <1>5 DEF Inv, Queues
<1>10. Room'
  <2>1. Len(selected') <= capacity'
    BY <1>1, <1>4, <1>5, <1>7 DEF Full
  <2>2. \A t \in Service : \E p \in ToSet(selected') : p[1] = t
    BY <1>1, <1>5, <1>6 DEF Inv, Room
  <2> QED
    BY <1>1, <2>1, <2>2 DEF Room
<1>11. Places'
  BY <1>1, <1>4, <1>6, PopPlaces
<1>12. Stuck'
  BY <1>1 DEF Stuck
<1>13. Shares'
  <2> SUFFICES ASSUME Even' PROVE
          /\ \A t \in Service : deficits'[t] <= 1
          /\ \A t, u \in Service : Account(t)' = Account(u)'
          /\ \A t, u \in Service : served'[t] <= served'[u] + 1
    BY DEF Shares
  <2>1. Even
    BY <1>1 DEF Even
  <2>2. ASSUME NEW t \in Service PROVE Account(t)' = Account(t) /\ deficits'[t] <= deficits[t]
    <3>1. served[t] \in Nat /\ deficits[t] \in Nat /\ Len(queues[t]) \in Nat
      <4>1. queues[t] \in Seq(Domain)
        BY DEF Inv, TypeOK
      <4> QED
        BY <4>1, Elements DEF Inv, TypeOK
    <3>2. CASE t = s
      <4>1. Left(t) = Len(queues[t]) /\ Left(t)' = Len(queues[t]) - 1 /\ deficits'[t] = deficits[t] - 1
        BY <3>2, <1>1, <1>4, <1>5, <1>7 DEF Left
      <4>2. Account(t)' = served[t] + (deficits[t] - 1) - (Len(queues[t]) - 1) - 1
        BY <4>1, <1>1, <1>6 DEF Account
      <4>3. Account(t) = served[t] + deficits[t] - Len(queues[t]) - 1
        BY <4>1, <1>6 DEF Account
      <4> QED
        BY <3>1, <4>1, <4>2, <4>3
    <3>3. CASE t # s
      <4>1. Left(t)' = Left(t) /\ deficits'[t] = deficits[t]
        BY <3>3, <1>1, <1>4, <1>5, <1>7 DEF Left
      <4>2. Account(t)' = Account(t)
        BY <4>1, <1>1, <1>6 DEF Account
      <4> QED
        BY <3>1, <4>1, <4>2
    <3> QED
      BY <3>2, <3>3
  <2>3. \A t, u \in Service : Account(t) = Account(u)
    BY <2>1 DEF Inv, Shares
  <2>4. \A t, u \in Service : Account(t)' = Account(u)'
    BY <2>2, <2>3
  <2>5. ASSUME NEW t \in Service PROVE deficits'[t] <= 1
    <3>1. deficits[t] <= 1 /\ deficits[t] \in Nat /\ deficits'[t] <= deficits[t]
      BY <2>1, <2>2, <1>7 DEF Inv, Shares
    <3>2. deficits'[t] \in Nat
      BY <1>8 DEF TypeOK
    <3> QED
      BY <3>1, <3>2
  <2> QED
    BY <2>1, <2>4, <2>5, <1>1 DEF Inv, Shares
<1> QED
  BY <1>8, <1>9, <1>10, <1>11, <1>12, <1>13 DEF Inv

\* The for loop goes on.
LEMMA NextServiceInv == Inv /\ NextService => Inv'
<1> SUFFICES ASSUME Inv, NextService PROVE Inv'
  OBVIOUS
<1>0. NServices \in Nat \ {0}
  BY SelectorAssumption
<1>1. /\ pc = "spend" /\ pc' = "spend" /\ turn <= NServices /\ turn' = turn + 1 /\ progressed' = progressed
      /\ (turn > 1 \/ MorePages) /\ ~MaySpend(turn)
      /\ capacity' = capacity /\ weights' = weights /\ queued' = queued /\ queues' = queues
      /\ deficits' = deficits /\ selected' = selected
      /\ ticks' = ticks /\ waited' = waited /\ served' = served
  BY DEF NextService, config, history
<1>2. turn \in Service /\ turn \in Nat \ {0}
  BY <1>0, <1>1 DEF Inv, TypeOK, Service
<1>3. \A s \in Service : Got(s) = 1 /\ Got(s)' = 1 /\ Left(s)' = Left(s)
  BY <1>1 DEF Got, Left
<1>4. TypeOK'
  <2>1. turn' \in 1..(NServices + 1)
    BY <1>0, <1>1, <1>2
  <2> QED
    BY <1>1, <2>1 DEF Inv, TypeOK
<1>5. Queues'
  BY <1>1 DEF Inv, Queues
<1>6. Room'
  BY <1>1, <1>3 DEF Inv, Room
<1>7. Places'
  <2>1. BoundedWait'
    BY <1>1 DEF Inv, Places, BoundedWait
  <2> QED
    BY <1>1, <1>3, <2>1 DEF Inv, Places
<1>8. Stuck'
  <2> SUFFICES ASSUME ~progressed
               PROVE  ~Full' /\ Backlog' # {} /\ \A s \in Service : s < turn' /\ s \in Backlog' => deficits'[s] = 0
    BY <1>1 DEF Stuck
  <2>1. ~Full /\ Backlog # {}
    BY <1>1, <1>2 DEF Inv, Stuck, MorePages
  <2>2. Full' = Full /\ Backlog' = Backlog
    BY <1>1 DEF Full, Backlog
  <2>3. ASSUME NEW s \in Service, s < turn', s \in Backlog PROVE deficits[s] = 0
    <3>1. s \in Nat \ {0} /\ deficits[s] \in Nat
      BY DEF Service, Inv, TypeOK
    <3>2. CASE s = turn
      BY <3>1, <3>2, <2>1, <2>3, <1>1 DEF MaySpend
    <3>3. CASE s # turn
      <4>1. s < turn /\ turn > 1
        BY <3>1, <3>3, <2>3, <1>1, <1>2
      <4> QED
        BY <4>1, <2>3, <1>1 DEF Inv, Stuck
    <3> QED
      BY <3>2, <3>3
  <2> QED
    BY <2>1, <2>2, <2>3, <1>1
<1>9. Shares'
  <2>1. \A s \in Service : Account(s)' = Account(s)
    BY <1>1, <1>3 DEF Account
  <2> QED
    BY <1>1, <2>1 DEF Inv, Shares, Even
<1> QED
  BY <1>4, <1>5, <1>6, <1>7, <1>8, <1>9 DEF Inv

\* When at most one page of each service is left, few pages are left.
LEMMA FewLeft ==
  ASSUME Inv, pc # "idle", \A s \in Service : Len(queues[s]) <= 1
  PROVE  Len(selected) >= NServices * (NDomains - 1)
<1> DEFINE chosen == ToSet(selected)
           rest == Pair \ chosen
           of == [p \in rest |-> p[1]]
<1>1. selected \in Seq(Pair) /\ IsInjective(selected)
  BY DEF Inv, TypeOK, Queues
<1>2. chosen \in SUBSET Pair /\ Len(selected) \in Nat
  BY <1>1, Elements
<1>3. Cardinality(chosen) = Len(selected)
  BY <1>1, CountElements
<1>4. Pair \cap chosen = chosen
  BY <1>2
<1>5. IsFiniteSet(rest) /\ Cardinality(rest) = Cardinality(Pair) - Cardinality(Pair \cap chosen)
  BY Sizes, FS_Difference
<1>6. ASSUME NEW s \in Service, NEW d \in Domain, NEW e \in Domain, <<s, d>> \in rest, <<s, e>> \in rest
      PROVE  d = e
  <2>1. d \in ToSet(queues[s]) /\ e \in ToSet(queues[s])
    BY <1>6 DEF Inv, Queues
  <2>2. DOMAIN queues[s] = 1..Len(queues[s]) /\ Len(queues[s]) \in Nat
    <3>1. queues[s] \in Seq(Domain)
      BY DEF Inv, TypeOK
    <3> QED
      BY <3>1, Elements
  <2>3. PICK i \in 1..Len(queues[s]), j \in 1..Len(queues[s]) : d = queues[s][i] /\ e = queues[s][j]
    BY <2>1, <2>2 DEF ToSet
  <2>4. Len(queues[s]) <= 1
    OBVIOUS
  <2>5. i = 1 /\ j = 1
    BY <2>2, <2>4
  <2> QED
    BY <2>3, <2>5
<1>7. of \in Injection(rest, Service)
  <2>1. of \in [rest -> Service]
    BY DEF Pair
  <2>2. ASSUME NEW p \in rest, NEW r \in rest, of[p] = of[r] PROVE p = r
    <3>1. PICK s \in Service, d \in Domain : p = <<s, d>>
      BY DEF Pair
    <3>2. PICK t \in Service, e \in Domain : r = <<t, e>>
      BY DEF Pair
    <3>3. s = t
      BY <2>2, <3>1, <3>2
    <3> QED
      BY <3>1, <3>2, <3>3, <1>6
  <2> HIDE DEF of, rest
  <2> QED
    BY <2>1, <2>2 DEF Injection, IsInjective
<1>8. Cardinality(rest) <= NServices
  BY <1>7, Sizes, FS_Injection
<1> HIDE DEF rest, chosen
<1>9. PICK m \in Nat, n \in Nat : m = NServices /\ n = NDomains
  BY Sizes
<1>10. PICK k \in Nat : k = Len(selected)
  BY <1>2
<1>11. m * n - k <= m
  BY <1>3, <1>4, <1>5, <1>8, <1>9, <1>10, Sizes
<1>12. m * (n - 1) = m * n - m
  OBVIOUS
<1>13. k >= m * (n - 1)
  <2>1. PICK z \in Int : z = m * n
    OBVIOUS
  <2>2. z - k <= m /\ m * (n - 1) = z - m
    BY <2>1, <1>11, <1>12
  <2> QED
    BY <2>2
<1> QED
  BY <1>9, <1>10, <1>13

\* Every page of a service is either selected or still queued.
LEMMA GivenPages ==
  ASSUME Inv, pc # "idle", NEW s \in Service
  PROVE  Cardinality({p \in ToSet(selected) : p[1] = s}) = NDomains - Len(queues[s])
<1> DEFINE G == {p \in ToSet(selected) : p[1] = s}
           Q == ToSet(queues[s])
           D == Domain \ Q
           page == [d \in D |-> <<s, d>>]
<1>1. selected \in Seq(Pair) /\ queues[s] \in Seq(Domain) /\ IsInjective(queues[s])
  BY DEF Inv, TypeOK, Queues
<1>2. ToSet(selected) \in SUBSET Pair /\ Q \in SUBSET Domain
  BY <1>1, Elements
<1>3. Cardinality(Q) = Len(queues[s])
  BY <1>1, CountElements
<1>4. IsFiniteSet(D) /\ Cardinality(D) = Cardinality(Domain) - Cardinality(Domain \cap Q)
  BY Sizes, FS_Difference
<1>5. Domain \cap Q = Q
  BY <1>2
<1>6. \A d \in Domain : d \in Q <=> <<s, d>> \notin ToSet(selected)
  BY DEF Inv, Queues
<1>7. page \in [D -> G]
  BY <1>6
<1>8. \A d, e \in D : page[d] = page[e] => d = e
  OBVIOUS
<1>9. ASSUME NEW p \in G PROVE \E d \in D : page[d] = p
  <2>1. PICK t \in Service, d \in Domain : p = <<t, d>>
    BY <1>2 DEF Pair
  <2>2. p = <<s, d>>
    BY <2>1
  <2>3. d \in D
    BY <2>2, <1>6
  <2> QED
    BY <2>2, <2>3
<1> HIDE DEF page, D, G
<1>10. page \in Bijection(D, G)
  BY <1>7, <1>8, <1>9 DEF Bijection, Injection, Surjection, IsInjective
<1>11. Cardinality(G) = Cardinality(D)
  BY <1>4, <1>10, FS_Bijection DEF ExistsBijection
<1> QED
  BY <1>3, <1>4, <1>5, <1>11, Sizes DEF G

\* With equal weights, a pass that tops up finds every service with backlog and
\* without credit: where one had no page left, the others would have at most one
\* each, and capacity would be used up.
LEMMA AllWait ==
  ASSUME Inv, Even, pc = "spend", turn > NServices, ~progressed, NEW s \in Service
  PROVE  s \in Backlog /\ deficits[s] = 0
<1>0. NServices \in Nat \ {0} /\ NDomains \in Nat \ {0}
  BY SelectorAssumption
<1>1. turn > 1 /\ \A t \in Service : t < turn
  BY <1>0 DEF Inv, TypeOK, Service
<1>2. ~Full /\ \A t \in Service : t \in Backlog => deficits[t] = 0
  BY <1>1 DEF Inv, Stuck
<1>3. ASSUME NEW t \in Service
      PROVE  /\ queues[t] \in Seq(Domain) /\ Len(queues[t]) \in Nat /\ (t \in Backlog <=> Len(queues[t]) # 0)
             /\ served[t] \in Nat /\ deficits[t] \in Nat
             /\ Account(t) = served[t] + deficits[t] - Len(queues[t]) - 1
  <2>1. queues[t] \in Seq(Domain) /\ served[t] \in Nat /\ deficits[t] \in Nat
    BY DEF Inv, TypeOK
  <2>2. Len(queues[t]) \in Nat /\ (queues[t] = <<>> <=> Len(queues[t]) = 0)
    BY <2>1, Elements
  <2>3. Account(t) = served[t] + deficits[t] - Len(queues[t]) - 1
    BY DEF Account, Left, Got
  <2> QED
    BY <2>1, <2>2, <2>3 DEF Backlog
<1>4. s \in Backlog
  <2> SUFFICES ASSUME s \notin Backlog PROVE FALSE
    OBVIOUS
  <2>1. ASSUME NEW t \in Service PROVE Len(queues[t]) <= 1
    <3>1. Account(t) = Account(s) /\ served[t] <= served[s] + 1 /\ deficits[t] <= 1
      BY DEF Inv, Shares
    <3>2. Len(queues[s]) = 0
      BY <1>3
    <3>3. Len(queues[t]) # 0 => deficits[t] = 0
      BY <1>2, <1>3
    <3>4. PICK a \in Nat, b \in Nat, c \in Nat, d \in Nat, l \in Nat :
             a = served[t] /\ b = deficits[t] /\ c = served[s] /\ d = deficits[s] /\ l = Len(queues[t])
      BY <1>3
    <3>5. a + b - l - 1 = c + d - 0 - 1
      BY <3>1, <3>2, <3>4, <1>3
    <3>6. a <= c + 1 /\ (l # 0 => b = 0)
      BY <3>1, <3>3, <3>4
    <3>7. l <= 1
      BY <3>5, <3>6
    <3> QED
      BY <3>4, <3>7
  <2>2. Len(selected) >= NServices * (NDomains - 1)
    BY <2>1, FewLeft
  <2>3. capacity <= NServices * (NDomains - 1) /\ capacity \in Nat /\ Len(selected) \in Nat
    BY Elements DEF Even, Inv, TypeOK
  <2>4. PICK k \in Int : k = NServices * (NDomains - 1)
    BY <1>0
  <2>5. Len(selected) >= capacity
    BY <2>2, <2>3, <2>4
  <2> QED
    BY <2>5, <1>2 DEF Full
<1> QED
  BY <1>2, <1>4

\* A pass is over, with or without progress.
LEMMA NextPassInv == Inv /\ NextPass => Inv'
<1> SUFFICES ASSUME Inv, NextPass PROVE Inv'
  OBVIOUS
<1>0. NServices \in Nat \ {0} /\ MaxWeight \in Nat \ {0}
  BY SelectorAssumption
<1>1. /\ pc = "spend" /\ pc' = "spend" /\ turn > NServices /\ turn' = 1 /\ progressed' = FALSE
      /\ capacity' = capacity /\ weights' = weights /\ queued' = queued /\ queues' = queues
      /\ selected' = selected /\ ticks' = ticks /\ waited' = waited /\ served' = served
      /\ deficits' = IF progressed THEN deficits ELSE [s \in Service |-> deficits[s] + NewCredit[s]]
  BY DEF NextPass, config, history
<1>2. \A s \in Service : Got(s) = 1 /\ Got(s)' = 1 /\ Left(s)' = Left(s)
  BY <1>1 DEF Got, Left
<1>3. deficits \in [Service -> Nat] /\ weights \in [Service -> 1..MaxWeight]
  BY DEF Inv, TypeOK
<1>4. \A s \in Service : NewCredit[s] = IF s \in Backlog THEN weights[s] ELSE 0
  BY DEF NewCredit
<1>5. TypeOK'
  <2>1. turn' \in 1..(NServices + 1)
    BY <1>0, <1>1
  <2>2. \A s \in Service : NewCredit[s] \in Nat
    BY <1>3, <1>4, <1>0
  <2>3. \A s \in Service : deficits[s] + NewCredit[s] \in Nat
    BY <2>2, <1>3
  <2>4. deficits' \in [Service -> Nat]
    BY <2>3, <1>1, <1>3
  <2> QED
    BY <1>1, <2>1, <2>4 DEF Inv, TypeOK
<1>6. Queues'
  BY <1>1 DEF Inv, Queues
<1>7. Room'
  BY <1>1, <1>2 DEF Inv, Room
<1>8. Places'
  <2>1. BoundedWait'
    BY <1>1 DEF Inv, Places, BoundedWait
  <2> QED
    BY <1>1, <1>2, <2>1 DEF Inv, Places
<1>9. Stuck'
  BY <1>1 DEF Stuck
<1>10. Shares'
  <2>1. CASE progressed
    <3>1. \A s \in Service : Account(s)' = Account(s)
      BY <2>1, <1>1, <1>2 DEF Account
    <3> QED
      BY <2>1, <1>1, <3>1 DEF Inv, Shares, Even
  <2>2. CASE ~progressed
    <3> SUFFICES ASSUME Even' PROVE
            /\ \A s \in Service : deficits'[s] <= 1
            /\ \A s, t \in Service : Account(s)' = Account(t)'
            /\ \A s, t \in Service : served'[s] <= served'[t] + 1
      BY DEF Shares
    <3>1. Even
      BY <1>1 DEF Even
    <3>2. ASSUME NEW s \in Service
          PROVE  deficits'[s] = 1 /\ deficits[s] = 0 /\ Account(s) \in Int /\ Account(s)' = Account(s) + 1
      <4>1. s \in Backlog /\ deficits[s] = 0
        BY <2>2, <3>1, <1>1, AllWait
      <4>2. weights[s] = 1
        BY <3>1 DEF Even
      <4>3. deficits'[s] = 1
        BY <4>1, <4>2, <1>1, <1>4, <2>2
      <4>4. Left(s) \in Nat /\ served[s] \in Nat
        <5>1. queues[s] \in Seq(Domain) /\ served[s] \in Nat
          BY DEF Inv, TypeOK
        <5> QED
          BY <5>1, Elements DEF Left
      <4>5. Account(s) = served[s] + 0 - Left(s) - 1
        BY <4>1, <1>2 DEF Account
      <4>6. Account(s)' = served[s] + 1 - Left(s) - 1
        BY <4>3, <1>1, <1>2 DEF Account
      <4> QED
        BY <4>1, <4>3, <4>4, <4>5, <4>6
    <3>3. \A s, t \in Service : Account(s) = Account(t)
      BY <3>1 DEF Inv, Shares
    <3>4. \A s, t \in Service : Account(s)' = Account(t)'
      BY <3>2, <3>3
    <3>5. \A s \in Service : deficits'[s] <= 1
      BY <3>2
    <3> QED
      BY <3>1, <3>4, <3>5, <1>1 DEF Inv, Shares
  <2> QED
    BY <2>1, <2>2
<1> QED
  BY <1>5, <1>6, <1>7, <1>8, <1>9, <1>10 DEF Inv

\* select returns and its pages are run.
LEMMA SelectReturnsInv == Inv /\ SelectReturns => Inv'
<1> SUFFICES ASSUME Inv, SelectReturns PROVE Inv'
  OBVIOUS
<1> DEFINE chosen == ToSet(selected)
           pages(s) == Cardinality({p \in chosen : p[1] = s})
<1>0. NServices \in Nat \ {0} /\ NDomains \in Nat \ {0}
  BY SelectorAssumption
<1>1. /\ pc = "spend" /\ pc' = "idle" /\ turn' = turn /\ ~MorePages /\ progressed' = progressed
      /\ capacity' = capacity /\ weights' = weights /\ queues' = queues /\ deficits' = deficits
      /\ selected' = selected /\ ticks' = ticks
      /\ queued' = queued \ chosen
      /\ waited' = [p \in Pair |-> IF p \in chosen THEN 0 ELSE waited[p] + 1]
      /\ served' = [s \in Service |-> served[s] + pages(s)]
  BY DEF SelectReturns, config
<1>2. /\ queued = Pair
      /\ \A s \in Service, d \in Domain : d \in ToSet(queues[s]) <=> <<s, d>> \notin chosen
  BY <1>1 DEF Inv, Queues
<1>3. ASSUME NEW s \in Service
      PROVE  /\ queues[s] \in Seq(Domain) /\ Len(queues[s]) \in Nat /\ Len(queues[s]) <= NDomains
             /\ DOMAIN queues[s] = 1..Len(queues[s]) /\ (queues[s] = <<>> => ToSet(queues[s]) = {})
             /\ pages(s) = NDomains - Len(queues[s])
  <2>1. queues[s] \in Seq(Domain) /\ IsInjective(queues[s])
    BY DEF Inv, TypeOK, Queues
  <2>2. Len(queues[s]) \in Nat /\ Len(queues[s]) <= NDomains
    BY <2>1, QueueLength
  <2>3. DOMAIN queues[s] = 1..Len(queues[s]) /\ (queues[s] = <<>> => ToSet(queues[s]) = {})
    BY <2>1, Elements
  <2>4. pages(s) = NDomains - Len(queues[s])
    BY <1>1, GivenPages
  <2> QED
    BY <2>1, <2>2, <2>3, <2>4
<1> HIDE DEF pages
<1>4. \A s \in Service : Got(s) = 1 /\ Got(s)' = 0
  BY <1>1 DEF Got
<1>5. \A p \in Pair : waited[p] \in Nat /\ waited[p] < NDomains
  BY DEF Inv, TypeOK, Places, BoundedWait
<1>6. TypeOK'
  <2>1. \A s \in Service : served[s] + pages(s) \in Nat
    <3> TAKE s \in Service
    <3>1. PICK l \in Nat : l = Len(queues[s]) /\ l <= NDomains /\ pages(s) = NDomains - l
      BY <1>3
    <3>2. served[s] \in Nat
      BY DEF Inv, TypeOK
    <3> QED
      BY <1>0, <3>1, <3>2
  <2>2. served' \in [Service -> Nat]
    BY <2>1, <1>1
  <2>3. waited' \in [Pair -> Nat]
    BY <1>1, <1>5
  <2>4. queued' \subseteq Pair
    BY <1>1, <1>2
  <2> QED
    BY <1>1, <2>2, <2>3, <2>4 DEF Inv, TypeOK
<1>7. Queues'
  <2>1. ASSUME NEW s \in Service, NEW d \in Domain PROVE d \in ToSet(queues'[s]) <=> <<s, d>> \in queued'
    <3>1. <<s, d>> \in Pair
      BY DEF Pair
    <3> QED
      BY <3>1, <1>1, <1>2
  <2> QED
    BY <1>1, <2>1 DEF Inv, Queues
<1>8. Room'
  <2>1. \A s \in Service : \E p \in chosen : p[1] = s
    BY <1>1, <1>4 DEF Inv, Room
  <2>2. Full \/ chosen = Pair
    <3> SUFFICES ASSUME ~Full PROVE chosen = Pair
      OBVIOUS
    <3>1. \A s \in Service : queues[s] = <<>>
      BY <1>1 DEF MorePages, Backlog
    <3>2. ASSUME NEW p \in Pair PROVE p \in chosen
      <4>1. PICK s \in Service, d \in Domain : p = <<s, d>>
        BY DEF Pair
      <4>2. d \notin ToSet(queues[s])
        BY <3>1, <1>3
      <4> QED
        BY <4>1, <4>2, <1>2
    <3>3. chosen \subseteq Pair
      BY Elements DEF Inv, TypeOK
    <3> QED
      BY <3>2, <3>3
  <2>3. Full' = Full
    BY <1>1 DEF Full
  <2> QED
    BY <1>1, <2>1, <2>2, <2>3 DEF Inv, Room
<1>9. Places'
  <2>1. ASSUME NEW s \in Service, NEW i \in 1..Len(queues[s])
        PROVE  /\ <<s, queues[s][i]>> \in Pair /\ <<s, queues[s][i]>> \notin chosen
               /\ waited[<<s, queues[s][i]>>] + i + 1 <= NDomains
    <3>1. queues[s][i] \in ToSet(queues[s]) /\ queues[s][i] \in Domain
      BY <1>3, ElementOfSeq DEF ToSet
    <3>2. waited[<<s, queues[s][i]>>] + i + Got(s) <= NDomains
      BY DEF Inv, Places
    <3> QED
      BY <3>1, <3>2, <1>2, <1>4 DEF Pair
  <2>2. ASSUME NEW s \in Service, NEW i \in 1..Len(queues'[s])
        PROVE  waited'[<<s, queues'[s][i]>>] + i + Got(s)' <= NDomains
    <3>1. PICK w \in Nat : w = waited[<<s, queues[s][i]>>]
      BY <2>1, <1>1, <1>5
    <3>2. waited'[<<s, queues'[s][i]>>] = w + 1 /\ Got(s)' = 0
      BY <2>1, <3>1, <1>1, <1>4
    <3>3. w + i + 1 <= NDomains /\ i \in Int
      BY <2>1, <3>1, <1>1
    <3> QED
      BY <3>2, <3>3, <1>0
  <2>3. ASSUME NEW p \in Pair PROVE waited'[p] < NDomains
    <3>1. CASE p \in chosen
      BY <3>1, <1>0, <1>1
    <3>2. CASE p \notin chosen
      <4>1. PICK s \in Service, d \in Domain : p = <<s, d>>
        BY DEF Pair
      <4>2. d \in ToSet(queues[s])
        BY <3>2, <4>1, <1>2
      <4>3. PICK i \in 1..Len(queues[s]) : d = queues[s][i]
        BY <4>2, <1>3 DEF ToSet
      <4>4. waited[p] + i + 1 <= NDomains
        BY <2>1, <4>1, <4>3
      <4>5. waited'[p] = waited[p] + 1 /\ waited[p] \in Nat
        BY <3>2, <1>1, <1>5
      <4>6. i \in Nat /\ i >= 1
        BY <1>3
      <4> QED
        BY <4>4, <4>5, <4>6, <1>0
    <3> QED
      BY <3>1, <3>2
  <2>4. \A p \in Pair : p \notin queued' => waited'[p] = 0
    BY <1>1, <1>2
  <2> QED
    BY <2>2, <2>3, <2>4 DEF Places, BoundedWait
<1>10. Stuck'
  BY <1>1 DEF Stuck
<1>11. Shares'
  <2> SUFFICES ASSUME Even' PROVE
          /\ \A s \in Service : deficits'[s] <= 1
          /\ \A s, t \in Service : Account(s)' = Account(t)'
          /\ \A s, t \in Service : served'[s] <= served'[t] + 1
    BY DEF Shares
  <2>1. Even
    BY <1>1 DEF Even
  <2>2. ASSUME NEW s \in Service
        PROVE  /\ Account(s) \in Int /\ Account(s)' = Account(s) + NDomains + 1
               /\ Account(s)' = served'[s] + deficits[s]
    <3>1. PICK l \in Nat : l = Len(queues[s]) /\ pages(s) = NDomains - l
      BY <1>3
    <3>2. served[s] \in Nat /\ deficits[s] \in Nat
      BY DEF Inv, TypeOK
    <3>3. Account(s) = served[s] + deficits[s] - l - 1
      BY <3>1, <1>1, <1>4 DEF Account, Left
    <3>4. served'[s] = served[s] + (NDomains - l)
      BY <3>1, <1>1
    <3>5. Account(s)' = served'[s] + deficits[s] - 0 - 0
      BY <1>1, <1>4 DEF Account, Left
    <3>6. Account(s)' = served[s] + (NDomains - l) + deficits[s]
      BY <1>0, <3>1, <3>2, <3>4, <3>5
    <3>7. PICK a \in Nat, b \in Nat, n \in Nat : a = served[s] /\ b = deficits[s] /\ n = NDomains
      BY <1>0, <3>2
    <3>8. Account(s) = a + b - l - 1 /\ Account(s)' = a + (n - l) + b /\ served'[s] = a + (n - l)
      BY <3>3, <3>4, <3>6, <3>7
    <3>9. Account(s) \in Int /\ Account(s)' = Account(s) + n + 1 /\ Account(s)' = served'[s] + b
      BY <3>8
    <3> QED
      BY <3>7, <3>9
  <2>3. ASSUME NEW s \in Service, NEW t \in Service PROVE Account(s)' = Account(t)'
    <3>1. Account(s) = Account(t)
      BY <2>1 DEF Inv, Shares
    <3> QED
      BY <3>1, <2>2
  <2>4. ASSUME NEW s \in Service, NEW t \in Service PROVE served'[s] <= served'[t] + 1
    <3>1. served'[s] \in Nat /\ served'[t] \in Nat
      BY <1>6 DEF TypeOK
    <3>2. deficits[s] \in Nat /\ deficits[t] \in Nat /\ deficits[t] <= 1
      BY <2>1 DEF Inv, TypeOK, Shares
    <3>3. served'[s] + deficits[s] = served'[t] + deficits[t]
      BY <2>2, <2>3
    <3> QED
      BY <3>1, <3>2, <3>3
  <2> QED
    BY <2>1, <2>3, <2>4, <1>1 DEF Inv, Shares
<1> QED
  BY <1>6, <1>7, <1>8, <1>9, <1>10, <1>11 DEF Inv

-----------------------------------------------------------------------------
(* The invariant and what it gives *)

\* Every step keeps the invariant.
LEMMA NextInv == Inv /\ [Next]_vars => Inv'
<1> SUFFICES ASSUME Inv, [Next]_vars PROVE Inv'
  OBVIOUS
<1>1. CASE StartSelect
  BY <1>1, StartSelectInv
<1>2. CASE FirstPage
  BY <1>2, FirstPageInv
<1>3. CASE FirstLoopEnds
  BY <1>3, FirstLoopEndsInv
<1>4. CASE Spend
  BY <1>4, SpendInv
<1>5. CASE NextService
  BY <1>5, NextServiceInv
<1>6. CASE NextPass
  BY <1>6, NextPassInv
<1>7. CASE SelectReturns
  BY <1>7, SelectReturnsInv
<1>8. CASE UNCHANGED vars
  <2> USE <1>8 DEF vars, config, history
  <2>1. TypeOK' /\ Queues' /\ Stuck'
    BY DEF Inv, TypeOK, Queues, Stuck, Full, Backlog
  <2>2. \A s \in Service : Got(s)' = Got(s) /\ Account(s)' = Account(s)
    BY DEF Account, Left, Got
  <2>3. Room'
    BY <2>2 DEF Inv, Room, Full
  <2>4. Places'
    BY <2>2 DEF Inv, Places, BoundedWait
  <2>5. Shares'
    BY <2>2 DEF Inv, Shares, Even
  <2> QED
    BY <2>1, <2>3, <2>4, <2>5 DEF Inv
<1> QED
  BY <1>1, <1>2, <1>3, <1>4, <1>5, <1>6, <1>7, <1>8 DEF Next

\* The invariant holds throughout.
LEMMA Invariance == Spec => []Inv
  BY InitInv, NextInv, PTL DEF Spec

\* Type correctness of the selector.
THEOREM TypeCorrect == Spec => []TypeOK
<1>1. Inv => TypeOK
  BY DEF Inv
<1> QED
  BY <1>1, Invariance, PTL

\* No pair is left out of NDomains ticks in a row, whatever the weights and the
\* capacity.
THEOREM NoPairStarves == Spec => []BoundedWait
<1>1. Inv => BoundedWait
  BY DEF Inv, Places
<1> QED
  BY <1>1, Invariance, PTL

\* A tick that returns has used its whole capacity, or has run every pair.
THEOREM CapacityIsUsed == Spec => []WorkConserving
<1>1. Inv => WorkConserving
  <2> SUFFICES ASSUME Inv, pc = "idle", ticks > 0
               PROVE  Len(selected) = IF capacity < NServices * NDomains THEN capacity
                                      ELSE NServices * NDomains
    BY DEF WorkConserving
  <2>1. selected \in Seq(Pair) /\ IsInjective(selected) /\ capacity \in Nat
    BY DEF Inv, TypeOK, Queues
  <2>2. Len(selected) \in Nat /\ ToSet(selected) \in SUBSET Pair
    BY <2>1, Elements
  <2>3. Cardinality(ToSet(selected)) = Len(selected)
    BY <2>1, CountElements
  <2>4. Cardinality(ToSet(selected)) <= Cardinality(Pair)
    BY <2>2, Sizes, FS_Subset
  <2>5. Len(selected) <= capacity /\ (Len(selected) >= capacity \/ ToSet(selected) = Pair)
    BY DEF Inv, Room, Full
  <2>6. PICK k \in Nat, l \in Nat : k = NServices * NDomains /\ l = Len(selected)
    BY <2>2, Sizes
  <2>7. l <= k /\ l <= capacity /\ (l >= capacity \/ l = k)
    BY <2>3, <2>4, <2>5, <2>6, Sizes
  <2>8. l = IF capacity < k THEN capacity ELSE k
    BY <2>1, <2>7
  <2> QED
    BY <2>6, <2>8
<1> QED
  BY <1>1, Invariance, PTL

\* With the default weights, and as many pages left waiting as there are services,
\* no service ever falls two pages behind another.
THEOREM SharesStayEqual == Spec => []EqualShares
<1>1. Inv => EqualShares
  BY DEF Inv, Shares, Even, EqualShares
<1> QED
  BY <1>1, Invariance, PTL

\* The guards FirstPage adds to the code's loop never stop it: capacity is at least
\* the number of services, and the queue of a service that has not had its page holds
\* all of its domains.
THEOREM FirstLoopNeverSkips == Spec => []FirstLoopServes
<1>1. Inv => FirstLoopServes
  <2> SUFFICES ASSUME Inv, pc = "first", turn <= NServices PROVE turn \in Backlog /\ ~Full
    BY DEF FirstLoopServes
  <2>1. NServices \in Nat \ {0} /\ NDomains \in Nat \ {0}
    BY SelectorAssumption
  <2>2. turn \in Service /\ turn \in Nat /\ 1 \in Domain
    BY <2>1 DEF Inv, TypeOK, Service, Domain
  <2>3. <<turn, 1>> \notin ToSet(selected)
    <3>1. turn >= turn
      BY <2>2
    <3>2. \A p \in ToSet(selected) : p[1] # turn
      BY <2>2, <3>1 DEF Inv, Room
    <3>3. <<turn, 1>>[1] = turn
      OBVIOUS
    <3> QED
      BY <3>2, <3>3
  <2>4. 1 \in ToSet(queues[turn])
    BY <2>2, <2>3 DEF Inv, Queues
  <2>5. queues[turn] # <<>>
    BY <2>4, EmptyElements
  <2>6. ~Full
    <3>1. Len(selected) = turn - 1 /\ capacity >= NServices /\ capacity \in Nat
      BY DEF Inv, Room, Queues, TypeOK
    <3> QED
      BY <3>1, <2>1, <2>2 DEF Full
  <2> QED
    BY <2>2, <2>5, <2>6 DEF Backlog
<1> QED
  BY <1>1, Invariance, PTL

\* A tick runs at least one page of every service, and no page twice.
THEOREM EveryServiceEveryTick == Spec => []EveryServiceOnce
<1>1. Inv => EveryServiceOnce
  BY DEF Inv, Queues, Room, EveryServiceOnce
<1> QED
  BY <1>1, Invariance, PTL

\* The while loop of select cannot turn without effect twice in a row: the pass after
\* one that made no progress has someone to serve.
THEOREM IdlePassGivesCredit == Spec => IdlePassFunds
<1>1. Inv /\ [Next]_vars => [NextPass /\ ~progressed => \E s \in Service : MaySpend(s)']_vars
  <2> SUFFICES ASSUME Inv, NextPass, ~progressed PROVE \E s \in Service : MaySpend(s)'
    OBVIOUS
  <2>1. NServices \in Nat \ {0} /\ MaxWeight \in Nat \ {0}
    BY SelectorAssumption
  <2>2. /\ pc = "spend" /\ turn > NServices /\ queues' = queues /\ selected' = selected
        /\ capacity' = capacity
        /\ deficits' = [s \in Service |-> deficits[s] + NewCredit[s]]
    BY DEF NextPass, config
  <2>3. turn > 1
    BY <2>1, <2>2 DEF Inv, TypeOK
  <2>4. ~Full /\ Backlog # {}
    BY <2>2, <2>3 DEF Inv, Stuck
  <2>5. PICK s \in Service : s \in Backlog
    BY <2>4 DEF Backlog
  <2>6. deficits[s] \in Nat /\ weights[s] \in Nat \ {0}
    BY <2>1 DEF Inv, TypeOK
  <2>7. NewCredit[s] = weights[s]
    BY <2>5 DEF NewCredit
  <2>8. deficits'[s] >= 1
    BY <2>2, <2>6, <2>7
  <2>9. s \in Backlog' /\ ~Full'
    BY <2>2, <2>4, <2>5 DEF Backlog, Full
  <2>10. MaySpend(s)'
    BY <2>8, <2>9 DEF MaySpend
  <2> QED
    BY <2>10
<1> QED
  BY <1>1, Invariance, PTL DEF Spec, IdlePassFunds
=============================================================================
