------------------------- MODULE ContentStoreProofs -------------------------
(***************************************************************************)
(* Proofs that the Content Store of ContentStore.tla keeps its table, its  *)
(* queues and its timers together, stays within its capacity, evicts in    *)
(* the order of its policy and erases what nfdc asks for, for any number   *)
(* of Data, any capacities and any size of an erase round.                 *)
(***************************************************************************)
EXTENDS ContentStore, NatOrder, TLAPS, FunctionTheorems, FiniteSetTheorems, SequenceTheorems

----------------------------------------------------------------------------
(* The order of names *)

\* findImpl and eraseImpl find an entry when there is one.
LEMMA FirstOfIn ==
  ASSUME NEW S \in SUBSET Data, S # {}
  PROVE  FirstOf(S) \in S
<1>. DEFINE N == {Rank[d] : d \in S}
<1>1. N \in SUBSET Nat /\ N # {}
  BY StoreAssumption
<1>. HIDE DEF N
<1>2. PICK x \in N : \A y \in N : x <= y
  BY <1>1, SmallestNat
<1>3. PICK d \in S : x = Rank[d]
  BY DEF N
<1>4. \A e \in S : Rank[d] <= Rank[e]
  BY <1>2, <1>3 DEF N
<1>. QED
  BY <1>4 DEF FirstOf

----------------------------------------------------------------------------
(* Queues *)

\* No entry is in the queue s twice.
Distinct(s) == \A i, j \in DOMAIN s : s[i] = s[j] => i = j

\* d is in the queue s before e.
Precedes(s, d, e) == \E i, j \in DOMAIN s : i < j /\ s[i] = d /\ s[j] = e

\* An entry is no longer in a queue from which it was erased, and all others still are.
LEMMA WithoutSeq ==
  ASSUME NEW S, NEW s \in Seq(S), NEW d, Distinct(s)
  PROVE  /\ Without(s, d) \in Seq(S)
         /\ Distinct(Without(s, d))
         /\ Elements(Without(s, d)) = Elements(s) \ {d}
         /\ \A x, y : x # d /\ y # d /\ Precedes(s, x, y) => Precedes(Without(s, d), x, y)
<1>1. CASE d \notin Elements(s)
  BY <1>1 DEF Without
<1>2. CASE d \in Elements(s)
  <2>. DEFINE i == CHOOSE j \in DOMAIN s : s[j] = d
              w == [j \in 1..(Len(s) - 1) |-> IF j < i THEN s[j] ELSE s[j + 1]]
  <2>1. i \in DOMAIN s /\ s[i] = d
    BY <1>2 DEF Elements
  <2>2. DOMAIN s = 1..Len(s) /\ Len(s) \in Nat /\ i \in 1..Len(s) /\ Len(s) - 1 \in Nat
    BY <2>1, LenProperties
  <2>3. Without(s, d) = w
    BY <1>2 DEF Without
  <2>. HIDE DEF i
  <2>4. w \in [1..(Len(s) - 1) -> S]
    BY <2>2
  <2>5. w \in Seq(S) /\ DOMAIN w = 1..(Len(s) - 1)
    BY <2>2, <2>4
  <2>6. \A j \in 1..(Len(s) - 1) : w[j] = IF j < i THEN s[j] ELSE s[j + 1]
    OBVIOUS
  <2>. HIDE DEF w
  <2>7. Distinct(w)
    BY <2>2, <2>5, <2>6 DEF Distinct
  <2>8. Elements(w) = Elements(s) \ {d}
    <3>1. ASSUME NEW j \in 1..(Len(s) - 1) PROVE w[j] \in Elements(s) \ {d}
      BY <2>1, <2>2, <2>6 DEF Elements, Distinct
    <3>2. ASSUME NEW j \in 1..Len(s), s[j] # d PROVE s[j] \in Elements(w)
      <4>1. CASE j < i
        BY <4>1, <2>2, <2>5, <2>6 DEF Elements
      <4>2. CASE j > i
        <5>1. j - 1 \in 1..(Len(s) - 1) /\ w[j - 1] = s[j]
          BY <4>2, <2>2, <2>6
        <5>. QED
          BY <5>1, <2>5 DEF Elements
      <4>. QED
        BY <4>1, <4>2, <3>2, <2>1, <2>2
    <3>. QED
      BY <3>1, <3>2, <2>2, <2>5 DEF Elements
  <2>9. ASSUME NEW x, NEW y, x # d, y # d, Precedes(s, x, y) PROVE Precedes(w, x, y)
    <3>1. PICK a, b \in DOMAIN s : a < b /\ s[a] = x /\ s[b] = y
      BY <2>9 DEF Precedes
    <3>. DEFINE m(k) == IF k < i THEN k ELSE k - 1
    <3>2. a # i /\ b # i
      BY <3>1, <2>1, <2>9
    <3>3. m(a) \in 1..(Len(s) - 1) /\ m(b) \in 1..(Len(s) - 1) /\ m(a) < m(b)
      BY <3>1, <3>2, <2>2
    <3>4. w[m(a)] = x /\ w[m(b)] = y
      BY <3>1, <3>2, <3>3, <2>2, <2>6
    <3>. QED
      BY <3>3, <3>4, <2>5 DEF Precedes
  <2>. QED
    BY <2>3, <2>5, <2>7, <2>8, <2>9
<1>. QED
  BY <1>1, <1>2

\* What attachQueue does to the queue.
LEMMA AppendSeq ==
  ASSUME NEW S, NEW s \in Seq(S), NEW d \in S, Distinct(s), d \notin Elements(s)
  PROVE  /\ Append(s, d) \in Seq(S)
         /\ Distinct(Append(s, d))
         /\ Elements(Append(s, d)) = Elements(s) \cup {d}
         /\ \A x, y : Precedes(s, x, y) => Precedes(Append(s, d), x, y)
         /\ \A x \in Elements(s) : Precedes(Append(s, d), x, d)
<1>. DEFINE a == Append(s, d)
<1>1. Len(s) \in Nat /\ DOMAIN s = 1..Len(s)
  BY LenProperties
<1>2. /\ a \in Seq(S) /\ Len(a) = Len(s) + 1 /\ DOMAIN a = 1..(Len(s) + 1)
      /\ \A i \in 1..Len(s) : a[i] = s[i]
      /\ a[Len(s) + 1] = d
  BY <1>1, AppendProperties
<1>. HIDE DEF a
<1>3. \A i \in 1..Len(s) : s[i] # d
  BY <1>1 DEF Elements
<1>4. Distinct(a)
  BY <1>1, <1>2, <1>3 DEF Distinct
<1>5. Elements(a) = Elements(s) \cup {d}
  <2>1. \A x \in Elements(a) : x \in Elements(s) \cup {d}
    BY <1>1, <1>2 DEF Elements
  <2>2. \A x \in Elements(s) \cup {d} : x \in Elements(a)
    BY <1>1, <1>2 DEF Elements
  <2>. QED
    BY <2>1, <2>2
<1>6. \A x, y : Precedes(s, x, y) => Precedes(a, x, y)
  BY <1>1, <1>2 DEF Precedes
<1>7. \A x \in Elements(s) : Precedes(a, x, d)
  BY <1>1, <1>2 DEF Precedes, Elements
<1>. QED
  BY <1>2, <1>4, <1>5, <1>6, <1>7 DEF a

\* How many entries evictEntries leaves in a queue of length l from which n are to go.
LeftOver(l, n) == IF n <= 0 THEN l ELSE IF n >= l THEN 0 ELSE l - n

\* The places left after eviction.
LEMMA LeftOverRange ==
  ASSUME NEW l \in Nat, NEW n \in Int, n > 0
  PROVE  1..LeftOver(l, n) = 1..(l - n)
<1>1. CASE n >= l
  <2>1. LeftOver(l, n) = 0
    BY <1>1 DEF LeftOver
  <2>. QED
    BY <1>1, <2>1
<1>2. CASE n < l
  BY <1>2 DEF LeftOver
<1>. QED
  BY <1>1, <1>2

\* What evictEntries does to the queue.
LEMMA DropSeq ==
  ASSUME NEW S, NEW s \in Seq(S), NEW n \in Int, Distinct(s)
  PROVE  /\ Drop(s, n) \in Seq(S)
         /\ Distinct(Drop(s, n))
         /\ Elements(Drop(s, n)) = Elements(s) \ Taken(s, n)
         /\ Len(Drop(s, n)) = LeftOver(Len(s), n)
         /\ \A x, y : Precedes(s, x, y) /\ x \in Elements(Drop(s, n))
                         => Precedes(Drop(s, n), x, y)
<1>1. Len(s) \in Nat /\ DOMAIN s = 1..Len(s)
  BY LenProperties
<1>2. CASE n <= 0
  <2>1. Taken(s, n) = {}
    BY <1>1, <1>2 DEF Taken
  <2>. QED
    BY <1>2, <2>1 DEF Drop, LeftOver
<1>3. CASE n > 0
  <2>. DEFINE r == SubSeq(s, n + 1, Len(s))
  <2>1. \A i \in (n + 1)..Len(s) : s[i] \in S
    BY <1>1, <1>3, ElementOfSeq
  <2>2. /\ r \in Seq(S)
        /\ Len(r) = LeftOver(Len(s), n)
        /\ \A i \in 1..(Len(s) - n) : r[i] = s[n + i]
    <3>1. /\ r \in Seq(S)
          /\ Len(r) = IF n + 1 <= Len(s) THEN Len(s) - (n + 1) + 1 ELSE 0
          /\ \A i \in 1..(Len(s) - (n + 1) + 1) : r[i] = s[(n + 1) + i - 1]
      BY <2>1, <1>1, <1>3, SubSeqProperties
    <3>. QED
      BY <3>1, <1>1, <1>3 DEF LeftOver
  <2>3. DOMAIN r = 1..Len(r)
    BY <2>2, LenProperties
  <2>4. Drop(s, n) = r
    BY <1>3 DEF Drop
  <2>. HIDE DEF r
  <2>a. \A i : i \in DOMAIN r <=> i \in 1..(Len(s) - n)
    <3>1. 1..LeftOver(Len(s), n) = 1..(Len(s) - n)
      BY <1>1, <1>3, LeftOverRange
    <3>. QED
      BY <3>1, <2>2, <2>3
  <2>5. ASSUME NEW i \in DOMAIN r
        PROVE  i \in 1..(Len(s) - n) /\ n + i \in DOMAIN s /\ r[i] = s[n + i]
    <3>1. i \in 1..(Len(s) - n)
      BY <2>a
    <3>. QED
      BY <3>1, <2>2, <1>1, <1>3
  <2>6. ASSUME NEW i \in DOMAIN s, i > n
        PROVE  i - n \in DOMAIN r /\ r[i - n] = s[i]
    <3>1. i - n \in 1..(Len(s) - n) /\ n + (i - n) = i
      BY <2>6, <1>1, <1>3
    <3>2. r[i - n] = s[n + (i - n)]
      BY <3>1, <2>2
    <3>. QED
      BY <3>1, <3>2, <2>a
  <2>7. Distinct(r)
    <3>. SUFFICES ASSUME NEW i \in DOMAIN r, NEW j \in DOMAIN r, r[i] = r[j]
                  PROVE  i = j
      BY DEF Distinct
    <3>1. n + i = n + j
      BY <2>5 DEF Distinct
    <3>2. i \in Int /\ j \in Int
      BY <2>5
    <3>. QED
      BY <3>1, <3>2
  <2>8. Elements(r) = Elements(s) \ Taken(s, n)
    <3>1. \A x \in Elements(r) : x \in Elements(s) /\ x \notin Taken(s, n)
      BY <2>5, <1>1, <1>3 DEF Elements, Taken, Distinct
    <3>2. \A x \in Elements(s) : x \notin Taken(s, n) => x \in Elements(r)
      BY <2>6, <1>1, <1>3 DEF Elements, Taken
    <3>. QED
      BY <3>1, <3>2
  <2>9. ASSUME NEW x, NEW y, Precedes(s, x, y), x \in Elements(r) PROVE Precedes(r, x, y)
    <3>1. PICK a, b \in DOMAIN s : a < b /\ s[a] = x /\ s[b] = y
      BY <2>9 DEF Precedes
    <3>2. PICK i \in DOMAIN r : r[i] = x
      BY <2>9 DEF Elements
    <3>3. a = n + i
      BY <3>1, <3>2, <2>5 DEF Distinct
    <3>4. a > n /\ b > n /\ a - n < b - n
      BY <3>1, <3>2, <3>3, <2>5, <1>1, <1>3
    <3>. QED
      BY <3>1, <3>4, <2>6 DEF Precedes
  <2>. QED
    BY <2>2, <2>4, <2>7, <2>8, <2>9
<1>. QED
  BY <1>2, <1>3

\* A queue has as many entries as its length.
LEMMA DistinctCardinality ==
  ASSUME NEW S, NEW s \in Seq(S), Distinct(s)
  PROVE  IsFiniteSet(Elements(s)) /\ Cardinality(Elements(s)) = Len(s)
<1>1. Len(s) \in Nat /\ DOMAIN s = 1..Len(s) /\ s \in [1..Len(s) -> S]
  BY LenProperties
<1>2. s \in [1..Len(s) -> Elements(s)]
  BY <1>1 DEF Elements
<1>3. s \in Bijection(1..Len(s), Elements(s))
  BY <1>1, <1>2, Fun_IsBij DEF Distinct, Elements
<1>4. ExistsBijection(1..Len(s), Elements(s))
  BY <1>3 DEF ExistsBijection
<1>5. IsFiniteSet(1..Len(s)) /\ Cardinality(1..Len(s)) = Len(s)
  BY <1>1, FS_Interval
<1>. QED
  BY <1>4, <1>5, FS_Bijection

----------------------------------------------------------------------------
(* All queues of a policy *)

\* The queues q hold the table S under the policy pol (QueuesHoldTable with its types).
Holds(S, q, pol) ==
  /\ q \in [Queue -> Seq(Data)]
  /\ \A k \in Queue : Distinct(q[k])
  /\ \A k, l \in Queue : k # l => Elements(q[k]) \cap Elements(q[l]) = {}
  /\ UNION {Elements(q[k]) : k \in Queue} = S
  /\ pol = "priority_fifo" => q["lru"] = <<>>
  /\ pol = "lru" => Elements(q["lru"]) = S

\* The timers and the unsolicited entries match the queues (TimersMatchQueues).
Matched(t, U, q, pol) ==
  /\ t = Elements(q["fifo"])
  /\ pol = "priority_fifo" => U = Elements(q["unsolicited"])

Size(q, k) == Len(q[k])

\* A queue without elements is the empty sequence.
LEMMA EmptyElements ==
  ASSUME NEW S, NEW s \in Seq(S), Elements(s) = {}
  PROVE  s = <<>> /\ Len(s) = 0
<1>1. Len(s) \in Nat /\ DOMAIN s = 1..Len(s)
  BY LenProperties
<1>2. ASSUME Len(s) # 0 PROVE FALSE
  <2>1. 1 \in DOMAIN s
    BY <1>1, <1>2
  <2>. QED
    BY <2>1 DEF Elements
<1>. QED
  BY <1>2, EmptySeq

\* Disjoint finite sets add up.
LEMMA DisjointUnion ==
  ASSUME NEW S, NEW T, IsFiniteSet(S), IsFiniteSet(T), S \cap T = {}
  PROVE  IsFiniteSet(S \cup T) /\ Cardinality(S \cup T) = Cardinality(S) + Cardinality(T)
<1>1. Cardinality(S) \in Nat /\ Cardinality(T) \in Nat /\ Cardinality(S \cap T) = 0
  BY FS_CardinalityType, FS_EmptySet
<1>2. Cardinality(S \cup T) = Cardinality(S) + Cardinality(T) - Cardinality(S \cap T)
  BY FS_Union
<1>. QED
  BY <1>1, <1>2, FS_Union

\* LRU uses no queue but its own.
LEMMA OnlyLru ==
  ASSUME NEW S, NEW q, Holds(S, q, "lru"), NEW k \in Queue, k # "lru"
  PROVE  q[k] = <<>> /\ Size(q, k) = 0 /\ Elements(q[k]) = {}
<1>1. "lru" \in Queue /\ Elements(q["lru"]) = S /\ q[k] \in Seq(Data)
  BY DEF Holds, Queue
<1>2. Elements(q[k]) \subseteq S /\ Elements(q[k]) \cap Elements(q["lru"]) = {}
  BY <1>1 DEF Holds
<1>3. Elements(q[k]) = {}
  BY <1>1, <1>2
<1>. QED
  BY <1>1, <1>3, EmptyElements DEF Size

\* The table has as many entries as all queues together.
LEMMA HoldsCardinality ==
  ASSUME NEW S, NEW q, NEW pol, Holds(S, q, pol)
  PROVE  /\ \A k \in Queue : Size(q, k) \in Nat
         /\ IsFiniteSet(S)
         /\ Cardinality(S) = Size(q, "unsolicited") + Size(q, "stale") + Size(q, "fifo")
                              + Size(q, "lru")
<1>. DEFINE E(k) == Elements(q[k])
<1>1. \A k \in Queue : IsFiniteSet(E(k)) /\ Cardinality(E(k)) = Size(q, k) /\ Size(q, k) \in Nat
  BY DistinctCardinality, LenProperties DEF Holds, Size
<1>2. \A k, l \in Queue : k # l => E(k) \cap E(l) = {}
  BY DEF Holds
<1>3. S = ((E("unsolicited") \cup E("stale")) \cup E("fifo")) \cup E("lru")
  BY DEF Holds, Queue
<1>. HIDE DEF E
<1>4. /\ IsFiniteSet(E("unsolicited") \cup E("stale"))
      /\ Cardinality(E("unsolicited") \cup E("stale"))
           = Size(q, "unsolicited") + Size(q, "stale")
  <2>1. E("unsolicited") \cap E("stale") = {}
    BY <1>2 DEF Queue
  <2>2. /\ IsFiniteSet(E("unsolicited")) /\ Cardinality(E("unsolicited")) = Size(q, "unsolicited")
        /\ IsFiniteSet(E("stale")) /\ Cardinality(E("stale")) = Size(q, "stale")
    BY <1>1 DEF Queue
  <2>. QED
    BY <2>2, <2>1, DisjointUnion
<1>5. /\ IsFiniteSet((E("unsolicited") \cup E("stale")) \cup E("fifo"))
      /\ Cardinality((E("unsolicited") \cup E("stale")) \cup E("fifo"))
           = Size(q, "unsolicited") + Size(q, "stale") + Size(q, "fifo")
  <2>1. (E("unsolicited") \cup E("stale")) \cap E("fifo") = {}
    BY <1>2 DEF Queue
  <2>2. IsFiniteSet(E("fifo")) /\ Cardinality(E("fifo")) = Size(q, "fifo")
    BY <1>1 DEF Queue
  <2>. QED
    BY <2>2, <1>4, <2>1, DisjointUnion
<1>6. /\ IsFiniteSet(S)
      /\ Cardinality(S) = Size(q, "unsolicited") + Size(q, "stale") + Size(q, "fifo")
                           + Size(q, "lru")
  <2>1. ((E("unsolicited") \cup E("stale")) \cup E("fifo")) \cap E("lru") = {}
    BY <1>2 DEF Queue
  <2>2. IsFiniteSet(E("lru")) /\ Cardinality(E("lru")) = Size(q, "lru")
    BY <1>1 DEF Queue
  <2>. QED
    BY <2>2, <1>3, <1>5, <2>1, DisjointUnion
<1>. QED
  BY <1>1, <1>6

----------------------------------------------------------------------------
(* evictEntries *)

\* The queues after n entries have gone.
DropAll(q, n) == [k \in Queue |-> Drop(q[k], n - Ahead(q, k))]

\* Each queue after evictions.
LEMMA EvictionOfQueue ==
  ASSUME NEW S, NEW q, NEW pol, Holds(S, q, pol), NEW n \in Int, NEW k \in Queue
  PROVE  /\ Ahead(q, k) \in Nat
         /\ DropAll(q, n)[k] \in Seq(Data)
         /\ Distinct(DropAll(q, n)[k])
         /\ Elements(DropAll(q, n)[k]) = Elements(q[k]) \ Evicted(q, n)
         /\ Size(DropAll(q, n), k) = LeftOver(Size(q, k), n - Ahead(q, k))
         /\ \A x, y : Precedes(q[k], x, y) /\ x \in Elements(DropAll(q, n)[k])
                        => Precedes(DropAll(q, n)[k], x, y)
<1>1. \A l \in Queue : Ahead(q, l) \in Nat
  <2>1. \A l \in Queue : Size(q, l) \in Nat
    BY HoldsCardinality
  <2>2. Size(q, "unsolicited") \in Nat /\ Size(q, "stale") \in Nat
    BY <2>1 DEF Queue
  <2>3. Ahead(q, "unsolicited") \in Nat /\ Ahead(q, "lru") \in Nat
    BY DEF Ahead, Size
  <2>4. Ahead(q, "stale") = Size(q, "unsolicited")
    BY DEF Ahead, Size
  <2>5. Ahead(q, "fifo") = Size(q, "unsolicited") + Size(q, "stale")
    BY DEF Ahead, Size
  <2>6. Size(q, "unsolicited") + Size(q, "stale") \in Nat
    BY <2>2
  <2>. QED
    BY <2>2, <2>3, <2>4, <2>5, <2>6 DEF Queue
<1>2. q[k] \in Seq(Data) /\ Distinct(q[k])
  BY DEF Holds
<1>3. DropAll(q, n)[k] = Drop(q[k], n - Ahead(q, k))
  BY DEF DropAll
<1>4. n - Ahead(q, k) \in Int
  BY <1>1
<1>5. Elements(q[k]) \ Taken(q[k], n - Ahead(q, k)) = Elements(q[k]) \ Evicted(q, n)
  <2>1. Taken(q[k], n - Ahead(q, k)) \subseteq Evicted(q, n)
    BY DEF Evicted
  <2>2. ASSUME NEW x \in Elements(q[k]), x \in Evicted(q, n)
        PROVE  x \in Taken(q[k], n - Ahead(q, k))
    <3>1. PICK l \in Queue : x \in Taken(q[l], n - Ahead(q, l))
      BY <2>2 DEF Evicted
    <3>2. x \in Elements(q[l])
      BY <3>1 DEF Taken, Elements
    <3>3. k = l
      BY <2>2, <3>2 DEF Holds
    <3>. QED
      BY <3>1, <3>3
  <2>. QED
    BY <2>1, <2>2
<1>. DEFINE m == n - Ahead(q, k)
<1>6. /\ Drop(q[k], m) \in Seq(Data)
      /\ Distinct(Drop(q[k], m))
      /\ Elements(Drop(q[k], m)) = Elements(q[k]) \ Taken(q[k], m)
      /\ Len(Drop(q[k], m)) = LeftOver(Len(q[k]), m)
      /\ \A x, y : Precedes(q[k], x, y) /\ x \in Elements(Drop(q[k], m))
                      => Precedes(Drop(q[k], m), x, y)
  <2>. HIDE DEF m
  <2>1. m \in Int
    BY <1>4 DEF m
  <2>. QED
    BY <2>1, <1>2, DropSeq
<1>. QED
  BY <1>1, <1>3, <1>5, <1>6 DEF Size

\* Evictions keep the queues and the table together.
LEMMA EvictionHolds ==
  ASSUME NEW S, NEW q, NEW pol, Holds(S, q, pol), NEW n \in Int
  PROVE  Holds(S \ Evicted(q, n), DropAll(q, n), pol)
<1>. DEFINE r == DropAll(q, n)
            gone == Evicted(q, n)
<1>1. \A k \in Queue : /\ r[k] \in Seq(Data) /\ Distinct(r[k])
                       /\ Elements(r[k]) = Elements(q[k]) \ gone
  BY EvictionOfQueue
<1>2. r \in [Queue -> Seq(Data)]
  BY <1>1 DEF DropAll
<1>. HIDE DEF r, gone
<1>3. UNION {Elements(r[k]) : k \in Queue} = S \ gone
  BY <1>1 DEF Holds
<1>4. \A k, l \in Queue : k # l => Elements(r[k]) \cap Elements(r[l]) = {}
  BY <1>1 DEF Holds
<1>5. ASSUME pol = "priority_fifo" PROVE r["lru"] = <<>>
  <2>1. Elements(q["lru"]) = {}
    BY <1>5 DEF Holds, Elements
  <2>2. Elements(r["lru"]) = {} /\ r["lru"] \in Seq(Data)
    BY <1>1, <2>1 DEF Queue
  <2>. QED
    BY <2>2, EmptyElements
<1>6. pol = "lru" => Elements(r["lru"]) = S \ gone
  BY <1>1 DEF Holds, Queue
<1>7. Holds(S \ gone, r, pol)
  BY <1>1, <1>2, <1>3, <1>4, <1>5, <1>6 DEF Holds
<1>. QED
  BY <1>7 DEF r, gone

\* Eviction queue by queue leaves no more than the limit.
LEMMA LeftOverSum ==
  ASSUME NEW a \in Nat, NEW b \in Nat, NEW c \in Nat, NEW lim \in Nat, NEW n \in Int,
         n = a + b + c - lim
  PROVE  LeftOver(a, n) + LeftOver(b, n - a) + LeftOver(c, n - (a + b)) <= lim
<1>1. CASE n <= 0
  BY <1>1 DEF LeftOver
<1>2. CASE n > 0 /\ n <= a
  <2>1. LeftOver(a, n) = a - n /\ LeftOver(b, n - a) = b /\ LeftOver(c, n - (a + b)) = c
    BY <1>2 DEF LeftOver
  <2>. QED
    BY <2>1
<1>3. CASE n > a /\ n <= a + b
  <2>1. LeftOver(a, n) = 0 /\ LeftOver(b, n - a) = b - (n - a) /\ LeftOver(c, n - (a + b)) = c
    BY <1>3 DEF LeftOver
  <2>. QED
    BY <2>1
<1>4. CASE n > a + b
  <2>1. LeftOver(a, n) = 0 /\ LeftOver(b, n - a) = 0
    BY <1>4 DEF LeftOver
  <2>2. LeftOver(c, n - (a + b)) <= lim /\ LeftOver(c, n - (a + b)) \in Nat
    BY <1>4 DEF LeftOver
  <2>. QED
    BY <2>1, <2>2
<1>. QED
  BY <1>1, <1>2, <1>3, <1>4

\* Evictions bring the table within the limit.
LEMMA EvictionLimit ==
  ASSUME NEW S, NEW q, NEW pol \in {"lru", "priority_fifo"}, Holds(S, q, pol),
         NEW lim \in Nat
  PROVE  Cardinality(S \ Evicted(q, Cardinality(S) - lim)) <= lim
<1>. DEFINE n == Cardinality(S) - lim
            r == DropAll(q, n)
<1>1. /\ \A k \in Queue : Size(q, k) \in Nat
      /\ Cardinality(S) = Size(q, "unsolicited") + Size(q, "stale") + Size(q, "fifo")
                            + Size(q, "lru")
  BY HoldsCardinality
<1>2. n \in Int
  BY <1>1 DEF Queue
<1>3. Holds(S \ Evicted(q, n), r, pol)
  BY <1>2, EvictionHolds
<1>4. Cardinality(S \ Evicted(q, n))
        = Size(r, "unsolicited") + Size(r, "stale") + Size(r, "fifo") + Size(r, "lru")
  BY <1>3, HoldsCardinality
<1>5. /\ Size(r, "unsolicited") = LeftOver(Size(q, "unsolicited"), n)
      /\ Size(r, "stale") = LeftOver(Size(q, "stale"), n - Size(q, "unsolicited"))
      /\ Size(r, "fifo")
           = LeftOver(Size(q, "fifo"), n - (Size(q, "unsolicited") + Size(q, "stale")))
      /\ Size(r, "lru") = LeftOver(Size(q, "lru"), n)
  <2>1. \A k \in Queue : Size(r, k) = LeftOver(Size(q, k), n - Ahead(q, k))
    BY <1>2, EvictionOfQueue
  <2>2. /\ Ahead(q, "unsolicited") = 0 /\ Ahead(q, "lru") = 0
        /\ Ahead(q, "stale") = Size(q, "unsolicited")
        /\ Ahead(q, "fifo") = Size(q, "unsolicited") + Size(q, "stale")
    BY DEF Ahead, Size
  <2>3. n - 0 = n
    BY <1>2
  <2>. QED
    BY <2>1, <2>2, <2>3 DEF Queue
<1>6. CASE pol = "lru"
  <2>1. Size(q, "unsolicited") = 0 /\ Size(q, "stale") = 0 /\ Size(q, "fifo") = 0
    BY <1>6, OnlyLru DEF Queue
  <2>2. Size(q, "lru") \in Nat /\ n = Size(q, "lru") - lim
    BY <1>1, <2>1 DEF Queue
  <2>3. /\ Size(r, "unsolicited") = 0 /\ Size(r, "stale") = 0 /\ Size(r, "fifo") = 0
    <3>1. \A m \in Int : LeftOver(0, m) = 0
      BY DEF LeftOver
    <3>2. n - 0 \in Int /\ n - (0 + 0) \in Int
      BY <1>2
    <3>. HIDE DEF n, r
    <3>. QED
      BY <1>2, <1>5, <2>1, <3>1, <3>2
  <2>4. Size(r, "lru") <= lim /\ Size(r, "lru") \in Nat
    <3>. HIDE DEF n, r
    <3>. QED
      BY <1>2, <1>5, <2>2 DEF LeftOver
  <2>. HIDE DEF n, r
  <2>. QED
    BY <1>4, <2>3, <2>4 DEF n
<1>7. CASE pol = "priority_fifo"
  <2>1. Size(q, "lru") = 0
    BY <1>7, EmptySeq DEF Holds, Size
  <2>2. /\ Size(q, "unsolicited") \in Nat /\ Size(q, "stale") \in Nat /\ Size(q, "fifo") \in Nat
        /\ n = Size(q, "unsolicited") + Size(q, "stale") + Size(q, "fifo") - lim
    BY <1>1, <2>1 DEF Queue
  <2>. HIDE DEF n
  <2>3. LeftOver(Size(q, "unsolicited"), n) + LeftOver(Size(q, "stale"), n - Size(q, "unsolicited"))
          + LeftOver(Size(q, "fifo"), n - (Size(q, "unsolicited") + Size(q, "stale"))) <= lim
    BY <1>2, <2>2, LeftOverSum
  <2>4. Size(r, "lru") = 0
    BY <1>2, <1>5, <2>1 DEF LeftOver
  <2>5. \A k \in Queue : Size(r, k) \in Nat
    BY <1>3, HoldsCardinality
  <2>. HIDE DEF r
  <2>6. Size(r, "unsolicited") \in Nat /\ Size(r, "stale") \in Nat /\ Size(r, "fifo") \in Nat
    BY <2>5 DEF Queue
  <2>. QED
    BY <1>4, <1>5, <2>3, <2>4, <2>6 DEF n
<1>. QED
  BY <1>6, <1>7

----------------------------------------------------------------------------
(* detachQueue and attachQueue *)

\* An entry taken out of its queue leaves the others where and in the order they were.
LEMMA DetachHolds ==
  ASSUME NEW S, NEW q, NEW pol, Holds(S, q, pol), NEW d
  PROVE  /\ Holds(S \ {d}, Detach(q, d), pol)
         /\ \A k \in Queue : /\ Elements(Detach(q, d)[k]) = Elements(q[k]) \ {d}
                             /\ \A x, y : x # d /\ y # d /\ Precedes(q[k], x, y)
                                            => Precedes(Detach(q, d)[k], x, y)
<1>. DEFINE r == Detach(q, d)
<1>1. ASSUME NEW k \in Queue
      PROVE  /\ r[k] \in Seq(Data) /\ Distinct(r[k])
             /\ Elements(r[k]) = Elements(q[k]) \ {d}
             /\ \A x, y : x # d /\ y # d /\ Precedes(q[k], x, y) => Precedes(r[k], x, y)
  <2>1. q[k] \in Seq(Data) /\ Distinct(q[k])
    BY DEF Holds
  <2>2. r[k] = Without(q[k], d)
    BY DEF Detach
  <2>. QED
    BY <2>1, <2>2, WithoutSeq
<1>2. r \in [Queue -> Seq(Data)]
  BY <1>1 DEF Detach
<1>. HIDE DEF r
<1>3. UNION {Elements(r[k]) : k \in Queue} = S \ {d}
  BY <1>1 DEF Holds
<1>4. \A k, l \in Queue : k # l => Elements(r[k]) \cap Elements(r[l]) = {}
  BY <1>1 DEF Holds
<1>5. ASSUME pol = "priority_fifo" PROVE r["lru"] = <<>>
  <2>1. Elements(q["lru"]) = {}
    BY <1>5 DEF Holds, Elements
  <2>2. Elements(r["lru"]) = {} /\ r["lru"] \in Seq(Data)
    BY <1>1, <2>1 DEF Queue
  <2>. QED
    BY <2>2, EmptyElements
<1>6. pol = "lru" => Elements(r["lru"]) = S \ {d}
  BY <1>1 DEF Holds, Queue
<1>7. Holds(S \ {d}, r, pol)
  BY <1>1, <1>2, <1>3, <1>4, <1>5, <1>6 DEF Holds
<1>. QED
  BY <1>1, <1>7 DEF r

\* The queue is one the policy uses.
Used(k, pol) == k \in Queue /\ (k = "lru" <=> pol = "lru")

\* r is q with d at the end of queue k.
Attached(q, d, k, r) ==
  /\ r \in [Queue -> Seq(Data)]
  /\ Distinct(r[k])
  /\ Elements(r[k]) = Elements(q[k]) \cup {d}
  /\ \A l \in Queue \ {k} : r[l] = q[l]
  /\ \A x, y : Precedes(q[k], x, y) => Precedes(r[k], x, y)
  /\ \A x \in Elements(q[k]) : Precedes(r[k], x, d)

\* What Attach does to the queues,
LEMMA AttachQueue ==
  ASSUME NEW S, NEW q, NEW pol, Holds(S, q, pol),
         NEW d \in Data, d \notin S, NEW k \in Queue, NEW r, r = Attach(q, d, k)
  PROVE  Attached(q, d, k, r)
<1>1. q[k] \in Seq(Data) /\ Distinct(q[k]) /\ d \notin Elements(q[k])
  BY DEF Holds
<1>2. r[k] = Append(q[k], d) /\ \A l \in Queue \ {k} : r[l] = q[l]
  BY DEF Attach, Holds
<1>3. /\ r[k] \in Seq(Data) /\ Distinct(r[k])
      /\ Elements(r[k]) = Elements(q[k]) \cup {d}
      /\ \A x, y : Precedes(q[k], x, y) => Precedes(r[k], x, y)
      /\ \A x \in Elements(q[k]) : Precedes(r[k], x, d)
  BY <1>1, <1>2, AppendSeq
<1>4. r \in [Queue -> Seq(Data)]
  <2>1. Append(q[k], d) \in Seq(Data)
    BY <1>2, <1>3
  <2>. QED
    BY <2>1 DEF Attach, Holds
<1>. QED
  BY <1>2, <1>3, <1>4 DEF Attached

\* which then hold the new entry too.
LEMMA AttachHolds ==
  ASSUME NEW S, NEW q, NEW pol \in {"lru", "priority_fifo"}, Holds(S, q, pol),
         NEW d \in Data, d \notin S, NEW k, Used(k, pol),
         NEW r, r = Attach(q, d, k), NEW T, T = S \cup {d}
  PROVE  Holds(T, r, pol)
<1>0. k \in Queue
  BY DEF Used
<1>. Attached(q, d, k, r)
  BY <1>0, AttachQueue
<1>1. r \in [Queue -> Seq(Data)] /\ Distinct(r[k])
  BY DEF Attached
<1>2. \A l \in Queue \ {k} : r[l] = q[l]
  BY DEF Attached
<1>3. Elements(r[k]) = Elements(q[k]) \cup {d}
  BY DEF Attached
<1>5. \A l \in Queue : Distinct(r[l])
  BY <1>1, <1>2 DEF Holds
<1>6. \A l, m \in Queue : l # m => Elements(r[l]) \cap Elements(r[m]) = {}
  <2>1. \A l \in Queue : d \notin Elements(q[l])
    BY DEF Holds
  <2>2. \A l, m \in Queue : l # m => Elements(q[l]) \cap Elements(q[m]) = {}
    BY DEF Holds
  <2>. SUFFICES ASSUME NEW l \in Queue, NEW m \in Queue, l # m
                PROVE  Elements(r[l]) \cap Elements(r[m]) = {}
    OBVIOUS
  <2>3. Elements(q[l]) \cap Elements(q[m]) = {} /\ d \notin Elements(q[l]) /\ d \notin Elements(q[m])
    BY <2>1, <2>2
  <2>4. CASE l = k
    BY <2>3, <2>4, <1>2, <1>3
  <2>5. CASE m = k
    BY <2>3, <2>5, <1>2, <1>3
  <2>6. CASE l # k /\ m # k
    BY <2>3, <2>6, <1>2
  <2>. QED
    BY <2>4, <2>5, <2>6
<1>7. UNION {Elements(r[l]) : l \in Queue} = S \cup {d}
  <2>1. S = UNION {Elements(q[l]) : l \in Queue}
    BY DEF Holds
  <2>2. ASSUME NEW x \in S \cup {d} PROVE x \in UNION {Elements(r[l]) : l \in Queue}
    <3>1. CASE x = d
      BY <3>1, <1>0, <1>3
    <3>2. CASE x # d
      <4>1. PICK l \in Queue : x \in Elements(q[l])
        BY <2>1, <3>2
      <4>2. x \in Elements(r[l])
        BY <4>1, <1>2, <1>3
      <4>. QED
        BY <4>2
    <3>. QED
      BY <3>1, <3>2
  <2>3. ASSUME NEW l \in Queue PROVE Elements(r[l]) \subseteq S \cup {d}
    BY <2>1, <1>2, <1>3
  <2>. QED
    BY <2>2, <2>3
<1>8. pol = "priority_fifo" => r["lru"] = <<>>
  BY <1>2 DEF Used, Queue, Holds
<1>9. pol = "lru" => Elements(r["lru"]) = S \cup {d}
  BY <1>3 DEF Used, Holds
<1>10. Holds(S \cup {d}, r, pol)
  BY <1>1, <1>5, <1>6, <1>7, <1>8, <1>9 DEF Holds
<1>. QED
  BY <1>10

\* r is q with d moved to the end of queue k.
Moved(q, d, k, r) ==
  /\ Elements(r[k]) = Elements(q[k]) \cup {d}
  /\ \A l \in Queue \ {k} : Elements(r[l]) = Elements(q[l]) \ {d}
  /\ \A x, y : x # d /\ y # d /\ Precedes(q[k], x, y) => Precedes(r[k], x, y)
  /\ \A x \in Elements(q[k]) \ {d} : Precedes(r[k], x, d)

\* An entry moved to another queue, or to the end of its own, is still held once.
LEMMA MoveHolds ==
  ASSUME NEW S, NEW q, NEW pol \in {"lru", "priority_fifo"}, Holds(S, q, pol),
         NEW d \in S, S \subseteq Data, NEW k, Used(k, pol),
         NEW r, r = Attach(Detach(q, d), d, k)
  PROVE  Holds(S, r, pol) /\ Moved(q, d, k, r)
<1>. DEFINE w == Detach(q, d)
            R == S \ {d}
<1>0. k \in Queue
  BY DEF Used
<1>1. /\ Holds(R, w, pol)
      /\ \A l \in Queue : Elements(w[l]) = Elements(q[l]) \ {d}
      /\ \A x, y : x # d /\ y # d /\ Precedes(q[k], x, y) => Precedes(w[k], x, y)
  BY <1>0, DetachHolds
<1>. HIDE DEF w
<1>2. R \cup {d} = S /\ d \in Data /\ d \notin R
  OBVIOUS
<1>. HIDE DEF R
<1>3. r = Attach(w, d, k)
  BY DEF w
<1>4. Holds(S, r, pol)
  BY <1>1, <1>2, <1>3, AttachHolds
<1>5. Attached(w, d, k, r)
  BY <1>0, <1>1, <1>2, <1>3, AttachQueue
<1>. QED
  BY <1>0, <1>1, <1>4, <1>5 DEF Attached, Moved

\* moveToStaleQueue moves an entry of the FIFO queue.
LEMMA MoveToStaleIsMove ==
  ASSUME NEW S, NEW q, NEW pol, Holds(S, q, pol), NEW d, d \in Elements(q["fifo"])
  PROVE  [q EXCEPT !["fifo"] = Without(@, d), !["stale"] = Append(@, d)]
           = Attach(Detach(q, d), d, "stale")
<1>1. q \in [Queue -> Seq(Data)]
  BY DEF Holds
<1>2. \A k \in Queue \ {"fifo"} : d \notin Elements(q[k])
  BY DEF Holds, Queue
<1>3. \A k \in Queue \ {"fifo"} : Without(q[k], d) = q[k]
  BY <1>2 DEF Without
<1>. DEFINE a == [q EXCEPT !["fifo"] = Without(@, d), !["stale"] = Append(@, d)]
            b == Attach(Detach(q, d), d, "stale")
<1>4. a = [k \in Queue |-> IF k = "stale" THEN Append(q[k], d)
                            ELSE IF k = "fifo" THEN Without(q[k], d) ELSE q[k]]
  BY <1>1 DEF Queue
<1>5. b = [k \in Queue |-> IF k = "stale" THEN Append(Without(q[k], d), d)
                            ELSE Without(q[k], d)]
  BY DEF Attach, Detach, Queue
<1>. HIDE DEF a, b
<1>6. a = b
  BY <1>3, <1>4, <1>5
<1>. QED
  BY <1>6 DEF a, b

\* beforeUse of LRU moves the entry.
LEMMA UseIsMove ==
  ASSUME NEW S, NEW q, Holds(S, q, "lru"), NEW d \in S
  PROVE  [q EXCEPT !["lru"] = Append(Without(@, d), d)] = Attach(Detach(q, d), d, "lru")
<1>1. q \in [Queue -> Seq(Data)]
  BY DEF Holds
<1>2. \A k \in Queue \ {"lru"} : Elements(q[k]) = {}
  BY OnlyLru
<1>3. \A k \in Queue \ {"lru"} : Without(q[k], d) = q[k]
  BY <1>2 DEF Without
<1>. QED
  BY <1>1, <1>3 DEF Attach, Detach, Queue

----------------------------------------------------------------------------
(* The inductive invariant *)

\* An entry of the stale queue is not fresh.
StaleIn(q, f) == \A d \in Elements(q["stale"]) : f[d] <= 0

\* Under LRU the queue is in the order of use.
InOrder(q, B, pol) == pol = "lru" => \A e \in B : Precedes(q["lru"], e[1], e[2])

StoreInv ==
  /\ Holds(table, queues, policy)
  /\ Matched(timers, unsolicited, queues, policy)
  /\ WithinLimit
  /\ StaleIn(queues, freshLeft)
  /\ InOrder(queues, before, policy)

\* What nfdc knows of the store.
ClientInv ==
  /\ client.served => serve
  /\ client.count = NoCount => client.left = NoCount
  /\ round # NoRound => client.phase = "asking" /\ round <= Budget(client.left)
  /\ old \subseteq Under[client.prefix]
  /\ EraseReachesAll

Inv == TypeOK /\ StoreInv /\ ClientInv

\* There are two policies.
LEMMA PolicyType == ASSUME TypeOK PROVE policy \in {"lru", "priority_fifo"}
  BY StoreAssumption DEF TypeOK

\* The invariant holds of the empty Content Store.
LEMMA InitInv == Init => Inv
<1>. SUFFICES ASSUME Init PROVE Inv
  OBVIOUS
<1>1. TypeOK
  BY StoreAssumption, EraseAssumption, EmptySeq DEF Init, TypeOK, Client, Phase
<1>2. \A k \in Queue : queues[k] = <<>> /\ DOMAIN queues[k] = {}
  BY DEF Init
<1>3. \A k \in Queue : Elements(queues[k]) = {} /\ Distinct(queues[k])
  BY <1>2 DEF Elements, Distinct
<1>4. Holds(table, queues, policy)
  <2>1. UNION {Elements(queues[k]) : k \in Queue} = {}
    BY <1>3
  <2>2. queues["lru"] = <<>> /\ Elements(queues["lru"]) = {}
    BY <1>2, <1>3 DEF Queue
  <2>. QED
    BY <1>1, <1>3, <2>1, <2>2 DEF Holds, TypeOK, Init
<1>5. Matched(timers, unsolicited, queues, policy) /\ StaleIn(queues, freshLeft)
  BY <1>3 DEF Matched, StaleIn, Init, Queue
<1>6. WithinLimit
  BY FS_EmptySet, StoreAssumption DEF WithinLimit, Init
<1>7. InOrder(queues, before, policy)
  BY DEF InOrder, Init
<1>8. ClientInv
  <2>1. client.phase = "idle" /\ client.served = TRUE /\ client.count = 0 /\ client.left = 0
    BY DEF Init
  <2>. QED
    BY <2>1, EraseAssumption DEF ClientInv, Init, EraseReachesAll
<1>. QED
  BY <1>1, <1>4, <1>5, <1>6, <1>7, <1>8 DEF Inv, StoreInv

----------------------------------------------------------------------------
(* Actions that evict *)

\* The store before evictions.
Ready(S, U, f, q, t, B, pol) ==
  /\ S \subseteq Data /\ U \subseteq S /\ f \in [S -> Int] /\ Holds(S, q, pol)
  /\ Matched(t, U, q, pol) /\ StaleIn(q, f) /\ B \subseteq S \X S /\ InOrder(q, B, pol)
  /\ old \subseteq S

\* The store after evictions from the table S.
Settled(S, pol) ==
  /\ table' \subseteq S /\ unsolicited' \subseteq table'
  /\ freshLeft' \in [table' -> Int] /\ timers' \subseteq Data
  /\ before' \subseteq table' \X table' /\ old' \subseteq table' \cap old
  /\ Holds(table', queues', pol)
  /\ Matched(timers', unsolicited', queues', pol)
  /\ WithinLimit'
  /\ StaleIn(queues', freshLeft')
  /\ InOrder(queues', before', pol)

\* The store after evictions satisfies its invariants and types.
LEMMA SettleStep ==
  ASSUME NEW S, NEW U, NEW f, NEW q, NEW t, NEW B, NEW pol,
         pol \in {"lru", "priority_fifo"}, Ready(S, U, f, q, t, B, pol),
         limit' \in Limits, Settle(S, U, f, q, t), before' = Remaining(B)
  PROVE  Settled(S, pol)
<1>0. /\ S \subseteq Data /\ U \subseteq S /\ f \in [S -> Int] /\ Holds(S, q, pol)
      /\ Matched(t, U, q, pol) /\ StaleIn(q, f) /\ B \subseteq S \X S /\ InOrder(q, B, pol)
      /\ old \subseteq S
  BY DEF Ready
<1>. DEFINE n == Cardinality(S) - limit'
            gone == Evicted(q, n)
<1>1. limit' \in Nat
  BY StoreAssumption
<1>2. n \in Int
  <2>1. IsFiniteSet(S)
    BY <1>0, StoreAssumption, FS_Subset
  <2>2. Cardinality(S) \in Nat
    BY <2>1, FS_CardinalityType
  <2>. QED
    BY <1>1, <2>2
<1>3. /\ table' = S \ gone /\ unsolicited' = U \ gone
      /\ freshLeft' = [d \in S \ gone |-> f[d]]
      /\ queues' = DropAll(q, n) /\ timers' = t \ gone /\ old' = old \ gone
  BY DEF Settle, Excess, DropAll
<1>4. Cardinality(S \ gone) <= limit'
  BY <1>0, <1>1, EvictionLimit
<1>. HIDE DEF n
<1>5. Holds(table', queues', pol)
  BY <1>0, <1>2, <1>3, EvictionHolds
<1>6. \A k \in Queue : Elements(queues'[k]) = Elements(q[k]) \ gone
  BY <1>0, <1>2, <1>3, EvictionOfQueue
<1>7. \A x, y : Precedes(q["lru"], x, y) /\ x \in Elements(queues'["lru"])
                  => Precedes(queues'["lru"], x, y)
  BY <1>0, <1>2, <1>3, EvictionOfQueue DEF Queue
<1>. HIDE DEF gone
<1>8. /\ table' \subseteq S /\ unsolicited' \subseteq table'
      /\ freshLeft' \in [table' -> Int] /\ old' \subseteq table' \cap old
  BY <1>0, <1>3
<1>9. Matched(timers', unsolicited', queues', pol)
  BY <1>0, <1>3, <1>6 DEF Matched, Queue
<1>10. timers' \subseteq Data
  <2>1. Elements(q["fifo"]) \subseteq S
    BY <1>0 DEF Holds, Queue
  <2>. QED
    BY <1>0, <1>3, <2>1 DEF Matched
<1>11. StaleIn(queues', freshLeft')
  <2>1. Elements(queues'["stale"]) = Elements(q["stale"]) \ gone
    BY <1>6 DEF Queue
  <2>2. Elements(queues'["stale"]) \subseteq S \ gone
    BY <1>5, <1>3 DEF Holds, Queue
  <2>. QED
    BY <1>0, <2>1, <2>2, <1>3 DEF StaleIn
<1>12. before' \subseteq table' \X table'
  BY <1>0 DEF Remaining
<1>13. InOrder(queues', before', pol)
  <2>. SUFFICES ASSUME pol = "lru", NEW e \in before'
                PROVE  Precedes(queues'["lru"], e[1], e[2])
    BY DEF InOrder
  <2>1. e \in B /\ e[1] \in table'
    BY DEF Remaining
  <2>2. Precedes(q["lru"], e[1], e[2])
    BY <1>0, <2>1 DEF InOrder
  <2>3. Elements(queues'["lru"]) = table'
    BY <1>5 DEF Holds
  <2>. QED
    BY <1>7, <2>1, <2>2, <2>3
<1>. QED
  BY <1>3, <1>4, <1>5, <1>8, <1>9, <1>10, <1>11, <1>12, <1>13 DEF WithinLimit, Settled

\* The part of the type invariant that is about nfdc.
ClientType == client \in Client /\ round \in (0..EraseLimit) \cup {NoRound}

\* A step that erases or evicts but does not change what nfdc knows.
LEMMA ClientSame ==
  ASSUME ClientInv, ClientType, old' \subseteq old, UNCHANGED <<client, round>>,
         serve' = serve
  PROVE  ClientInv' /\ ClientType'
  BY DEF ClientInv, ClientType, EraseReachesAll, Budget

\* The type invariant in three parts.
StoreType(S, U, f, t, B, o) ==
  /\ S \subseteq Data /\ U \subseteq S /\ f \in [S -> Int] /\ t \subseteq Data
  /\ B \subseteq S \X S /\ o \subseteq S

ConfigType == policy \in Policies /\ limit \in Limits /\ admit \in BOOLEAN /\ serve \in BOOLEAN

\* Type correctness, part by part,
LEMMA TypeParts ==
  TypeOK <=> /\ StoreType(table, unsolicited, freshLeft, timers, before, old)
             /\ queues \in [Queue -> Seq(Data)]
             /\ ConfigType /\ ClientType
  BY DEF TypeOK, StoreType, ConfigType, ClientType

\* in the next state too.
LEMMA TypePartsPrime ==
  TypeOK' <=> /\ StoreType(table', unsolicited', freshLeft', timers', before', old')
              /\ queues' \in [Queue -> Seq(Data)]
              /\ ConfigType' /\ ClientType'
  BY DEF TypeOK, StoreType, ConfigType, ClientType

\* CsManager::changeConfig of the capacity keeps the invariant.
LEMMA SetLimitInv == ASSUME Inv, NEW n \in Limits, SetLimit(n) PROVE Inv'
<1>0. policy \in {"lru", "priority_fifo"}
  BY PolicyType DEF Inv
<1>1. /\ StoreType(table, unsolicited, freshLeft, timers, before, old)
      /\ ConfigType /\ ClientType
  BY TypeParts DEF Inv
<1>2. limit' \in Limits /\ UNCHANGED <<policy, admit, serve, client, round>>
  BY DEF SetLimit
<1>3. Settle(table, unsolicited, freshLeft, queues, timers) /\ before' = Remaining(before)
  BY DEF SetLimit
<1>4. Settled(table, policy)
  <2>1. Ready(table, unsolicited, freshLeft, queues, timers, before, policy)
    BY <1>1 DEF Inv, StoreInv, StoreType, Ready
  <2>. QED
    BY <2>1, <1>0, <1>2, <1>3, SettleStep
<1>5. StoreInv'
  BY <1>2, <1>4 DEF StoreInv, Settled
<1>6. ClientInv' /\ ClientType'
  BY <1>1, <1>2, <1>4, ClientSame DEF Inv, Settled
<1>7. TypeOK'
  <2>1. StoreType(table', unsolicited', freshLeft', timers', before', old')
    BY <1>1, <1>4 DEF StoreType, Settled
  <2>2. queues' \in [Queue -> Seq(Data)]
    BY <1>4 DEF Holds, Settled
  <2>3. ConfigType'
    BY <1>1, <1>2 DEF ConfigType
  <2>. QED
    BY <2>1, <2>2, <2>3, <1>6, TypePartsPrime
<1>. QED
  BY <1>5, <1>6, <1>7 DEF Inv

\* An empty store is as good under any policy.
LEMMA EmptyHolds ==
  ASSUME NEW q, NEW pol, Holds({}, q, pol), NEW name
  PROVE  Holds({}, q, name) /\ \A k \in Queue : Elements(q[k]) = {}
<1>1. \A k \in Queue : Elements(q[k]) = {} /\ q[k] \in Seq(Data)
  BY DEF Holds
<1>2. q["lru"] = <<>> /\ Elements(q["lru"]) = {}
  BY <1>1, EmptyElements DEF Queue
<1>. QED
  BY <1>1, <1>2 DEF Holds

\* TablesConfigSection::processConfig keeps the invariant.
LEMMA ReconfigureInv ==
  ASSUME Inv, NEW n \in Limits, NEW name \in Policies, Reconfigure(n, name)
  PROVE  Inv'
<1>0. policy \in {"lru", "priority_fifo"}
  BY PolicyType DEF Inv
<1>1. /\ StoreType(table, unsolicited, freshLeft, timers, before, old)
      /\ ConfigType /\ ClientType
  BY TypeParts DEF Inv
<1>2. /\ limit' \in Limits /\ UNCHANGED <<admit, serve, client, round>>
      /\ policy' = IF table' = {} THEN name ELSE policy
  BY DEF Reconfigure
<1>3. Settle(table, unsolicited, freshLeft, queues, timers) /\ before' = Remaining(before)
  BY DEF Reconfigure
<1>4. Settled(table, policy)
  <2>1. Ready(table, unsolicited, freshLeft, queues, timers, before, policy)
    BY <1>1 DEF Inv, StoreInv, StoreType, Ready
  <2>. QED
    BY <2>1, <1>0, <1>2, <1>3, SettleStep
<1>5. /\ Holds(table', queues', policy')
      /\ Matched(timers', unsolicited', queues', policy')
      /\ InOrder(queues', before', policy')
  <2>1. CASE table' # {}
    BY <2>1, <1>2, <1>4 DEF Settled
  <2>2. CASE table' = {}
    <3>1. Holds(table', queues', policy') /\ \A k \in Queue : Elements(queues'[k]) = {}
      BY <2>2, <1>4, EmptyHolds DEF Settled
    <3>2. Matched(timers', unsolicited', queues', policy')
      BY <2>2, <3>1, <1>4 DEF Matched, Queue, Settled
    <3>3. before' = {}
      BY <2>2, <1>4 DEF Settled
    <3>. QED
      BY <3>1, <3>2, <3>3 DEF InOrder
  <2>. QED
    BY <2>1, <2>2
<1>6. StoreInv'
  BY <1>4, <1>5 DEF StoreInv, Settled
<1>7. ClientInv' /\ ClientType'
  BY <1>1, <1>2, <1>4, ClientSame DEF Inv, Settled
<1>8. TypeOK'
  <2>1. StoreType(table', unsolicited', freshLeft', timers', before', old')
    BY <1>1, <1>4 DEF StoreType, Settled
  <2>2. queues' \in [Queue -> Seq(Data)]
    BY <1>4 DEF Holds, Settled
  <2>3. ConfigType'
    BY <1>1, <1>2 DEF ConfigType
  <2>. QED
    BY <2>1, <2>2, <2>3, <1>7, TypePartsPrime
<1>. QED
  BY <1>6, <1>7, <1>8 DEF Inv

\* The LRU queue of r is that of q with d at the end.
LastIn(q, r, d) ==
  /\ \A x, y : x # d /\ y # d /\ Precedes(q["lru"], x, y) => Precedes(r["lru"], x, y)
  /\ \A x \in Elements(q["lru"]) \ {d} : Precedes(r["lru"], x, d)

\* C is the order of use B after d was used.
LastOf(q, B, C, d) ==
  \A e \in C :
    \/ e \in B /\ e[1] # d /\ e[2] # d
    \/ e[1] \in Elements(q["lru"]) \ {d} /\ e[2] = d

\* The order of use after an entry is used.
LEMMA TouchedOrder ==
  ASSUME NEW q, NEW r, NEW d, NEW B, NEW C, InOrder(q, B, "lru"), LastIn(q, r, d),
         LastOf(q, B, C, d)
  PROVE  InOrder(r, C, "lru")
<1>. SUFFICES ASSUME NEW e \in C PROVE Precedes(r["lru"], e[1], e[2])
  BY DEF InOrder
<1>1. CASE e \in B /\ e[1] # d /\ e[2] # d
  BY <1>1 DEF InOrder, LastIn
<1>2. CASE e[1] \in Elements(q["lru"]) \ {d} /\ e[2] = d
  BY <1>2 DEF LastIn
<1>. QED
  BY <1>1, <1>2 DEF LastOf

\* The entry used last is behind every other in the LRU queue.
LEMMA TouchedLast ==
  ASSUME policy = "lru", Elements(queues["lru"]) = table, NEW d
  PROVE  LastOf(queues, before, Touched(table, d), d)
<1>. DEFINE C == Touched(table, d)
<1>1. \A e \in C :
        \/ e \in before /\ e[1] # d /\ e[2] # d
        \/ e \in (table \ {d}) \X {d}
  BY DEF Touched
<1>. HIDE DEF C
<1>2. ASSUME NEW e \in (table \ {d}) \X {d}
      PROVE  e[1] \in Elements(queues["lru"]) \ {d} /\ e[2] = d
  <2>1. e[1] \in table \ {d} /\ e[2] \in {d}
    OBVIOUS
  <2>. QED
    BY <2>1
<1>3. LastOf(queues, before, C, d)
  BY <1>1, <1>2 DEF LastOf
<1>. QED
  BY <1>3 DEF C

\* The history of uses is a relation between entries of the table.
LEMMA TouchedType ==
  ASSUME NEW S, before \subseteq S \X S, NEW d \in Data
  PROVE  Touched(S, d) \subseteq (S \cup {d}) \X (S \cup {d})
  BY DEF Touched

\* The store with the new entry d, before evictions.
Inserted(d, S, U, f, q, t) ==
  /\ S = table \cup {d} /\ d \notin table
  /\ unsolicited \subseteq U /\ U \subseteq unsolicited \cup {d}
  /\ t \subseteq timers \cup {d}
  /\ f[d] >= 0 /\ \A e \in table : f[e] = freshLeft[e]
  /\ \A x, y : Precedes(queues["lru"], x, y) => Precedes(q["lru"], x, y)

\* Cs::insert of new Data attaches an entry and evicts.
LEMMA InsertReady ==
  ASSUME Inv, NEW d \in Data, NEW uns \in BOOLEAN, Insert(d, uns)
  PROVE  \E S, U, f, q, t : /\ Inserted(d, S, U, f, q, t)
                            /\ Ready(S, U, f, q, t, Touched(table, d), policy)
                            /\ Settle(S, U, f, q, t)
<1>0. policy \in {"lru", "priority_fifo"}
  BY PolicyType DEF Inv
<1>1. /\ StoreType(table, unsolicited, freshLeft, timers, before, old)
      /\ ConfigType /\ ClientType
  BY TypeParts DEF Inv
<1>2. d \notin table /\ UNCHANGED <<policy, limit, admit, serve, client, round>>
  BY DEF Insert, configVars
<1>3. PICK fresh \in FreshWhenAttached(d) :
        Settle(table \cup {d}, IF uns THEN unsolicited \cup {d} ELSE unsolicited,
               [e \in table \cup {d} |-> IF e = d THEN FreshnessPeriod[d] ELSE freshLeft[e]],
               Attach(queues, d, QueueFor(uns, fresh)),
               IF QueueFor(uns, fresh) = "fifo" THEN timers \cup {d} ELSE timers)
  BY DEF Insert
<1>. DEFINE k == QueueFor(uns, fresh)
            S == table \cup {d}
            U == IF uns THEN unsolicited \cup {d} ELSE unsolicited
            f == [e \in S |-> IF e = d THEN FreshnessPeriod[d] ELSE freshLeft[e]]
            q == Attach(queues, d, k)
            t == IF k = "fifo" THEN timers \cup {d} ELSE timers
            B == Touched(table, d)
<1>4. Settle(S, U, f, q, t) /\ before' = Remaining(B)
  BY <1>3 DEF Insert
<1>5. /\ Used(k, policy)
      /\ k = "stale" => FreshnessPeriod[d] = 0
      /\ policy = "priority_fifo" => (k = "unsolicited" <=> uns)
  BY <1>0 DEF QueueFor, FreshWhenAttached, Used, Queue
<1>. HIDE DEF k
<1>6. k \in Queue
  BY <1>5 DEF Used
<1>7. Holds(table, queues, policy) /\ Matched(timers, unsolicited, queues, policy)
  BY DEF Inv, StoreInv
<1>8. Holds(S, q, policy)
  BY <1>0, <1>2, <1>5, <1>7, AttachHolds
<1>9. Attached(queues, d, k, q)
  BY <1>2, <1>6, <1>7, AttachQueue
<1>. HIDE DEF q
<1>10. S \subseteq Data /\ U \subseteq S /\ old \subseteq S
  BY <1>1 DEF StoreType
<1>11. f \in [S -> Int]
  BY <1>1, StoreAssumption DEF StoreType
<1>12. Matched(t, U, q, policy)
  <2>1. Elements(q["fifo"]) = IF k = "fifo" THEN Elements(queues["fifo"]) \cup {d}
                              ELSE Elements(queues["fifo"])
    BY <1>9 DEF Attached, Queue
  <2>2. Elements(q["unsolicited"])
          = IF k = "unsolicited" THEN Elements(queues["unsolicited"]) \cup {d}
            ELSE Elements(queues["unsolicited"])
    BY <1>9 DEF Attached, Queue
  <2>. QED
    BY <2>1, <2>2, <1>5, <1>7 DEF Matched
<1>13. StaleIn(q, f)
  <2>1. Elements(q["stale"]) = IF k = "stale" THEN Elements(queues["stale"]) \cup {d}
                               ELSE Elements(queues["stale"])
    BY <1>9 DEF Attached, Queue
  <2>2. Elements(queues["stale"]) \subseteq table
    BY <1>7 DEF Holds, Queue
  <2>3. \A e \in Elements(queues["stale"]) : f[e] = freshLeft[e]
    BY <2>2, <1>2
  <2>4. f[d] = FreshnessPeriod[d]
    OBVIOUS
  <2>. HIDE DEF f
  <2>. QED
    BY <2>1, <2>3, <2>4, <1>5 DEF StaleIn, Inv, StoreInv
<1>14. B \subseteq S \X S
  BY <1>1, TouchedType DEF StoreType
<1>15. InOrder(q, B, policy)
  <2>. SUFFICES ASSUME policy = "lru" PROVE InOrder(q, B, "lru")
    BY DEF InOrder
  <2>1. k = "lru"
    BY <1>5 DEF Used
  <2>2. Elements(queues["lru"]) = table
    BY <1>7 DEF Holds
  <2>3. LastOf(queues, before, B, d)
    BY <2>2, TouchedLast
  <2>4. InOrder(queues, before, "lru")
    BY DEF Inv, StoreInv
  <2>5. LastIn(queues, q, d)
    BY <1>9, <2>1 DEF Attached, LastIn
  <2>. HIDE DEF B
  <2>. QED
    BY <2>3, <2>4, <2>5, TouchedOrder
<1>16. Inserted(d, S, U, f, q, t)
  <2>1. f[d] >= 0 /\ \A e \in table : f[e] = freshLeft[e]
    BY <1>2, StoreAssumption
  <2>2. \A x, y : Precedes(queues["lru"], x, y) => Precedes(q["lru"], x, y)
    <3>1. CASE k = "lru"
      BY <3>1, <1>9 DEF Attached
    <3>2. CASE k # "lru"
      BY <3>2, <1>9 DEF Attached, Queue
    <3>. QED
      BY <3>1, <3>2
  <2>3. unsolicited \subseteq U /\ U \subseteq unsolicited \cup {d} /\ t \subseteq timers \cup {d}
    OBVIOUS
  <2>. HIDE DEF f, t, U
  <2>. QED
    BY <1>2, <2>1, <2>2, <2>3 DEF Inserted
<1>. HIDE DEF S, U, f, t, B
<1>17. Ready(S, U, f, q, t, B, policy)
  BY <1>8, <1>10, <1>11, <1>12, <1>13, <1>14, <1>15 DEF Ready
<1>18. Ready(S, U, f, q, t, Touched(table, d), policy)
  BY <1>17 DEF B
<1>. QED
  BY <1>4, <1>16, <1>18

\* Cs::insert of new Data keeps the invariant.
LEMMA InsertInv ==
  ASSUME Inv, NEW d \in Data, NEW uns \in BOOLEAN, Insert(d, uns)
  PROVE  Inv'
<1>0. policy \in {"lru", "priority_fifo"}
  BY PolicyType DEF Inv
<1>1. /\ StoreType(table, unsolicited, freshLeft, timers, before, old)
      /\ ConfigType /\ ClientType
  BY TypeParts DEF Inv
<1>2. /\ UNCHANGED <<policy, limit, admit, serve, client, round>>
      /\ before' = Remaining(Touched(table, d))
  BY DEF Insert, configVars
<1>3. PICK S, U, f, q, t : /\ Inserted(d, S, U, f, q, t)
                          /\ Ready(S, U, f, q, t, Touched(table, d), policy)
                          /\ Settle(S, U, f, q, t)
  BY InsertReady
<1>16. limit' \in Limits
  BY <1>1, <1>2 DEF ConfigType
<1>17. Settled(S, policy)
  BY <1>0, <1>2, <1>3, <1>16, SettleStep
<1>18. StoreInv'
  BY <1>2, <1>17 DEF StoreInv, Settled
<1>19. ClientInv' /\ ClientType'
  BY <1>1, <1>2, <1>17, ClientSame DEF Inv, Settled
<1>20. TypeOK'
  <2>1. StoreType(table', unsolicited', freshLeft', timers', before', old')
    BY <1>3, <1>17 DEF StoreType, Settled, Ready
  <2>2. queues' \in [Queue -> Seq(Data)]
    BY <1>17 DEF Holds, Settled
  <2>3. ConfigType'
    BY <1>1, <1>2 DEF ConfigType
  <2>. QED
    BY <2>1, <2>2, <2>3, <1>19, TypePartsPrime
<1>. QED
  BY <1>18, <1>19, <1>20 DEF Inv

----------------------------------------------------------------------------
(* Actions that move an entry *)

\* Cs::insert of Data that is there keeps the invariant.
LEMMA RefreshInv ==
  ASSUME Inv, NEW d \in Data, NEW uns \in BOOLEAN, Refresh(d, uns)
  PROVE  Inv'
<1>0. policy \in {"lru", "priority_fifo"}
  BY PolicyType DEF Inv
<1>1. /\ StoreType(table, unsolicited, freshLeft, timers, before, old)
      /\ ConfigType /\ ClientType
  BY TypeParts DEF Inv
<1>2. /\ d \in table /\ UNCHANGED <<table, policy, limit, admit, serve, client, round, old>>
      /\ freshLeft' = [freshLeft EXCEPT ![d] = FreshnessPeriod[d]]
      /\ unsolicited' = IF uns THEN unsolicited ELSE unsolicited \ {d}
      /\ before' = Touched(table, d)
  BY DEF Refresh, configVars
<1>3. PICK fresh \in FreshWhenAttached(d) :
        /\ queues' = Attach(Detach(queues, d), d, QueueFor(d \in unsolicited', fresh))
        /\ timers' = IF QueueFor(d \in unsolicited', fresh) = "fifo"
                     THEN (timers \ {d}) \cup {d} ELSE timers \ {d}
  BY DEF Refresh, Refreshed, Kept
<1>. DEFINE k == QueueFor(d \in unsolicited', fresh)
<1>4. /\ Used(k, policy)
      /\ k = "stale" => FreshnessPeriod[d] = 0
      /\ policy = "priority_fifo" => (k = "unsolicited" <=> d \in unsolicited')
  BY <1>0 DEF QueueFor, FreshWhenAttached, Used, Queue
<1>5. queues' = Attach(Detach(queues, d), d, k)
  BY <1>3
<1>6. timers' = IF k = "fifo" THEN (timers \ {d}) \cup {d} ELSE timers \ {d}
  BY <1>3
<1>. HIDE DEF k
<1>7. Holds(table, queues, policy) /\ Matched(timers, unsolicited, queues, policy)
  BY DEF Inv, StoreInv
<1>8. Holds(table, queues', policy) /\ Moved(queues, d, k, queues')
  BY <1>0, <1>1, <1>2, <1>4, <1>5, <1>7, MoveHolds DEF StoreType
<1>9. \A l \in Queue : Elements(queues'[l]) = IF l = k THEN Elements(queues[l]) \cup {d}
                                              ELSE Elements(queues[l]) \ {d}
  BY <1>8 DEF Moved
<1>10. Matched(timers', unsolicited', queues', policy')
  <2>1. /\ Elements(queues'["fifo"]) = IF "fifo" = k THEN Elements(queues["fifo"]) \cup {d}
                                       ELSE Elements(queues["fifo"]) \ {d}
        /\ Elements(queues'["unsolicited"])
             = IF "unsolicited" = k THEN Elements(queues["unsolicited"]) \cup {d}
               ELSE Elements(queues["unsolicited"]) \ {d}
    BY <1>9 DEF Queue
  <2>2. timers' = Elements(queues'["fifo"])
    BY <2>1, <1>6, <1>7 DEF Matched
  <2>3. ASSUME policy = "priority_fifo" PROVE unsolicited' = Elements(queues'["unsolicited"])
    <3>1. unsolicited = Elements(queues["unsolicited"])
      BY <2>3, <1>7 DEF Matched
    <3>2. CASE d \in unsolicited'
      BY <2>1, <2>3, <3>1, <3>2, <1>2, <1>4
    <3>3. CASE d \notin unsolicited'
      BY <2>1, <2>3, <3>1, <3>3, <1>2, <1>4
    <3>. QED
      BY <3>2, <3>3
  <2>. QED
    BY <2>2, <2>3, <1>2 DEF Matched
<1>11. StaleIn(queues', freshLeft')
  <2>1. Elements(queues'["stale"]) = IF "stale" = k THEN Elements(queues["stale"]) \cup {d}
                                     ELSE Elements(queues["stale"]) \ {d}
    BY <1>9 DEF Queue
  <2>2. Elements(queues["stale"]) \subseteq table
    BY <1>7 DEF Holds, Queue
  <2>3. freshLeft \in [table -> Int]
    BY <1>1 DEF StoreType
  <2>4. /\ \A e \in Elements(queues["stale"]) \ {d} : freshLeft'[e] = freshLeft[e]
        /\ freshLeft'[d] = FreshnessPeriod[d]
    BY <2>2, <2>3, <1>2
  <2>5. \A e \in Elements(queues["stale"]) : freshLeft[e] <= 0
    BY DEF StaleIn, Inv, StoreInv
  <2>6. k = "stale" => freshLeft'[d] <= 0
    BY <2>4, <1>4
  <2>. QED
    BY <2>1, <2>4, <2>5, <2>6 DEF StaleIn
<1>12. InOrder(queues', before', policy')
  <2>. SUFFICES ASSUME policy = "lru" PROVE InOrder(queues', before', "lru")
    BY <1>2 DEF InOrder
  <2>1. k = "lru"
    BY <1>4 DEF Used
  <2>2. Elements(queues["lru"]) = table
    BY <1>7 DEF Holds
  <2>3. LastOf(queues, before, before', d)
    BY <1>2, <2>2, TouchedLast
  <2>4. InOrder(queues, before, "lru")
    BY DEF Inv, StoreInv
  <2>5. LastIn(queues, queues', d)
    BY <1>8, <2>1 DEF Moved, LastIn
  <2>. QED
    BY <2>3, <2>4, <2>5, TouchedOrder
<1>13. StoreInv'
  BY <1>2, <1>8, <1>10, <1>11, <1>12 DEF StoreInv, Inv, WithinLimit
<1>14. ClientInv' /\ ClientType'
  BY <1>1, <1>2, ClientSame DEF Inv
<1>15. TypeOK'
  <2>1. before' \subseteq table \X table
    <3>1. table \cup {d} = table
      BY <1>2
    <3>. QED
      BY <3>1, <1>1, <1>2, TouchedType DEF StoreType
  <2>2. timers' \subseteq Data
    BY <1>1, <1>6 DEF StoreType
  <2>3. freshLeft' \in [table -> Int]
    BY <1>1, <1>2, StoreAssumption DEF StoreType
  <2>4. unsolicited' \subseteq table
    BY <1>1, <1>2 DEF StoreType
  <2>5. StoreType(table', unsolicited', freshLeft', timers', before', old')
    BY <2>1, <2>2, <2>3, <2>4, <1>1, <1>2 DEF StoreType
  <2>6. queues' \in [Queue -> Seq(Data)]
    BY <1>8 DEF Holds
  <2>7. ConfigType'
    BY <1>1, <1>2 DEF ConfigType
  <2>. QED
    BY <2>5, <2>6, <2>7, <1>14, TypePartsPrime
<1>. QED
  BY <1>13, <1>14, <1>15 DEF Inv

\* moveToStaleQueue keeps the invariant.
LEMMA MoveToStaleInv == ASSUME Inv, NEW d \in Data, MoveToStale(d) PROVE Inv'
<1>0. policy \in {"lru", "priority_fifo"}
  BY PolicyType DEF Inv
<1>1. /\ StoreType(table, unsolicited, freshLeft, timers, before, old)
      /\ ConfigType /\ ClientType
  BY TypeParts DEF Inv
<1>2. /\ UNCHANGED <<table, unsolicited, freshLeft, policy, limit, admit, serve, client,
                     round, before, old>>
      /\ d \in timers /\ freshLeft[d] <= 0 /\ timers' = timers \ {d}
      /\ queues' = [queues EXCEPT !["fifo"] = Without(@, d), !["stale"] = Append(@, d)]
  BY DEF MoveToStale, configVars
<1>3. Holds(table, queues, policy) /\ Matched(timers, unsolicited, queues, policy)
  BY DEF Inv, StoreInv
<1>4. d \in Elements(queues["fifo"])
  BY <1>2, <1>3 DEF Matched
<1>5. policy = "priority_fifo" /\ d \in table
  <2>1. d \in table
    BY <1>3, <1>4 DEF Holds, Queue
  <2>2. policy # "lru"
    BY <1>3, <1>4, OnlyLru DEF Queue
  <2>. QED
    BY <2>1, <2>2, <1>0
<1>6. queues' = Attach(Detach(queues, d), d, "stale")
  BY <1>2, <1>3, <1>4, MoveToStaleIsMove
<1>7. Used("stale", policy)
  BY <1>5 DEF Used, Queue
<1>8. Holds(table, queues', policy) /\ Moved(queues, d, "stale", queues')
  BY <1>0, <1>1, <1>3, <1>5, <1>6, <1>7, MoveHolds DEF StoreType
<1>9. /\ Elements(queues'["fifo"]) = Elements(queues["fifo"]) \ {d}
      /\ Elements(queues'["unsolicited"]) = Elements(queues["unsolicited"]) \ {d}
      /\ Elements(queues'["stale"]) = Elements(queues["stale"]) \cup {d}
  BY <1>8 DEF Moved, Queue
<1>10. d \notin Elements(queues["unsolicited"])
  BY <1>3, <1>4 DEF Holds, Queue
<1>11. Matched(timers', unsolicited', queues', policy')
  BY <1>2, <1>3, <1>9, <1>10 DEF Matched
<1>12. StaleIn(queues', freshLeft')
  BY <1>2, <1>9 DEF StaleIn, Inv, StoreInv
<1>13. InOrder(queues', before', policy')
  BY <1>2, <1>5 DEF InOrder
<1>14. StoreInv'
  BY <1>2, <1>8, <1>11, <1>12, <1>13 DEF StoreInv, Inv, WithinLimit
<1>15. ClientInv' /\ ClientType'
  BY <1>1, <1>2, ClientSame DEF Inv
<1>16. TypeOK'
  <2>1. StoreType(table', unsolicited', freshLeft', timers', before', old')
    BY <1>1, <1>2 DEF StoreType
  <2>2. queues' \in [Queue -> Seq(Data)]
    BY <1>8 DEF Holds
  <2>3. ConfigType'
    BY <1>1, <1>2 DEF ConfigType
  <2>. QED
    BY <2>1, <2>2, <2>3, <1>15, TypePartsPrime
<1>. QED
  BY <1>14, <1>15, <1>16 DEF Inv

\* beforeUse keeps the invariants of the store.
LEMMA UseStep ==
  ASSUME TypeOK, StoreInv, NEW d \in table, queues' = UsedIn(queues, d),
         before' = Touched(table, d),
         UNCHANGED <<table, unsolicited, freshLeft, timers, policy, limit, admit, serve, old>>
  PROVE  /\ StoreInv'
         /\ StoreType(table', unsolicited', freshLeft', timers', before', old')
         /\ queues' \in [Queue -> Seq(Data)]
         /\ ConfigType'
<1>0. policy \in {"lru", "priority_fifo"}
  BY PolicyType
<1>1. StoreType(table, unsolicited, freshLeft, timers, before, old) /\ ConfigType
  BY TypeParts
<1>2. Holds(table, queues, policy) /\ Matched(timers, unsolicited, queues, policy)
  BY DEF StoreInv
<1>3. before' \subseteq table \X table
  <2>1. table \cup {d} = table /\ d \in Data
    BY <1>1 DEF StoreType
  <2>. QED
    BY <2>1, <1>1, TouchedType DEF StoreType
<1>4. StoreType(table', unsolicited', freshLeft', timers', before', old') /\ ConfigType'
  BY <1>1, <1>3 DEF StoreType, ConfigType
<1>5. CASE policy # "lru"
  <2>1. queues' = queues
    BY <1>5 DEF UsedIn
  <2>2. StoreInv'
    BY <2>1, <1>5 DEF StoreInv, InOrder, WithinLimit
  <2>. QED
    BY <2>1, <2>2, <1>4 DEF TypeOK
<1>6. CASE policy = "lru"
  <2>1. queues' = Attach(Detach(queues, d), d, "lru")
    BY <1>2, <1>6, UseIsMove DEF UsedIn
  <2>2. Used("lru", policy)
    BY <1>6 DEF Used, Queue
  <2>3. Holds(table, queues', policy) /\ Moved(queues, d, "lru", queues')
    BY <1>0, <1>1, <1>2, <2>1, <2>2, MoveHolds DEF StoreType
  <2>4. \A k \in Queue \ {"lru"} : Elements(queues[k]) = {} /\ Elements(queues'[k]) = {}
    BY <1>2, <1>6, <2>3, OnlyLru
  <2>5. Matched(timers', unsolicited', queues', policy')
    BY <1>2, <1>6, <2>4 DEF Matched, Queue
  <2>6. StaleIn(queues', freshLeft')
    BY <2>4 DEF StaleIn, Queue
  <2>7. InOrder(queues', before', policy')
    <3>1. Elements(queues["lru"]) = table
      BY <1>2, <1>6 DEF Holds
    <3>2. LastOf(queues, before, before', d)
      BY <1>6, <3>1, TouchedLast
    <3>3. InOrder(queues, before, "lru")
      BY <1>6 DEF StoreInv
    <3>4. LastIn(queues, queues', d)
      BY <2>3 DEF Moved, LastIn
    <3>. QED
      BY <1>6, <3>2, <3>3, <3>4, TouchedOrder
  <2>8. StoreInv'
    BY <2>3, <2>5, <2>6, <2>7 DEF StoreInv, WithinLimit
  <2>9. queues' \in [Queue -> Seq(Data)]
    BY <2>3 DEF Holds
  <2>. QED
    BY <2>8, <2>9, <1>4
<1>. QED
  BY <1>5, <1>6

\* Cs::find keeps the invariant.
LEMMA FindHitInv ==
  ASSUME Inv, NEW p \in Prefix, NEW mustBeFresh \in BOOLEAN, FindHit(p, mustBeFresh)
  PROVE  Inv'
<1>. DEFINE M == Matches(table, p, mustBeFresh)
            d == FirstOf(M)
<1>1. M # {} /\ M \subseteq table
  BY DEF FindHit, Hit, Matches
<1>2. table \subseteq Data
  BY DEF Inv, TypeOK
<1>3. queues' = UsedIn(queues, d) /\ before' = Touched(table, d)
  BY DEF FindHit
<1>. HIDE DEF M
<1>4. d \in table
  BY <1>1, <1>2, FirstOfIn
<1>. HIDE DEF d
<1>5. UNCHANGED <<table, unsolicited, freshLeft, timers, policy, limit, admit, serve, client,
                  round, old>>
  BY DEF FindHit, configVars
<1>6. /\ StoreInv'
      /\ StoreType(table', unsolicited', freshLeft', timers', before', old')
      /\ queues' \in [Queue -> Seq(Data)]
      /\ ConfigType'
  BY <1>3, <1>4, <1>5, UseStep DEF Inv
<1>7. ClientInv' /\ ClientType'
  BY <1>5, TypeParts, ClientSame DEF Inv
<1>. QED
  BY <1>6, <1>7, TypePartsPrime DEF Inv

\* The passing of time keeps the invariant.
LEMMA TickInv == ASSUME Inv, Tick PROVE Inv'
<1>1. /\ StoreType(table, unsolicited, freshLeft, timers, before, old)
      /\ queues \in [Queue -> Seq(Data)] /\ ConfigType /\ ClientType
  BY TypeParts DEF Inv
<1>2. /\ UNCHANGED <<table, unsolicited, queues, timers, policy, limit, admit, serve, client,
                     round, before, old>>
      /\ freshLeft' = [d \in table |-> IF freshLeft[d] >= 0 THEN freshLeft[d] - 1 ELSE -1]
  BY DEF Tick, configVars
<1>3. StaleIn(queues', freshLeft')
  <2>1. Elements(queues["stale"]) \subseteq table
    BY DEF Inv, StoreInv, Holds, Queue
  <2>2. \A d \in Elements(queues["stale"]) : freshLeft[d] <= 0
    BY DEF Inv, StoreInv, StaleIn
  <2>3. ASSUME NEW d \in Elements(queues["stale"]) PROVE freshLeft'[d] <= 0
    <3>1. d \in table /\ freshLeft[d] \in Int /\ freshLeft[d] <= 0
      BY <2>1, <2>2, <1>1 DEF StoreType
    <3>2. freshLeft'[d] = IF freshLeft[d] >= 0 THEN freshLeft[d] - 1 ELSE -1
      BY <1>2, <3>1
    <3>. QED
      BY <3>1, <3>2
  <2>. QED
    BY <2>3, <1>2 DEF StaleIn
<1>4. StoreInv'
  BY <1>2, <1>3 DEF StoreInv, Inv, WithinLimit
<1>5. ClientInv' /\ ClientType'
  BY <1>1, <1>2, ClientSame DEF Inv
<1>6. freshLeft' \in [table' -> Int]
  BY <1>1, <1>2 DEF StoreType
<1>7. StoreType(table', unsolicited', freshLeft', timers', before', old') /\ ConfigType'
  BY <1>1, <1>2, <1>6 DEF StoreType, ConfigType
<1>. QED
  BY <1>1, <1>2, <1>4, <1>5, <1>7, TypePartsPrime DEF Inv

----------------------------------------------------------------------------
(* Management *)

\* A step that does not change the store.
LEMMA StoreSame ==
  ASSUME TypeOK, StoreInv, UNCHANGED <<entryVars, policy, limit, before>>,
         old' \subseteq table, admit' \in BOOLEAN, serve' \in BOOLEAN
  PROVE  /\ StoreInv'
         /\ StoreType(table', unsolicited', freshLeft', timers', before', old')
         /\ queues' \in [Queue -> Seq(Data)]
         /\ ConfigType'
<1>1. UNCHANGED <<table, unsolicited, freshLeft, queues, timers>>
  BY DEF entryVars
<1>2. StoreInv'
  BY <1>1 DEF StoreInv, WithinLimit
<1>. QED
  BY <1>1, <1>2 DEF TypeOK, StoreType, ConfigType

\* The admit flag is no part of the invariant.
LEMMA EnableAdmitInv == ASSUME Inv, NEW on \in BOOLEAN, EnableAdmit(on) PROVE Inv'
<1>1. /\ UNCHANGED <<entryVars, policy, limit, serve, client, round, before, old>>
      /\ admit' \in BOOLEAN
  BY DEF EnableAdmit
<1>2. old' \subseteq table /\ serve' \in BOOLEAN
  BY <1>1 DEF Inv, TypeOK
<1>3. ClientInv' /\ ClientType'
  BY <1>1, ClientSame, TypeParts DEF Inv
<1>. QED
  BY <1>1, <1>2, <1>3, StoreSame, TypePartsPrime DEF Inv

\* Serving turned off during an erase is remembered.
LEMMA EnableServeInv == ASSUME Inv, NEW on \in BOOLEAN, EnableServe(on) PROVE Inv'
<1>1. /\ UNCHANGED <<entryVars, policy, limit, admit, round, before, old>>
      /\ serve' = on /\ client' = [client EXCEPT !.served = @ /\ on]
  BY DEF EnableServe
<1>2. /\ old \subseteq table /\ admit \in BOOLEAN /\ client \in Client
      /\ round \in (0..EraseLimit) \cup {NoRound}
  BY DEF Inv, TypeOK
<1>3. /\ client'.phase = client.phase /\ client'.prefix = client.prefix
      /\ client'.left = client.left /\ client'.count = client.count
      /\ client'.served = (client.served /\ on)
  BY <1>1, <1>2 DEF Client
<1>4. client' \in Client
  BY <1>1, <1>2 DEF Client
<1>5. ClientInv'
  BY <1>1, <1>3 DEF Inv, ClientInv, EraseReachesAll, Budget
<1>. QED
  BY <1>1, <1>2, <1>4, <1>5, StoreSame, TypePartsPrime DEF Inv, ClientType

\* A new erase has everything below its prefix before it.
LEMMA BeginEraseInv ==
  ASSUME Inv, NEW p \in Prefix, NEW n \in Counts \cup {NoCount}, BeginErase(p, n),
         round = NoRound
  PROVE  Inv'
<1>1. /\ UNCHANGED <<entryVars, policy, limit, admit, serve, round, before>>
      /\ old' = table \cap Under[p]
      /\ client' = [phase |-> "asking", prefix |-> p, left |-> n, count |-> n, served |-> serve]
  BY DEF BeginErase, configVars
<1>2. /\ admit \in BOOLEAN /\ serve \in BOOLEAN
      /\ round \in (0..EraseLimit) \cup {NoRound}
  BY DEF Inv, TypeOK
<1>3. n \in Nat
  BY EraseAssumption
<1>4. client' \in Client
  BY <1>1, <1>2, <1>3 DEF Client, Phase
<1>5. ClientInv'
  BY <1>1 DEF ClientInv, EraseReachesAll
<1>. QED
  BY <1>1, <1>2, <1>4, <1>5, StoreSame, TypePartsPrime DEF Inv, ClientType

\* A round erases no more than is left, and no more than the limit of a round.
LEMMA BudgetBounds ==
  ASSUME NEW left \in Nat
  PROVE  Budget(left) \in Nat /\ Budget(left) <= left /\ Budget(left) <= EraseLimit
  BY EraseAssumption DEF Budget

\* A round begins with nothing erased.
LEMMA BeginRoundInv == ASSUME Inv, BeginRound PROVE Inv'
<1>1. /\ UNCHANGED <<entryVars, policy, limit, admit, serve, client, before, old>>
      /\ round' = 0 /\ client.phase = "asking"
  BY DEF BeginRound, configVars
<1>2. /\ old \subseteq table /\ admit \in BOOLEAN /\ serve \in BOOLEAN /\ client \in Client
  BY DEF Inv, TypeOK
<1>3. client.left \in Nat
  BY <1>2 DEF Client
<1>4. round' <= Budget(client.left) /\ round' \in 0..EraseLimit
  BY <1>1, <1>3, BudgetBounds, EraseAssumption
<1>5. ClientInv'
  BY <1>1, <1>4 DEF Inv, ClientInv, EraseReachesAll, Budget
<1>. QED
  BY <1>1, <1>2, <1>4, <1>5, StoreSame, TypePartsPrime DEF Inv, ClientType

\* A client that gives up promises nothing.
LEMMA EraseFailsInv == ASSUME Inv, EraseFails, round = NoRound PROVE Inv'
<1>1. /\ UNCHANGED <<entryVars, policy, limit, admit, serve, round, before>>
      /\ old' = {} /\ client' = [client EXCEPT !.phase = "idle"]
  BY DEF EraseFails, configVars
<1>2. /\ admit \in BOOLEAN /\ serve \in BOOLEAN /\ client \in Client
      /\ round \in (0..EraseLimit) \cup {NoRound}
  BY DEF Inv, TypeOK
<1>3. /\ client'.phase = "idle" /\ client'.prefix = client.prefix
      /\ client'.left = client.left /\ client'.count = client.count
      /\ client'.served = client.served
  BY <1>1, <1>2 DEF Client
<1>4. client' \in Client
  BY <1>1, <1>2 DEF Client, Phase
<1>5. ClientInv'
  BY <1>1, <1>3 DEF Inv, ClientInv, EraseReachesAll
<1>. QED
  BY <1>1, <1>2, <1>4, <1>5, StoreSame, TypePartsPrime DEF Inv, ClientType

\* eraseImpl of one entry keeps the invariant.
LEMMA EraseNextInv == ASSUME Inv, EraseNext, round # NoRound PROVE Inv'
<1>. DEFINE d == FirstOf(Matches(table, client.prefix, FALSE))
<1>0. policy \in {"lru", "priority_fifo"}
  BY PolicyType DEF Inv
<1>1. /\ StoreType(table, unsolicited, freshLeft, timers, before, old)
      /\ ConfigType /\ ClientType
  BY TypeParts DEF Inv
<1>2. /\ ErasesMore /\ round' = round + 1
      /\ table' = table \ {d} /\ unsolicited' = unsolicited \ {d}
      /\ freshLeft' = [e \in table \ {d} |-> freshLeft[e]]
      /\ queues' = Detach(queues, d) /\ timers' = timers \ {d}
      /\ before' = Remaining(before) /\ old' = old \ {d}
      /\ UNCHANGED <<policy, limit, admit, serve, client>>
  BY DEF EraseNext, Kept, configVars
<1>. HIDE DEF d
<1>3. Holds(table, queues, policy) /\ Matched(timers, unsolicited, queues, policy)
  BY DEF Inv, StoreInv
<1>4. /\ Holds(table \ {d}, Detach(queues, d), policy)
      /\ \A k \in Queue : /\ Elements(Detach(queues, d)[k]) = Elements(queues[k]) \ {d}
                          /\ \A x, y : x # d /\ y # d /\ Precedes(queues[k], x, y)
                                         => Precedes(Detach(queues, d)[k], x, y)
  BY <1>3, DetachHolds
<1>5. Holds(table', queues', policy')
  BY <1>2, <1>4
<1>6. \A k \in Queue : Elements(queues'[k]) = Elements(queues[k]) \ {d}
  BY <1>2, <1>4
<1>7. Matched(timers', unsolicited', queues', policy')
  BY <1>2, <1>3, <1>6 DEF Matched, Queue
<1>8. StaleIn(queues', freshLeft')
  <2>1. Elements(queues'["stale"]) = Elements(queues["stale"]) \ {d}
    BY <1>6 DEF Queue
  <2>2. Elements(queues["stale"]) \subseteq table
    BY <1>3 DEF Holds, Queue
  <2>. QED
    BY <1>2, <2>1, <2>2 DEF StaleIn, Inv, StoreInv
<1>9. before' \subseteq table' \X table'
  BY <1>1 DEF Remaining, StoreType, EraseNext
<1>10. InOrder(queues', before', policy')
  <2>. SUFFICES ASSUME policy = "lru", NEW e \in before'
                PROVE  Precedes(queues'["lru"], e[1], e[2])
    BY <1>2 DEF InOrder
  <2>1. e \in before /\ e[1] # d /\ e[2] # d
    BY <1>2 DEF Remaining
  <2>2. Precedes(queues["lru"], e[1], e[2])
    BY <2>1 DEF InOrder, Inv, StoreInv
  <2>. QED
    BY <1>2, <1>4, <2>1, <2>2 DEF Queue
<1>11. WithinLimit'
  <2>1. IsFiniteSet(table)
    BY <1>1, StoreAssumption, FS_Subset DEF StoreType
  <2>2. /\ Cardinality(table') <= Cardinality(table) /\ Cardinality(table) \in Nat
        /\ Cardinality(table') \in Nat
    BY <1>2, <2>1, FS_Subset, FS_CardinalityType
  <2>3. limit \in Nat
    BY <1>1, StoreAssumption DEF ConfigType
  <2>. QED
    BY <1>2, <2>2, <2>3 DEF WithinLimit, Inv, StoreInv
<1>12. StoreInv'
  BY <1>5, <1>7, <1>8, <1>10, <1>11 DEF StoreInv
<1>13. client.left \in Nat /\ round \in 0..EraseLimit /\ client.phase = "asking"
  BY <1>1 DEF ClientType, Client, Inv, ClientInv
<1>14. round' <= Budget(client.left) /\ round' \in 0..EraseLimit
  <2>1. round < Budget(client.left)
    BY <1>2 DEF ErasesMore
  <2>. QED
    BY <1>2, <1>13, <2>1, BudgetBounds, EraseAssumption
<1>15. ClientInv'
  BY <1>2, <1>13, <1>14 DEF Inv, ClientInv, EraseReachesAll, Budget
<1>16. ClientType'
  BY <1>1, <1>2, <1>14 DEF ClientType
<1>17. TypeOK'
  <2>1. StoreType(table', unsolicited', freshLeft', timers', before', old')
    <3>1. freshLeft' \in [table' -> Int]
      BY <1>1, <1>2 DEF StoreType
    <3>. QED
      BY <3>1, <1>1, <1>2, <1>9 DEF StoreType
  <2>2. queues' \in [Queue -> Seq(Data)]
    BY <1>5 DEF Holds
  <2>3. ConfigType'
    BY <1>1, <1>2 DEF ConfigType
  <2>. QED
    BY <2>1, <2>2, <2>3, <1>16, TypePartsPrime
<1>. QED
  BY <1>12, <1>15, <1>17 DEF Inv

\* The answer to the erase command keeps the invariant: what nfdc reports is true.
LEMMA EraseAnswerInv == ASSUME Inv, EraseAnswer, round # NoRound PROVE Inv'
<1>. DEFINE M == Matches(table, client.prefix, FALSE)
            d == FirstOf(M)
            more == Limited(round, client.left) /\ Hit(table, client.prefix, FALSE)
            left == IF client.count = NoCount THEN NoCount ELSE client.left - round
<1>1. /\ StoreType(table, unsolicited, freshLeft, timers, before, old)
      /\ queues \in [Queue -> Seq(Data)] /\ ConfigType /\ ClientType
  BY TypeParts DEF Inv
<1>2. /\ ~ErasesMore /\ round' = NoRound
      /\ queues' = IF more THEN UsedIn(queues, d) ELSE queues
      /\ before' = IF more THEN Touched(table, d) ELSE before
      /\ UNCHANGED <<table, unsolicited, freshLeft, timers, policy, limit, admit, serve, old>>
  BY DEF EraseAnswer, configVars
<1>3. client' = [client EXCEPT !.phase = IF more THEN "asking" ELSE "done", !.left = left]
  BY DEF EraseAnswer
<1>4. M = table \cap Under[client.prefix]
  BY DEF Matches
<1>5. /\ StoreInv'
      /\ StoreType(table', unsolicited', freshLeft', timers', before', old')
      /\ queues' \in [Queue -> Seq(Data)]
      /\ ConfigType'
  <2>1. CASE more
    <3>1. M # {} /\ M \subseteq table /\ table \subseteq Data
      BY <1>1, <1>4, <2>1 DEF Hit, StoreType
    <3>. HIDE DEF M
    <3>2. d \in table
      BY <3>1, FirstOfIn
    <3>3. queues' = UsedIn(queues, d) /\ before' = Touched(table, d)
      BY <1>2, <2>1
    <3>. HIDE DEF d
    <3>. QED
      BY <3>2, <3>3, <1>2, UseStep DEF Inv
  <2>2. CASE ~more
    <3>1. UNCHANGED <<entryVars, policy, limit, before>>
      BY <1>2, <2>2 DEF entryVars
    <3>. QED
      BY <3>1, <1>1, <1>2, StoreSame DEF Inv, StoreType, ConfigType
  <2>. QED
    BY <2>1, <2>2
<1>6. /\ client.left \in Nat /\ round \in 0..EraseLimit /\ client \in Client
      /\ round <= Budget(client.left)
  BY <1>1 DEF ClientType, Client, Inv, ClientInv
<1>7. left \in Nat
  BY <1>6, BudgetBounds, EraseAssumption
<1>8. /\ client'.phase = IF more THEN "asking" ELSE "done"
      /\ client'.left = left /\ client'.prefix = client.prefix
      /\ client'.count = client.count /\ client'.served = client.served
  <2>. HIDE DEF more, left
  <2>. QED
    BY <1>3, <1>6 DEF Client
<1>9. client' \in Client
  <2>. HIDE DEF more, left
  <2>. QED
    BY <1>3, <1>6, <1>7 DEF Client, Phase
<1>10. ASSUME ~more, client.served PROVE old = {} \/ left = 0
  <2>1. serve /\ old \subseteq M
    BY <1>1, <1>4, <1>10 DEF Inv, ClientInv, StoreType
  <2>2. CASE M = {}
    BY <2>1, <2>2
  <2>3. CASE M # {}
    <3>1. ~(round < Budget(client.left))
      BY <1>2, <2>3 DEF ErasesMore
    <3>2. round = Budget(client.left)
      BY <3>1, <1>6, BudgetBounds
    <3>3. limit # 0
      <4>. SUFFICES ASSUME limit = 0 PROVE FALSE
        OBVIOUS
      <4>1. IsFiniteSet(table)
        BY <1>1, StoreAssumption, FS_Subset DEF StoreType
      <4>2. Cardinality(table) \in Nat /\ Cardinality(table) <= 0
        BY <4>1, FS_CardinalityType DEF Inv, StoreInv, WithinLimit
      <4>3. table = {}
        BY <4>1, <4>2, FS_EmptySet
      <4>. QED
        BY <4>3, <2>3, <1>4
    <3>4. Hit(table, client.prefix, FALSE)
      BY <2>1, <2>3, <3>3 DEF Hit
    <3>5. ~(round = EraseLimit /\ client.left > EraseLimit)
      BY <1>10, <3>4 DEF Limited
    <3>6. client.left <= EraseLimit /\ round = client.left
      BY <3>2, <3>5, <1>6, EraseAssumption DEF Budget
    <3>7. client.count # NoCount
      BY <3>6, <1>6, EraseAssumption DEF Inv, ClientInv
    <3>. QED
      BY <3>6, <3>7, <1>6
  <2>. QED
    BY <2>2, <2>3
<1>11. ClientInv'
  <2>1. (client'.phase = "done" /\ client'.served) => (old' = {} \/ client'.left = 0)
    BY <1>2, <1>8, <1>10
  <2>2. client'.count = NoCount => client'.left = NoCount
    BY <1>8
  <2>3. client'.served => serve'
    BY <1>2, <1>8 DEF Inv, ClientInv
  <2>4. old' \subseteq Under[client'.prefix]
    BY <1>2, <1>8 DEF Inv, ClientInv
  <2>. QED
    BY <1>2, <2>1, <2>2, <2>3, <2>4 DEF ClientInv, EraseReachesAll
<1>. QED
  BY <1>2, <1>5, <1>9, <1>11, TypePartsPrime DEF Inv, ClientType

----------------------------------------------------------------------------
(* Invariants *)

\* Every step keeps the invariant.
LEMMA NextInv == Inv /\ [Next]_vars => Inv'
<1>. SUFFICES ASSUME Inv, [Next]_vars PROVE Inv'
  OBVIOUS
<1>1. ASSUME NEW d \in Data, NEW uns \in BOOLEAN, Insert(d, uns) PROVE Inv'
  BY <1>1, InsertInv
<1>2. ASSUME NEW d \in Data, NEW uns \in BOOLEAN, Refresh(d, uns) PROVE Inv'
  BY <1>2, RefreshInv
<1>3. ASSUME NEW d \in Data, MoveToStale(d) PROVE Inv'
  BY <1>3, MoveToStaleInv
<1>4. ASSUME NEW p \in Prefix, NEW mustBeFresh \in BOOLEAN, FindHit(p, mustBeFresh) PROVE Inv'
  BY <1>4, FindHitInv
<1>5. ASSUME Tick PROVE Inv'
  BY <1>5, TickInv
<1>6. ASSUME NEW n \in Limits, SetLimit(n) PROVE Inv'
  BY <1>6, SetLimitInv
<1>7. ASSUME NEW n \in Limits, NEW name \in Policies, Reconfigure(n, name) PROVE Inv'
  BY <1>7, ReconfigureInv
<1>8. ASSUME NEW on \in BOOLEAN, EnableAdmit(on) PROVE Inv'
  BY <1>8, EnableAdmitInv
<1>9. ASSUME NEW on \in BOOLEAN, EnableServe(on) PROVE Inv'
  BY <1>9, EnableServeInv
<1>10. ASSUME NEW p \in Prefix, NEW n \in Counts \cup {NoCount}, BeginErase(p, n),
              round = NoRound
       PROVE  Inv'
  BY <1>10, BeginEraseInv
<1>11. ASSUME BeginRound PROVE Inv'
  BY <1>11, BeginRoundInv
<1>12. ASSUME EraseFails, round = NoRound PROVE Inv'
  BY <1>12, EraseFailsInv
<1>13. ASSUME EraseNext, round # NoRound PROVE Inv'
  BY <1>13, EraseNextInv
<1>14. ASSUME EraseAnswer, round # NoRound PROVE Inv'
  BY <1>14, EraseAnswerInv
<1>15. ASSUME UNCHANGED vars PROVE Inv'
  BY <1>15 DEF vars, entryVars, configVars, Inv, TypeOK, StoreInv, WithinLimit, ClientInv,
               EraseReachesAll, Budget
<1>16. ASSUME Step, round = NoRound PROVE Inv'
  BY <1>1, <1>2, <1>3, <1>4, <1>5, <1>6, <1>7, <1>8, <1>9, <1>10, <1>11, <1>12, <1>16 DEF Step
<1>. QED
  BY <1>13, <1>14, <1>15, <1>16 DEF Next

\* The invariant holds in every reachable state.
LEMMA InvAlways == Spec => []Inv
<1>. QED
  BY InitInv, NextInv, PTL DEF Spec

\* The variables of the store keep their types.
THEOREM TypeCorrect == Spec => []TypeOK
<1>1. Inv => TypeOK
  BY DEF Inv
<1>. QED
  BY <1>1, InvAlways, PTL

\* The queues of the policy hold exactly the entries of the table, each in one place.
THEOREM QueuesAgree == Spec => []QueuesHoldTable
<1>1. Inv => QueuesHoldTable
  BY DEF Inv, StoreInv, Holds, QueuesHoldTable, Distinct
<1>. QED
  BY <1>1, InvAlways, PTL

\* Timers run exactly for the FIFO queue.
THEOREM TimersAgree == Spec => []TimersMatchQueues
<1>1. Inv => TimersMatchQueues
  BY DEF Inv, StoreInv, Matched, TimersMatchQueues
<1>. QED
  BY <1>1, InvAlways, PTL

\* The capacity is never exceeded, whatever limits are set.
THEOREM LimitKept == Spec => []WithinLimit
<1>1. Inv => WithinLimit
  BY DEF Inv, StoreInv
<1>. QED
  BY <1>1, InvAlways, PTL

\* nfdc cs erase reaches all Data it was asked to erase while serving is on.
THEOREM EraseComplete == Spec => []EraseReachesAll
<1>1. Inv => EraseReachesAll
  BY DEF Inv, ClientInv
<1>. QED
  BY <1>1, InvAlways, PTL

----------------------------------------------------------------------------
(* The order of evictions *)

\* To take as many as there are is to take all.
LEMMA TakenAll ==
  ASSUME NEW S, NEW s \in Seq(S), NEW n \in Int, n >= Len(s)
  PROVE  Taken(s, n) = Elements(s)
<1>1. Len(s) \in Nat /\ DOMAIN s = 1..Len(s)
  BY LenProperties
<1>2. {j \in DOMAIN s : j <= n} = DOMAIN s
  BY <1>1
<1>. QED
  BY <1>2 DEF Taken, Elements

\* What is taken is in the queue.
LEMMA TakenSome ==
  ASSUME NEW S, NEW s \in Seq(S), NEW n \in Int, NEW x \in Taken(s, n)
  PROVE  n >= 1 /\ x \in Elements(s)
<1>1. Len(s) \in Nat /\ DOMAIN s = 1..Len(s)
  BY LenProperties
<1>2. PICK i \in DOMAIN s : i <= n /\ s[i] = x
  BY DEF Taken
<1>. QED
  BY <1>1, <1>2 DEF Elements

\* What Settle does, by names.
LEMMA SettleGone ==
  ASSUME NEW S, NEW U, NEW f, NEW q, NEW t, NEW B, NEW pol,
         Ready(S, U, f, q, t, B, pol), limit' \in Limits, Settle(S, U, f, q, t)
  PROVE  \E n \in Int : /\ table' = S \ Evicted(q, n)
                        /\ unsolicited' = U \ Evicted(q, n)
                        /\ \A e \in table' : freshLeft'[e] = f[e]
<1>1. limit' \in Nat
  BY StoreAssumption
<1>2. S \subseteq Data
  BY DEF Ready
<1>3. IsFiniteSet(S)
  BY <1>2, StoreAssumption, FS_Subset
<1>4. Cardinality(S) \in Nat
  BY <1>3, FS_CardinalityType
<1>5. Cardinality(S) - limit' \in Int
  BY <1>1, <1>4
<1>. QED
  BY <1>5 DEF Settle, Excess

\* Priority FIFO takes the unsolicited queue first and the FIFO queue last.
LEMMA SettleInOrder ==
  ASSUME NEW S, NEW U, NEW f, NEW q, NEW t, NEW B,
         Ready(S, U, f, q, t, B, "priority_fifo"), limit' \in Limits, Settle(S, U, f, q, t),
         NEW d \in S, d \notin table', d \notin U
  PROVE  /\ unsolicited' = {}
         /\ f[d] > 0 => \A e \in table' : freshLeft'[e] < 0 => e \in t
<1>0. /\ Holds(S, q, "priority_fifo") /\ Matched(t, U, q, "priority_fifo") /\ StaleIn(q, f)
      /\ f \in [S -> Int]
  BY DEF Ready
<1>1. PICK n \in Int : /\ table' = S \ Evicted(q, n)
                       /\ unsolicited' = U \ Evicted(q, n)
                       /\ \A e \in table' : freshLeft'[e] = f[e]
  BY SettleGone
<1>2. \A k \in Queue : q[k] \in Seq(Data) /\ Size(q, k) \in Nat
  <2>1. \A k \in Queue : Size(q, k) \in Nat
    BY <1>0, HoldsCardinality
  <2>. QED
    BY <2>1, <1>0 DEF Holds
<1>3. /\ Size(q, "unsolicited") \in Nat /\ Size(q, "stale") \in Nat
      /\ q["unsolicited"] \in Seq(Data) /\ q["stale"] \in Seq(Data)
  BY <1>2 DEF Queue
<1>4. /\ Ahead(q, "unsolicited") = 0
      /\ Ahead(q, "stale") = Size(q, "unsolicited")
      /\ Ahead(q, "fifo") = Size(q, "unsolicited") + Size(q, "stale")
  BY DEF Ahead, Size
<1>5. \A k \in Queue : Ahead(q, k) \in Nat
  BY <1>0, <1>1, EvictionOfQueue
<1>6. PICK k \in Queue : d \in Taken(q[k], n - Ahead(q, k))
  BY <1>1 DEF Evicted
<1>7. n - Ahead(q, k) \in Int
  BY <1>5
<1>8. n - Ahead(q, k) >= 1 /\ d \in Elements(q[k])
  <2>. DEFINE m == n - Ahead(q, k)
  <2>1. m \in Int /\ d \in Taken(q[k], m)
    BY <1>6, <1>7
  <2>. HIDE DEF m
  <2>2. m >= 1 /\ d \in Elements(q[k])
    BY <2>1, <1>2, TakenSome
  <2>. QED
    BY <2>2 DEF m
<1>9. U = Elements(q["unsolicited"]) /\ t = Elements(q["fifo"]) /\ Elements(q["lru"]) = {}
  BY <1>0 DEF Matched, Holds, Elements
<1>10. k = "stale" \/ k = "fifo"
  BY <1>8, <1>9 DEF Queue
<1>11. n >= Size(q, "unsolicited")
  <2>1. CASE k = "stale"
    BY <2>1, <1>3, <1>4, <1>8
  <2>2. CASE k = "fifo"
    BY <2>2, <1>3, <1>4, <1>8
  <2>. QED
    BY <1>10, <2>1, <2>2
<1>12. U \subseteq Evicted(q, n)
  <2>1. Taken(q["unsolicited"], n) = U
    BY <1>3, <1>9, <1>11, TakenAll DEF Size
  <2>2. n - Ahead(q, "unsolicited") = n
    BY <1>4
  <2>3. Taken(q["unsolicited"], n - Ahead(q, "unsolicited")) \subseteq Evicted(q, n)
    BY DEF Evicted, Queue
  <2>. QED
    BY <2>1, <2>2, <2>3
<1>13. ASSUME f[d] > 0, NEW e \in table', freshLeft'[e] < 0 PROVE e \in t
  <2>1. k = "fifo"
    <3>. SUFFICES ASSUME k = "stale" PROVE FALSE
      BY <1>10
    <3>1. f[d] <= 0 /\ f[d] \in Int
      BY <1>0, <1>8 DEF StaleIn
    <3>. QED
      BY <3>1, <1>13
  <2>2. n - Size(q, "unsolicited") \in Int /\ n - Size(q, "unsolicited") >= Size(q, "stale")
    BY <2>1, <1>3, <1>4, <1>8
  <2>3. Elements(q["stale"]) \subseteq Evicted(q, n)
    <3>. DEFINE m == n - Size(q, "unsolicited")
    <3>1. m \in Int /\ m >= Size(q, "stale")
      BY <2>2
    <3>2. Taken(q["stale"], m) \subseteq Evicted(q, n)
      BY <1>4 DEF Evicted, Queue
    <3>. HIDE DEF m
    <3>3. Taken(q["stale"], m) = Elements(q["stale"])
      BY <3>1, <1>3, TakenAll DEF Size
    <3>. QED
      BY <3>2, <3>3
  <2>4. PICK l \in Queue : e \in Elements(q[l])
    BY <1>0, <1>1 DEF Holds
  <2>. QED
    BY <2>3, <2>4, <1>1, <1>9, <1>12 DEF Queue
<1>. QED
  BY <1>1, <1>12, <1>13

\* LRU takes the queue from its front.
LEMMA SettleOldest ==
  ASSUME NEW S, NEW U, NEW f, NEW q, NEW t, NEW B,
         Ready(S, U, f, q, t, B, "lru"), limit' \in Limits, Settle(S, U, f, q, t),
         NEW x, NEW y, Precedes(q["lru"], x, y), y \notin table'
  PROVE  x \notin table'
<1>0. Holds(S, q, "lru")
  BY DEF Ready
<1>1. PICK n \in Int : table' = S \ Evicted(q, n)
  BY SettleGone
<1>2. q["lru"] \in Seq(Data) /\ Distinct(q["lru"]) /\ Elements(q["lru"]) = S
  BY <1>0 DEF Holds, Queue
<1>3. PICK i, j \in DOMAIN q["lru"] : i < j /\ q["lru"][i] = x /\ q["lru"][j] = y
  BY DEF Precedes
<1>4. i \in Int /\ j \in Int
  BY <1>2, LenProperties
<1>5. y \in S
  BY <1>2, <1>3 DEF Elements
<1>6. PICK k \in Queue : y \in Taken(q[k], n - Ahead(q, k))
  BY <1>1, <1>5 DEF Evicted
<1>7. k = "lru"
  <2>1. y \in Elements(q[k])
    BY <1>6 DEF Taken, Elements
  <2>. QED
    BY <2>1, <1>0, OnlyLru
<1>8. n - Ahead(q, "lru") = n
  BY DEF Ahead
<1>9. PICK m \in DOMAIN q["lru"] : m <= n /\ q["lru"][m] = y
  BY <1>6, <1>7, <1>8 DEF Taken
<1>10. m = j
  BY <1>2, <1>3, <1>9 DEF Distinct
<1>11. x \in Taken(q["lru"], n)
  BY <1>3, <1>4, <1>9, <1>10 DEF Taken
<1>12. Taken(q["lru"], n - Ahead(q, "lru")) \subseteq Evicted(q, n)
  BY DEF Evicted, Queue
<1>. QED
  BY <1>1, <1>8, <1>11, <1>12

\* Only an insertion and a change of the capacity evict.
LEMMA EvictingSteps ==
  ASSUME Inv, [Next]_vars, round = NoRound, table' # table
  PROVE  \/ \E d \in Data, uns \in BOOLEAN : Insert(d, uns)
         \/ /\ Settle(table, unsolicited, freshLeft, queues, timers)
            /\ limit' \in Limits
<1>1. Step
  BY DEF Next, vars, entryVars
<1>2. ASSUME NEW d \in Data, NEW uns \in BOOLEAN, Refresh(d, uns) PROVE FALSE
  BY <1>2 DEF Refresh
<1>3. ASSUME NEW d \in Data, MoveToStale(d) PROVE FALSE
  BY <1>3 DEF MoveToStale
<1>4. ASSUME NEW p \in Prefix, NEW mustBeFresh \in BOOLEAN, FindHit(p, mustBeFresh) PROVE FALSE
  BY <1>4 DEF FindHit
<1>5. ASSUME Tick PROVE FALSE
  BY <1>5 DEF Tick
<1>6. ASSUME NEW n \in Limits, SetLimit(n)
      PROVE  Settle(table, unsolicited, freshLeft, queues, timers) /\ limit' \in Limits
  BY <1>6 DEF SetLimit
<1>7. ASSUME NEW n \in Limits, NEW name \in Policies, Reconfigure(n, name)
      PROVE  Settle(table, unsolicited, freshLeft, queues, timers) /\ limit' \in Limits
  BY <1>7 DEF Reconfigure
<1>8. ASSUME NEW on \in BOOLEAN, EnableAdmit(on) \/ EnableServe(on) PROVE FALSE
  BY <1>8 DEF EnableAdmit, EnableServe, entryVars
<1>9. ASSUME NEW p \in Prefix, NEW n \in Counts \cup {NoCount}, BeginErase(p, n) PROVE FALSE
  BY <1>9 DEF BeginErase, entryVars
<1>10. ASSUME BeginRound \/ EraseFails PROVE FALSE
  BY <1>10 DEF BeginRound, EraseFails, entryVars
<1>. QED
  BY <1>1, <1>2, <1>3, <1>4, <1>5, <1>6, <1>7, <1>8, <1>9, <1>10 DEF Step

\* The store itself is ready for evictions.
LEMMA InvReady ==
  ASSUME Inv
  PROVE  Ready(table, unsolicited, freshLeft, queues, timers, before, policy)
<1>1. StoreType(table, unsolicited, freshLeft, timers, before, old)
  BY TypeParts DEF Inv
<1>. QED
  BY <1>1 DEF Inv, StoreInv, StoreType, Ready

\* Insert leaves the limit alone.
LEMMA InsertLimit ==
  ASSUME Inv, NEW d \in Data, NEW uns \in BOOLEAN, Insert(d, uns)
  PROVE  limit' \in Limits
  BY DEF Insert, Inv, TypeOK, configVars

\* Priority FIFO evicts unsolicited Data first and fresh Data last.
THEOREM EvictionOrder == Spec => EvictsInOrder
<1>. DEFINE A == policy = "priority_fifo" /\ round = NoRound =>
                   \A d \in (table \ table') \ unsolicited :
                     /\ unsolicited' = {}
                     /\ freshLeft[d] > 0 => \A e \in table' : freshLeft'[e] < 0 => e \in timers
<1>1. ASSUME Inv, [Next]_vars PROVE A
  <2>. SUFFICES ASSUME policy = "priority_fifo", round = NoRound,
                       NEW d \in (table \ table') \ unsolicited
                PROVE  /\ unsolicited' = {}
                       /\ freshLeft[d] > 0
                            => \A e \in table' : freshLeft'[e] < 0 => e \in timers
    OBVIOUS
  <2>1. table' # table
    OBVIOUS
  <2>2. CASE Settle(table, unsolicited, freshLeft, queues, timers) /\ limit' \in Limits
    <3>1. Ready(table, unsolicited, freshLeft, queues, timers, before, "priority_fifo")
      BY <1>1, InvReady
    <3>. QED
      BY <2>2, <3>1, SettleInOrder
  <2>3. ASSUME NEW n \in Data, NEW uns \in BOOLEAN, Insert(n, uns)
        PROVE  /\ unsolicited' = {}
               /\ freshLeft[d] > 0 => \A e \in table' : freshLeft'[e] < 0 => e \in timers
    <3>1. PICK S, U, f, q, t : /\ Inserted(n, S, U, f, q, t)
                              /\ Ready(S, U, f, q, t, Touched(table, n), policy)
                              /\ Settle(S, U, f, q, t)
      BY <1>1, <2>3, InsertReady
    <3>2. limit' \in Limits
      BY <1>1, <2>3, InsertLimit
    <3>3. d \in S /\ d \notin table' /\ d \notin U /\ f[d] = freshLeft[d]
      BY <3>1 DEF Inserted
    <3>4. /\ unsolicited' = {}
          /\ f[d] > 0 => \A e \in table' : freshLeft'[e] < 0 => e \in t
      BY <3>1, <3>2, <3>3, SettleInOrder
    <3>5. \A e \in table' : freshLeft'[e] = f[e]
      BY <3>1, <3>2, SettleGone
    <3>6. ASSUME freshLeft[d] > 0, NEW e \in table', freshLeft'[e] < 0 PROVE e \in timers
      <4>1. e \in t /\ f[e] < 0
        BY <3>3, <3>4, <3>5, <3>6
      <4>2. f[n] >= 0 /\ t \subseteq timers \cup {n}
        BY <3>1 DEF Inserted
      <4>3. f \in [S -> Int] /\ n \in S
        BY <3>1 DEF Ready, Inserted
      <4>4. e # n
        BY <4>1, <4>2, <4>3
      <4>. QED
        BY <4>1, <4>2, <4>4
    <3>. QED
      BY <3>4, <3>6
  <2>. QED
    BY <1>1, <2>1, <2>2, <2>3, EvictingSteps
<1>2. Spec => [][A]_vars
  <2>1. Inv /\ [Next]_vars => [A]_vars
    BY <1>1
  <2>. QED
    BY <2>1, InvAlways, PTL DEF Spec
<1>. QED
  BY <1>2 DEF EvictsInOrder

\* LRU evicts the entries that were not used for longest.
THEOREM EvictionOldest == Spec => EvictsOldest
<1>. DEFINE A == policy = "lru" /\ round = NoRound =>
                   \A e \in before : e[2] \notin table' => e[1] \notin table'
<1>1. ASSUME Inv, [Next]_vars PROVE A
  <2>. SUFFICES ASSUME policy = "lru", round = NoRound, NEW e \in before, e[2] \notin table'
                PROVE  e[1] \notin table'
    OBVIOUS
  <2>1. e[2] \in table
    BY <1>1 DEF Inv, TypeOK
  <2>2. table' # table
    BY <2>1
  <2>3. Precedes(queues["lru"], e[1], e[2])
    BY <1>1 DEF Inv, StoreInv, InOrder
  <2>4. CASE Settle(table, unsolicited, freshLeft, queues, timers) /\ limit' \in Limits
    <3>1. Ready(table, unsolicited, freshLeft, queues, timers, before, "lru")
      BY <1>1, InvReady
    <3>. QED
      BY <2>3, <2>4, <3>1, SettleOldest
  <2>5. ASSUME NEW n \in Data, NEW uns \in BOOLEAN, Insert(n, uns) PROVE e[1] \notin table'
    <3>1. PICK S, U, f, q, t : /\ Inserted(n, S, U, f, q, t)
                              /\ Ready(S, U, f, q, t, Touched(table, n), policy)
                              /\ Settle(S, U, f, q, t)
      BY <1>1, <2>5, InsertReady
    <3>2. limit' \in Limits
      BY <1>1, <2>5, InsertLimit
    <3>3. Precedes(q["lru"], e[1], e[2])
      BY <2>3, <3>1 DEF Inserted
    <3>. QED
      BY <3>1, <3>2, <3>3, SettleOldest
  <2>. QED
    BY <1>1, <2>2, <2>4, <2>5, EvictingSteps
<1>2. Spec => [][A]_vars
  <2>1. Inv /\ [Next]_vars => [A]_vars
    BY <1>1
  <2>. QED
    BY <2>1, InvAlways, PTL DEF Spec
<1>. QED
  BY <1>2 DEF EvictsOldest
=============================================================================
