------------------------ MODULE KiteRendezvousProofs ------------------------
(***************************************************************************)
(* Proofs about the rendezvous of KiteRendezvous.tla: what it announces,   *)
(* that its two policies never disagree, and which Requests it never       *)
(* acknowledges, for any producers, clocks, sizes of the records, number   *)
(* of validations at once and order of arrivals.                           *)
(***************************************************************************)
EXTENDS KiteRendezvous, NatOrder, TLAPS, FiniteSetTheorems, FunctionTheorems, SequenceTheorems

----------------------------------------------------------------------------
(* Names *)

\* The name of a Request.
FullName(p) == Append(Append(RvPrefix, KITE_KEYWORD) \o ProducerSuffix[p], Digest)

\* A name of three parts and a last component, component by component.
LEMMA NameParts ==
  ASSUME NEW C, NEW f \in Seq(C), NEW k \in C, NEW w \in Seq(C), NEW d \in C,
         NEW m, m = Append(Append(f, k) \o w, d)
  PROVE  /\ Len(f) \in Nat /\ Len(w) \in Nat
         /\ m \in Seq(C) /\ Len(m) = Len(f) + Len(w) + 2
         /\ \A i \in 1..Len(f) : m[i] = f[i]
         /\ m[Len(f) + 1] = k
         /\ \A i \in 1..Len(w) : m[Len(f) + 1 + i] = w[i]
<1>0. PICK r, z : r = Len(f) /\ z = Len(w)
  OBVIOUS
<1>1. r = Len(f) /\ z = Len(w) /\ r \in Nat /\ z \in Nat
  BY <1>0
<1>2. PICK a : a = Append(f, k)
  OBVIOUS
<1>3. a \in Seq(C) /\ Len(a) = r + 1 /\ (\A i \in 1..r : a[i] = f[i]) /\ a[r + 1] = k
  BY <1>1, <1>2, AppendProperties
<1>4. PICK b : b = a \o w
  OBVIOUS
<1>5. b \in Seq(C) /\ Len(b) = r + 1 + z
      /\ \A i \in 1..(r + 1 + z) : b[i] = IF i <= r + 1 THEN a[i] ELSE w[i - (r + 1)]
  <2>1. /\ b \in Seq(C) /\ Len(b) = Len(a) + Len(w)
        /\ \A i \in 1..(Len(a) + Len(w)) : b[i] = IF i <= Len(a) THEN a[i] ELSE w[i - Len(a)]
    BY <1>3, <1>4, ConcatProperties
  <2>. QED
    BY <1>1, <1>3, <2>1
<1>6. m = Append(b, d)
  BY <1>2, <1>4
<1>7. m \in Seq(C) /\ Len(m) = r + 1 + z + 1 /\ \A i \in 1..(r + 1 + z) : m[i] = b[i]
  BY <1>5, <1>6, AppendProperties
<1>8. \A i \in 1..r : m[i] = f[i]
  BY <1>1, <1>3, <1>5, <1>7
<1>9. m[r + 1] = k
  BY <1>1, <1>3, <1>5, <1>7
<1>10. ASSUME NEW i \in 1..z PROVE m[r + 1 + i] = w[i]
  <2>1. r + 1 + i \in 1..(r + 1 + z) /\ ~(r + 1 + i <= r + 1) /\ (r + 1 + i) - (r + 1) = i
    BY <1>1
  <2>2. b[r + 1 + i] = w[(r + 1 + i) - (r + 1)]
    BY <2>1, <1>5
  <2>. QED
    BY <2>1, <2>2, <1>7
<1>11. r + 1 + z + 1 = r + z + 2
  BY <1>1
<1>. QED
  BY <1>1, <1>7, <1>8, <1>9, <1>10, <1>11

\* The first keyword of the name is the one MakeInterest put there, whatever the
\* producer's suffix holds, and the Ack announces what follows it.
LEMMA SuffixOfFullName ==
  ASSUME NEW p \in Producers
  PROVE  FullName(p) \in Seq(Component) /\ Suffix(FullName(p)) = ProducerSuffix[p]
<1>1. PICK f, w, m : f = RvPrefix /\ w = ProducerSuffix[p] /\ m = Append(Append(f, KITE_KEYWORD) \o w, Digest)
  OBVIOUS
<1>2. /\ KITE_KEYWORD \in Component /\ Digest \in Component
      /\ f \in Seq(Component \ {KITE_KEYWORD}) /\ w \in Seq(Component)
  BY <1>1, NamesAssumption
<1>3. f \in Seq(Component) /\ \A i \in 1..Len(f) : f[i] # KITE_KEYWORD
  BY <1>2
<1>4. PICK r, z : r = Len(f) /\ z = Len(w)
  OBVIOUS
<1>5. /\ r \in Nat /\ z \in Nat
      /\ m \in Seq(Component) /\ Len(m) = r + z + 2
      /\ \A i \in 1..r : m[i] = f[i]
      /\ m[r + 1] = KITE_KEYWORD
      /\ \A i \in 1..z : m[r + 1 + i] = w[i]
  <2>1. /\ Len(f) \in Nat /\ Len(w) \in Nat
        /\ m \in Seq(Component) /\ Len(m) = Len(f) + Len(w) + 2
        /\ \A i \in 1..Len(f) : m[i] = f[i]
        /\ m[Len(f) + 1] = KITE_KEYWORD
        /\ \A i \in 1..Len(w) : m[Len(f) + 1 + i] = w[i]
    <3>. DEFINE C == Component
                k == KITE_KEYWORD
                d == Digest
    <3>1. k \in C /\ d \in C /\ f \in Seq(C) /\ w \in Seq(C) /\ m = Append(Append(f, k) \o w, d)
      BY <1>1, <1>2, <1>3
    <3>. HIDE DEF C, k, d
    <3>2. /\ Len(f) \in Nat /\ Len(w) \in Nat
          /\ m \in Seq(C) /\ Len(m) = Len(f) + Len(w) + 2
          /\ \A i \in 1..Len(f) : m[i] = f[i]
          /\ m[Len(f) + 1] = k
          /\ \A i \in 1..Len(w) : m[Len(f) + 1 + i] = w[i]
      BY <3>1, NameParts
    <3>. QED
      BY <3>2 DEF C, k
  <2>. QED
    BY <1>4, <2>1
<1>6. \A i \in 1..r : m[i] # KITE_KEYWORD
  BY <1>3, <1>4, <1>5
<1>7. KeywordPosition(m) = r + 1
  <2>1. r + 1 \in DOMAIN m /\ \A j \in DOMAIN m : m[j] = KITE_KEYWORD => r + 1 <= j
    BY <1>5, <1>6
  <2>2. \A i \in DOMAIN m : m[i] = KITE_KEYWORD /\ (\A j \in DOMAIN m : m[j] = KITE_KEYWORD => i <= j)
                            => i = r + 1
    BY <1>5, <2>1
  <2>. QED
    BY <1>5, <2>1, <2>2 DEF KeywordPosition
<1>8. PICK t : t = SubSeq(m, r + 2, r + z + 1)
  OBVIOUS
<1>9. Suffix(m) = t
  <2>1. (r + 1) + 1 = r + 2 /\ Len(m) - 1 = r + z + 1
    BY <1>5
  <2>. QED
    BY <1>7, <1>8, <2>1 DEF Suffix
<1>10. t \in Seq(Component) /\ Len(t) = z /\ \A i \in 1..z : t[i] = w[i]
  <2>1. r + 2 \in Int /\ r + z + 1 \in Int /\ \A i \in (r + 2)..(r + z + 1) : m[i] \in Component
    BY <1>5
  <2>2. /\ t \in Seq(Component)
        /\ Len(t) = IF r + 2 <= r + z + 1 THEN (r + z + 1) - (r + 2) + 1 ELSE 0
        /\ \A i \in 1..((r + z + 1) - (r + 2) + 1) : t[i] = m[(r + 2) + i - 1]
    BY <1>8, <2>1, SubSeqProperties
  <2>3. Len(t) = z
    BY <1>5, <2>2
  <2>4. ASSUME NEW i \in 1..z PROVE t[i] = w[i]
    <3>1. i \in 1..((r + z + 1) - (r + 2) + 1) /\ (r + 2) + i - 1 = r + 1 + i
      BY <1>5
    <3>2. t[i] = m[(r + 2) + i - 1]
      BY <2>2, <3>1
    <3>. QED
      BY <1>5, <3>1, <3>2
  <2>. QED
    BY <2>2, <2>3, <2>4
<1>11. t = w
  BY <1>2, <1>4, <1>10, SeqEqual
<1>. QED
  BY <1>1, <1>5, <1>9, <1>11 DEF FullName

----------------------------------------------------------------------------
(* Lists of records by key *)

\* A key has at most one record.
Keyed(recs) == \A i, j \in DOMAIN recs : recs[i].key = recs[j].key => i = j

HasKey(recs, key) == \E i \in DOMAIN recs : recs[i].key = key

\* t is recs without the record at a.
Removed(recs, a, t) ==
  /\ Len(t) = Len(recs) - 1
  /\ \A i \in 1..(a - 1) : t[i] = recs[i]
  /\ \A i \in a..(Len(recs) - 1) : t[i] = recs[i + 1]

\* A function on 1..k is a sequence.
LEMMA FunctionIsSeq ==
  ASSUME NEW S, NEW k \in Nat, NEW t \in [1..k -> S]
  PROVE  t \in Seq(S) /\ Len(t) = k
  OBVIOUS

\* OthersThan takes the record of the key away, if there is one.
LEMMA OthersThanIs ==
  ASSUME NEW S, NEW recs \in Seq(S), Keyed(recs), NEW key, NEW t, t = OthersThan(recs, key)
  PROVE  /\ t \in Seq(S)
         /\ ~HasKey(recs, key) => t = recs
         /\ \A a \in DOMAIN recs : recs[a].key = key => Removed(recs, a, t)
<1>. DEFINE place == {i \in DOMAIN recs : recs[i].key = key}
            at == CHOOSE i \in place : TRUE
<1>1. CASE place = {}
  <2>1. t = recs
    BY <1>1 DEF OthersThan
  <2>. QED
    BY <1>1, <2>1
<1>2. CASE place # {}
  <2>1. at \in DOMAIN recs /\ recs[at].key = key
    BY <1>2
  <2>2. t = [i \in 1..(Len(recs) - 1) |-> IF i < at THEN recs[i] ELSE recs[i + 1]]
    BY <1>2 DEF OthersThan
  <2>. HIDE DEF at
  <2>3. PICK k \in Nat : k = Len(recs) - 1
    BY <2>1
  <2>4. at \in 1..Len(recs) /\ \A i \in 1..k : recs[i] \in S /\ recs[i + 1] \in S
    BY <2>1, <2>3
  <2>5. t \in [1..k -> S]
    BY <2>2, <2>3, <2>4
  <2>6. t \in Seq(S) /\ Len(t) = k
    BY <2>5, FunctionIsSeq
  <2>7. Removed(recs, at, t)
    BY <2>2, <2>3, <2>4, <2>6 DEF Removed
  <2>8. \A a \in DOMAIN recs : recs[a].key = key => a = at
    BY <2>1 DEF Keyed
  <2>. QED
    BY <2>1, <2>6, <2>7, <2>8 DEF HasKey
<1>. QED
  BY <1>1, <1>2

\* Where the records of t come from.
LEMMA RemovedFrom ==
  ASSUME NEW S, NEW recs \in Seq(S), NEW a \in DOMAIN recs, NEW t \in Seq(S), Removed(recs, a, t)
  PROVE  /\ Len(recs) \in Nat /\ Len(recs) >= 1 /\ a \in 1..Len(recs) /\ Len(t) = Len(recs) - 1
         /\ \A i \in DOMAIN t : \E j \in DOMAIN recs : /\ t[i] = recs[j] /\ j # a
                                                      /\ j = IF i < a THEN i ELSE i + 1
         /\ \A j \in DOMAIN recs : j < a => j \in DOMAIN t /\ t[j] = recs[j]
         /\ \A j \in DOMAIN recs : j > a => j - 1 \in DOMAIN t /\ t[j - 1] = recs[j]
<1>1. Len(recs) \in Nat /\ a \in 1..Len(recs) /\ Len(recs) >= 1 /\ Len(t) = Len(recs) - 1
      /\ DOMAIN t = 1..(Len(recs) - 1) /\ DOMAIN recs = 1..Len(recs)
  BY DEF Removed
<1>2. ASSUME NEW i \in DOMAIN t
      PROVE  \E j \in DOMAIN recs : t[i] = recs[j] /\ j # a /\ j = IF i < a THEN i ELSE i + 1
  <2>1. CASE i < a
    <3>1. i \in 1..(a - 1) /\ i \in DOMAIN recs
      BY <1>1, <2>1
    <3>2. t[i] = recs[i]
      BY <3>1 DEF Removed
    <3>. QED
      BY <1>1, <2>1, <3>1, <3>2
  <2>2. CASE ~(i < a)
    <3>1. i \in a..(Len(recs) - 1) /\ i + 1 \in DOMAIN recs /\ i + 1 # a
      BY <1>1, <2>2
    <3>2. t[i] = recs[i + 1]
      BY <3>1 DEF Removed
    <3>. QED
      BY <2>2, <3>1, <3>2
  <2>. QED
    BY <2>1, <2>2
<1>3. ASSUME NEW j \in DOMAIN recs, j < a PROVE j \in DOMAIN t /\ t[j] = recs[j]
  <2>1. j \in 1..(a - 1) /\ j \in DOMAIN t
    BY <1>1, <1>3
  <2>. QED
    BY <2>1 DEF Removed
<1>4. ASSUME NEW j \in DOMAIN recs, j > a PROVE j - 1 \in DOMAIN t /\ t[j - 1] = recs[j]
  <2>1. j - 1 \in a..(Len(recs) - 1) /\ j - 1 \in DOMAIN t /\ (j - 1) + 1 = j
    BY <1>1, <1>4
  <2>2. t[j - 1] = recs[(j - 1) + 1]
    BY <2>1 DEF Removed
  <2>. QED
    BY <2>1, <2>2
<1>. QED
  BY <1>1, <1>2, <1>3, <1>4

\* What is left has no record of the key, and still one record per key.
LEMMA OthersThanKeyed ==
  ASSUME NEW S, NEW recs \in Seq(S), Keyed(recs), NEW key, NEW t, t = OthersThan(recs, key)
  PROVE  Keyed(t) /\ ~HasKey(t, key)
<1>1. CASE ~HasKey(recs, key)
  BY <1>1, OthersThanIs
<1>2. CASE HasKey(recs, key)
  <2>1. PICK a \in DOMAIN recs : recs[a].key = key
    BY <1>2 DEF HasKey
  <2>2. t \in Seq(S) /\ Removed(recs, a, t)
    BY <2>1, OthersThanIs
  <2>3. \A i \in DOMAIN t : \E j \in DOMAIN recs : /\ t[i] = recs[j] /\ j # a
                                                  /\ j = IF i < a THEN i ELSE i + 1
    BY <2>2, RemovedFrom
  <2>4. ~HasKey(t, key)
    BY <2>1, <2>3 DEF HasKey, Keyed
  <2>5. ASSUME NEW i \in DOMAIN t, NEW k \in DOMAIN t, t[i].key = t[k].key PROVE i = k
    <3>1. PICK j \in DOMAIN recs : t[i] = recs[j] /\ j # a /\ j = IF i < a THEN i ELSE i + 1
      BY <2>3
    <3>2. PICK l \in DOMAIN recs : t[k] = recs[l] /\ l # a /\ l = IF k < a THEN k ELSE k + 1
      BY <2>3
    <3>3. j = l
      BY <3>1, <3>2, <2>5 DEF Keyed
    <3>4. i \in Int /\ k \in Int /\ a \in Int
      BY <2>2
    <3>. QED
      BY <3>1, <3>2, <3>3, <3>4
  <2>. QED
    BY <2>4, <2>5 DEF Keyed
<1>. QED
  BY <1>1, <1>2

\* A record of a new key at the end.
LEMMA AppendKeyed ==
  ASSUME NEW S, NEW t \in Seq(S), Keyed(t), NEW rec \in S, ~HasKey(t, rec.key)
  PROVE  Keyed(Append(t, rec))
<1>1. PICK u : u = Append(t, rec)
  OBVIOUS
<1>2. /\ Len(u) = Len(t) + 1 /\ u \in Seq(S) /\ Len(t) \in Nat
      /\ (\A i \in 1..Len(t) : u[i] = t[i]) /\ u[Len(t) + 1] = rec
  BY <1>1, AppendProperties
<1>3. ASSUME NEW i \in DOMAIN u, NEW j \in DOMAIN u, u[i].key = u[j].key PROVE i = j
  <2>1. \A k \in DOMAIN u : k = Len(t) + 1 \/ k \in DOMAIN t
    BY <1>2
  <2>2. \A k \in DOMAIN t : u[k] = t[k] /\ t[k].key # rec.key
    BY <1>2 DEF HasKey
  <2>. QED
    BY <1>2, <1>3, <2>1, <2>2 DEF Keyed
<1>. QED
  BY <1>1, <1>3 DEF Keyed

\* Without its first record a list still has one record per key.
LEMMA TailKeyed ==
  ASSUME NEW S, NEW t \in Seq(S), t # <<>>, Keyed(t)
  PROVE  Keyed(Tail(t))
<1>1. PICK u : u = Tail(t)
  OBVIOUS
<1>2. /\ u \in Seq(S) /\ Len(u) = Len(t) - 1 /\ Len(t) \in Nat
      /\ \A i \in 1..Len(u) : u[i] = t[i + 1]
  BY <1>1, HeadTailProperties
<1>3. \A i \in DOMAIN u : i \in Int /\ i + 1 \in DOMAIN t /\ u[i] = t[i + 1]
  BY <1>2
<1>. QED
  BY <1>1, <1>3 DEF Keyed

----------------------------------------------------------------------------
(* Agreement of two lists on their last records *)

\* The records are counted from the end.
FromEnd(r, i) == r[Len(r) - i]
Agree(r, c, m) ==
  /\ m \in Nat /\ m <= Len(r) /\ m <= Len(c)
  /\ \A i \in 0..(m - 1) : /\ FromEnd(r, i).key = FromEnd(c, i).key
                           /\ FromEnd(r, i).time = FromEnd(c, i).time

\* The places from the end, after the record d places from the end is gone.
LEMMA RemovedFromEnd ==
  ASSUME NEW S, NEW r \in Seq(S), NEW d \in 0..(Len(r) - 1), NEW t \in Seq(S),
         Removed(r, Len(r) - d, t)
  PROVE  \A i \in 0..(Len(r) - 2) : FromEnd(t, i) = FromEnd(r, IF i < d THEN i ELSE i + 1)
<1>1. Len(r) \in Nat /\ Len(t) = Len(r) - 1 /\ Len(r) >= 1
  BY DEF Removed
<1>. SUFFICES ASSUME NEW i \in 0..(Len(r) - 2)
              PROVE  FromEnd(t, i) = FromEnd(r, IF i < d THEN i ELSE i + 1)
  OBVIOUS
<1>2. PICK k : k = (Len(r) - 1) - i
  OBVIOUS
<1>3. CASE i < d
  <2>1. k \in (Len(r) - d)..(Len(r) - 1) /\ k + 1 = Len(r) - i /\ k = Len(t) - i
    BY <1>1, <1>2, <1>3
  <2>2. t[k] = r[k + 1]
    BY <2>1 DEF Removed
  <2>. QED
    BY <2>1, <2>2, <1>3 DEF FromEnd
<1>4. CASE ~(i < d)
  <2>1. k \in 1..(Len(r) - d - 1) /\ k = Len(r) - (i + 1) /\ k = Len(t) - i
    BY <1>1, <1>2, <1>4
  <2>2. t[k] = r[k]
    BY <2>1 DEF Removed
  <2>. QED
    BY <2>1, <2>2, <1>4 DEF FromEnd
<1>. QED
  BY <1>3, <1>4

\* Without a key that none of the last m records has, they stay the last ones.
LEMMA OthersFromEnd ==
  ASSUME NEW S, NEW r \in Seq(S), Keyed(r), NEW key, NEW t, t = OthersThan(r, key),
         NEW m \in Nat, m <= Len(r), \A i \in 0..(m - 1) : FromEnd(r, i).key # key
  PROVE  t \in Seq(S) /\ m <= Len(t) /\ \A i \in 0..(m - 1) : FromEnd(t, i) = FromEnd(r, i)
<1>1. CASE ~HasKey(r, key)
  BY <1>1, OthersThanIs
<1>2. CASE HasKey(r, key)
  <2>1. PICK a \in DOMAIN r : r[a].key = key
    BY <1>2 DEF HasKey
  <2>2. t \in Seq(S) /\ Removed(r, a, t)
    BY <2>1, OthersThanIs
  <2>3. PICK d : d = Len(r) - a
    OBVIOUS
  <2>4. d \in 0..(Len(r) - 1) /\ a = Len(r) - d
    BY <2>1, <2>3
  <2>5. d >= m
    <3>1. FromEnd(r, d).key = key
      BY <2>1, <2>4 DEF FromEnd
    <3>2. d \notin 0..(m - 1)
      BY <3>1
    <3>. QED
      BY <2>4, <3>2
  <2>6. \A i \in 0..(Len(r) - 2) : FromEnd(t, i) = FromEnd(r, IF i < d THEN i ELSE i + 1)
    BY <2>2, <2>4, RemovedFromEnd
  <2>7. Len(t) = Len(r) - 1 /\ Len(r) \in Nat
    BY <2>2 DEF Removed
  <2>8. \A i \in 0..(m - 1) : i \in 0..(Len(r) - 2) /\ i < d
    BY <2>4, <2>5, <2>7
  <2>9. m <= Len(t)
    BY <2>4, <2>5, <2>7
  <2>. QED
    BY <2>2, <2>6, <2>8, <2>9
<1>. QED
  BY <1>1, <1>2

\* Both lists lose the key: they agree on as many records as before, but for the
\* key's own.
AgreeWithout(r, c, t, u, m) ==
  \/ Agree(t, u, m)
  \/ /\ m >= 1 /\ Agree(t, u, m - 1)
     /\ Len(u) = Len(c) - 1 /\ Len(t) = Len(r) - 1

\* Removing the record of the key from both lists keeps them in agreement.
LEMMA AgreeOthers ==
  ASSUME NEW S, NEW T, NEW r \in Seq(S), NEW c \in Seq(T), Keyed(r), Keyed(c), NEW key,
         NEW t, t = OthersThan(r, key), NEW u, u = OthersThan(c, key),
         NEW m, Agree(r, c, m)
  PROVE  AgreeWithout(r, c, t, u, m)
<1>1. CASE \A i \in 0..(m - 1) : FromEnd(c, i).key # key
  <2>1. m \in Nat /\ m <= Len(r) /\ m <= Len(c) /\ \A i \in 0..(m - 1) : FromEnd(r, i).key # key
    BY <1>1 DEF Agree
  <2>2. m <= Len(t) /\ \A i \in 0..(m - 1) : FromEnd(t, i) = FromEnd(r, i)
    BY <2>1, OthersFromEnd
  <2>3. m <= Len(u) /\ \A i \in 0..(m - 1) : FromEnd(u, i) = FromEnd(c, i)
    BY <1>1, <2>1, OthersFromEnd
  <2>4. Agree(t, u, m)
    BY <2>1, <2>2, <2>3 DEF Agree
  <2>. QED
    BY <2>4 DEF AgreeWithout
<1>2. ASSUME NEW d \in 0..(m - 1), FromEnd(c, d).key = key
      PROVE  m >= 1 /\ Agree(t, u, m - 1) /\ Len(u) = Len(c) - 1 /\ Len(t) = Len(r) - 1
  <2>1. /\ m \in Nat /\ m >= 1 /\ m <= Len(r) /\ m <= Len(c) /\ Len(r) \in Nat /\ Len(c) \in Nat
        /\ FromEnd(r, d).key = key
    BY <1>2 DEF Agree
  <2>2. /\ d \in 0..(Len(r) - 1) /\ Len(r) - d \in DOMAIN r
        /\ d \in 0..(Len(c) - 1) /\ Len(c) - d \in DOMAIN c
    BY <2>1
  <2>3. t \in Seq(S) /\ u \in Seq(T) /\ Removed(r, Len(r) - d, t) /\ Removed(c, Len(c) - d, u)
    BY <1>2, <2>1, <2>2, OthersThanIs DEF FromEnd
  <2>4. \A i \in 0..(Len(r) - 2) : FromEnd(t, i) = FromEnd(r, IF i < d THEN i ELSE i + 1)
    BY <2>2, <2>3, RemovedFromEnd
  <2>5. \A i \in 0..(Len(c) - 2) : FromEnd(u, i) = FromEnd(c, IF i < d THEN i ELSE i + 1)
    BY <2>2, <2>3, RemovedFromEnd
  <2>6. Len(t) = Len(r) - 1 /\ Len(u) = Len(c) - 1
    BY <2>3 DEF Removed
  <2>7. ASSUME NEW i \in 0..(m - 2)
        PROVE  /\ FromEnd(t, i).key = FromEnd(u, i).key
               /\ FromEnd(t, i).time = FromEnd(u, i).time
    <3>1. PICK k : k = IF i < d THEN i ELSE i + 1
      OBVIOUS
    <3>2. k \in 0..(m - 1) /\ i \in 0..(Len(r) - 2) /\ i \in 0..(Len(c) - 2)
      BY <2>1, <3>1
    <3>3. FromEnd(t, i) = FromEnd(r, k) /\ FromEnd(u, i) = FromEnd(c, k)
      BY <2>4, <2>5, <3>1, <3>2
    <3>. QED
      BY <3>2, <3>3 DEF Agree
  <2>8. m - 1 \in Nat /\ m - 1 <= Len(t) /\ m - 1 <= Len(u) /\ (m - 1) - 1 = m - 2
    BY <2>1, <2>6
  <2>9. Agree(t, u, m - 1)
    BY <2>7, <2>8 DEF Agree
  <2>. QED
    BY <2>1, <2>6, <2>9
<1>. QED
  BY <1>1, <1>2 DEF AgreeWithout

\* Both lists get the same record at the end.
LEMMA AgreeAppend ==
  ASSUME NEW S, NEW T, NEW t \in Seq(S), NEW u \in Seq(T), NEW m, Agree(t, u, m),
         NEW x \in S, NEW y \in T, x.key = y.key, x.time = y.time
  PROVE  Agree(Append(t, x), Append(u, y), m + 1)
<1>1. PICK v, w : v = Append(t, x) /\ w = Append(u, y)
  OBVIOUS
<1>2. Len(v) = Len(t) + 1 /\ (\A i \in 1..Len(t) : v[i] = t[i]) /\ v[Len(t) + 1] = x /\ Len(t) \in Nat
  BY <1>1, AppendProperties
<1>3. Len(w) = Len(u) + 1 /\ (\A i \in 1..Len(u) : w[i] = u[i]) /\ w[Len(u) + 1] = y /\ Len(u) \in Nat
  BY <1>1, AppendProperties
<1>4. m \in Nat /\ m <= Len(t) /\ m <= Len(u) /\ m + 1 <= Len(v) /\ m + 1 <= Len(w) /\ (m + 1) - 1 = m
  BY <1>2, <1>3 DEF Agree
<1>5. ASSUME NEW i \in 0..m
      PROVE  /\ FromEnd(v, i).key = FromEnd(w, i).key
             /\ FromEnd(v, i).time = FromEnd(w, i).time
  <2>1. CASE i = 0
    <3>1. FromEnd(v, i) = x /\ FromEnd(w, i) = y
      BY <2>1, <1>2, <1>3 DEF FromEnd
    <3>. QED
      BY <3>1
  <2>2. CASE i # 0
    <3>1. PICK k \in Nat : k = i - 1
      BY <2>2, <1>4
    <3>2. /\ k \in 0..(m - 1)
          /\ Len(v) - i = Len(t) - k /\ Len(t) - k \in 1..Len(t)
          /\ Len(w) - i = Len(u) - k /\ Len(u) - k \in 1..Len(u)
      BY <3>1, <2>2, <1>2, <1>3, <1>4
    <3>3. FromEnd(v, i) = FromEnd(t, k) /\ FromEnd(w, i) = FromEnd(u, k)
      BY <3>2, <1>2, <1>3 DEF FromEnd
    <3>. QED
      BY <3>2, <3>3 DEF Agree
  <2>. QED
    BY <2>1, <2>2
<1>6. Agree(v, w, m + 1)
  BY <1>4, <1>5 DEF Agree
<1>. QED
  BY <1>1, <1>6

\* Lists that agree on some records agree on fewer.
LEMMA AgreeFewer ==
  ASSUME NEW r, NEW c, NEW m, Agree(r, c, m), NEW k \in Nat, k <= m
  PROVE  Agree(r, c, k)
  BY DEF Agree, FromEnd

\* A suffix, seen from the end.
LEMMA AgreeSuffixes ==
  ASSUME NEW S, NEW T, NEW r \in Seq(S), NEW c \in Seq(T), NEW m, Agree(r, c, m),
         NEW v, v \in Seq(S), NEW w, w \in Seq(T), m <= Len(v), m <= Len(w),
         \A i \in 0..(m - 1) : FromEnd(v, i) = FromEnd(r, i) /\ FromEnd(w, i) = FromEnd(c, i)
  PROVE  Agree(v, w, m)
  BY DEF Agree

\* Seen from the end, the tail is the list itself.
LEMMA TailFromEnd ==
  ASSUME NEW S, NEW t \in Seq(S), t # <<>>
  PROVE  /\ Tail(t) \in Seq(S) /\ Len(Tail(t)) = Len(t) - 1 /\ Len(t) \in Nat
         /\ \A i \in 0..(Len(t) - 2) : FromEnd(Tail(t), i) = FromEnd(t, i)
<1>1. PICK u : u = Tail(t)
  OBVIOUS
<1>2. /\ u \in Seq(S) /\ Len(u) = Len(t) - 1 /\ Len(t) \in Nat
      /\ \A i \in 1..Len(u) : u[i] = t[i + 1]
  BY <1>1, HeadTailProperties
<1>3. ASSUME NEW i \in 0..(Len(t) - 2) PROVE FromEnd(u, i) = FromEnd(t, i)
  <2>1. PICK k : k = Len(u) - i
    OBVIOUS
  <2>2. k \in 1..Len(u) /\ k + 1 = Len(t) - i
    BY <1>2, <2>1
  <2>3. u[k] = t[k + 1]
    BY <1>2, <2>2
  <2>. QED
    BY <2>1, <2>2, <2>3 DEF FromEnd
<1>. QED
  BY <1>1, <1>2, <1>3

\* As many records as the two policies have to agree on.
Common(c) == IF Len(c) < MaxRecords THEN Len(c) ELSE MaxRecords

\* Two lists of records that agree.
BothKeyed(S, T, r, c) ==
  /\ r \in Seq(S) /\ Len(r) <= MaxRecords /\ Keyed(r)
  /\ c \in Seq(T) /\ Keyed(c) /\ Agree(r, c, Common(c))

\* The records of the key are refreshed in both lists, and the outer list is cut.
LEMMA AgreeRefreshed ==
  ASSUME NEW S, NEW T, NEW r, NEW c, BothKeyed(S, T, r, c),
         NEW x \in S, NEW y \in T, x.key = y.key, x.time = y.time,
         NEW v, v = Append(OthersThan(r, x.key), x),
         NEW w, w = Append(OthersThan(c, y.key), y),
         NEW z, z = IF Len(v) > MaxRecords THEN Tail(v) ELSE v
  PROVE  BothKeyed(S, T, z, w)
<1>0. /\ r \in Seq(S) /\ c \in Seq(T) /\ Keyed(r) /\ Keyed(c)
      /\ Len(r) <= MaxRecords /\ Agree(r, c, Common(c))
  BY DEF BothKeyed
<1>1. PICK t, u, m : t = OthersThan(r, x.key) /\ u = OthersThan(c, x.key) /\ m = Common(c)
  OBVIOUS
<1>2. t \in Seq(S) /\ Keyed(t) /\ ~HasKey(t, x.key) /\ u \in Seq(T) /\ Keyed(u) /\ ~HasKey(u, y.key)
  BY <1>0, <1>1, OthersThanIs, OthersThanKeyed
<1>3. /\ v = Append(t, x) /\ v \in Seq(S) /\ Len(v) = Len(t) + 1 /\ v # <<>>
      /\ w = Append(u, y) /\ w \in Seq(T) /\ Len(w) = Len(u) + 1
      /\ Keyed(v) /\ Keyed(w)
  BY <1>1, <1>2, AppendKeyed, AppendProperties
<1>4. MaxRecords \in Nat /\ MaxRecords >= 1 /\ Len(t) \in Nat /\ Len(u) \in Nat
      /\ Len(r) \in Nat /\ Len(c) \in Nat /\ m \in Nat /\ m <= Len(c) /\ m <= MaxRecords
  BY <1>0, <1>1, <1>2, ValidatorAssumption DEF Common
<1>5. Len(t) <= Len(r) /\ Len(u) <= Len(c)
  <2>1. \A a \in DOMAIN r : r[a].key = x.key => Len(t) = Len(r) - 1
    BY <1>0, <1>1, OthersThanIs DEF Removed
  <2>2. ~HasKey(r, x.key) => t = r
    BY <1>0, <1>1, OthersThanIs
  <2>3. \A a \in DOMAIN c : c[a].key = x.key => Len(u) = Len(c) - 1
    BY <1>0, <1>1, OthersThanIs DEF Removed
  <2>4. ~HasKey(c, x.key) => u = c
    BY <1>0, <1>1, OthersThanIs
  <2>. QED
    BY <2>1, <2>2, <2>3, <2>4, <1>4 DEF HasKey
<1>6. \/ Agree(t, u, m)
      \/ /\ m >= 1 /\ Agree(t, u, m - 1)
         /\ Len(u) = Len(c) - 1 /\ Len(t) = Len(r) - 1
  <2>1. PICK key : key = x.key
    OBVIOUS
  <2>2. t = OthersThan(r, key) /\ u = OthersThan(c, key) /\ Agree(r, c, m)
    BY <1>0, <1>1, <2>1
  <2>3. AgreeWithout(r, c, t, u, m)
    BY <1>0, <2>2, AgreeOthers
  <2>. QED
    BY <2>3 DEF AgreeWithout
<1>7. /\ z \in Seq(S) /\ Len(z) <= MaxRecords /\ Keyed(z)
      /\ Len(v) > MaxRecords => /\ Len(z) = MaxRecords /\ Len(v) = MaxRecords + 1
                                /\ \A i \in 0..(Len(v) - 2) : FromEnd(z, i) = FromEnd(v, i)
      /\ ~(Len(v) > MaxRecords) => z = v
  <2>1. CASE Len(v) > MaxRecords
    <3>1. z = Tail(v) /\ Len(v) = MaxRecords + 1
      BY <1>0, <2>1, <1>3, <1>4, <1>5
    <3>2. /\ z \in Seq(S) /\ Len(z) = Len(v) - 1
          /\ \A i \in 0..(Len(v) - 2) : FromEnd(z, i) = FromEnd(v, i)
      BY <3>1, <1>3, TailFromEnd
    <3>3. Keyed(z)
      BY <3>1, <1>3, TailKeyed
    <3>4. Len(z) = MaxRecords /\ Len(z) <= MaxRecords
      BY <3>1, <3>2, <1>4
    <3>. QED
      BY <2>1, <3>1, <3>2, <3>3, <3>4
  <2>2. CASE ~(Len(v) > MaxRecords)
    BY <2>2, <1>3, <1>4
  <2>. QED
    BY <2>1, <2>2
<1>8. CASE m >= 1 /\ Agree(t, u, m - 1) /\ Len(u) = Len(c) - 1 /\ Len(t) = Len(r) - 1
  <2>1. Agree(Append(t, x), Append(u, y), (m - 1) + 1)
    BY <1>2, <1>8, AgreeAppend
  <2>2. (m - 1) + 1 = m /\ Len(v) = Len(r) /\ Len(w) = Len(c)
    BY <1>3, <1>4, <1>8
  <2>3. z = v /\ Common(w) = m
    BY <1>0, <1>1, <1>4, <1>7, <2>2 DEF Common
  <2>4. Agree(v, w, m)
    BY <2>1, <2>2, <1>3
  <2>. QED
    BY <1>3, <1>7, <2>3, <2>4 DEF BothKeyed
<1>9. CASE Agree(t, u, m)
  <2>1. Agree(v, w, m + 1)
    BY <1>2, <1>3, <1>9, AgreeAppend
  <2>2. PICK k : k = Common(w)
    OBVIOUS
  <2>3. k \in Nat /\ k <= m + 1 /\ k <= MaxRecords /\ k <= Len(w)
    BY <1>1, <1>3, <1>4, <1>5, <2>2 DEF Common
  <2>4. Agree(v, w, k)
    BY <2>1, <2>3, AgreeFewer
  <2>5. Agree(z, w, k)
    <3>1. CASE ~(Len(v) > MaxRecords)
      BY <3>1, <2>4, <1>7
    <3>2. CASE Len(v) > MaxRecords
      <4>1. k <= Len(z) /\ \A i \in 0..(k - 1) : i \in 0..(Len(v) - 2)
        BY <3>2, <1>4, <1>7, <2>3
      <4>2. \A i \in 0..(k - 1) : FromEnd(z, i) = FromEnd(v, i)
        BY <3>2, <1>7, <4>1
      <4>. QED
        BY <4>1, <4>2, <2>4 DEF Agree
    <3>. QED
      BY <3>1, <3>2
  <2>. QED
    BY <1>3, <1>7, <2>2, <2>5 DEF BothKeyed
<1>. QED
  BY <1>6, <1>8, <1>9

----------------------------------------------------------------------------
(* The inner policy's queue after cleanup *)

Record == [key : Producers, time : Int, nonces : Seq(Nonce)]
CommandRecord == [key : Producers, time : Int, refreshed : 0..MaxTime]

\* What is left is the end of the queue, and no more than the outer policy keeps.
LEMMA CleanedIs ==
  ASSUME commands \in Seq(CommandRecord), NEW c, c = Cleaned
  PROVE  /\ c \in Seq(CommandRecord) /\ Len(c) <= Common(commands)
         /\ \A i \in 0..(Len(c) - 1) : FromEnd(c, i) = FromEnd(commands, i)
         /\ \A i \in DOMAIN c : i + (Len(commands) - Len(c)) \in DOMAIN commands
                                /\ c[i] = commands[i + (Len(commands) - Len(c))]
<1>. DEFINE kept == {i \in DOMAIN commands : /\ commands[i].refreshed > clock - RecordLifetime
                                             /\ i > Len(commands) - MaxRecords}
<1>1. PICK n, k, m : n = Len(commands) /\ k = Cardinality(kept) /\ m = Common(commands)
  OBVIOUS
<1>2. n \in Nat /\ MaxRecords \in Nat /\ m \in Nat /\ m <= n /\ m <= MaxRecords
      /\ (m = n \/ m = MaxRecords)
  BY <1>1, ValidatorAssumption DEF Common
<1>3. kept \subseteq (n - m + 1)..n
  BY <1>1, <1>2
<1>4. IsFiniteSet((n - m + 1)..n) /\ Cardinality((n - m + 1)..n) = m
  <2>1. n - m + 1 \in Int /\ n \in Int
    BY <1>2
  <2>2. /\ IsFiniteSet((n - m + 1)..n)
        /\ Cardinality((n - m + 1)..n) = IF n - m + 1 > n THEN 0 ELSE n - (n - m + 1) + 1
    BY <2>1, FS_Interval
  <2>. QED
    BY <1>2, <2>2
<1>5. k \in Nat /\ k <= m
  <2>1. IsFiniteSet(kept) /\ Cardinality(kept) <= m
    <3>. HIDE DEF kept
    <3>. QED
      BY <1>3, <1>4, FS_Subset
  <2>. QED
    BY <1>1, <2>1, FS_CardinalityType
<1>6. c = SubSeq(commands, n - k + 1, n)
  BY <1>1 DEF Cleaned
<1>7. n - k + 1 \in Int /\ n \in Int /\ \A i \in (n - k + 1)..n : commands[i] \in CommandRecord
  <2>1. \A i \in 1..n : commands[i] \in CommandRecord
    BY <1>1
  <2>2. \A i \in (n - k + 1)..n : i \in 1..n
    BY <1>2, <1>5
  <2>. QED
    BY <1>2, <1>5, <2>1, <2>2
<1>8. /\ c \in Seq(CommandRecord)
      /\ Len(c) = IF n - k + 1 <= n THEN n - (n - k + 1) + 1 ELSE 0
      /\ \A i \in 1..(n - (n - k + 1) + 1) : c[i] = commands[(n - k + 1) + i - 1]
  BY <1>6, <1>7, SubSeqProperties
<1>9. Len(c) = k
  BY <1>2, <1>5, <1>8
<1>10. ASSUME NEW i \in 1..k PROVE i + (n - k) \in DOMAIN commands /\ c[i] = commands[i + (n - k)]
  <2>1. i \in 1..(n - (n - k + 1) + 1) /\ (n - k + 1) + i - 1 = i + (n - k) /\ i + (n - k) \in 1..n
    BY <1>2, <1>5
  <2>2. c[i] = commands[(n - k + 1) + i - 1]
    BY <1>8, <2>1
  <2>. QED
    BY <1>1, <2>1, <2>2
<1>11. ASSUME NEW i \in 0..(k - 1) PROVE FromEnd(c, i) = FromEnd(commands, i)
  <2>1. PICK j : j = k - i
    OBVIOUS
  <2>2. j \in 1..k /\ j = Len(c) - i /\ j + (n - k) = n - i
    BY <1>2, <1>5, <1>9, <2>1
  <2>3. c[j] = commands[j + (n - k)]
    BY <1>10, <2>2
  <2>. QED
    BY <1>1, <2>2, <2>3 DEF FromEnd
<1>12. DOMAIN c = 1..k
  BY <1>8, <1>9
<1>. QED
  BY <1>1, <1>5, <1>8, <1>9, <1>10, <1>11, <1>12

\* cleanup leaves the agreement.
LEMMA CleanedKeeps ==
  ASSUME commands \in Seq(CommandRecord), Keyed(commands), NEW c, c = Cleaned,
         records \in Seq(Record), Agree(records, commands, Common(commands))
  PROVE  c \in Seq(CommandRecord) /\ Keyed(c) /\ Agree(records, c, Common(c))
<1>1. /\ c \in Seq(CommandRecord) /\ Len(c) <= Common(commands)
      /\ \A i \in 0..(Len(c) - 1) : FromEnd(c, i) = FromEnd(commands, i)
      /\ \A i \in DOMAIN c : i + (Len(commands) - Len(c)) \in DOMAIN commands
                             /\ c[i] = commands[i + (Len(commands) - Len(c))]
  BY CleanedIs
<1>2. Len(c) \in Nat /\ Len(commands) \in Nat /\ DOMAIN c = 1..Len(c) /\ MaxRecords \in Nat
      /\ Common(commands) <= MaxRecords
  <2>1. Len(c) \in Nat /\ DOMAIN c = 1..Len(c) /\ Len(commands) \in Nat /\ MaxRecords \in Nat
    BY <1>1, ValidatorAssumption
  <2>. QED
    BY <2>1 DEF Common
<1>3. Keyed(c)
  <2>. SUFFICES ASSUME NEW i \in DOMAIN c, NEW j \in DOMAIN c, c[i].key = c[j].key PROVE i = j
    BY DEF Keyed
  <2>1. PICK d \in Int : d = Len(commands) - Len(c)
    BY <1>2
  <2>2. i + d = j + d
    BY <1>1, <2>1 DEF Keyed
  <2>. QED
    BY <1>2, <2>2
<1>4. Common(c) = Len(c)
  <2>1. PICK m : m = Common(commands)
    OBVIOUS
  <2>2. m \in Nat
    BY <1>2, <2>1 DEF Common
  <2>3. Len(c) <= m /\ m <= MaxRecords
    BY <1>1, <1>2, <2>1
  <2>4. Len(c) <= MaxRecords
    BY <1>2, <2>2, <2>3
  <2>. QED
    <3>1. Len(c) \in Nat /\ MaxRecords \in Nat
      BY <1>2
    <3>2. ~(Len(c) < MaxRecords) => Len(c) = MaxRecords
      BY <3>1, <2>4
    <3>. QED
      BY <3>2 DEF Common
<1>5. Agree(records, commands, Len(c))
  BY <1>1, <1>2, AgreeFewer
<1>6. Agree(records, c, Len(c))
  BY <1>1, <1>2, <1>5 DEF Agree
<1>. QED
  BY <1>1, <1>3, <1>4, <1>6

\* What the outer policy lets through, the inner one does.
LEMMA AgreeingChecks ==
  ASSUME commands \in Seq(CommandRecord), records \in Seq(Record),
         Agree(records, commands, Common(commands)),
         NEW n, CheckIncomingInterest(n)
  PROVE  CheckTimestamp(n)
<1>1. PICK c : c = Cleaned
  OBVIOUS
<1>2. /\ c \in Seq(CommandRecord) /\ Len(c) <= Common(commands)
      /\ \A i \in 0..(Len(c) - 1) : FromEnd(c, i) = FromEnd(commands, i)
  BY <1>1, CleanedIs
<1>3. WithinGrace(sent[n]) /\ \A rec \in RecordsOf(records, sent[n].from) : sent[n].time > rec.time
  BY DEF CheckIncomingInterest, Newer
<1>4. ASSUME NEW rec \in RecordsOf(c, sent[n].from) PROVE sent[n].time > rec.time
  <2>1. PICK j \in DOMAIN c : rec = c[j]
    BY DEF RecordsOf, Elements
  <2>2. PICK i : i = Len(c) - j
    OBVIOUS
  <2>3. i \in 0..(Len(c) - 1) /\ j = Len(c) - i /\ Len(c) \in Nat
    BY <1>2, <2>1, <2>2
  <2>4. rec = FromEnd(commands, i)
    BY <1>2, <2>1, <2>3 DEF FromEnd
  <2>5. i \in 0..(Common(commands) - 1) /\ Common(commands) <= Len(records)
    BY <1>2, <2>3 DEF Agree
  <2>6. FromEnd(records, i).key = rec.key /\ FromEnd(records, i).time = rec.time
    BY <2>4, <2>5 DEF Agree
  <2>7. FromEnd(records, i) \in Elements(records)
    <3>1. Len(records) - i \in DOMAIN records
      BY <2>5 DEF Agree
    <3>. QED
      BY <3>1 DEF FromEnd, Elements
  <2>8. FromEnd(records, i) \in RecordsOf(records, sent[n].from)
    BY <2>6, <2>7 DEF RecordsOf
  <2>9. sent[n].time > FromEnd(records, i).time
    BY <2>8, <1>3
  <2>. QED
    BY <2>6, <2>9
<1>. QED
  BY <1>1, <1>3, <1>4 DEF CheckTimestamp, Newer

----------------------------------------------------------------------------
(* The invariant, but for the history *)

Ack == [nonce : Nonce, began : Nat, announced : Seq(Component), expiration : Nat]
Validation == [nonce : Nonce, left : 0..Retries, began : Nat]

\* What the producers have sent.
SentInv ==
  /\ sent \in Seq(Request) /\ Len(sent) <= MaxRequests
  /\ \A n \in DOMAIN sent : /\ sent[n].name = FullName(sent[n].from)
                            /\ sent[n].expiration = Lifetime[sent[n].from]

\* A list of nonces, each of them once.
NonceList(l) ==
  /\ l \in Seq(Nonce) /\ Len(l) \in 1..MaxNonces
  /\ \A i, j \in DOMAIN l : l[i] = l[j] => i = j

\* m_container of the outer policy.
IsContainer(R) ==
  /\ R \in Seq(Record) /\ Len(R) <= MaxRecords /\ Keyed(R)
  /\ \A i \in DOMAIN R : NonceList(R[i].nonces)

\* The inner policy's queue q ends as the outer policy's container does.
IsQueue(q, R) == q \in Seq(CommandRecord) /\ Keyed(q) /\ Agree(R, q, Common(q))

IsValidation(v, S, k) == v \in Validation /\ v.nonce \in DOMAIN S /\ v.began \in 0..k

\* The Ack at i is for a Request that was sent, and answers it.
IsAck(a, S, i) ==
  /\ a \in Ack /\ a.nonce \in DOMAIN S /\ a.began < i
  /\ a.announced = ProducerSuffix[S[a.nonce].from]
  /\ Lifetime[S[a.nonce].from] # NoExpiration => a.expiration = Lifetime[S[a.nonce].from]

IsLog(L, S) ==
  /\ L \in Seq(Ack) /\ Len(L) <= MaxAcks
  /\ \A i \in DOMAIN L : IsAck(L[i], S, i)

AreValidations(V, S, k) ==
  DOMAIN V \subseteq Slots /\ \A s \in DOMAIN V : IsValidation(V[s], S, k)

TableInv ==
  /\ clock \in 0..MaxTime /\ verified \subseteq Producers /\ unverified \subseteq Producers
  /\ SentInv
  /\ IsContainer(records) /\ IsQueue(commands, records)
  /\ IsLog(log, sent)
  /\ AreValidations(validating, sent, Len(log))

\* A nonce observed with a list: it is there already, or goes to the end.
Extended(l, n, o) ==
  /\ n \in Elements(l) => o = l
  /\ n \notin Elements(l) => o = IF Len(l) + 1 > MaxNonces THEN Tail(Append(l, n)) ELSE Append(l, n)

\* The list of the key that Observed returns.
ObservedWith(R, key, n, o) ==
  /\ NonceList(o)
  /\ ~HasKey(R, key) => o = <<n>>
  /\ \A a \in DOMAIN R : R[a].key = key => Extended(R[a].nonces, n, o)

\* The list stays within its limit and without repetition.
LEMMA ExtendedList ==
  ASSUME NEW l, NonceList(l), NEW n \in Nonce, NEW o, Extended(l, n, o)
  PROVE  NonceList(o)
<1>1. CASE n \in Elements(l)
  BY <1>1 DEF Extended
<1>2. CASE n \notin Elements(l)
  <2>1. PICK w : w = Append(l, n)
    OBVIOUS
  <2>2. l \in Seq(Nonce) /\ Len(l) \in 1..MaxNonces /\ MaxNonces \in Nat
    BY ValidatorAssumption DEF NonceList
  <2>3. /\ w \in Seq(Nonce) /\ Len(w) = Len(l) + 1 /\ Len(l) \in Nat
        /\ (\A i \in 1..Len(l) : w[i] = l[i]) /\ w[Len(l) + 1] = n
    BY <2>1, <2>2, AppendProperties
  <2>4. \A i \in 1..Len(l) : l[i] # n
    BY <1>2, <2>2 DEF Elements
  <2>5. \A i, j \in DOMAIN l : l[i] = l[j] => i = j
    BY DEF NonceList
  <2>6. ASSUME NEW i \in DOMAIN w, NEW j \in DOMAIN w, w[i] = w[j] PROVE i = j
    <3>1. \A k \in DOMAIN w : k = Len(l) + 1 \/ (k \in DOMAIN l /\ w[k] = l[k] /\ l[k] # n)
      BY <2>2, <2>3, <2>4
    <3>. QED
      BY <3>1, <2>3, <2>5, <2>6
  <2>7. CASE Len(l) + 1 > MaxNonces
    <3>1. o = Tail(w) /\ w # <<>> /\ Len(l) = MaxNonces
      <4>1. Len(w) # 0 /\ Len(l) = MaxNonces
        BY <2>2, <2>3, <2>7
      <4>. QED
        BY <1>2, <2>1, <2>3, <2>7, <4>1 DEF Extended
    <3>2. /\ o \in Seq(Nonce) /\ Len(o) = Len(w) - 1
          /\ \A i \in 1..Len(o) : o[i] = w[i + 1]
      BY <3>1, <2>3, HeadTailProperties
    <3>3. Len(o) \in 1..MaxNonces
      BY <2>2, <2>3, <3>1, <3>2
    <3>4. \A i \in DOMAIN o : i \in Int /\ i + 1 \in DOMAIN w /\ o[i] = w[i + 1]
      BY <2>3, <3>2
    <3>5. ASSUME NEW i \in DOMAIN o, NEW j \in DOMAIN o, o[i] = o[j] PROVE i = j
      <4>1. i + 1 = j + 1
        BY <3>4, <3>5, <2>6
      <4>. QED
        BY <3>4, <4>1
    <3>. QED
      BY <3>2, <3>3, <3>5 DEF NonceList
  <2>8. CASE ~(Len(l) + 1 > MaxNonces)
    <3>1. o = w
      BY <1>2, <2>1, <2>8 DEF Extended
    <3>2. Len(w) \in 1..MaxNonces
      BY <2>2, <2>3, <2>8
    <3>. QED
      BY <3>1, <3>2, <2>3, <2>6 DEF NonceList
  <2>. QED
    BY <2>7, <2>8
<1>. QED
  BY <1>1, <1>2

\* Observed extends the list of the key, or begins one.
LEMMA ObservedIs ==
  ASSUME IsContainer(records), NEW n \in Nonce, NEW key, key = sent[n].from
  PROVE  ObservedWith(records, key, n, Observed(n))
<1>. DEFINE old == UNION {{rec.nonces} : rec \in RecordsOf(records, sent[n].from)}
            list == IF old = {} THEN <<>> ELSE CHOOSE l \in old : TRUE
            new == IF n \in Elements(list) THEN list ELSE Append(list, n)
<1>0. Observed(n) = IF Len(new) > MaxNonces THEN Tail(new) ELSE new
  BY DEF Observed
<1>1. CASE HasKey(records, key)
  <2>1. PICK a \in DOMAIN records : records[a].key = key
    BY <1>1 DEF HasKey
  <2>2. \A b \in DOMAIN records : records[b].key = key => b = a
    BY <2>1 DEF IsContainer, Keyed
  <2>3. RecordsOf(records, sent[n].from) = {records[a]}
    BY <2>1, <2>2 DEF RecordsOf, Elements
  <2>4. old = {records[a].nonces}
    BY <2>3
  <2>5. list = records[a].nonces
    BY <2>4
  <2>. HIDE DEF list, old
  <2>6. NonceList(list)
    BY <2>1, <2>5 DEF IsContainer
  <2>7. list \in Seq(Nonce) /\ Len(list) \in 1..MaxNonces /\ MaxNonces \in Nat
    BY <2>6, ValidatorAssumption DEF NonceList
  <2>8. Extended(list, n, Observed(n))
    <3>1. CASE n \in Elements(list)
      <4>1. new = list /\ ~(Len(new) > MaxNonces)
        BY <3>1, <2>7
      <4>. QED
        BY <3>1, <4>1, <1>0 DEF Extended
    <3>2. CASE n \notin Elements(list)
      <4>1. new = Append(list, n) /\ Len(new) = Len(list) + 1
        BY <3>2, <2>7, AppendProperties
      <4>. QED
        BY <3>2, <4>1, <1>0 DEF Extended
    <3>. QED
      BY <3>1, <3>2
  <2>9. NonceList(Observed(n))
    BY <2>6, <2>8, ExtendedList
  <2>. QED
    BY <1>1, <2>2, <2>5, <2>8, <2>9 DEF ObservedWith
<1>2. CASE ~HasKey(records, key)
  <2>1. RecordsOf(records, sent[n].from) = {}
    BY <1>2 DEF RecordsOf, Elements, HasKey
  <2>2. old = {}
    BY <2>1
  <2>3. list = <<>>
    BY <2>2
  <2>4. new = <<n>>
    <3>1. n \notin Elements(<<>>) /\ Append(<<>>, n) = <<n>>
      BY DEF Elements
    <3>. QED
      BY <2>3, <3>1
  <2>. HIDE DEF new
  <2>5. Len(<<n>>) = 1 /\ MaxNonces \in Nat /\ MaxNonces >= 1 /\ <<n>> \in Seq(Nonce)
    BY ValidatorAssumption
  <2>6. Observed(n) = <<n>>
    BY <1>0, <2>4, <2>5
  <2>7. NonceList(<<n>>)
    BY <2>5 DEF NonceList
  <2>. QED
    BY <1>2, <2>6, <2>7 DEF ObservedWith, HasKey
<1>. QED
  BY <1>1, <1>2

----------------------------------------------------------------------------
(* insertRecord *)

\* The record at q is in R1 too, and behind it only what was behind it and x.
Kept(R, R1, q) ==
  \E r \in 1..(Len(R1) - 1) :
    /\ R1[r] = R[q]
    /\ \A p \in (r + 1)..(Len(R1) - 1) : \E j \in (q + 1)..Len(R) : R1[p] = R[j]

\* The record at q made room: R1 is full without it.
Dropped(R, R1, q) ==
  /\ Len(R1) = MaxRecords
  /\ \A p \in 1..(Len(R1) - 1) : \E j \in (q + 1)..Len(R) : R1[p] = R[j]

\* R1 is R with the record x of its key at the end.
Moves(R, R1, x) ==
  /\ Len(R1) \in Nat /\ Len(R1) >= 1 /\ R1[Len(R1)] = x
  /\ \A p \in 1..(Len(R1) - 1) : \E j \in DOMAIN R : R1[p] = R[j] /\ R[j].key # x.key
  /\ \A q \in DOMAIN R : R[q].key # x.key => Kept(R, R1, q) \/ Dropped(R, R1, q)

\* A record of the key is replaced: the others keep their order.
LEMMA MovesReplaced ==
  ASSUME NEW S, NEW R \in Seq(S), NEW x \in S, NEW a \in DOMAIN R, R[a].key = x.key, Keyed(R),
         NEW t \in Seq(S), Removed(R, a, t), NEW z, z = Append(t, x)
  PROVE  Moves(R, z, x)
<1>1. /\ Len(R) \in Nat /\ Len(R) >= 1 /\ a \in 1..Len(R) /\ Len(t) = Len(R) - 1
      /\ \A i \in DOMAIN t : \E j \in DOMAIN R : /\ t[i] = R[j] /\ j # a
                                                /\ j = IF i < a THEN i ELSE i + 1
      /\ \A j \in DOMAIN R : j < a => j \in DOMAIN t /\ t[j] = R[j]
      /\ \A j \in DOMAIN R : j > a => j - 1 \in DOMAIN t /\ t[j - 1] = R[j]
  BY RemovedFrom
<1>2. /\ z \in Seq(S) /\ Len(z) = Len(t) + 1
      /\ (\A i \in 1..Len(t) : z[i] = t[i]) /\ z[Len(t) + 1] = x
  BY AppendProperties
<1>3. Len(z) = Len(R) /\ Len(z) - 1 = Len(t) /\ DOMAIN t = 1..Len(t) /\ DOMAIN R = 1..Len(R)
      /\ Len(t) \in Nat
  BY <1>1, <1>2
<1>4. Len(z) \in Nat /\ Len(z) >= 1 /\ z[Len(z)] = x
  BY <1>1, <1>2, <1>3
<1>5. ASSUME NEW p \in 1..(Len(z) - 1)
      PROVE  \E j \in DOMAIN R : z[p] = R[j] /\ R[j].key # x.key
  <2>1. p \in DOMAIN t /\ z[p] = t[p]
    BY <1>2, <1>3
  <2>2. PICK j \in DOMAIN R : t[p] = R[j] /\ j # a
    BY <1>1, <2>1
  <2>. QED
    BY <2>1, <2>2 DEF Keyed
<1>6. ASSUME NEW q \in DOMAIN R, R[q].key # x.key PROVE Kept(R, z, q)
  <2>1. PICK r : r = IF q < a THEN q ELSE q - 1
    OBVIOUS
  <2>2. q \in 1..Len(R) /\ q # a
    BY <1>3, <1>6
  <2>3. r \in 1..Len(t) /\ t[r] = R[q]
    BY <1>1, <1>3, <2>1, <2>2
  <2>4. r \in 1..(Len(z) - 1) /\ z[r] = R[q]
    BY <1>2, <1>3, <2>3
  <2>5. ASSUME NEW p \in (r + 1)..(Len(z) - 1) PROVE \E j \in (q + 1)..Len(R) : z[p] = R[j]
    <3>1. p \in 1..Len(t) /\ p > r
      BY <1>3, <2>3
    <3>2. PICK j \in DOMAIN R : t[p] = R[j] /\ j = IF p < a THEN p ELSE p + 1
      BY <1>1, <1>3, <3>1
    <3>3. j \in (q + 1)..Len(R)
      BY <1>1, <1>3, <2>1, <2>2, <2>3, <3>1, <3>2
    <3>. QED
      BY <1>2, <3>1, <3>2, <3>3
  <2>. QED
    BY <2>4, <2>5 DEF Kept
<1>. QED
  BY <1>4, <1>5, <1>6 DEF Moves

\* A record of a new key; a full container loses its first record.
LEMMA MovesAdded ==
  ASSUME NEW S, NEW R \in Seq(S), NEW x \in S, ~HasKey(R, x.key), Len(R) <= MaxRecords,
         NEW v, v = Append(R, x),
         NEW z, z = IF Len(v) > MaxRecords THEN Tail(v) ELSE v
  PROVE  Moves(R, z, x)
<1>1. /\ v \in Seq(S) /\ Len(v) = Len(R) + 1 /\ Len(R) \in Nat
      /\ (\A i \in 1..Len(R) : v[i] = R[i]) /\ v[Len(R) + 1] = x
  BY AppendProperties
<1>2. MaxRecords \in Nat /\ MaxRecords >= 1 /\ DOMAIN R = 1..Len(R)
  BY ValidatorAssumption
<1>3. \A j \in DOMAIN R : R[j].key # x.key
  BY DEF HasKey
<1>4. CASE Len(v) > MaxRecords
  <2>1. z = Tail(v) /\ Len(R) = MaxRecords /\ v # <<>>
    <3>0. PICK k, j : k = Len(R) /\ j = Len(v)
      OBVIOUS
    <3>1. k \in Nat /\ j = k + 1 /\ j > MaxRecords /\ k <= MaxRecords
      BY <1>1, <1>4, <3>0
    <3>2. j # 0 /\ k = MaxRecords
      BY <1>2, <3>1
    <3>3. Len(<<>>) = 0
      OBVIOUS
    <3>. QED
      BY <1>4, <3>0, <3>2, <3>3
  <2>2. z \in Seq(S) /\ Len(z) = Len(v) - 1 /\ \A i \in 1..Len(z) : z[i] = v[i + 1]
    BY <1>1, <2>1, HeadTailProperties
  <2>3. Len(z) = MaxRecords /\ Len(z) = Len(R)
    BY <1>1, <2>1, <2>2
  <2>4. ASSUME NEW i \in 1..(Len(z) - 1) PROVE i + 1 \in 1..Len(R) /\ z[i] = R[i + 1]
    <3>1. i \in 1..Len(z) /\ i + 1 \in 1..Len(R)
      BY <1>1, <2>3
    <3>. QED
      BY <1>1, <2>2, <3>1
  <2>5. z[Len(z)] = x
    <3>1. PICK k : k = Len(z)
      OBVIOUS
    <3>2. k \in 1..k /\ k \in 1..Len(z) /\ k + 1 = Len(R) + 1
      <4>1. k = MaxRecords /\ k = Len(R)
        BY <2>3, <3>1
      <4>2. k \in 1..k
        BY <1>2, <4>1
      <4>. QED
        BY <3>1, <4>1, <4>2
    <3>3. z[k] = v[k + 1]
      BY <2>2, <3>2
    <3>. QED
      BY <1>1, <3>1, <3>2, <3>3
  <2>6. ASSUME NEW p \in 1..(Len(z) - 1)
        PROVE  \E j \in DOMAIN R : z[p] = R[j] /\ R[j].key # x.key
    BY <1>2, <1>3, <2>4
  <2>7. ASSUME NEW q \in DOMAIN R PROVE Kept(R, z, q) \/ Dropped(R, z, q)
    <3>1. q \in 1..Len(R)
      BY <1>2
    <3>2. CASE q = 1
      <4>1. ASSUME NEW p \in 1..(Len(z) - 1) PROVE \E j \in (q + 1)..Len(R) : z[p] = R[j]
        <5>1. p + 1 \in (q + 1)..Len(R)
          BY <1>1, <2>3, <3>2
        <5>. QED
          BY <2>4, <5>1
      <4>. QED
        BY <2>3, <4>1 DEF Dropped
    <3>3. CASE q # 1
      <4>1. PICK r : r = q - 1
        OBVIOUS
      <4>2. r \in 1..(Len(z) - 1) /\ r + 1 = q
        BY <1>1, <2>3, <3>1, <3>3, <4>1
      <4>3. z[r] = R[q]
        BY <2>4, <4>2
      <4>4. ASSUME NEW p \in (r + 1)..(Len(z) - 1) PROVE \E j \in (q + 1)..Len(R) : z[p] = R[j]
        <5>1. p \in 1..(Len(z) - 1) /\ p + 1 \in (q + 1)..Len(R)
          BY <1>1, <2>3, <4>2
        <5>. QED
          BY <2>4, <5>1
      <4>. QED
        BY <4>2, <4>3, <4>4 DEF Kept
    <3>. QED
      BY <3>2, <3>3
  <2>. QED
    BY <1>2, <2>3, <2>5, <2>6, <2>7 DEF Moves
<1>5. CASE ~(Len(v) > MaxRecords)
  <2>1. z = v /\ Len(z) - 1 = Len(R) /\ Len(z) \in Nat /\ Len(z) >= 1
    BY <1>1, <1>5
  <2>2. ASSUME NEW q \in DOMAIN R PROVE Kept(R, z, q)
    <3>1. q \in 1..Len(R) /\ z[q] = R[q]
      BY <1>1, <1>2, <2>1
    <3>2. ASSUME NEW p \in (q + 1)..(Len(z) - 1) PROVE \E j \in (q + 1)..Len(R) : z[p] = R[j]
      <4>1. p \in 1..Len(R) /\ p \in (q + 1)..Len(R)
        BY <1>1, <2>1, <3>1
      <4>. QED
        BY <1>1, <2>1, <4>1
    <3>. QED
      BY <2>1, <3>1, <3>2 DEF Kept
  <2>3. ASSUME NEW p \in 1..(Len(z) - 1)
        PROVE  \E j \in DOMAIN R : z[p] = R[j] /\ R[j].key # x.key
    BY <1>1, <1>2, <1>3, <2>1
  <2>. QED
    BY <1>1, <2>1, <2>2, <2>3 DEF Moves
<1>. QED
  BY <1>4, <1>5

\* What insertRecord does to the container.
Inserted(R, R1, x) ==
  LET v == Append(OthersThan(R, x.key), x)
  IN R1 = IF Len(v) > MaxRecords THEN Tail(v) ELSE v

\* insertRecord moves the record of the key to the end.
LEMMA InsertedMoves ==
  ASSUME NEW R, IsContainer(R), NEW x \in Record, NEW R1, Inserted(R, R1, x)
  PROVE  Moves(R, R1, x)
<1>1. R \in Seq(Record) /\ Keyed(R) /\ Len(R) <= MaxRecords /\ Len(R) \in Nat /\ MaxRecords \in Nat
  BY ValidatorAssumption DEF IsContainer
<1>2. PICK t, v : t = OthersThan(R, x.key) /\ v = Append(t, x)
  OBVIOUS
<1>3. R1 = IF Len(v) > MaxRecords THEN Tail(v) ELSE v
  BY <1>2 DEF Inserted
<1>4. PICK key : key = x.key
  OBVIOUS
<1>5. /\ t \in Seq(Record)
      /\ ~HasKey(R, key) => t = R
      /\ \A a \in DOMAIN R : R[a].key = key => Removed(R, a, t)
  BY <1>1, <1>2, <1>4, OthersThanIs
<1>6. CASE HasKey(R, key)
  <2>1. PICK a \in DOMAIN R : R[a].key = x.key
    BY <1>4, <1>6 DEF HasKey
  <2>2. Removed(R, a, t)
    BY <1>4, <1>5, <2>1
  <2>3. Moves(R, v, x)
    BY <1>1, <1>2, <1>5, <2>1, <2>2, MovesReplaced
  <2>4. Len(v) = Len(R)
    <3>1. Len(v) = Len(t) + 1
      BY <1>2, <1>5, AppendProperties
    <3>2. Len(t) = Len(R) - 1
      BY <2>2 DEF Removed
    <3>. QED
      BY <1>1, <3>1, <3>2
  <2>. QED
    BY <1>1, <1>3, <2>3, <2>4
<1>7. CASE ~HasKey(R, key)
  <2>1. v = Append(R, x) /\ ~HasKey(R, x.key)
    BY <1>2, <1>4, <1>5, <1>7
  <2>. QED
    BY <1>1, <1>3, <2>1, MovesAdded
<1>. QED
  BY <1>6, <1>7

\* Every record of the new container is the new one or an old one.
LEMMA InsertedContainer ==
  ASSUME NEW R, IsContainer(R), NEW q, IsQueue(q, R),
         NEW x \in Record, NonceList(x.nonces), NEW y \in CommandRecord,
         x.key = y.key, x.time = y.time, NEW R1, Inserted(R, R1, x)
  PROVE  IsContainer(R1) /\ IsQueue(Append(OthersThan(q, y.key), y), R1)
<1>1. PICK v, w : v = Append(OthersThan(R, x.key), x) /\ w = Append(OthersThan(q, y.key), y)
  OBVIOUS
<1>2. R1 = IF Len(v) > MaxRecords THEN Tail(v) ELSE v
  BY <1>1 DEF Inserted
<1>3. /\ R \in Seq(Record) /\ q \in Seq(CommandRecord) /\ Keyed(R) /\ Keyed(q)
      /\ Len(R) <= MaxRecords /\ Agree(R, q, Common(q))
  BY DEF IsContainer, IsQueue
<1>. DEFINE S == Record
            T == CommandRecord
<1>4. /\ R1 \in Seq(Record) /\ Len(R1) <= MaxRecords /\ Keyed(R1)
      /\ w \in Seq(CommandRecord) /\ Keyed(w) /\ Agree(R1, w, Common(w))
  <2>1. x \in S /\ y \in T /\ BothKeyed(S, T, R, q)
    BY <1>3 DEF BothKeyed
  <2>. HIDE DEF S, T
  <2>2. BothKeyed(S, T, R1, w)
    BY <1>1, <1>2, <2>1, AgreeRefreshed
  <2>. QED
    BY <2>2 DEF BothKeyed, S, T
<1>5. Moves(R, R1, x)
  BY InsertedMoves
<1>6. ASSUME NEW i \in DOMAIN R1 PROVE NonceList(R1[i].nonces)
  <2>1. i \in 1..Len(R1) /\ Len(R1) \in Nat
    BY <1>4
  <2>2. CASE i = Len(R1)
    BY <1>5, <2>2 DEF Moves
  <2>3. CASE i # Len(R1)
    <3>1. i \in 1..(Len(R1) - 1)
      BY <2>1, <2>3
    <3>2. PICK j \in DOMAIN R : R1[i] = R[j]
      BY <1>5, <3>1 DEF Moves
    <3>. QED
      BY <3>2 DEF IsContainer
  <2>. QED
    BY <2>2, <2>3
<1>. QED
  BY <1>1, <1>4, <1>6 DEF IsContainer, IsQueue

\* The record of an acknowledged Request.
RecordOf(n) == [key |-> sent[n].from, time |-> sent[n].time, nonces |-> Observed(n)]

\* A Request that was sent, and its record.
LEMMA RecordOfType ==
  ASSUME TableInv, NEW n \in DOMAIN sent
  PROVE  /\ n \in Nonce /\ sent[n].from \in Producers /\ sent[n].time \in Int
         /\ sent[n].name = FullName(sent[n].from) /\ sent[n].expiration = Lifetime[sent[n].from]
         /\ sent[n].expiration \in Nat \cup {NoExpiration}
         /\ RecordOf(n) \in Record
         /\ ObservedWith(records, sent[n].from, n, Observed(n)) /\ NonceList(Observed(n))
<1>1. sent \in Seq(Request) /\ Len(sent) <= MaxRequests /\ MaxRequests \in Nat /\ IsContainer(records)
  BY BoundsAssumption DEF TableInv, SentInv
<1>2. n \in Nonce /\ sent[n] \in Request
  BY <1>1 DEF Nonce
<1>3. sent[n].from \in Producers /\ sent[n].time \in Int /\ sent[n].expiration \in Nat \cup {NoExpiration}
  BY <1>2 DEF Request
<1>4. PICK key : key = sent[n].from
  OBVIOUS
<1>5. ObservedWith(records, key, n, Observed(n))
  BY <1>1, <1>2, <1>4, ObservedIs
<1>6. NonceList(Observed(n))
  BY <1>5 DEF ObservedWith
<1>7. Observed(n) \in Seq(Nonce)
  BY <1>6 DEF NonceList
<1>8. RecordOf(n) \in Record
  BY <1>3, <1>7 DEF RecordOf, Record
<1>9. sent[n].name = FullName(sent[n].from) /\ sent[n].expiration = Lifetime[sent[n].from]
  BY DEF TableInv, SentInv
<1>. QED
  BY <1>2, <1>3, <1>4, <1>5, <1>6, <1>8, <1>9

\* The Ack of n at the end of the log.
AckOf(n, b) ==
  [nonce |-> n, began |-> b, announced |-> Suffix(sent[n].name),
   expiration |-> IF sent[n].expiration = NoExpiration THEN 1000 ELSE sent[n].expiration]

\* The Ack announces what the producer of the Request was configured with.
LEMMA AckOfType ==
  ASSUME TableInv, NEW n \in DOMAIN sent, NEW b \in Nat, NEW i \in Nat, b < i
  PROVE  IsAck(AckOf(n, b), sent, i)
<1>1. /\ n \in Nonce /\ sent[n].from \in Producers
      /\ sent[n].name = FullName(sent[n].from) /\ sent[n].expiration = Lifetime[sent[n].from]
      /\ sent[n].expiration \in Nat \cup {NoExpiration}
  BY RecordOfType
<1>2. Suffix(sent[n].name) = ProducerSuffix[sent[n].from] /\ ProducerSuffix[sent[n].from] \in Seq(Component)
  BY <1>1, SuffixOfFullName, NamesAssumption
<1>3. PICK e : e = IF sent[n].expiration = NoExpiration THEN 1000 ELSE sent[n].expiration
  OBVIOUS
<1>4. e \in Nat /\ (sent[n].expiration # NoExpiration => e = sent[n].expiration)
  BY <1>1, <1>3
<1>5. AckOf(n, b) = [nonce |-> n, began |-> b, announced |-> ProducerSuffix[sent[n].from], expiration |-> e]
  BY <1>2, <1>3 DEF AckOf
<1>6. AckOf(n, b) \in Ack
  BY <1>1, <1>2, <1>4, <1>5 DEF Ack
<1>. QED
  BY <1>1, <1>4, <1>5, <1>6 DEF IsAck

\* An Ack, and the records of both policies with it.
Acked(n, b) ==
  /\ Inserted(records, records', RecordOf(n))
  /\ Len(log) < MaxAcks
  /\ log' = Append(log, AckOf(n, b))
  /\ IsContainer(records') /\ IsQueue(commands', records') /\ IsLog(log', sent)
  /\ Len(log') = Len(log) + 1

\* Rv::onSuccess and the two policies: what Succeed does to the log and the records.
LEMMA SucceedIs ==
  ASSUME TableInv, NEW n \in DOMAIN sent, NEW b \in 0..Len(log), NEW cmds, IsQueue(cmds, records),
         Succeed(n, b, cmds)
  PROVE  Acked(n, b)
<1>1. Inserted(records, records', RecordOf(n))
  BY DEF Succeed, InsertRecord, Inserted, RecordOf, Excess
<1>2. Len(log) < MaxAcks /\ log' = Append(log, AckOf(n, b))
  BY DEF Succeed, AckOf
<1>3. IsContainer(records') /\ IsQueue(commands', records')
  <2>1. PICK x, y, R, R1 : /\ x = RecordOf(n) /\ R = records /\ R1 = records'
                           /\ y = [key |-> sent[n].from, time |-> sent[n].time, refreshed |-> clock]
    OBVIOUS
  <2>2. /\ sent[n].from \in Producers /\ sent[n].time \in Int /\ RecordOf(n) \in Record
        /\ NonceList(Observed(n)) /\ clock \in 0..MaxTime /\ IsContainer(records)
    BY RecordOfType DEF TableInv
  <2>3. y \in CommandRecord
    BY <2>1, <2>2 DEF CommandRecord
  <2>4. x \in Record /\ NonceList(x.nonces) /\ x.key = y.key /\ x.time = y.time
    BY <2>1, <2>2 DEF RecordOf
  <2>5. IsContainer(R) /\ IsQueue(cmds, R) /\ Inserted(R, R1, x)
    BY <1>1, <2>1, <2>2
  <2>6. IsContainer(R1) /\ IsQueue(Append(OthersThan(cmds, y.key), y), R1)
    BY <2>3, <2>4, <2>5, InsertedContainer
  <2>7. commands' = Append(OthersThan(cmds, y.key), y)
    BY <2>1 DEF Succeed, Refreshed
  <2>. QED
    BY <2>1, <2>6, <2>7
<1>4. /\ log \in Seq(Ack) /\ Len(log) <= MaxAcks /\ MaxAcks \in Nat /\ Len(log) \in Nat
      /\ \A i \in DOMAIN log : IsAck(log[i], sent, i)
  BY BoundsAssumption DEF TableInv, IsLog
<1>5. PICK k, a, L : k = Len(log) /\ a = AckOf(n, b) /\ L = Append(log, a)
  OBVIOUS
<1>6. IsAck(a, sent, k + 1) /\ a \in Ack
  <2>1. k + 1 \in Nat /\ b \in Nat /\ b < k + 1
    BY <1>4, <1>5
  <2>2. IsAck(AckOf(n, b), sent, k + 1)
    BY <2>1, AckOfType
  <2>. QED
    BY <1>5, <2>2 DEF IsAck
<1>7. /\ L \in Seq(Ack) /\ Len(L) = k + 1
      /\ (\A i \in 1..k : L[i] = log[i]) /\ L[k + 1] = a
  BY <1>4, <1>5, <1>6, AppendProperties
<1>8. ASSUME NEW i \in DOMAIN L PROVE IsAck(L[i], sent, i)
  <2>1. i \in 1..(k + 1) /\ k \in Nat /\ DOMAIN log = 1..k
    BY <1>4, <1>5, <1>7
  <2>2. CASE i = k + 1
    BY <2>2, <1>6, <1>7
  <2>3. CASE i # k + 1
    <3>1. i \in 1..k
      BY <2>1, <2>3
    <3>. QED
      BY <3>1, <2>1, <1>4, <1>7
  <2>. QED
    BY <2>2, <2>3
<1>9. Len(L) <= MaxAcks
  BY <1>2, <1>4, <1>5, <1>7
<1>10. IsLog(L, sent)
  BY <1>7, <1>8, <1>9 DEF IsLog
<1>. QED
  BY <1>1, <1>2, <1>3, <1>5, <1>7, <1>10 DEF Acked

----------------------------------------------------------------------------
(* The steps, as the records and the log see them *)

Longer(S, S1) == DOMAIN S \subseteq DOMAIN S1 /\ \A n \in DOMAIN S : S1[n] = S[n]

\* A validation of V1 goes on as one of V.
CarriedOn(V1, V, s) == s \in DOMAIN V /\ V1[s].nonce = V[s].nonce /\ V1[s].began = V[s].began
Carried(V1, V) == \A s \in DOMAIN V1 : CarriedOn(V1, V, s)

\* Nothing is recorded.
Quiet ==
  /\ records' = records /\ log' = log /\ Longer(sent, sent')
  /\ Carried(validating', validating)

\* The validation of n begins.
Arrives(n) ==
  /\ records' = records /\ log' = log /\ sent' = sent
  /\ CheckIncomingInterest(n)
  /\ \A s \in DOMAIN validating' :
       \/ CarriedOn(validating', validating, s)
       \/ validating'[s].nonce = n /\ validating'[s].began = Len(log)

\* n is acknowledged, at once or at the end of its validation.
Answers(n, b) ==
  /\ Acked(n, b) /\ sent' = sent
  /\ Carried(validating', validating)
  /\ \/ b = Len(log) /\ CheckIncomingInterest(n)
     \/ \E s \in DOMAIN validating : n = validating[s].nonce /\ b = validating[s].began

\* A step, and what it leaves of the table.
Steps ==
  /\ TableInv'
  /\ \/ Quiet
     \/ \E n \in DOMAIN sent : Arrives(n) \/ \E b \in 0..Len(log) : Answers(n, b)

\* The first state.
LEMMA InitTable ==
  ASSUME Init
  PROVE  TableInv
<1>1. /\ clock = 0 /\ sent = <<>> /\ records = <<>> /\ commands = <<>> /\ log = <<>>
      /\ verified = {} /\ unverified = {} /\ DOMAIN validating = {}
  BY DEF Init
<1>2. MaxTime \in Nat /\ MaxRequests \in Nat /\ MaxAcks \in Nat /\ MaxRecords \in Nat
  BY BoundsAssumption, ValidatorAssumption
<1>3. SentInv
  BY <1>1, <1>2 DEF SentInv
<1>4. IsContainer(records)
  BY <1>1, <1>2 DEF IsContainer, Keyed
<1>5. IsQueue(commands, records)
  <2>1. Len(commands) = 0 /\ Len(records) = 0 /\ commands \in Seq(CommandRecord)
    BY <1>1
  <2>2. Common(commands) = 0
    BY <2>1, <1>2 DEF Common
  <2>3. Agree(records, commands, 0)
    BY <2>1 DEF Agree
  <2>. QED
    BY <1>1, <2>1, <2>2, <2>3 DEF IsQueue, Keyed
<1>6. IsLog(log, sent)
  BY <1>1, <1>2 DEF IsLog
<1>7. AreValidations(validating, sent, Len(log))
  BY <1>1 DEF AreValidations
<1>. QED
  BY <1>1, <1>2, <1>3, <1>4, <1>5, <1>6, <1>7 DEF TableInv

\* More Requests do not change what was said of the earlier ones.
LEMMA LongerKeeps ==
  ASSUME NEW S, NEW S1, Longer(S, S1), NEW L, NEW V, NEW k, IsLog(L, S), AreValidations(V, S, k)
  PROVE  IsLog(L, S1) /\ AreValidations(V, S1, k)
<1>1. \A i \in DOMAIN L : IsAck(L[i], S1, i)
  BY DEF IsLog, IsAck, Longer
<1>2. \A s \in DOMAIN V : IsValidation(V[s], S1, k)
  BY DEF AreValidations, IsValidation, Longer
<1>. QED
  BY <1>1, <1>2 DEF IsLog, AreValidations

\* sendKiteRequest.
LEMMA StepSend ==
  ASSUME TableInv, NEW p \in Producers, SendKiteRequest(p)
  PROVE  Steps
<1>1. /\ sent \in Seq(Request) /\ Len(sent) < MaxRequests /\ MaxRequests \in Nat /\ clock \in 0..MaxTime
      /\ MaxTime \in Nat
  BY BoundsAssumption DEF TableInv, SentInv, SendKiteRequest
<1>2. PICK x : x = MakeInterest(p)
  OBVIOUS
<1>3. x.from = p /\ x.name = FullName(p) /\ x.expiration = Lifetime[p] /\ x \in Request
  <2>1. x = [from |-> p, name |-> FullName(p), time |-> clock + Skew[p], expiration |-> Lifetime[p]]
    BY <1>2 DEF MakeInterest, FullName
  <2>2. /\ FullName(p) \in Seq(Component) /\ clock + Skew[p] \in Int
        /\ Lifetime[p] \in Nat \cup {NoExpiration}
    BY <1>1, SuffixOfFullName, NamesAssumption, ValidatorAssumption
  <2>3. x \in Request
    BY <2>1, <2>2 DEF Request
  <2>. QED
    BY <2>1, <2>3
<1>4. PICK S1 : S1 = Append(sent, x)
  OBVIOUS
<1>5. /\ S1 \in Seq(Request) /\ Len(S1) = Len(sent) + 1 /\ Len(sent) \in Nat
      /\ (\A i \in 1..Len(sent) : S1[i] = sent[i]) /\ S1[Len(sent) + 1] = x
  BY <1>1, <1>3, <1>4, AppendProperties
<1>6. Longer(sent, S1)
  BY <1>1, <1>5 DEF Longer
<1>7. ASSUME NEW n \in DOMAIN S1
      PROVE  S1[n].name = FullName(S1[n].from) /\ S1[n].expiration = Lifetime[S1[n].from]
  <2>1. n \in 1..(Len(sent) + 1) /\ DOMAIN sent = 1..Len(sent)
    BY <1>1, <1>5
  <2>2. CASE n = Len(sent) + 1
    BY <2>2, <1>3, <1>5
  <2>3. CASE n # Len(sent) + 1
    <3>1. n \in DOMAIN sent /\ S1[n] = sent[n]
      BY <1>5, <2>1, <2>3
    <3>. QED
      BY <3>1 DEF TableInv, SentInv
  <2>. QED
    BY <2>2, <2>3
<1>8. sent' = S1 /\ Len(S1) <= MaxRequests
  BY <1>1, <1>2, <1>4, <1>5 DEF SendKiteRequest
<1>9. SentInv'
  BY <1>5, <1>7, <1>8 DEF SentInv
<1>10. /\ clock' = clock /\ records' = records /\ commands' = commands /\ log' = log
       /\ verified' = verified /\ unverified' = unverified /\ validating' = validating
  BY DEF SendKiteRequest, recordVars
<1>11. IsLog(log', sent') /\ AreValidations(validating', sent', Len(log'))
  <2>1. PICK k : k = Len(log)
    OBVIOUS
  <2>2. IsLog(log, S1) /\ AreValidations(validating, S1, k)
    BY <1>6, <2>1, LongerKeeps DEF TableInv
  <2>. QED
    BY <1>8, <1>10, <2>1, <2>2
<1>12. TableInv'
  BY <1>9, <1>10, <1>11 DEF TableInv
<1>13. Quiet
  BY <1>6, <1>8, <1>10 DEF Quiet, Carried, CarriedOn
<1>. QED
  BY <1>12, <1>13 DEF Steps

\* Only the clock, a cache or the validations change.
LEMMA StepOther ==
  ASSUME TableInv, sent' = sent, records' = records, log' = log, commands' = commands,
         clock' \in 0..MaxTime, verified' \subseteq Producers, unverified' \subseteq Producers,
         AreValidations(validating', sent, Len(log)), Carried(validating', validating)
  PROVE  Steps
<1>1. TableInv'
  BY DEF TableInv, SentInv
<1>2. Quiet
  BY DEF Quiet, Longer
<1>. QED
  BY <1>1, <1>2 DEF Steps

\* An end of a validation leaves the others.
LEMMA EndedIs ==
  ASSUME TableInv, NEW s, Ended(s)
  PROVE  AreValidations(validating', sent, Len(log)) /\ Carried(validating', validating)
<1>1. validating' = [t \in DOMAIN validating \ {s} |-> validating[t]]
  BY DEF Ended
<1>. QED
  BY <1>1 DEF TableInv, AreValidations, Carried, CarriedOn

\* A validation ends with an Ack, or an Interest is acknowledged at once.
LEMMA StepAnswer ==
  ASSUME TableInv, NEW n \in DOMAIN sent, NEW b \in 0..Len(log), NEW cmds, IsQueue(cmds, records),
         Succeed(n, b, cmds), sent' = sent, clock' = clock,
         verified' \subseteq Producers, unverified' \subseteq Producers,
         AreValidations(validating', sent, Len(log)), Carried(validating', validating),
         \/ b = Len(log) /\ CheckIncomingInterest(n)
         \/ \E s \in DOMAIN validating : n = validating[s].nonce /\ b = validating[s].began
  PROVE  Steps
<1>1. Acked(n, b)
  BY SucceedIs
<1>2. AreValidations(validating', sent', Len(log'))
  <2>1. Len(log) \in Nat /\ Len(log') = Len(log) + 1
    BY <1>1 DEF Acked, TableInv, IsLog
  <2>2. \A v : IsValidation(v, sent, Len(log)) => IsValidation(v, sent, Len(log'))
    BY <2>1 DEF IsValidation
  <2>. QED
    BY <2>2 DEF AreValidations
<1>3. TableInv'
  BY <1>1, <1>2 DEF TableInv, SentInv, Acked
<1>4. Answers(n, b)
  BY <1>1 DEF Answers
<1>. QED
  BY <1>3, <1>4 DEF Steps

\* The queue after cleanup is as good.
LEMMA CleanedQueue ==
  ASSUME TableInv
  PROVE  IsQueue(Cleaned, records)
<1>1. PICK c : c = Cleaned
  OBVIOUS
<1>2. /\ commands \in Seq(CommandRecord) /\ Keyed(commands) /\ records \in Seq(Record)
      /\ Agree(records, commands, Common(commands))
  BY DEF TableInv, IsQueue, IsContainer
<1>3. c \in Seq(CommandRecord) /\ Keyed(c) /\ Agree(records, c, Common(c))
  BY <1>1, <1>2, CleanedKeeps
<1>. QED
  BY <1>1, <1>3 DEF IsQueue

\* An Interest whose certificate is at hand is acknowledged at once.
LEMMA StepKnown ==
  ASSUME TableInv, NEW n \in DOMAIN sent, OnInterestKnown(n)
  PROVE  Steps
<1>1. /\ CheckIncomingInterest(n) /\ Succeed(n, Len(log), Cleaned)
      /\ clock' = clock /\ sent' = sent /\ validating' = validating
  BY DEF OnInterestKnown
<1>2. verified' \subseteq Producers /\ unverified' \subseteq Producers
  <2>1. sent[n].from \in Producers
    BY RecordOfType
  <2>2. \/ verified' = verified /\ unverified' = unverified
        \/ verified' = verified \cup {sent[n].from} /\ unverified' = unverified \cup {sent[n].from}
    BY DEF OnInterestKnown, Chained
  <2>. QED
    BY <2>1, <2>2 DEF TableInv
<1>3. Len(log) \in 0..Len(log)
  BY DEF TableInv, IsLog
<1>4. AreValidations(validating', sent, Len(log)) /\ Carried(validating', validating)
  BY <1>1 DEF TableInv, Carried, CarriedOn
<1>5. PICK c, b : c = Cleaned /\ b = Len(log)
  OBVIOUS
<1>6. IsQueue(c, records)
  BY <1>5, CleanedQueue
<1>7. b \in 0..Len(log) /\ Succeed(n, b, c) /\ b = Len(log) /\ CheckIncomingInterest(n)
  BY <1>1, <1>3, <1>5
<1>. QED
  BY <1>1, <1>2, <1>4, <1>6, <1>7, StepAnswer

\* An Interest whose certificate has to be fetched occupies a slot.
LEMMA StepUnknown ==
  ASSUME TableInv, NEW n \in DOMAIN sent, OnInterestUnknown(n)
  PROVE  Steps
<1>1. /\ CheckIncomingInterest(n) /\ FetchCertificate(n) /\ commands' = Cleaned
      /\ clock' = clock /\ sent' = sent /\ records' = records /\ log' = log
  BY DEF OnInterestUnknown
<1>2. PICK s \in Slots \ DOMAIN validating :
        /\ validating' = [t \in DOMAIN validating \cup {s} |->
                            IF t = s THEN [nonce |-> n, left |-> Retries, began |-> Len(log)]
                            ELSE validating[t]]
        /\ verified' = verified /\ unverified' = unverified
  BY <1>1 DEF FetchCertificate
<1>3. PICK v : v = [nonce |-> n, left |-> Retries, began |-> Len(log)]
  OBVIOUS
<1>4. /\ DOMAIN validating' = DOMAIN validating \cup {s} /\ validating'[s] = v
      /\ \A t \in DOMAIN validating : validating'[t] = validating[t]
  BY <1>2, <1>3
<1>5. v \in Validation /\ v.nonce \in DOMAIN sent /\ v.began \in 0..Len(log)
  <2>1. n \in Nonce /\ Retries \in 0..Retries /\ Len(log) \in Nat /\ Len(log) \in 0..Len(log)
    BY RecordOfType, ValidatorAssumption DEF TableInv, IsLog
  <2>. QED
    BY <1>3, <2>1 DEF Validation
<1>6. AreValidations(validating', sent', Len(log'))
  <2>1. IsValidation(v, sent, Len(log))
    BY <1>5 DEF IsValidation
  <2>2. DOMAIN validating \subseteq Slots /\ \A t \in DOMAIN validating : IsValidation(validating[t], sent, Len(log))
    BY DEF TableInv, AreValidations
  <2>. QED
    BY <1>1, <1>4, <2>1, <2>2 DEF AreValidations
<1>7. IsQueue(commands', records')
  BY <1>1, CleanedQueue
<1>8. TableInv'
  BY <1>1, <1>2, <1>6, <1>7 DEF TableInv, SentInv
<1>9. Arrives(n)
  BY <1>1, <1>3, <1>4 DEF Arrives, CarriedOn
<1>. QED
  BY <1>8, <1>9 DEF Steps

\* Chained adds the producer of a Request that was sent.
LEMMA ChainedIs ==
  ASSUME TableInv, NEW n \in DOMAIN sent, Chained(sent[n].from)
  PROVE  verified' \subseteq Producers /\ unverified' \subseteq Producers
<1>1. sent[n].from \in Producers
  BY RecordOfType
<1>. QED
  BY <1>1 DEF TableInv, Chained

\* A validation ends with the certificate.
LEMMA StepFetched ==
  ASSUME TableInv, NEW s \in DOMAIN validating,
         Succeed(validating[s].nonce, validating[s].began, commands),
         Chained(sent[validating[s].nonce].from), Ended(s), clock' = clock, sent' = sent
  PROVE  Steps
<1>1. PICK n, b : n = validating[s].nonce /\ b = validating[s].began
  OBVIOUS
<1>2. n \in DOMAIN sent /\ b \in 0..Len(log)
  BY <1>1 DEF TableInv, AreValidations, IsValidation
<1>3. verified' \subseteq Producers /\ unverified' \subseteq Producers
  BY <1>1, <1>2, ChainedIs
<1>4. AreValidations(validating', sent, Len(log)) /\ Carried(validating', validating)
  BY EndedIs
<1>5. IsQueue(commands, records)
  BY DEF TableInv
<1>6. Succeed(n, b, commands)
  BY <1>1
<1>7. PICK c : c = commands
  OBVIOUS
<1>. QED
  BY <1>1, <1>2, <1>3, <1>4, <1>5, <1>6, <1>7, StepAnswer

\* A timeout or a Nack: the certificate is found in the cache, or asked for again.
LEMMA StepFetchAgain ==
  ASSUME TableInv, NEW s \in DOMAIN validating, FetchAgain(s)
  PROVE  Steps
<1>1. PICK v, p : v = validating[s] /\ p = sent[v.nonce].from
  OBVIOUS
<1>2. CASE p \in unverified
  <2>1. /\ Succeed(v.nonce, v.began, commands) /\ Chained(p) /\ Ended(s)
        /\ clock' = clock /\ sent' = sent
    BY <1>1, <1>2 DEF FetchAgain
  <2>. QED
    BY <1>1, <2>1, StepFetched
<1>3. CASE p \notin unverified
  <2>1. /\ v.left > 0 /\ clock' = clock /\ sent' = sent
        /\ validating' = [validating EXCEPT ![s].left = OneLess(validating[s].left)]
        /\ records' = records /\ commands' = commands
        /\ verified' = verified /\ unverified' = unverified /\ log' = log
    BY <1>1, <1>3 DEF FetchAgain, recordVars
  <2>2. v \in Validation /\ v.nonce \in DOMAIN sent /\ v.began \in 0..Len(log)
    BY <1>1 DEF TableInv, AreValidations, IsValidation
  <2>3. v.nonce \in Nonce /\ v.left \in 0..Retries /\ v.began \in Nat /\ Retries \in Nat
    BY <2>2, ValidatorAssumption DEF Validation
  <2>4. PICK w : w = [nonce |-> v.nonce, left |-> v.left - 1, began |-> v.began]
    OBVIOUS
  <2>5. v.left - 1 \in 0..Retries
    BY <2>1, <2>3
  <2>6. w \in Validation /\ w.nonce = v.nonce /\ w.began = v.began
    BY <2>3, <2>4, <2>5 DEF Validation
  <2>7. /\ DOMAIN validating' = DOMAIN validating
        /\ validating'[s] = w
        /\ \A t \in DOMAIN validating \ {s} : validating'[t] = validating[t]
    <3>1. v = [nonce |-> v.nonce, left |-> v.left, began |-> v.began]
      BY <2>2 DEF Validation
    <3>2. validating' = [validating EXCEPT ![s] = [validating[s] EXCEPT !.left = validating[s].left - 1]]
      BY <2>1 DEF OneLess
    <3>3. [v EXCEPT !.left = v.left - 1] = w
      BY <2>4, <3>1
    <3>. QED
      BY <1>1, <3>2, <3>3
  <2>8. AreValidations(validating', sent, Len(log)) /\ Carried(validating', validating)
    <3>1. IsValidation(w, sent, Len(log))
      BY <2>2, <2>6 DEF IsValidation
    <3>2. DOMAIN validating \subseteq Slots /\ \A t \in DOMAIN validating : IsValidation(validating[t], sent, Len(log))
      BY DEF TableInv, AreValidations
    <3>. QED
      BY <1>1, <2>6, <2>7, <3>1, <3>2 DEF AreValidations, Carried, CarriedOn
  <2>. QED
    BY <2>1, <2>8, StepOther DEF TableInv
<1>. QED
  BY <1>2, <1>3

\* A validation ends without a certificate.
LEMMA StepCannot ==
  ASSUME TableInv, NEW s \in DOMAIN validating, CannotRetrieve(s)
  PROVE  Steps
<1>1. /\ Ended(s) /\ clock' = clock /\ sent' = sent /\ records' = records /\ commands' = commands
      /\ verified' = verified /\ unverified' = unverified /\ log' = log
  BY DEF CannotRetrieve, recordVars
<1>2. AreValidations(validating', sent, Len(log)) /\ Carried(validating', validating)
  BY <1>1, EndedIs
<1>. QED
  BY <1>1, <1>2, StepOther DEF TableInv

\* Every step of the rendezvous is one of the three kinds.
LEMMA StepKinds ==
  ASSUME TableInv, [Next]_vars
  PROVE  Steps
<1>0. AreValidations(validating, sent, Len(log)) /\ Carried(validating, validating)
  BY DEF TableInv, Carried, CarriedOn
<1>1. CASE Tick
  <2>1. /\ clock' \in 0..MaxTime /\ sent' = sent /\ records' = records /\ commands' = commands
        /\ verified' = verified /\ unverified' = unverified /\ log' = log /\ validating' = validating
    BY <1>1, BoundsAssumption DEF Tick, recordVars, TableInv
  <2>. QED
    BY <1>0, <2>1, StepOther DEF TableInv
<1>2. ASSUME NEW p \in Producers, SendKiteRequest(p) PROVE Steps
  BY <1>2, StepSend
<1>3. ASSUME NEW p \in Producers, CertificateExpires(p) PROVE Steps
  <2>1. /\ clock' = clock /\ sent' = sent /\ records' = records /\ commands' = commands
        /\ verified' \subseteq Producers /\ unverified' \subseteq Producers
        /\ log' = log /\ validating' = validating
    BY <1>3 DEF CertificateExpires, recordVars, TableInv
  <2>. QED
    BY <1>0, <2>1, StepOther DEF TableInv
<1>4. ASSUME NEW n \in DOMAIN sent, OnInterestKnown(n) \/ OnInterestUnknown(n) PROVE Steps
  BY <1>4, StepKnown, StepUnknown
<1>5. ASSUME NEW s \in DOMAIN validating, CertificateFetched(s) \/ FetchAgain(s) \/ CannotRetrieve(s)
      PROVE  Steps
  <2>1. CASE CertificateFetched(s)
    BY <2>1, StepFetched DEF CertificateFetched
  <2>. QED
    BY <1>5, <2>1, StepFetchAgain, StepCannot
<1>6. CASE UNCHANGED vars
  <2>1. /\ clock' = clock /\ sent' = sent /\ records' = records /\ commands' = commands
        /\ verified' = verified /\ unverified' = unverified /\ log' = log /\ validating' = validating
    BY <1>6 DEF vars, recordVars
  <2>. QED
    BY <1>0, <2>1, StepOther DEF TableInv
<1>. QED
  BY <1>1, <1>2, <1>3, <1>4, <1>5, <1>6 DEF Next

\* Init and every step of Next, without the fairness.
LEMMA SafetyPart == Spec => Init /\ [][Next]_vars
  BY PTL DEF Spec

\* The table, and what the log says, at every state.
LEMMA TableInvariant == Spec => []TableInv
<1>1. Init => TableInv
  BY InitTable
<1>2. TableInv /\ [Next]_vars => TableInv'
  BY StepKinds DEF Steps
<1>. QED
  BY <1>1, <1>2, SafetyPart, PTL

\* TypeOK holds in every reachable state: no list of records or nonces of the
\* outer policy (insertRecord) outgrows its limit, for any limits and bounds.
THEOREM TypeCorrect == Spec => []TypeOK
<1>1. ASSUME TableInv PROVE TypeOK
  <2>1. /\ sent \in Seq(Request) /\ Len(sent) <= MaxRequests
        /\ records \in Seq([key : Producers, time : Int, nonces : Seq(Nonce)])
        /\ Len(records) <= MaxRecords
        /\ \A i \in DOMAIN records : Len(records[i].nonces) \in 1..MaxNonces
        /\ commands \in Seq([key : Producers, time : Int, refreshed : 0..MaxTime])
    BY <1>1 DEF TableInv, SentInv, IsContainer, IsQueue, NonceList, Record, CommandRecord
  <2>2. Len(log) \in Nat /\ Len(log) <= MaxAcks /\ MaxAcks \in Nat /\ log \in Seq(Ack)
    BY <1>1, BoundsAssumption DEF TableInv, IsLog
  <2>3. ASSUME NEW s \in DOMAIN validating
        PROVE  validating[s] \in [nonce : DOMAIN sent, left : 0..Retries, began : 0..MaxAcks]
    <3>1. PICK v : v = validating[s]
      OBVIOUS
    <3>2. v \in Validation /\ v.nonce \in DOMAIN sent /\ v.began \in 0..Len(log)
      BY <1>1, <3>1 DEF TableInv, AreValidations, IsValidation
    <3>3. v.began \in 0..MaxAcks
      BY <2>2, <3>2
    <3>. QED
      BY <3>1, <3>2, <3>3 DEF Validation
  <2>4. log \in Seq([nonce : DOMAIN sent, began : 0..MaxAcks,
                     announced : Seq(Component), expiration : Nat])
    <3>. DEFINE A == [nonce : DOMAIN sent, began : 0..MaxAcks,
                      announced : Seq(Component), expiration : Nat]
    <3>1. ASSUME NEW i \in 1..Len(log) PROVE log[i] \in A
      <4>1. PICK a : a = log[i]
        OBVIOUS
      <4>2. a \in Ack /\ a.nonce \in DOMAIN sent /\ a.began < i
        BY <1>1, <2>2, <4>1 DEF TableInv, IsLog, IsAck
      <4>3. a.began \in Nat
        BY <4>2 DEF Ack
      <4>4. a.began \in 0..MaxAcks
        BY <2>2, <4>2, <4>3
      <4>. QED
        BY <4>1, <4>2, <4>4 DEF Ack
    <3>2. \E k \in Nat : log \in [1..k -> Ack] /\ k = Len(log)
      BY <2>2
    <3>. HIDE DEF A
    <3>3. log \in [1..Len(log) -> A]
      BY <3>1, <3>2
    <3>4. log \in Seq(A)
      BY <2>2, <3>3
    <3>. QED
      BY <3>4 DEF A
  <2>. QED
    BY <1>1, <2>1, <2>3, <2>4 DEF TypeOK, TableInv, AreValidations
<1>. QED
  BY <1>1, TableInvariant, PTL

\* AnnouncesSender holds in every reachable state: extractPrefixes finds the
\* keyword MakeInterest put there, whatever components the producer's own name has,
\* so Rv::onSuccess announces that name.
THEOREM AnnouncesRight == Spec => []AnnouncesSender
<1>1. ASSUME TableInv PROVE AnnouncesSender
  BY <1>1 DEF TableInv, IsLog, IsAck, AnnouncesSender, KeyOf
<1>. QED
  BY <1>1, TableInvariant, PTL

\* RecordsAgree holds in every reachable state: the container of
\* ValidationPolicySignedInterest ends with the same keys and timestamps as the
\* queue of ValidationPolicyCommandInterest, as far as cleanup leaves it.
THEOREM PoliciesAgree == Spec => []RecordsAgree
<1>1. ASSUME TableInv PROVE RecordsAgree
  <2>1. /\ commands \in Seq(CommandRecord) /\ records \in Seq(Record)
        /\ Agree(records, commands, Common(commands))
    BY <1>1 DEF TableInv, IsQueue, IsContainer
  <2>. QED
    BY <2>1, AgreeingChecks DEF RecordsAgree
<1>. QED
  BY <1>1, TableInvariant, PTL

----------------------------------------------------------------------------
(* What the records remember of the log *)

\* Places of the log after h with the key, and the other keys there.
Since(K, h, t, key) == {x \in (h + 1)..t : K[x] = key}
OtherKeys(K, h, t, key) == {K[x] : x \in (h + 1)..t} \ {key}

\* PushedOut, for a list K of keys.
Out(K, key, i, j) ==
  \/ Cardinality(Since(K, i, j, key)) >= MaxNonces
  \/ Cardinality(OtherKeys(K, i, j, key)) >= MaxRecords

\* The record of h's key is at q, and only keys that came after h are behind it.
RecAt(R, K, h, t, q) ==
  /\ q \in DOMAIN R /\ R[q].key = K[h]
  /\ \A p \in DOMAIN R : p > q => R[p].key \in OtherKeys(K, h, t, K[h])

\* The list has the nonce, with at most c nonces behind it.
ListHolds(l, m, c) == \E pos \in DOMAIN l : l[pos] = m /\ Len(l) - pos <= c

\* The nonce m, recorded with the acknowledgement at h, is still recorded.
Holds(R, K, h, t, m) ==
  \E q \in DOMAIN R : /\ RecAt(R, K, h, t, q)
                      /\ ListHolds(R[q].nonces, m, Cardinality(Since(K, h, t, K[h])))

\* Some record of the key has the nonce.
Recorded(R, key, m) == \E q \in DOMAIN R : R[q].key = key /\ m \in Elements(R[q].nonces)

\* K1 is K with k as key t + 1.
Extends(K, K1, t, k) == (\A x \in 1..t : K1[x] = K[x]) /\ K1[t + 1] = k

\* The two sets are finite.
LEMMA FiniteSince ==
  ASSUME NEW K, NEW h \in Nat, NEW t \in Nat, NEW key
  PROVE  /\ IsFiniteSet(Since(K, h, t, key)) /\ IsFiniteSet(OtherKeys(K, h, t, key))
         /\ Cardinality(Since(K, h, t, key)) \in Nat /\ Cardinality(OtherKeys(K, h, t, key)) \in Nat
<1>1. IsFiniteSet((h + 1)..t)
  <2>1. h + 1 \in Int /\ t \in Int
    OBVIOUS
  <2>. QED
    BY <2>1, FS_Interval
<1>2. IsFiniteSet(Since(K, h, t, key))
  <2>1. Since(K, h, t, key) \in SUBSET ((h + 1)..t)
    BY DEF Since
  <2>. QED
    BY <1>1, <2>1, FS_Subset
<1>3. IsFiniteSet(OtherKeys(K, h, t, key))
  <2>. DEFINE I == (h + 1)..t
              D == {K[x] : x \in I}
              f == [x \in I |-> K[x]]
  <2>1. f \in Surjection(I, D)
    BY DEF Surjection
  <2>2. IsFiniteSet(D)
    <3>. HIDE DEF D, f
    <3>. QED
      BY <1>1, <2>1, FS_Surjection
  <2>3. OtherKeys(K, h, t, key) \in SUBSET D
    BY DEF OtherKeys
  <2>. QED
    BY <2>2, <2>3, FS_Subset
<1>. QED
  BY <1>2, <1>3, FS_CardinalityType

\* Up to place b the longer list is the same.
LEMMA SameUpTo ==
  ASSUME NEW K, NEW K1, NEW t \in Nat, NEW k, Extends(K, K1, t, k),
         NEW h \in Nat, NEW b \in 0..t, NEW key
  PROVE  /\ Since(K1, h, b, key) = Since(K, h, b, key)
         /\ OtherKeys(K1, h, b, key) = OtherKeys(K, h, b, key)
         /\ Out(K1, key, h, b) <=> Out(K, key, h, b)
<1>1. \A x \in (h + 1)..b : K1[x] = K[x]
  BY DEF Extends
<1>2. Since(K1, h, b, key) = Since(K, h, b, key)
  BY <1>1 DEF Since
<1>3. OtherKeys(K1, h, b, key) = OtherKeys(K, h, b, key)
  BY <1>1 DEF OtherKeys
<1>. QED
  BY <1>2, <1>3 DEF Out

\* One place more.
Grown(K, K1, h, t, k, key) ==
  /\ Since(K1, h, t + 1, key) = Since(K, h, t, key) \cup (IF k = key THEN {t + 1} ELSE {})
  /\ OtherKeys(K1, h, t + 1, key) = OtherKeys(K, h, t, key) \cup ({k} \ {key})

\* The sets after one place more.
LEMMA OneMore ==
  ASSUME NEW K, NEW K1, NEW t \in Nat, NEW k, Extends(K, K1, t, k),
         NEW h \in 0..t, NEW key
  PROVE  Grown(K, K1, h, t, k, key)
<1>1. (h + 1)..(t + 1) = ((h + 1)..t) \cup {t + 1} /\ t + 1 \notin (h + 1)..t
  OBVIOUS
<1>2. (\A x \in (h + 1)..t : K1[x] = K[x]) /\ K1[t + 1] = k
  BY DEF Extends
<1>3. Since(K1, h, t + 1, key) = Since(K, h, t, key) \cup (IF k = key THEN {t + 1} ELSE {})
  BY <1>1, <1>2 DEF Since
<1>4. OtherKeys(K1, h, t + 1, key) = OtherKeys(K, h, t, key) \cup ({k} \ {key})
  BY <1>1, <1>2 DEF OtherKeys
<1>. QED
  BY <1>3, <1>4 DEF Grown

\* The counts after one place more.
Counted(K, K1, h, t, k, key) ==
  /\ Cardinality(Since(K1, h, t + 1, key)) = IF k = key THEN Cardinality(Since(K, h, t, key)) + 1
                                             ELSE Cardinality(Since(K, h, t, key))
  /\ Cardinality(OtherKeys(K1, h, t + 1, key)) >= Cardinality(OtherKeys(K, h, t, key))

\* Their sizes after one place more.
LEMMA OneMoreCounted ==
  ASSUME NEW K, NEW K1, NEW t \in Nat, NEW k, Extends(K, K1, t, k),
         NEW h \in 0..t, NEW key
  PROVE  Counted(K, K1, h, t, k, key)
<1>1. Grown(K, K1, h, t, k, key)
  BY OneMore
<1>3. /\ k = key => Since(K1, h, t + 1, key) = Since(K, h, t, key) \cup {t + 1}
      /\ k # key => Since(K1, h, t + 1, key) = Since(K, h, t, key)
  BY <1>1 DEF Grown
<1>4. OtherKeys(K1, h, t + 1, key) = OtherKeys(K, h, t, key) \cup ({k} \ {key})
  BY <1>1 DEF Grown
<1>5. PICK A, B, C : A = Since(K, h, t, key) /\ B = OtherKeys(K, h, t, key)
                     /\ C = OtherKeys(K1, h, t + 1, key)
  OBVIOUS
<1>6. IsFiniteSet(A) /\ IsFiniteSet(C) /\ Cardinality(A) \in Nat /\ Cardinality(B) \in Nat
      /\ Cardinality(C) \in Nat /\ h \in Nat
  <2>1. t + 1 \in Nat /\ h \in Nat
    OBVIOUS
  <2>2. IsFiniteSet(C) /\ Cardinality(C) \in Nat
    BY <2>1, <1>5, FiniteSince
  <2>3. IsFiniteSet(A) /\ Cardinality(A) \in Nat /\ Cardinality(B) \in Nat
    BY <2>1, <1>5, FiniteSince
  <2>. QED
    BY <2>1, <2>2, <2>3
<1>7. t + 1 \notin A
  BY <1>5 DEF Since
<1>8. Cardinality(A \cup {t + 1}) = Cardinality(A) + 1
  BY <1>6, <1>7, FS_AddElement
<1>9. Cardinality(B) <= Cardinality(C)
  <2>1. B \in SUBSET C
    BY <1>4, <1>5
  <2>. QED
    BY <1>6, <2>1, FS_Subset
<1>. QED
  BY <1>3, <1>5, <1>6, <1>8, <1>9 DEF Counted

\* What was pushed out stays pushed out.
LEMMA OutStays ==
  ASSUME NEW K, NEW K1, NEW t \in Nat, NEW k, Extends(K, K1, t, k),
         NEW h \in 0..t, NEW key, Out(K, key, h, t)
  PROVE  Out(K1, key, h, t + 1)
<1>1. PICK a, b, a1, b1 : /\ a = Cardinality(Since(K, h, t, key))
                          /\ b = Cardinality(OtherKeys(K, h, t, key))
                          /\ a1 = Cardinality(Since(K1, h, t + 1, key))
                          /\ b1 = Cardinality(OtherKeys(K1, h, t + 1, key))
  OBVIOUS
<1>2. a \in Nat /\ b \in Nat /\ a1 \in Nat /\ b1 \in Nat /\ h \in Nat
  <2>1. t + 1 \in Nat /\ h \in Nat
    OBVIOUS
  <2>2. a \in Nat /\ b \in Nat
    BY <1>1, <2>1, FiniteSince
  <2>3. a1 \in Nat /\ b1 \in Nat
    BY <1>1, <2>1, FiniteSince
  <2>. QED
    BY <2>1, <2>2, <2>3
<1>3. (a1 = a + 1 \/ a1 = a) /\ b1 >= b
  <2>1. /\ Cardinality(Since(K1, h, t + 1, key)) = IF k = key THEN Cardinality(Since(K, h, t, key)) + 1
                                                  ELSE Cardinality(Since(K, h, t, key))
        /\ Cardinality(OtherKeys(K1, h, t + 1, key)) >= Cardinality(OtherKeys(K, h, t, key))
    BY OneMoreCounted DEF Counted
  <2>. QED
    BY <1>1, <2>1
<1>4. a >= MaxNonces \/ b >= MaxRecords
  BY <1>1 DEF Out
<1>5. a1 >= MaxNonces \/ b1 >= MaxRecords
  BY <1>2, <1>3, <1>4, ValidatorAssumption
<1>. QED
  BY <1>1, <1>5 DEF Out

\* A full container has records of as many keys.
LEMMA FullContainer ==
  ASSUME NEW R, IsContainer(R), Len(R) = MaxRecords, NEW D, IsFiniteSet(D),
         \A p \in DOMAIN R : R[p].key \in D
  PROVE  Cardinality(D) >= MaxRecords
<1>. DEFINE I == 1..MaxRecords
            f == [p \in I |-> R[p].key]
<1>1. MaxRecords \in Nat /\ R \in Seq(Record) /\ Keyed(R)
  BY ValidatorAssumption DEF IsContainer
<1>2. DOMAIN R = I
  BY <1>1
<1>3. f \in Injection(I, D)
  BY <1>1, <1>2 DEF Injection, IsInjective, Keyed
<1>4. Cardinality(I) = MaxRecords
  <2>1. 1 \in Int /\ MaxRecords \in Int
    BY <1>1
  <2>2. Cardinality(1..MaxRecords) = IF 1 > MaxRecords THEN 0 ELSE MaxRecords - 1 + 1
    BY <2>1, FS_Interval
  <2>. QED
    BY <1>1, <2>2
<1>5. Cardinality(I) <= Cardinality(D)
  <2>. HIDE DEF I, f
  <2>. QED
    BY <1>3, FS_Injection
<1>6. Cardinality(D) \in Nat
  BY FS_CardinalityType
<1>. QED
  BY <1>1, <1>4, <1>5, <1>6

----------------------------------------------------------------------------
(* What an acknowledgement does to what the records remember *)

\* Another key is acknowledged: the record of h's key stays, with one more key
\* behind it, or it made room and MaxRecords other keys have come since.
LEMMA RecAtOther ==
  ASSUME NEW R, IsContainer(R), NEW R1, IsContainer(R1), NEW x, Moves(R, R1, x),
         NEW K, NEW K1, NEW t \in Nat, Extends(K, K1, t, x.key),
         NEW h \in 1..t, K[h] # x.key, NEW q, RecAt(R, K, h, t, q)
  PROVE  \/ \E r \in DOMAIN R1 : RecAt(R1, K1, h, t + 1, r) /\ R1[r] = R[q]
         \/ /\ Cardinality(OtherKeys(K1, h, t + 1, K1[h])) >= MaxRecords
            /\ ~HasKey(R1, K1[h])
<1>0. PICK k, key : k = x.key /\ key = K[h]
  OBVIOUS
<1>1. K1[h] = key /\ Extends(K, K1, t, k) /\ h \in 0..t /\ h \in Nat /\ k # key
  BY <1>0 DEF Extends
<1>2. PICK D, D1 : D = OtherKeys(K, h, t, key) /\ D1 = OtherKeys(K1, h, t + 1, key)
  OBVIOUS
<1>3. D1 = D \cup {k} /\ key \notin D1
  <2>1. Grown(K, K1, h, t, k, key)
    BY <1>1, OneMore
  <2>2. key \notin D1
    BY <1>2 DEF OtherKeys
  <2>. QED
    BY <1>1, <1>2, <2>1, <2>2 DEF Grown
<1>4. IsFiniteSet(D1)
  <2>1. t + 1 \in Nat
    OBVIOUS
  <2>. QED
    BY <1>1, <1>2, <2>1, FiniteSince
<1>5. /\ q \in DOMAIN R /\ R[q].key = key
      /\ \A p \in DOMAIN R : p > q => R[p].key \in D
  BY <1>0, <1>2 DEF RecAt
<1>6. /\ Len(R1) \in Nat /\ Len(R1) >= 1 /\ R1[Len(R1)].key = k
      /\ DOMAIN R1 = 1..Len(R1) /\ DOMAIN R = 1..Len(R) /\ Len(R) \in Nat
  BY <1>0 DEF Moves, IsContainer
<1>7. Kept(R, R1, q) \/ Dropped(R, R1, q)
  BY <1>0, <1>1, <1>5 DEF Moves
<1>8. ASSUME NEW p \in DOMAIN R1, NEW r, r \in 0..Len(R1), p > r,
             \A i \in (r + 1)..(Len(R1) - 1) : \E j \in (q + 1)..Len(R) : R1[i] = R[j]
      PROVE  R1[p].key \in D1
  <2>1. CASE p = Len(R1)
    BY <2>1, <1>3, <1>6
  <2>2. CASE p # Len(R1)
    <3>1. p \in (r + 1)..(Len(R1) - 1)
      BY <2>2, <1>6, <1>8
    <3>2. PICK j \in (q + 1)..Len(R) : R1[p] = R[j]
      BY <3>1, <1>8
    <3>3. j \in DOMAIN R /\ j > q
      BY <1>5, <1>6
    <3>. QED
      BY <1>3, <1>5, <3>2, <3>3
  <2>. QED
    BY <2>1, <2>2
<1>9. CASE Kept(R, R1, q)
  <2>1. PICK r \in 1..(Len(R1) - 1) :
          /\ R1[r] = R[q]
          /\ \A p \in (r + 1)..(Len(R1) - 1) : \E j \in (q + 1)..Len(R) : R1[p] = R[j]
    BY <1>9 DEF Kept
  <2>2. r \in DOMAIN R1 /\ r \in 0..Len(R1)
    BY <1>6
  <2>3. \A p \in DOMAIN R1 : p > r => R1[p].key \in D1
    BY <1>8, <2>1, <2>2
  <2>4. RecAt(R1, K1, h, t + 1, r)
    BY <1>1, <1>2, <1>5, <2>1, <2>2, <2>3 DEF RecAt
  <2>. QED
    BY <2>1, <2>2, <2>4
<1>10. CASE Dropped(R, R1, q)
  <2>1. /\ Len(R1) = MaxRecords
        /\ \A p \in (0 + 1)..(Len(R1) - 1) : \E j \in (q + 1)..Len(R) : R1[p] = R[j]
    BY <1>10 DEF Dropped
  <2>2. \A p \in DOMAIN R1 : R1[p].key \in D1
    <3>. SUFFICES ASSUME NEW p \in DOMAIN R1 PROVE R1[p].key \in D1
      OBVIOUS
    <3>1. 0 \in 0..Len(R1) /\ p > 0
      BY <1>6
    <3>. QED
      BY <3>1, <2>1, <1>8
  <2>3. Cardinality(D1) >= MaxRecords
    BY <1>4, <2>1, <2>2, FullContainer
  <2>4. ~HasKey(R1, key)
    BY <1>3, <2>2 DEF HasKey
  <2>. QED
    BY <1>1, <1>2, <2>3, <2>4
<1>. QED
  BY <1>7, <1>9, <1>10

\* A nonce of the list is still in it, with one more behind it, or it was the
\* first of a full list and is not in it any more.
LEMMA ListHoldsStep ==
  ASSUME NEW l, NonceList(l), NEW n \in Nonce, NEW o, Extended(l, n, o),
         NEW m, NEW c \in Nat, ListHolds(l, m, c)
  PROVE  ListHolds(o, m, c + 1) \/ (c + 1 >= MaxNonces /\ m \notin Elements(o))
<1>1. PICK pos \in DOMAIN l : l[pos] = m /\ Len(l) - pos <= c
  BY DEF ListHolds
<1>2. /\ l \in Seq(Nonce) /\ Len(l) \in 1..MaxNonces /\ MaxNonces \in Nat /\ Len(l) \in Nat
      /\ DOMAIN l = 1..Len(l) /\ pos \in 1..Len(l)
  BY ValidatorAssumption DEF NonceList
<1>3. CASE n \in Elements(l)
  <2>1. o = l
    BY <1>3 DEF Extended
  <2>2. Len(l) - pos <= c + 1
    BY <1>1, <1>2
  <2>. QED
    BY <1>1, <2>1, <2>2 DEF ListHolds
<1>4. CASE n \notin Elements(l)
  <2>1. PICK w : w = Append(l, n)
    OBVIOUS
  <2>2. /\ w \in Seq(Nonce) /\ Len(w) = Len(l) + 1
        /\ (\A i \in 1..Len(l) : w[i] = l[i]) /\ w[Len(l) + 1] = n
    BY <1>2, <2>1, AppendProperties
  <2>3. CASE Len(l) + 1 > MaxNonces
    <3>1. o = Tail(w) /\ w # <<>> /\ Len(l) = MaxNonces
      <4>0. PICK k : k = Len(l)
        OBVIOUS
      <4>1. Len(w) # 0 /\ Len(l) = MaxNonces
        <5>1. k \in 1..MaxNonces /\ k + 1 > MaxNonces /\ Len(w) = k + 1
          BY <1>2, <2>2, <2>3, <4>0
        <5>2. k + 1 # 0 /\ k = MaxNonces
          BY <1>2, <5>1
        <5>. QED
          BY <4>0, <5>1, <5>2
      <4>. QED
        BY <1>4, <2>1, <2>2, <2>3, <4>1 DEF Extended
    <3>2. /\ o \in Seq(Nonce) /\ Len(o) = Len(w) - 1
          /\ \A i \in 1..Len(o) : o[i] = w[i + 1]
      BY <3>1, <2>2, HeadTailProperties
    <3>3. Len(o) = Len(l) /\ DOMAIN o = 1..Len(l)
      BY <1>2, <2>2, <3>2
    <3>4. CASE pos = 1
      <4>1. c + 1 >= MaxNonces
        BY <1>1, <1>2, <3>1, <3>4
      <4>2. ASSUME NEW i \in DOMAIN o PROVE o[i] # m
        <5>1. i \in 1..Len(l) /\ o[i] = w[i + 1]
          BY <3>2, <3>3
        <5>2. CASE i = Len(l)
          BY <1>1, <1>4, <2>2, <5>1, <5>2 DEF Elements
        <5>3. CASE i # Len(l)
          <6>1. i + 1 \in 1..Len(l) /\ i + 1 # 1
            BY <1>2, <5>1, <5>3
          <6>2. l[i + 1] # l[1]
            BY <1>2, <3>4, <6>1 DEF NonceList
          <6>. QED
            BY <1>1, <2>2, <3>4, <5>1, <6>1, <6>2
        <5>. QED
          BY <5>2, <5>3
      <4>. QED
        BY <4>1, <4>2 DEF Elements
    <3>5. CASE pos # 1
      <4>1. PICK r : r = pos - 1
        OBVIOUS
      <4>2. r \in 1..Len(l) /\ r + 1 = pos /\ Len(o) - r <= c + 1
        BY <1>1, <1>2, <3>3, <3>5, <4>1
      <4>3. o[r] = m
        BY <1>1, <1>2, <2>2, <3>2, <3>3, <4>2
      <4>. QED
        BY <3>3, <4>2, <4>3 DEF ListHolds
    <3>. QED
      BY <3>4, <3>5
  <2>4. CASE ~(Len(l) + 1 > MaxNonces)
    <3>1. o = w
      BY <1>4, <2>1, <2>4 DEF Extended
    <3>2. pos \in DOMAIN w /\ w[pos] = m /\ Len(w) - pos <= c + 1
      BY <1>1, <1>2, <2>2
    <3>. QED
      BY <3>1, <3>2 DEF ListHolds
  <2>. QED
    BY <2>3, <2>4
<1>. QED
  BY <1>3, <1>4

\* A nonce observed for the first time is the last of its list.
LEMMA ListHoldsNew ==
  ASSUME NEW l, NonceList(l), NEW n \in Nonce, n \notin Elements(l), NEW o, Extended(l, n, o)
  PROVE  ListHolds(o, n, 0)
<1>1. PICK w : w = Append(l, n)
  OBVIOUS
<1>2. l \in Seq(Nonce) /\ Len(l) \in 1..MaxNonces /\ MaxNonces \in Nat /\ Len(l) \in Nat
  BY ValidatorAssumption DEF NonceList
<1>3. w \in Seq(Nonce) /\ Len(w) = Len(l) + 1 /\ w[Len(l) + 1] = n
  BY <1>1, <1>2, AppendProperties
<1>4. CASE Len(l) + 1 > MaxNonces
  <2>1. Len(w) # 0
    BY <1>2, <1>3
  <2>2. o = Tail(w) /\ w # <<>>
    BY <1>1, <1>3, <1>4, <2>1 DEF Extended
  <2>3. /\ o \in Seq(Nonce) /\ Len(o) = Len(w) - 1
        /\ \A i \in 1..Len(o) : o[i] = w[i + 1]
    BY <2>2, <1>3, HeadTailProperties
  <2>4. PICK r : r = Len(l)
    OBVIOUS
  <2>5. r \in 1..Len(o) /\ Len(o) - r <= 0 /\ DOMAIN o = 1..Len(o)
    BY <1>2, <1>3, <2>3, <2>4
  <2>6. o[r] = n
    BY <1>3, <2>3, <2>4, <2>5
  <2>. QED
    BY <2>5, <2>6 DEF ListHolds
<1>5. CASE ~(Len(l) + 1 > MaxNonces)
  <2>1. o = w
    BY <1>1, <1>5 DEF Extended
  <2>2. PICK r : r = Len(l) + 1
    OBVIOUS
  <2>3. r \in DOMAIN w /\ w[r] = n /\ Len(w) - r <= 0
    BY <1>2, <1>3, <2>2
  <2>. QED
    BY <2>1, <2>3 DEF ListHolds
<1>. QED
  BY <1>4, <1>5

\* The nonces after one was observed.
LEMMA ExtendedElements ==
  ASSUME NEW l, NonceList(l), NEW n \in Nonce, NEW o, Extended(l, n, o)
  PROVE  n \in Elements(o) /\ \A m \in Elements(o) : m \in Elements(l) \/ m = n
<1>1. CASE n \in Elements(l)
  BY <1>1 DEF Extended
<1>2. CASE n \notin Elements(l)
  <2>1. ListHolds(o, n, 0)
    BY <1>2, ListHoldsNew
  <2>2. n \in Elements(o)
    BY <2>1 DEF ListHolds, Elements
  <2>3. PICK w : w = Append(l, n)
    OBVIOUS
  <2>4. l \in Seq(Nonce) /\ Len(l) \in Nat
    BY DEF NonceList
  <2>5. /\ w \in Seq(Nonce) /\ Len(w) = Len(l) + 1
        /\ (\A i \in 1..Len(l) : w[i] = l[i]) /\ w[Len(l) + 1] = n
    BY <2>3, <2>4, AppendProperties
  <2>6. ASSUME NEW i \in DOMAIN w PROVE w[i] \in Elements(l) \/ w[i] = n
    <3>1. i \in 1..Len(l) \/ i = Len(l) + 1
      BY <2>4, <2>5
    <3>2. i \in 1..Len(l) => i \in DOMAIN l /\ w[i] = l[i]
      BY <2>4, <2>5
    <3>. QED
      BY <3>1, <3>2, <2>5 DEF Elements
  <2>7. CASE Len(l) + 1 > MaxNonces
    <3>1. Len(w) # 0
      BY <2>4, <2>5
    <3>2. o = Tail(w) /\ w # <<>>
      BY <1>2, <2>3, <2>5, <2>7, <3>1 DEF Extended
    <3>3. /\ o \in Seq(Nonce) /\ Len(o) = Len(w) - 1
          /\ \A i \in 1..Len(o) : o[i] = w[i + 1]
      BY <3>2, <2>5, HeadTailProperties
    <3>4. \A i \in DOMAIN o : i + 1 \in DOMAIN w /\ o[i] = w[i + 1]
      BY <2>4, <2>5, <3>3
    <3>. QED
      BY <2>2, <2>6, <3>4 DEF Elements
  <2>8. CASE ~(Len(l) + 1 > MaxNonces)
    <3>1. o = w
      BY <1>2, <2>3, <2>8 DEF Extended
    <3>. QED
      BY <2>2, <2>6, <3>1 DEF Elements
  <2>. QED
    BY <2>7, <2>8
<1>. QED
  BY <1>1, <1>2

\* The record x of nonce n enters the container as acknowledgement t + 1.
AckOn(R, R1, K, K1, t, x, n) ==
  /\ IsContainer(R) /\ IsContainer(R1) /\ Moves(R, R1, x)
  /\ t \in Nat /\ Extends(K, K1, t, x.key)
  /\ n \in Nonce /\ ObservedWith(R, x.key, n, x.nonces)

\* A nonce that is recorded afterwards was recorded before, or is n.
LEMMA RecordedFrom ==
  ASSUME NEW R, NEW R1, NEW K, NEW K1, NEW t, NEW x, NEW n, AckOn(R, R1, K, K1, t, x, n),
         NEW key, NEW m, Recorded(R1, key, m)
  PROVE  Recorded(R, key, m) \/ (key = x.key /\ m = n)
<1>1. PICK q \in DOMAIN R1 : R1[q].key = key /\ m \in Elements(R1[q].nonces)
  BY DEF Recorded
<1>2. Len(R1) \in Nat /\ q \in 1..Len(R1)
  BY DEF AckOn, IsContainer
<1>3. CASE q # Len(R1)
  <2>1. q \in 1..(Len(R1) - 1)
    BY <1>2, <1>3
  <2>2. PICK j \in DOMAIN R : R1[q] = R[j]
    BY <2>1 DEF AckOn, Moves
  <2>. QED
    BY <1>1, <2>2 DEF Recorded
<1>4. CASE q = Len(R1)
  <2>1. R1[q] = x
    BY <1>4 DEF AckOn, Moves
  <2>2. x.key = key /\ m \in Elements(x.nonces)
    BY <1>1, <2>1
  <2>3. CASE ~HasKey(R, x.key)
    <3>1. x.nonces = <<n>>
      BY <2>3 DEF AckOn, ObservedWith
    <3>2. Elements(<<n>>) = {n}
      BY DEF Elements
    <3>. QED
      BY <2>2, <3>1, <3>2
  <2>4. CASE HasKey(R, x.key)
    <3>1. PICK a \in DOMAIN R : R[a].key = x.key
      BY <2>4 DEF HasKey
    <3>2. NonceList(R[a].nonces) /\ Extended(R[a].nonces, n, x.nonces) /\ n \in Nonce
      BY <3>1 DEF AckOn, ObservedWith, IsContainer
    <3>3. PICK l, o : l = R[a].nonces /\ o = x.nonces
      OBVIOUS
    <3>4. \A i \in Elements(o) : i \in Elements(l) \/ i = n
      BY <3>2, <3>3, ExtendedElements
    <3>. QED
      BY <2>2, <3>1, <3>3, <3>4 DEF Recorded
  <2>. QED
    BY <2>3, <2>4
<1>. QED
  BY <1>3, <1>4

\* n is recorded.
LEMMA RecordedNow ==
  ASSUME NEW R, NEW R1, NEW K, NEW K1, NEW t, NEW x, NEW n, AckOn(R, R1, K, K1, t, x, n)
  PROVE  Recorded(R1, x.key, n)
<1>1. Len(R1) \in DOMAIN R1 /\ R1[Len(R1)] = x
  <2>1. Len(R1) \in Nat /\ Len(R1) >= 1 /\ R1[Len(R1)] = x /\ R1 \in Seq(Record)
    BY DEF AckOn, Moves, IsContainer
  <2>. QED
    BY <2>1
<1>2. n \in Elements(x.nonces)
  <2>1. CASE ~HasKey(R, x.key)
    <3>1. x.nonces = <<n>>
      BY <2>1 DEF AckOn, ObservedWith
    <3>2. Elements(<<n>>) = {n}
      BY DEF Elements
    <3>. QED
      BY <3>1, <3>2
  <2>2. CASE HasKey(R, x.key)
    <3>1. PICK a \in DOMAIN R : R[a].key = x.key
      BY <2>2 DEF HasKey
    <3>2. NonceList(R[a].nonces) /\ Extended(R[a].nonces, n, x.nonces) /\ n \in Nonce
      BY <3>1 DEF AckOn, ObservedWith, IsContainer
    <3>. QED
      BY <3>2, ExtendedElements
  <2>. QED
    BY <2>1, <2>2
<1>. QED
  BY <1>1, <1>2 DEF Recorded

\* The record of the key acknowledged is the last one.
LEMMA RecAtLast ==
  ASSUME NEW R, NEW R1, NEW K, NEW K1, NEW t, NEW x, NEW n, AckOn(R, R1, K, K1, t, x, n),
         NEW h, K1[h] = x.key, NEW t1
  PROVE  /\ Len(R1) \in DOMAIN R1 /\ R1[Len(R1)] = x
         /\ RecAt(R1, K1, h, t1, Len(R1))
<1>1. Len(R1) \in Nat /\ Len(R1) >= 1 /\ R1[Len(R1)] = x /\ R1 \in Seq(Record)
  BY DEF AckOn, Moves, IsContainer
<1>2. PICK k : k = Len(R1)
  OBVIOUS
<1>3. k \in 1..k /\ DOMAIN R1 = 1..k /\ \A p \in 1..k : ~(p > k)
  BY <1>1, <1>2
<1>. QED
  BY <1>1, <1>2, <1>3 DEF RecAt

\* A nonce recorded with the acknowledgement at h is still recorded, or it was
\* pushed out and is not recorded any more.
LEMMA HoldsStep ==
  ASSUME NEW R, NEW R1, NEW K, NEW K1, NEW t, NEW x, NEW n, AckOn(R, R1, K, K1, t, x, n),
         NEW h \in 1..t, NEW m, Holds(R, K, h, t, m)
  PROVE  \/ Holds(R1, K1, h, t + 1, m)
         \/ Out(K1, K1[h], h, t + 1) /\ ~Recorded(R1, K1[h], m)
<1>0. PICK k, key : k = x.key /\ key = K[h]
  OBVIOUS
<1>1. /\ t \in Nat /\ t + 1 \in Nat /\ Extends(K, K1, t, k) /\ K1[h] = key /\ h \in 0..t /\ h \in Nat
      /\ IsContainer(R) /\ IsContainer(R1) /\ Moves(R, R1, x)
  BY <1>0 DEF AckOn, Extends
<1>2. PICK c, c1 : c = Cardinality(Since(K, h, t, key)) /\ c1 = Cardinality(Since(K1, h, t + 1, key))
  OBVIOUS
<1>3. c \in Nat
  BY <1>1, <1>2, FiniteSince
<1>4. c1 = IF k = key THEN c + 1 ELSE c
  <2>1. Counted(K, K1, h, t, k, key)
    BY <1>1, OneMoreCounted
  <2>. QED
    BY <1>2, <2>1 DEF Counted
<1>5. PICK q \in DOMAIN R : RecAt(R, K, h, t, q) /\ ListHolds(R[q].nonces, m, c)
  BY <1>0, <1>2 DEF Holds
<1>6. CASE k # key
  <2>1. \/ \E r \in DOMAIN R1 : RecAt(R1, K1, h, t + 1, r) /\ R1[r] = R[q]
        \/ /\ Cardinality(OtherKeys(K1, h, t + 1, K1[h])) >= MaxRecords
           /\ ~HasKey(R1, K1[h])
    BY <1>0, <1>1, <1>5, <1>6, RecAtOther
  <2>2. ASSUME NEW r \in DOMAIN R1, RecAt(R1, K1, h, t + 1, r), R1[r] = R[q]
        PROVE  Holds(R1, K1, h, t + 1, m)
    <3>1. ListHolds(R1[r].nonces, m, c1)
      BY <1>4, <1>5, <1>6, <2>2
    <3>. QED
      BY <1>1, <1>2, <2>2, <3>1 DEF Holds
  <2>. QED
    BY <2>1, <2>2 DEF Out, HasKey, Recorded
<1>7. CASE k = key
  <2>1. R[q].key = x.key
    BY <1>0, <1>5, <1>7 DEF RecAt
  <2>2. PICK l, o : l = R[q].nonces /\ o = x.nonces
    OBVIOUS
  <2>3. NonceList(l) /\ Extended(l, n, o) /\ n \in Nonce /\ ListHolds(l, m, c)
    BY <1>5, <2>1, <2>2 DEF AckOn, ObservedWith, IsContainer
  <2>4. ListHolds(o, m, c + 1) \/ (c + 1 >= MaxNonces /\ m \notin Elements(o))
    BY <1>3, <2>3, ListHoldsStep
  <2>5. PICK r, t1 : r = Len(R1) /\ t1 = t + 1
    OBVIOUS
  <2>6. r \in DOMAIN R1 /\ R1[r] = x /\ RecAt(R1, K1, h, t1, r)
    <3>1. K1[h] = x.key
      BY <1>0, <1>1, <1>7
    <3>2. Len(R1) \in DOMAIN R1 /\ R1[Len(R1)] = x /\ RecAt(R1, K1, h, t1, Len(R1))
      BY <3>1, RecAtLast
    <3>. QED
      BY <2>5, <3>2
  <2>7. CASE ListHolds(o, m, c + 1)
    BY <1>1, <1>2, <1>4, <1>7, <2>2, <2>5, <2>6, <2>7 DEF Holds
  <2>8. CASE c + 1 >= MaxNonces /\ m \notin Elements(o)
    <3>1. Out(K1, key, h, t + 1)
      BY <1>2, <1>4, <1>7, <2>8 DEF Out
    <3>2. \A i \in DOMAIN R1 : R1[i].key = key => i = r
      BY <1>0, <1>1, <1>7, <2>6 DEF IsContainer, Keyed
    <3>3. ~Recorded(R1, key, m)
      BY <2>2, <2>6, <2>8, <3>2 DEF Recorded
    <3>. QED
      BY <1>1, <3>1, <3>3
  <2>. QED
    BY <2>4, <2>7, <2>8
<1>. QED
  BY <1>6, <1>7

\* A nonce recorded for the first time.
LEMMA HoldsNew ==
  ASSUME NEW R, NEW R1, NEW K, NEW K1, NEW t, NEW x, NEW n, AckOn(R, R1, K, K1, t, x, n),
         ~Recorded(R, x.key, n)
  PROVE  Holds(R1, K1, t + 1, t + 1, n)
<1>1. PICK r, t1 : r = Len(R1) /\ t1 = t + 1
  OBVIOUS
<1>2. K1[t1] = x.key /\ t1 \in Nat /\ t \in Nat
  BY <1>1 DEF AckOn, Extends
<1>3. r \in DOMAIN R1 /\ R1[r] = x /\ RecAt(R1, K1, t1, t1, r)
  BY <1>1, <1>2, RecAtLast
<1>4. Cardinality(Since(K1, t1, t1, K1[t1])) = 0
  <2>1. Since(K1, t1, t1, K1[t1]) = {}
    BY <1>2 DEF Since
  <2>. QED
    BY <2>1, FS_EmptySet
<1>5. ListHolds(x.nonces, n, 0)
  <2>1. CASE ~HasKey(R, x.key)
    <3>1. x.nonces = <<n>>
      BY <2>1 DEF AckOn, ObservedWith
    <3>2. 1 \in DOMAIN <<n>> /\ <<n>>[1] = n /\ Len(<<n>>) = 1
      OBVIOUS
    <3>3. ListHolds(<<n>>, n, 0)
      BY <3>2 DEF ListHolds
    <3>. QED
      BY <3>1, <3>3
  <2>2. CASE HasKey(R, x.key)
    <3>1. PICK a \in DOMAIN R : R[a].key = x.key
      BY <2>2 DEF HasKey
    <3>2. PICK l, o : l = R[a].nonces /\ o = x.nonces
      OBVIOUS
    <3>3. NonceList(l) /\ Extended(l, n, o) /\ n \in Nonce
      BY <3>1, <3>2 DEF AckOn, ObservedWith, IsContainer
    <3>4. n \notin Elements(l)
      BY <3>1, <3>2 DEF Recorded
    <3>. QED
      BY <3>2, <3>3, <3>4, ListHoldsNew
  <2>. QED
    BY <2>1, <2>2
<1>. QED
  BY <1>1, <1>3, <1>4, <1>5 DEF Holds

----------------------------------------------------------------------------
(* The history *)

\* The acknowledgement at i of nonce m was recorded by one at h, and that record
\* is still there or was pushed out.
Remembered(R, K, L, i) ==
  \E h \in (L[i].began + 1)..i :
    /\ L[h].nonce = L[i].nonce
    /\ Holds(R, K, h, Len(L), L[i].nonce) \/ Out(K, K[h], h, Len(L))

\* The record of a key is about its last acknowledgement.
LastRecorded(R, K, W, t, i) ==
  \/ Since(K, i, t, K[i]) # {}
  \/ \E q \in DOMAIN R : RecAt(R, K, i, t, q) /\ R[q].time = W[i]
  \/ Cardinality(OtherKeys(K, i, t, K[i])) >= MaxRecords

\* If the nonce is recorded, an acknowledgement after place b recorded it.
RecordedSince(R, K, L, key, m, b) ==
  Recorded(R, key, m) =>
    \E h \in (b + 1)..Len(L) : L[h].nonce = m /\ Holds(R, K, h, Len(L), m)

\* What the checks at place b of the log established for a Request.
OnceAt(K, L, key, m, b) ==
  \A i \in 1..b : L[i].nonce = m =>
    \E h \in (L[i].began + 1)..i : L[h].nonce = m /\ Out(K, key, h, b)

NewerAt(K, W, key, time, b) ==
  \A i \in 1..b : K[i] = key =>
    W[i] < time \/ Since(K, i, b, key) # {} \/ Out(K, key, i, b)

\* The log L1 is L with the Ack of n; the keys are those of the Requests S.
LogOn(L, L1, K, S, n, b) ==
  /\ Len(L) \in Nat /\ Len(L1) = Len(L) + 1 /\ b \in 0..Len(L)
  /\ \A i \in 1..Len(L) : /\ L1[i] = L[i] /\ K[i] = S[L[i].nonce].from
                          /\ L[i].began \in Nat /\ L[i].began < i
  /\ L1[Len(L) + 1].nonce = n /\ L1[Len(L) + 1].began = b

\* An acknowledgement leaves an earlier one remembered.
LEMMA RememberedStep ==
  ASSUME NEW R, NEW R1, NEW K, NEW K1, NEW L, NEW L1, NEW S, NEW x, NEW n, NEW b,
         AckOn(R, R1, K, K1, Len(L), x, n), LogOn(L, L1, K, S, n, b),
         NEW i \in 1..Len(L), Remembered(R, K, L, i)
  PROVE  Remembered(R1, K1, L1, i)
<1>0. PICK t : t = Len(L)
  OBVIOUS
<1>1. /\ t \in Nat /\ Len(L1) = t + 1 /\ L1[i] = L[i] /\ L[i].began \in Nat /\ i \in 1..t
      /\ AckOn(R, R1, K, K1, t, x, n) /\ Extends(K, K1, t, x.key)
  BY <1>0 DEF LogOn, AckOn
<1>2. PICK h \in (L[i].began + 1)..i :
        /\ L[h].nonce = L[i].nonce
        /\ Holds(R, K, h, t, L[i].nonce) \/ Out(K, K[h], h, t)
  BY <1>0 DEF Remembered
<1>3. h \in 1..t /\ h \in 0..t
  BY <1>1
<1>4. L1[h] = L[h] /\ K1[h] = K[h]
  BY <1>0, <1>1, <1>3 DEF LogOn, Extends
<1>5. PICK m, key : m = L[i].nonce /\ key = K[h]
  OBVIOUS
<1>6. Holds(R1, K1, h, t + 1, m) \/ Out(K1, key, h, t + 1)
  <2>1. CASE Holds(R, K, h, t, m)
    <3>1. \/ Holds(R1, K1, h, t + 1, m)
          \/ Out(K1, K1[h], h, t + 1) /\ ~Recorded(R1, K1[h], m)
      BY <1>1, <1>3, <2>1, HoldsStep
    <3>. QED
      BY <1>4, <1>5, <3>1
  <2>2. CASE Out(K, key, h, t)
    <3>1. PICK k : k = x.key
      OBVIOUS
    <3>2. Extends(K, K1, t, k)
      BY <1>1, <3>1
    <3>. QED
      BY <1>1, <1>3, <2>2, <3>2, OutStays
  <2>. QED
    BY <1>2, <1>5, <2>1, <2>2
<1>. QED
  BY <1>1, <1>2, <1>4, <1>5, <1>6 DEF Remembered

\* An acknowledgement leaves what is known of a nonce that is being validated.
LEMMA RecordedSinceStep ==
  ASSUME NEW R, NEW R1, NEW K, NEW K1, NEW L, NEW L1, NEW S, NEW x, NEW n, NEW b,
         AckOn(R, R1, K, K1, Len(L), x, n), LogOn(L, L1, K, S, n, b),
         NEW m, NEW key, key = S[m].from, NEW c \in 0..Len(L), RecordedSince(R, K, L, key, m, c)
  PROVE  RecordedSince(R1, K1, L1, key, m, c)
<1>0. PICK t : t = Len(L)
  OBVIOUS
<1>1. /\ t \in Nat /\ Len(L1) = t + 1 /\ c \in 0..t
      /\ AckOn(R, R1, K, K1, t, x, n) /\ Extends(K, K1, t, x.key)
  BY <1>0 DEF LogOn, AckOn
<1>. SUFFICES ASSUME Recorded(R1, key, m)
              PROVE  \E h \in (c + 1)..(t + 1) : L1[h].nonce = m /\ Holds(R1, K1, h, t + 1, m)
  BY <1>1 DEF RecordedSince
<1>2. Recorded(R, key, m) \/ (key = x.key /\ m = n)
  BY <1>1, RecordedFrom
<1>3. CASE Recorded(R, key, m)
  <2>1. PICK h \in (c + 1)..t : L[h].nonce = m /\ Holds(R, K, h, t, m)
    BY <1>0, <1>3 DEF RecordedSince
  <2>2. h \in 1..t /\ h \in (c + 1)..(t + 1)
    BY <1>1
  <2>3. L1[h] = L[h] /\ K1[h] = K[h] /\ K[h] = S[L[h].nonce].from
    BY <1>0, <1>1, <2>2 DEF LogOn, Extends
  <2>4. \/ Holds(R1, K1, h, t + 1, m)
        \/ Out(K1, K1[h], h, t + 1) /\ ~Recorded(R1, K1[h], m)
    BY <1>1, <2>1, <2>2, HoldsStep
  <2>5. Holds(R1, K1, h, t + 1, m)
    BY <2>1, <2>3, <2>4
  <2>. QED
    BY <2>1, <2>2, <2>3, <2>5
<1>4. CASE ~Recorded(R, key, m)
  <2>1. key = x.key /\ m = n /\ ~Recorded(R, x.key, n)
    BY <1>2, <1>4
  <2>2. Holds(R1, K1, t + 1, t + 1, n)
    BY <1>1, <2>1, HoldsNew
  <2>3. t + 1 \in (c + 1)..(t + 1) /\ L1[t + 1].nonce = n
    BY <1>0, <1>1 DEF LogOn
  <2>. QED
    BY <2>1, <2>2, <2>3
<1>. QED
  BY <1>3, <1>4

\* The acknowledgement itself.
LEMMA RememberedNew ==
  ASSUME NEW R, NEW R1, NEW K, NEW K1, NEW L, NEW L1, NEW S, NEW x, NEW n, NEW b,
         AckOn(R, R1, K, K1, Len(L), x, n), LogOn(L, L1, K, S, n, b),
         x.key = S[n].from, RecordedSince(R, K, L, x.key, n, b)
  PROVE  Remembered(R1, K1, L1, Len(L) + 1)
<1>0. PICK t, key : t = Len(L) /\ key = x.key
  OBVIOUS
<1>1. /\ t \in Nat /\ Len(L1) = t + 1 /\ b \in 0..Len(L) /\ L1[t + 1].nonce = n /\ L1[t + 1].began = b
  BY <1>0 DEF LogOn
<1>2. key = S[n].from /\ RecordedSince(R, K, L, key, n, b)
  BY <1>0
<1>3. RecordedSince(R1, K1, L1, key, n, b)
  BY <1>1, <1>2, RecordedSinceStep
<1>4. Recorded(R1, key, n)
  BY <1>0, RecordedNow
<1>5. PICK h \in (b + 1)..Len(L1) : L1[h].nonce = n /\ Holds(R1, K1, h, Len(L1), n)
  BY <1>3, <1>4 DEF RecordedSince
<1>. QED
  BY <1>0, <1>1, <1>5 DEF Remembered

\* Afterwards the record of each key is again about its last acknowledgement.
LEMMA LastRecordedStep ==
  ASSUME NEW R, NEW R1, NEW K, NEW K1, NEW W, NEW W1, NEW t, NEW x, NEW n,
         AckOn(R, R1, K, K1, t, x, n), Extends(W, W1, t, x.time),
         NEW i \in 1..(t + 1), i # t + 1 => LastRecorded(R, K, W, t, i)
  PROVE  LastRecorded(R1, K1, W1, t + 1, i)
<1>0. t \in Nat /\ t + 1 \in Nat /\ Extends(K, K1, t, x.key) /\ Moves(R, R1, x)
      /\ IsContainer(R) /\ IsContainer(R1)
  BY DEF AckOn
<1>1. CASE i = t + 1
  <2>1. K1[i] = x.key /\ W1[i] = x.time
    BY <1>0, <1>1 DEF Extends
  <2>2. PICK t1 : t1 = t + 1
    OBVIOUS
  <2>3. Len(R1) \in DOMAIN R1 /\ R1[Len(R1)] = x /\ RecAt(R1, K1, i, t1, Len(R1))
    BY <2>1, RecAtLast
  <2>. QED
    BY <2>1, <2>2, <2>3 DEF LastRecorded
<1>2. CASE i # t + 1
  <2>0. PICK k, key : k = x.key /\ key = K[i]
    OBVIOUS
  <2>1. i \in 1..t /\ i \in 0..t /\ i \in Nat
    BY <1>0, <1>2
  <2>2. K1[i] = key /\ W1[i] = W[i] /\ Extends(K, K1, t, k)
    BY <1>0, <2>0, <2>1 DEF Extends
  <2>3. Grown(K, K1, i, t, k, key)
    BY <1>0, <2>1, <2>2, OneMore
  <2>4. CASE Since(K, i, t, key) # {} \/ k = key
    <3>1. Since(K1, i, t + 1, key) # {}
      BY <2>3, <2>4 DEF Grown
    <3>. QED
      BY <2>2, <3>1 DEF LastRecorded
  <2>5. CASE Cardinality(OtherKeys(K, i, t, key)) >= MaxRecords
    <3>1. PICK a, a1 : a = Cardinality(OtherKeys(K, i, t, key))
                       /\ a1 = Cardinality(OtherKeys(K1, i, t + 1, key))
      OBVIOUS
    <3>2. a \in Nat
      BY <1>0, <2>1, <3>1, FiniteSince
    <3>3. a1 \in Nat
      BY <1>0, <2>1, <3>1, FiniteSince
    <3>4. Counted(K, K1, i, t, k, key)
      BY <1>0, <2>1, <2>2, OneMoreCounted
    <3>5. a1 >= a /\ a >= MaxRecords
      BY <2>5, <3>1, <3>4 DEF Counted
    <3>6. a1 >= MaxRecords
      BY <3>2, <3>3, <3>5, ValidatorAssumption
    <3>. QED
      BY <2>2, <3>1, <3>6 DEF LastRecorded
  <2>6. ASSUME NEW q, RecAt(R, K, i, t, q), R[q].time = W[i], k # key
        PROVE  LastRecorded(R1, K1, W1, t + 1, i)
    <3>1. \/ \E r \in DOMAIN R1 : RecAt(R1, K1, i, t + 1, r) /\ R1[r] = R[q]
          \/ /\ Cardinality(OtherKeys(K1, i, t + 1, K1[i])) >= MaxRecords
             /\ ~HasKey(R1, K1[i])
      BY <1>0, <2>0, <2>1, <2>6, RecAtOther
    <3>. QED
      BY <2>2, <2>6, <3>1 DEF LastRecorded
  <2>. QED
    BY <1>2, <2>0, <2>4, <2>5, <2>6 DEF LastRecorded
<1>. QED
  BY <1>1, <1>2

\* What was established at place b of the log does not change with a longer one.
LEMMA OnceStays ==
  ASSUME NEW K, NEW K1, NEW k, NEW L, NEW L1, NEW S, NEW n, NEW b,
         LogOn(L, L1, K, S, n, b), Extends(K, K1, Len(L), k),
         NEW key, NEW m, NEW c \in 0..Len(L), OnceAt(K, L, key, m, c)
  PROVE  OnceAt(K1, L1, key, m, c)
<1>0. PICK t : t = Len(L)
  OBVIOUS
<1>1. t \in Nat /\ c \in 0..t /\ Extends(K, K1, t, k)
      /\ \A i \in 1..t : L1[i] = L[i] /\ L[i].began \in Nat
  BY <1>0 DEF LogOn
<1>. SUFFICES ASSUME NEW i \in 1..c, L1[i].nonce = m
              PROVE  \E h \in (L1[i].began + 1)..i : L1[h].nonce = m /\ Out(K1, key, h, c)
  BY DEF OnceAt
<1>2. i \in 1..t /\ L1[i] = L[i] /\ L[i].began \in Nat
  BY <1>1
<1>3. PICK h \in (L[i].began + 1)..i : L[h].nonce = m /\ Out(K, key, h, c)
  BY <1>2 DEF OnceAt
<1>4. h \in 1..t /\ h \in Nat
  BY <1>1, <1>2
<1>5. Out(K1, key, h, c)
  BY <1>1, <1>3, <1>4, SameUpTo
<1>. QED
  BY <1>1, <1>2, <1>3, <1>4, <1>5

\* The same, of the timestamps.
LEMMA NewerStays ==
  ASSUME NEW K, NEW K1, NEW k, NEW W, NEW W1, NEW w, NEW t \in Nat,
         Extends(K, K1, t, k), Extends(W, W1, t, w),
         NEW key, NEW time, NEW c \in 0..t, NewerAt(K, W, key, time, c)
  PROVE  NewerAt(K1, W1, key, time, c)
<1>. SUFFICES ASSUME NEW i \in 1..c, K1[i] = key
              PROVE  W1[i] < time \/ Since(K1, i, c, key) # {} \/ Out(K1, key, i, c)
  BY DEF NewerAt
<1>1. i \in 1..t /\ i \in Nat
  OBVIOUS
<1>2. K1[i] = K[i] /\ W1[i] = W[i]
  BY <1>1 DEF Extends
<1>3. W[i] < time \/ Since(K, i, c, key) # {} \/ Out(K, key, i, c)
  BY <1>2 DEF NewerAt
<1>4. Since(K1, i, c, key) = Since(K, i, c, key) /\ (Out(K1, key, i, c) <=> Out(K, key, i, c))
  BY <1>1, SameUpTo
<1>. QED
  BY <1>2, <1>3, <1>4

\* A nonce that is not recorded was pushed out, wherever it was acknowledged.
LEMMA OnceChecked ==
  ASSUME NEW R, NEW K, NEW L, NEW S, NEW n,
         Len(L) \in Nat,
         \A i \in 1..Len(L) : /\ K[i] = S[L[i].nonce].from /\ L[i].began \in Nat
                              /\ Remembered(R, K, L, i),
         ~Recorded(R, S[n].from, n)
  PROVE  OnceAt(K, L, S[n].from, n, Len(L))
<1>0. PICK t, key : t = Len(L) /\ key = S[n].from
  OBVIOUS
<1>. SUFFICES ASSUME NEW i \in 1..t, L[i].nonce = n
              PROVE  \E h \in (L[i].began + 1)..i : L[h].nonce = n /\ Out(K, key, h, t)
  BY <1>0 DEF OnceAt
<1>1. t \in Nat /\ L[i].began \in Nat /\ Remembered(R, K, L, i)
  BY <1>0
<1>2. PICK h \in (L[i].began + 1)..i :
        L[h].nonce = n /\ (Holds(R, K, h, t, n) \/ Out(K, K[h], h, t))
  BY <1>0, <1>1 DEF Remembered
<1>3. h \in 1..t
  BY <1>1
<1>4. K[h] = key
  BY <1>0, <1>2, <1>3
<1>5. ~Holds(R, K, h, t, n)
  <2>. SUFFICES ASSUME Holds(R, K, h, t, n) PROVE FALSE
    OBVIOUS
  <2>1. PICK q \in DOMAIN R : R[q].key = K[h] /\ \E pos \in DOMAIN R[q].nonces : R[q].nonces[pos] = n
    BY DEF Holds, RecAt, ListHolds
  <2>. QED
    BY <1>0, <1>4, <2>1 DEF Recorded, Elements
<1>. QED
  BY <1>2, <1>4, <1>5

\* A timestamp above the recorded one is above the last one acknowledged.
LEMMA NewerChecked ==
  ASSUME NEW R, NEW K, NEW W, NEW t \in Nat, NEW key, NEW time,
         \A i \in 1..t : LastRecorded(R, K, W, t, i),
         \A q \in DOMAIN R : R[q].key = key => time > R[q].time
  PROVE  NewerAt(K, W, key, time, t)
<1>. SUFFICES ASSUME NEW i \in 1..t, K[i] = key
              PROVE  W[i] < time \/ Since(K, i, t, key) # {} \/ Out(K, key, i, t)
  BY DEF NewerAt
<1>1. LastRecorded(R, K, W, t, i)
  OBVIOUS
<1>2. ASSUME NEW q \in DOMAIN R, RecAt(R, K, i, t, q), R[q].time = W[i] PROVE W[i] < time
  <2>1. R[q].key = key
    BY <1>2 DEF RecAt
  <2>. QED
    BY <1>2, <2>1
<1>. QED
  BY <1>1, <1>2 DEF LastRecorded, Out

\* Request r, with nonce n, arrived at place b and passed the checks.
PassedAt(K, W, L, r, n, b) == OnceAt(K, L, r.from, n, b) /\ NewerAt(K, W, r.from, r.time, b)

AckHistory(R, K, W, L, S, i) ==
  /\ Remembered(R, K, L, i) /\ LastRecorded(R, K, W, Len(L), i)
  /\ PassedAt(K, W, L, S[L[i].nonce], L[i].nonce, L[i].began)

ValidationHistory(R, K, W, L, r, n, b) ==
  RecordedSince(R, K, L, r.from, n, b) /\ PassedAt(K, W, L, r, n, b)

\* Keys and timestamps of the log.
Keys == [i \in DOMAIN log |-> KeyOf(i)]
Times == [i \in DOMAIN log |-> sent[log[i].nonce].time]

\* The records, the log and the validations tell one story.
History ==
  /\ \A i \in DOMAIN log : AckHistory(records, Keys, Times, log, sent, i)
  /\ \A s \in DOMAIN validating :
       ValidationHistory(records, Keys, Times, log, sent[validating[s].nonce],
                         validating[s].nonce, validating[s].began)

\* A step that records nothing.
LEMMA HistoryQuiet ==
  ASSUME TableInv, History, Quiet
  PROVE  History'
<1>1. records' = records /\ log' = log
      /\ (\A n \in DOMAIN sent : sent'[n] = sent[n]) /\ Carried(validating', validating)
  BY DEF Quiet, Longer
<1>2. (\A i \in DOMAIN log : log[i].nonce \in DOMAIN sent)
      /\ \A s \in DOMAIN validating : validating[s].nonce \in DOMAIN sent
  BY DEF TableInv, IsLog, IsAck, AreValidations, IsValidation
<1>3. Keys' = Keys /\ Times' = Times
  BY <1>1, <1>2 DEF Keys, Times, KeyOf
<1>4. \A i \in DOMAIN log : AckHistory(records, Keys, Times, log, sent', i)
  BY <1>1, <1>2 DEF History, AckHistory
<1>5. ASSUME NEW s \in DOMAIN validating'
      PROVE  ValidationHistory(records, Keys, Times, log, sent'[validating'[s].nonce],
                               validating'[s].nonce, validating'[s].began)
  <2>1. /\ s \in DOMAIN validating /\ validating'[s].nonce = validating[s].nonce
        /\ validating'[s].began = validating[s].began
    BY <1>1, <1>5 DEF Carried, CarriedOn
  <2>2. sent'[validating'[s].nonce] = sent[validating[s].nonce]
    BY <1>1, <1>2, <2>1
  <2>. QED
    BY <2>1, <2>2 DEF History
<1>. QED
  BY <1>1, <1>3, <1>4, <1>5 DEF History

\* Facts of the log for the lemmas above.
LEMMA LogFacts ==
  ASSUME TableInv
  PROVE  /\ log \in Seq(Ack) /\ Len(log) \in Nat /\ DOMAIN log = 1..Len(log)
         /\ \A i \in 1..Len(log) : /\ Keys[i] = sent[log[i].nonce].from
                                   /\ Times[i] = sent[log[i].nonce].time
                                   /\ log[i].began \in Nat /\ log[i].began < i
                                   /\ log[i].nonce \in DOMAIN sent
<1>1. log \in Seq(Ack) /\ \A i \in DOMAIN log : IsAck(log[i], sent, i)
  BY DEF TableInv, IsLog
<1>2. Len(log) \in Nat /\ DOMAIN log = 1..Len(log)
  BY <1>1
<1>3. \A i \in 1..Len(log) : log[i].began \in Nat /\ log[i].began < i /\ log[i].nonce \in DOMAIN sent
  BY <1>1, <1>2 DEF IsAck, Ack
<1>4. \A i \in 1..Len(log) : Keys[i] = sent[log[i].nonce].from /\ Times[i] = sent[log[i].nonce].time
  BY <1>2 DEF Keys, Times, KeyOf
<1>. QED
  BY <1>1, <1>2, <1>3, <1>4

\* checkIncomingInterest establishes what is said of a Request that passed.
LEMMA CheckedPasses ==
  ASSUME TableInv, History, NEW n \in DOMAIN sent, CheckIncomingInterest(n)
  PROVE  ValidationHistory(records, Keys, Times, log, sent[n], n, Len(log))
<1>1. \A q \in DOMAIN records : records[q].key = sent[n].from =>
        sent[n].time > records[q].time /\ n \notin Elements(records[q].nonces)
  BY DEF CheckIncomingInterest, RecordsOf, Elements, Newer
<1>2. PICK R, K, W, L, S : R = records /\ K = Keys /\ W = Times /\ L = log /\ S = sent
  OBVIOUS
<1>3. ~Recorded(R, S[n].from, n)
  BY <1>1, <1>2 DEF Recorded
<1>4. /\ Len(L) \in Nat
      /\ \A i \in 1..Len(L) : /\ K[i] = S[L[i].nonce].from /\ L[i].began \in Nat
                              /\ Remembered(R, K, L, i)
  BY <1>2, LogFacts DEF History, AckHistory
<1>5. OnceAt(K, L, S[n].from, n, Len(L))
  BY <1>3, <1>4, OnceChecked
<1>6. NewerAt(K, W, S[n].from, S[n].time, Len(L))
  <2>1. PICK t, key, time : t = Len(L) /\ key = S[n].from /\ time = S[n].time
    OBVIOUS
  <2>2. t \in Nat /\ \A i \in 1..t : LastRecorded(R, K, W, t, i)
    BY <1>2, <2>1, LogFacts DEF History, AckHistory
  <2>3. \A q \in DOMAIN R : R[q].key = key => time > R[q].time
    BY <1>1, <1>2, <2>1
  <2>4. NewerAt(K, W, key, time, t)
    BY <2>2, <2>3, NewerChecked
  <2>. QED
    BY <2>1, <2>4
<1>7. RecordedSince(R, K, L, S[n].from, n, Len(L))
  BY <1>3 DEF RecordedSince
<1>. QED
  BY <1>2, <1>5, <1>6, <1>7 DEF ValidationHistory, PassedAt

\* A step that begins a validation.
LEMMA HistoryArrives ==
  ASSUME TableInv, History, NEW n \in DOMAIN sent, Arrives(n)
  PROVE  History'
<1>1. records' = records /\ log' = log /\ sent' = sent
  BY DEF Arrives
<1>2. Keys' = Keys /\ Times' = Times
  BY <1>1 DEF Keys, Times, KeyOf
<1>3. ValidationHistory(records, Keys, Times, log, sent[n], n, Len(log))
  BY CheckedPasses DEF Arrives
<1>4. ASSUME NEW s \in DOMAIN validating'
      PROVE  ValidationHistory(records, Keys, Times, log, sent[validating'[s].nonce],
                               validating'[s].nonce, validating'[s].began)
  <2>1. CASE CarriedOn(validating', validating, s)
    BY <2>1 DEF CarriedOn, History
  <2>2. CASE validating'[s].nonce = n /\ validating'[s].began = Len(log)
    BY <1>3, <2>2
  <2>. QED
    BY <2>1, <2>2 DEF Arrives
<1>. QED
  BY <1>1, <1>2, <1>4 DEF History

\* An acknowledgement, in the terms of the lemmas above.
LEMMA AnswersIs ==
  ASSUME TableInv, NEW n \in DOMAIN sent, NEW b \in 0..Len(log), Acked(n, b), sent' = sent
  PROVE  /\ AckOn(records, records', Keys, Keys', Len(log), RecordOf(n), n)
         /\ LogOn(log, log', Keys, sent, n, b)
         /\ Extends(Times, Times', Len(log), sent[n].time)
<1>1. /\ Inserted(records, records', RecordOf(n)) /\ log' = Append(log, AckOf(n, b))
      /\ IsContainer(records') /\ IsContainer(records)
  BY DEF Acked, TableInv
<1>2. /\ log \in Seq(Ack) /\ Len(log) \in Nat /\ DOMAIN log = 1..Len(log)
      /\ \A i \in 1..Len(log) : /\ Keys[i] = sent[log[i].nonce].from
                                /\ Times[i] = sent[log[i].nonce].time
                                /\ log[i].began \in Nat /\ log[i].began < i
                                /\ log[i].nonce \in DOMAIN sent
  BY LogFacts
<1>3. /\ n \in Nonce /\ RecordOf(n) \in Record
      /\ ObservedWith(records, sent[n].from, n, Observed(n))
  BY RecordOfType
<1>4. RecordOf(n).key = sent[n].from /\ RecordOf(n).nonces = Observed(n)
  BY DEF RecordOf
<1>5. Moves(records, records', RecordOf(n))
  <2>1. PICK R, R1, x : R = records /\ R1 = records' /\ x = RecordOf(n)
    OBVIOUS
  <2>2. IsContainer(R) /\ x \in Record /\ Inserted(R, R1, x)
    BY <1>1, <1>3, <2>1
  <2>3. Moves(R, R1, x)
    BY <2>2, InsertedMoves
  <2>. QED
    BY <2>1, <2>3
<1>6. PICK t, a : t = Len(log) /\ a = AckOf(n, b)
  OBVIOUS
<1>7. a \in Ack /\ a.nonce = n /\ a.began = b
  <2>1. b \in Nat /\ t + 1 \in Nat /\ b < t + 1
    BY <1>2, <1>6
  <2>2. IsAck(AckOf(n, b), sent, t + 1)
    BY <2>1, AckOfType
  <2>. QED
    BY <1>6, <2>2 DEF IsAck, AckOf
<1>8. /\ log' \in Seq(Ack) /\ Len(log') = t + 1
      /\ (\A i \in 1..t : log'[i] = log[i]) /\ log'[t + 1] = a
  <2>1. PICK L1 : L1 = Append(log, a)
    OBVIOUS
  <2>2. L1 \in Seq(Ack) /\ Len(L1) = t + 1 /\ (\A i \in 1..t : L1[i] = log[i]) /\ L1[t + 1] = a
    BY <1>2, <1>6, <1>7, <2>1, AppendProperties
  <2>. QED
    BY <1>1, <1>6, <2>1, <2>2
<1>9. DOMAIN log' = 1..(t + 1) /\ t \in Nat
  BY <1>2, <1>6, <1>8
<1>10. \A i \in 1..(t + 1) : Keys'[i] = sent[log'[i].nonce].from /\ Times'[i] = sent[log'[i].nonce].time
  BY <1>9 DEF Keys, Times, KeyOf
<1>11. t + 1 \in 1..(t + 1) /\ \A i \in 1..t : i \in 1..(t + 1)
  BY <1>9
<1>12. Extends(Keys, Keys', t, sent[n].from)
  BY <1>2, <1>6, <1>7, <1>8, <1>10, <1>11 DEF Extends
<1>13. Extends(Times, Times', t, sent[n].time)
  BY <1>2, <1>6, <1>7, <1>8, <1>10, <1>11 DEF Extends
<1>14. LogOn(log, log', Keys, sent, n, b)
  BY <1>2, <1>6, <1>7, <1>8 DEF LogOn
<1>15. AckOn(records, records', Keys, Keys', t, RecordOf(n), n)
  BY <1>1, <1>3, <1>4, <1>5, <1>9, <1>12 DEF AckOn
<1>. QED
  BY <1>6, <1>13, <1>14, <1>15

\* The step of the history, for values of the state before and after.
LEMMA HistoryAcked ==
  ASSUME NEW R, NEW R1, NEW K, NEW K1, NEW W, NEW W1, NEW L, NEW L1, NEW S, NEW x, NEW n, NEW b,
         AckOn(R, R1, K, K1, Len(L), x, n), LogOn(L, L1, K, S, n, b),
         Extends(W, W1, Len(L), x.time), x.key = S[n].from,
         ValidationHistory(R, K, W, L, S[n], n, b)
  PROVE  /\ \A i \in 1..Len(L) : AckHistory(R, K, W, L, S, i) => AckHistory(R1, K1, W1, L1, S, i)
         /\ (\A i \in 1..Len(L) : AckHistory(R, K, W, L, S, i)) => AckHistory(R1, K1, W1, L1, S, Len(L) + 1)
         /\ \A m : \A c \in 0..Len(L) :
              ValidationHistory(R, K, W, L, S[m], m, c) => ValidationHistory(R1, K1, W1, L1, S[m], m, c)
<1>0. PICK t, k, w : t = Len(L) /\ k = x.key /\ w = x.time
  OBVIOUS
<1>1. /\ t \in Nat /\ Len(L1) = t + 1 /\ b \in 0..t /\ AckOn(R, R1, K, K1, t, x, n)
      /\ Extends(K, K1, t, k) /\ Extends(W, W1, t, x.time) /\ Extends(W, W1, t, w)
      /\ L1[t + 1].nonce = n /\ L1[t + 1].began = b
  BY <1>0 DEF LogOn, AckOn
<1>2. ASSUME NEW r, NEW m, NEW c \in 0..Len(L), PassedAt(K, W, L, r, m, c)
      PROVE  PassedAt(K1, W1, L1, r, m, c)
  <2>1. PICK key, time : key = r.from /\ time = r.time
    OBVIOUS
  <2>2. OnceAt(K, L, key, m, c) /\ NewerAt(K, W, key, time, c) /\ c \in 0..t
    BY <1>0, <1>2, <2>1 DEF PassedAt
  <2>3. OnceAt(K1, L1, key, m, c)
    BY <1>0, <1>1, <2>2, OnceStays
  <2>4. NewerAt(K1, W1, key, time, c)
    BY <1>1, <2>2, NewerStays
  <2>. QED
    BY <2>1, <2>3, <2>4 DEF PassedAt
<1>3. ASSUME NEW i \in 1..Len(L), AckHistory(R, K, W, L, S, i)
      PROVE  AckHistory(R1, K1, W1, L1, S, i)
  <2>1. Remembered(R1, K1, L1, i)
    BY <1>3, RememberedStep DEF AckHistory
  <2>2. LastRecorded(R1, K1, W1, t + 1, i)
    <3>1. i \in 1..(t + 1) /\ LastRecorded(R, K, W, t, i)
      BY <1>0, <1>1, <1>3 DEF AckHistory
    <3>. QED
      BY <1>1, <3>1, LastRecordedStep
  <2>3. L1[i] = L[i] /\ L[i].began \in 0..Len(L)
    <3>1. i \in 1..t /\ L1[i] = L[i] /\ L[i].began \in Nat /\ L[i].began < i
      BY <1>0 DEF LogOn
    <3>. QED
      BY <1>0, <1>1, <3>1
  <2>4. PassedAt(K1, W1, L1, S[L[i].nonce], L[i].nonce, L[i].began)
    BY <1>2, <1>3, <2>3 DEF AckHistory
  <2>. QED
    BY <1>1, <2>1, <2>2, <2>3, <2>4 DEF AckHistory
<1>4. ASSUME \A i \in 1..Len(L) : AckHistory(R, K, W, L, S, i)
      PROVE  AckHistory(R1, K1, W1, L1, S, t + 1)
  <2>1. Remembered(R1, K1, L1, Len(L) + 1)
    BY RememberedNew DEF ValidationHistory
  <2>2. LastRecorded(R1, K1, W1, t + 1, t + 1)
    <3>1. PICK i : i = t + 1
      OBVIOUS
    <3>2. i \in 1..(t + 1)
      BY <1>1, <3>1
    <3>3. LastRecorded(R1, K1, W1, t + 1, i)
      BY <1>1, <3>1, <3>2, LastRecordedStep
    <3>. QED
      BY <3>1, <3>3
  <2>3. PassedAt(K1, W1, L1, S[n], n, b)
    BY <1>0, <1>1, <1>2 DEF ValidationHistory
  <2>. QED
    BY <1>0, <1>1, <2>1, <2>2, <2>3 DEF AckHistory
<1>5. ASSUME NEW m, NEW c \in 0..Len(L), ValidationHistory(R, K, W, L, S[m], m, c)
      PROVE  ValidationHistory(R1, K1, W1, L1, S[m], m, c)
  <2>1. PassedAt(K1, W1, L1, S[m], m, c)
    BY <1>2, <1>5 DEF ValidationHistory
  <2>2. PICK key : key = S[m].from
    OBVIOUS
  <2>3. RecordedSince(R, K, L, key, m, c)
    BY <1>5, <2>2 DEF ValidationHistory
  <2>4. RecordedSince(R1, K1, L1, key, m, c)
    BY <2>2, <2>3, RecordedSinceStep
  <2>. QED
    BY <2>1, <2>2, <2>4 DEF ValidationHistory
<1>. QED
  BY <1>0, <1>3, <1>4, <1>5

\* A step that acknowledges.
LEMMA HistoryAnswers ==
  ASSUME TableInv, History, NEW n \in DOMAIN sent, NEW b \in 0..Len(log), Answers(n, b)
  PROVE  History'
<1>1. /\ Acked(n, b) /\ sent' = sent /\ Carried(validating', validating)
      /\ \/ b = Len(log) /\ CheckIncomingInterest(n)
         \/ \E s \in DOMAIN validating : n = validating[s].nonce /\ b = validating[s].began
  BY DEF Answers
<1>2. ValidationHistory(records, Keys, Times, log, sent[n], n, b)
  BY <1>1, CheckedPasses DEF History
<1>3. PICK R, R1, K, K1, W, W1, L, L1, S, x :
        /\ R = records /\ R1 = records' /\ K = Keys /\ K1 = Keys' /\ W = Times /\ W1 = Times'
        /\ L = log /\ L1 = log' /\ S = sent /\ x = RecordOf(n)
  OBVIOUS
<1>4. /\ AckOn(R, R1, K, K1, Len(L), x, n) /\ LogOn(L, L1, K, S, n, b)
      /\ Extends(W, W1, Len(L), S[n].time)
  BY <1>1, <1>3, AnswersIs
<1>5. x.key = S[n].from /\ x.time = S[n].time
  BY <1>3 DEF RecordOf
<1>6. Extends(W, W1, Len(L), x.time) /\ ValidationHistory(R, K, W, L, S[n], n, b)
  BY <1>2, <1>3, <1>4, <1>5
<1>7. /\ \A i \in 1..Len(L) : AckHistory(R, K, W, L, S, i) => AckHistory(R1, K1, W1, L1, S, i)
      /\ (\A i \in 1..Len(L) : AckHistory(R, K, W, L, S, i)) => AckHistory(R1, K1, W1, L1, S, Len(L) + 1)
      /\ \A m : \A c \in 0..Len(L) :
           ValidationHistory(R, K, W, L, S[m], m, c) => ValidationHistory(R1, K1, W1, L1, S[m], m, c)
  BY <1>4, <1>5, <1>6, HistoryAcked
<1>8. Len(L) \in Nat /\ DOMAIN L = 1..Len(L) /\ DOMAIN L1 = 1..(Len(L) + 1)
  <2>1. Len(log) \in Nat /\ DOMAIN log = 1..Len(log)
    BY LogFacts
  <2>2. log' \in Seq(Ack) /\ Len(log') = Len(log) + 1
    BY <1>1 DEF Acked, IsLog
  <2>. QED
    BY <1>3, <2>1, <2>2
<1>9. \A i \in 1..Len(L) : AckHistory(R, K, W, L, S, i)
  BY <1>3, <1>8 DEF History
<1>10. \A i \in DOMAIN L1 : AckHistory(R1, K1, W1, L1, S, i)
  BY <1>7, <1>8, <1>9
<1>11. ASSUME NEW s \in DOMAIN validating'
       PROVE  ValidationHistory(R1, K1, W1, L1, S[validating'[s].nonce],
                                validating'[s].nonce, validating'[s].began)
  <2>1. PICK m, c : m = validating[s].nonce /\ c = validating[s].began
    OBVIOUS
  <2>2. s \in DOMAIN validating /\ validating'[s].nonce = m /\ validating'[s].began = c
    BY <1>1, <1>11, <2>1 DEF Carried, CarriedOn
  <2>3. c \in 0..Len(L)
    BY <1>3, <2>1, <2>2 DEF TableInv, AreValidations, IsValidation
  <2>4. ValidationHistory(R, K, W, L, S[m], m, c)
    BY <1>3, <2>1, <2>2 DEF History
  <2>. QED
    BY <1>7, <2>2, <2>3, <2>4
<1>. QED
  BY <1>1, <1>3, <1>10, <1>11 DEF History

\* The table and the history, at every state: this is the inductive invariant.
Inv == TableInv /\ History

\* The inductive invariant holds in every reachable state: what Rv::onSuccess sent,
\* what insertRecord keeps of it and what the validations in progress checked agree.
THEOREM Invariance == Spec => []Inv
<1>1. Init => Inv
  <2>1. ASSUME Init PROVE History
    BY <2>1 DEF Init, History
  <2>. QED
    BY <2>1, InitTable DEF Inv
<1>2. Inv /\ [Next]_vars => Inv'
  <2>. SUFFICES ASSUME TableInv, History, [Next]_vars PROVE Inv'
    BY DEF Inv
  <2>1. Steps
    BY StepKinds
  <2>2. History'
    BY <2>1, HistoryQuiet, HistoryArrives, HistoryAnswers DEF Steps
  <2>. QED
    BY <2>1, <2>2 DEF Inv, Steps
<1>. QED
  BY <1>1, <1>2, SafetyPart, PTL

\* Out is PushedOut, for the keys of the log.
LEMMA PushedOutIs ==
  ASSUME TableInv, NEW key, NEW i \in Nat, NEW j \in 0..Len(log)
  PROVE  PushedOut(key, i, j) <=> Out(Keys, key, i, j)
<1>1. Len(log) \in Nat /\ DOMAIN log = 1..Len(log)
  BY LogFacts
<1>2. \A k \in (i + 1)..j : k \in DOMAIN log
  BY <1>1
<1>3. \A k \in (i + 1)..j : Keys[k] = KeyOf(k)
  BY <1>2 DEF Keys
<1>4. {k \in (i + 1)..j : KeyOf(k) = key} = Since(Keys, i, j, key)
  BY <1>3 DEF Since
<1>5. {KeyOf(k) : k \in (i + 1)..j} \ {key} = OtherKeys(Keys, i, j, key)
  BY <1>3 DEF OtherKeys
<1>. QED
  BY <1>4, <1>5 DEF PushedOut, Out

\* AckedOnce holds in every reachable state, for any number of validations at
\* once: while checkIncomingInterest finds neither the nonce pushed out nor the
\* record, a copy of an acknowledged Request is refused.
THEOREM NeverAckedTwice == Spec => []AckedOnce
<1>1. ASSUME Inv PROVE AckedOnce
  <2>0. TableInv /\ History
    BY <1>1 DEF Inv
  <2>. SUFFICES ASSUME NEW j \in DOMAIN log, NEW i \in 1..log[j].began, log[i].nonce = log[j].nonce
                PROVE  \E h \in (log[i].began + 1)..i :
                         log[h].nonce = log[i].nonce /\ PushedOut(KeyOf(j), h, log[j].began)
    BY DEF AckedOnce
  <2>1. /\ Len(log) \in Nat /\ DOMAIN log = 1..Len(log)
        /\ log[j].began \in Nat /\ log[j].began < j
    BY <2>0, LogFacts
  <2>2. i \in 1..Len(log) /\ log[j].began \in 0..Len(log)
    BY <2>1
  <2>3. log[i].began \in Nat
    BY <2>0, <2>2, LogFacts
  <2>4. OnceAt(Keys, log, KeyOf(j), log[j].nonce, log[j].began)
    BY <2>0 DEF History, AckHistory, PassedAt, KeyOf
  <2>5. PICK h \in (log[i].began + 1)..i :
          log[h].nonce = log[j].nonce /\ Out(Keys, KeyOf(j), h, log[j].began)
    BY <2>4 DEF OnceAt
  <2>6. h \in Nat
    BY <2>2, <2>3
  <2>7. PushedOut(KeyOf(j), h, log[j].began)
    BY <2>0, <2>2, <2>5, <2>6, PushedOutIs
  <2>. QED
    BY <2>5, <2>7
<1>. QED
  BY <1>1, Invariance, PTL

\* NewerThanLast holds in every reachable state: checkIncomingInterest compares
\* the timestamp with the last one acknowledged, although insertRecord may set the
\* recorded timestamp back.
THEOREM NewerThanTheLast == Spec => []NewerThanLast
<1>1. ASSUME Inv PROVE NewerThanLast
  <2>0. TableInv /\ History
    BY <1>1 DEF Inv
  <2>. SUFFICES ASSUME NEW j \in DOMAIN log, NEW i \in 1..log[j].began, KeyOf(i) = KeyOf(j)
                PROVE  \/ sent[log[i].nonce].time < sent[log[j].nonce].time
                       \/ \E k \in (i + 1)..log[j].began : KeyOf(k) = KeyOf(j)
                       \/ PushedOut(KeyOf(j), i, log[j].began)
    BY DEF NewerThanLast
  <2>1. /\ Len(log) \in Nat /\ DOMAIN log = 1..Len(log)
        /\ log[j].began \in Nat /\ log[j].began < j
    BY <2>0, LogFacts
  <2>2. i \in 1..Len(log) /\ i \in DOMAIN log /\ i \in Nat /\ log[j].began \in 0..Len(log)
    BY <2>1
  <2>3. PICK b : b = log[j].began
    OBVIOUS
  <2>4. NewerAt(Keys, Times, KeyOf(j), sent[log[j].nonce].time, b)
    BY <2>0, <2>3 DEF History, AckHistory, PassedAt, KeyOf
  <2>5. Keys[i] = KeyOf(j) /\ Times[i] = sent[log[i].nonce].time
    BY <2>2 DEF Keys, Times
  <2>6. \/ sent[log[i].nonce].time < sent[log[j].nonce].time
        \/ Since(Keys, i, b, KeyOf(j)) # {}
        \/ Out(Keys, KeyOf(j), i, b)
    BY <2>3, <2>4, <2>5 DEF NewerAt
  <2>7. ASSUME NEW k \in Since(Keys, i, b, KeyOf(j))
        PROVE  k \in (i + 1)..b /\ KeyOf(k) = KeyOf(j)
    <3>1. k \in (i + 1)..b /\ Keys[k] = KeyOf(j)
      BY DEF Since
    <3>2. k \in DOMAIN log
      BY <2>1, <2>2, <2>3, <3>1
    <3>. QED
      BY <3>1, <3>2 DEF Keys
  <2>8. Out(Keys, KeyOf(j), i, b) => PushedOut(KeyOf(j), i, b)
    <3>1. b \in 0..Len(log)
      BY <2>2, <2>3
    <3>. QED
      BY <2>0, <2>2, <3>1, PushedOutIs
  <2>. QED
    BY <2>3, <2>6, <2>7, <2>8
<1>. QED
  BY <1>1, Invariance, PTL
=============================================================================
