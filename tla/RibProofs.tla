----------------------------- MODULE RibProofs -----------------------------
(***************************************************************************)
(* Proofs about the RIB thread of Rib.tla and the table of FibUpdater.tla: *)
(* the parent pointers of the table are right after every insertion and    *)
(* removal, the computation of FIB updates yields FIB updates, and the RIB *)
(* never waits for an answer that does not come, for any names, faces,     *)
(* requests and number of retries.                                         *)
(***************************************************************************)
EXTENDS Rib, NatOrder, TLAPS, FiniteSetTheorems, FunctionTheorems, SequenceTheorems

----------------------------------------------------------------------------
(* Names *)

\* The facts about prefixes that the proofs use.
LEMMA PrefixFacts ==
  /\ NoName \notin Name
  /\ \A n \in Name : /\ Prefixes[n] \subseteq Name /\ IsFiniteSet(Prefixes[n])
                     /\ n \notin Prefixes[n]
  /\ \A n \in Name : \A m \in Prefixes[n] : \A k \in Prefixes[m] : k \in Prefixes[n]
  /\ \A n \in Name : \A k, m \in Prefixes[n] : k = m \/ k \in Prefixes[m] \/ m \in Prefixes[k]
<1>1. \A n \in Name : Prefixes[n] \subseteq Name
  BY RibNamesAssumption
<1>. QED
  BY <1>1, RibNamesAssumption

\* How long a name is, as far as its prefixes tell.
Depth(n) == Cardinality(Prefixes[n])

\* A prefix is shorter.
LEMMA PrefixIsShorter ==
  ASSUME NEW n \in Name, NEW m \in Prefixes[n]
  PROVE  Depth(m) \in Nat /\ Depth(n) \in Nat /\ Depth(m) < Depth(n)
<1>1. m \in Name /\ IsFiniteSet(Prefixes[n]) /\ IsFiniteSet(Prefixes[m])
  BY PrefixFacts
<1>2. Prefixes[m] \subseteq Prefixes[n] /\ m \notin Prefixes[m]
  BY <1>1, PrefixFacts
<1>3. Prefixes[m] # Prefixes[n]
  BY <1>2
<1>4. Cardinality(Prefixes[m]) <= Cardinality(Prefixes[n])
      /\ Cardinality(Prefixes[m]) # Cardinality(Prefixes[n])
  BY <1>1, <1>2, <1>3, FS_Subset
<1>. QED
  BY <1>1, <1>4, FS_CardinalityType DEF Depth

\* p is the longest of the names in A.
IsNearest(p, A) == p \in A /\ A \ {p} \subseteq Prefixes[p]

\* Names that are prefixes of one name or that name itself have a longest one.
LEMMA NearestExists ==
  ASSUME NEW n \in Name, NEW A \in SUBSET (Prefixes[n] \cup {n}), A # {}
  PROVE  \E p \in A : IsNearest(p, A)
<1>. DEFINE Left(x) == Depth(n) - Depth(x)
            N == {Left(x) : x \in A}
<1>1. \A x \in A : x \in Name /\ Depth(x) \in Nat /\ Depth(n) \in Nat /\ Depth(x) <= Depth(n)
  <2>1. ASSUME NEW x \in Prefixes[n]
        PROVE  x \in Name /\ Depth(x) \in Nat /\ Depth(n) \in Nat /\ Depth(x) <= Depth(n)
    BY PrefixFacts, PrefixIsShorter
  <2>2. Depth(n) \in Nat
    BY PrefixFacts, FS_CardinalityType DEF Depth
  <2>. QED
    BY <2>1, <2>2
<1>2. \A x \in A : Left(x) \in Nat
  BY <1>1
<1>3. N \in SUBSET Nat /\ N # {}
  BY <1>2
<1>4. PICK y \in N : \A z \in N : y <= z
  <2>. HIDE DEF N
  <2>. QED
    BY <1>3, SmallestNat
<1>5. PICK p \in A : y = Left(p)
  OBVIOUS
<1>6. \A x \in A : Depth(x) <= Depth(p)
  <2>1. \A x \in A : Left(p) <= Left(x)
    BY <1>4, <1>5
  <2>. QED
    BY <2>1, <1>1
<1>7. ASSUME NEW x \in A, x # p PROVE x \in Prefixes[p]
  <2>1. ~(p \in Prefixes[x])
    BY <1>1, <1>6, PrefixIsShorter
  <2>2. CASE p = n
    BY <2>2, <1>7
  <2>3. CASE p # n
    <3>1. p \in Prefixes[n]
      BY <2>3
    <3>2. x # n
      BY <3>1, <2>1
    <3>. QED
      BY <3>1, <3>2, <2>1, <1>7, PrefixFacts
  <2>. QED
    BY <2>2, <2>3
<1>. QED
  BY <1>7 DEF IsNearest

\* There is only one.
LEMMA NearestUnique ==
  ASSUME NEW A \in SUBSET Name, NEW p, NEW q, IsNearest(p, A), IsNearest(q, A)
  PROVE  p = q
<1>. SUFFICES ASSUME p # q PROVE FALSE
  OBVIOUS
<1>1. p \in Prefixes[q] /\ q \in Prefixes[p] /\ p \in Name /\ q \in Name
  BY DEF IsNearest
<1>. QED
  BY <1>1, PrefixFacts

----------------------------------------------------------------------------
(* The table *)

Entry == [routes : Seq(Route), inherited : SUBSET Face, nCapture : Int, parent : Name \cup {NoName}]

\* A table of entries that have routes.
IsTable(R) ==
  /\ DOMAIN R \subseteq Name /\ IsFiniteSet(DOMAIN R)
  /\ R \in [DOMAIN R -> Entry]
  /\ \A n \in DOMAIN R : R[n].routes # <<>>

\* The parent pointers are right.
Parented(R) == \A n \in DOMAIN R : R[n].parent = findParent(R, n)

Above(R, n) == Prefixes[n] \cap DOMAIN R

\* findParent finds the nearest entry above a name.
LEMMA FindParent ==
  ASSUME NEW R, DOMAIN R \subseteq Name, NEW n \in Name
  PROVE  /\ Above(R, n) = {} => findParent(R, n) = NoName
         /\ Above(R, n) # {} => IsNearest(findParent(R, n), Above(R, n))
         /\ \A p : IsNearest(p, Above(R, n)) => findParent(R, n) = p
         /\ findParent(R, n) = NoName \/ findParent(R, n) \in Above(R, n)
<1>. DEFINE above == Above(R, n)
<1>1. above = {} => findParent(R, n) = NoName
  BY DEF findParent, Above
<1>2. ASSUME above # {} PROVE IsNearest(findParent(R, n), above)
  <2>1. above \in SUBSET (Prefixes[n] \cup {n})
    BY DEF Above
  <2>2. PICK p \in above : IsNearest(p, above)
    <3>. HIDE DEF above
    <3>. QED
      BY <2>1, <1>2, NearestExists
  <2>3. findParent(R, n) = CHOOSE x \in above : above \ {x} \subseteq Prefixes[x]
    BY <1>2 DEF findParent, Above
  <2>. HIDE DEF above
  <2>. QED
    BY <2>2, <2>3 DEF IsNearest
<1>3. ASSUME NEW p, IsNearest(p, above) PROVE findParent(R, n) = p
  <2>1. above # {} /\ above \in SUBSET Name
    BY <1>3 DEF IsNearest, Above
  <2>. HIDE DEF above
  <2>. QED
    BY <2>1, <1>2, <1>3, NearestUnique
<1>. QED
  BY <1>1, <1>2, <1>3 DEF IsNearest

\* findParent depends only on which names above have entries.
LEMMA SameAboveSameParent ==
  ASSUME NEW R, NEW T, NEW n, NEW m, Above(R, n) = Above(T, m)
  PROVE  findParent(R, n) = findParent(T, m)
<1>. DEFINE nearest(A) == IF A = {} THEN NoName ELSE CHOOSE p \in A : A \ {p} \subseteq Prefixes[p]
<1>1. findParent(R, n) = nearest(Above(R, n)) /\ findParent(T, m) = nearest(Above(T, m))
  BY Zenon DEF findParent, Above
<1>. HIDE DEF nearest
<1>. QED
  BY <1>1

\* The entry in R of a name, and its fields.
LEMMA EntryTyped ==
  ASSUME NEW R, IsTable(R), NEW n \in DOMAIN R
  PROVE  /\ n \in Name /\ R[n] \in Entry
         /\ R[n].routes \in Seq(Route) /\ R[n].routes # <<>>
         /\ R[n].inherited \subseteq Face /\ R[n].nCapture \in Int
         /\ R[n].parent \in Name \cup {NoName}
<1>1. R[n] \in Entry /\ n \in Name /\ R[n].routes # <<>>
  BY DEF IsTable
<1>. QED
  BY <1>1 DEF Entry

\* A change of entries that leaves the parent pointers alone leaves them right.
LEMMA SameParents ==
  ASSUME NEW R, IsTable(R), Parented(R), NEW T, DOMAIN T = DOMAIN R,
         \A n \in DOMAIN R : T[n].parent = R[n].parent
  PROVE  Parented(T)
<1>. SUFFICES ASSUME NEW n \in DOMAIN R PROVE T[n].parent = findParent(T, n)
  BY DEF Parented
<1>1. Above(T, n) = Above(R, n)
  BY DEF Above
<1>2. findParent(T, n) = findParent(R, n)
  BY <1>1, SameAboveSameParent
<1>. QED
  BY <1>2 DEF Parented

\* A new entry takes the place of its parent for the entries below it.
LEMMA NewEntryParents ==
  ASSUME NEW R, IsTable(R), Parented(R), NEW n \in Name \ DOMAIN R, NEW T,
         DOMAIN T = DOMAIN R \cup {n},
         T[n].parent = findParent(R, n),
         \A m \in DOMAIN R :
           T[m].parent = IF n \in Prefixes[m] /\ R[m].parent = findParent(R, n) THEN n
                         ELSE R[m].parent
  PROVE  Parented(T)
<1>1. DOMAIN R \subseteq Name /\ DOMAIN T \subseteq Name
  BY DEF IsTable
<1>2. T[n].parent = findParent(T, n)
  <2>1. Above(T, n) = Above(R, n)
    BY PrefixFacts DEF Above
  <2>. QED
    BY <2>1, SameAboveSameParent
<1>3. ASSUME NEW m \in DOMAIN R, n \notin Prefixes[m] PROVE T[m].parent = findParent(T, m)
  <2>1. Above(T, m) = Above(R, m)
    BY <1>3 DEF Above
  <2>2. findParent(T, m) = findParent(R, m)
    BY <2>1, SameAboveSameParent
  <2>. QED
    BY <2>2, <1>3 DEF Parented
<1>4. ASSUME NEW m \in DOMAIN R, n \in Prefixes[m] PROVE T[m].parent = findParent(T, m)
  <2>1. m \in Name /\ Above(T, m) = Above(R, m) \cup {n} /\ n \notin Above(R, m)
    BY <1>1, <1>4 DEF Above
  <2>2. PICK p : p = findParent(R, n)
    OBVIOUS
  <2>3. PICK q : q = R[m].parent /\ q = findParent(R, m)
    BY DEF Parented
  <2>4. Above(R, n) \subseteq Above(R, m)
    BY <2>1, <1>4, PrefixFacts DEF Above
  <2>5. Above(R, m) \subseteq Name /\ Above(R, m) \subseteq Prefixes[m]
    BY <1>1 DEF Above
  <2>6. CASE q = p
    <3>1. \A k \in Above(R, m) : k \in Prefixes[n]
      <4>. SUFFICES ASSUME NEW k \in Above(R, m), n \in Prefixes[k] PROVE FALSE
        BY <2>1, <2>5, <1>4, PrefixFacts
      <4>1. IsNearest(p, Above(R, m))
        BY <2>1, <2>3, <2>6, <1>1, FindParent
      <4>2. p \in Above(R, m) /\ (k = p \/ k \in Prefixes[p])
        BY <4>1 DEF IsNearest
      <4>3. p \in Name /\ n \in Prefixes[p]
        BY <4>2, <2>5, PrefixFacts
      <4>4. p # NoName
        BY <4>3, PrefixFacts
      <4>5. p \in Above(R, n)
        BY <4>4, <2>2, <1>1, FindParent
      <4>6. p \in Prefixes[n]
        BY <4>5 DEF Above
      <4>. QED
        BY <4>3, <4>6, PrefixFacts
    <3>2. IsNearest(n, Above(T, m))
      BY <3>1, <2>1 DEF IsNearest
    <3>3. findParent(T, m) = n
      BY <3>2, <2>1, <1>1, FindParent
    <3>. QED
      BY <3>3, <2>2, <2>3, <2>6, <1>4
  <2>7. CASE q # p
    <3>1. Above(R, m) # {}
      <4>. SUFFICES ASSUME Above(R, m) = {} PROVE FALSE
        OBVIOUS
      <4>1. Above(R, n) = {}
        BY <2>4
      <4>2. p = NoName /\ q = NoName
        BY <4>1, <2>1, <2>2, <2>3, <1>1, FindParent
      <4>. QED
        BY <4>2, <2>7
    <3>2. IsNearest(q, Above(R, m))
      BY <3>1, <2>1, <2>3, <1>1, FindParent
    <3>3. q \in Above(R, m) /\ q \in Name /\ q \in Prefixes[m] /\ q # n
      BY <3>2, <2>1, <2>5 DEF IsNearest
    <3>4. ~(q \in Prefixes[n])
      <4>. SUFFICES ASSUME q \in Prefixes[n] PROVE FALSE
        OBVIOUS
      <4>1. q \in Above(R, n)
        BY <3>3 DEF Above
      <4>2. IsNearest(q, Above(R, n))
        BY <4>1, <3>2, <2>4 DEF IsNearest
      <4>3. p = q
        BY <4>2, <2>2, <1>1, FindParent
      <4>. QED
        BY <4>3, <2>7
    <3>5. n \in Prefixes[q]
      BY <3>3, <3>4, <2>1, <1>4, PrefixFacts
    <3>6. IsNearest(q, Above(T, m))
      BY <3>2, <3>5, <2>1 DEF IsNearest
    <3>7. findParent(T, m) = q
      BY <3>6, <2>1, <1>1, FindParent
    <3>. QED
      BY <3>7, <2>2, <2>3, <2>7
  <2>. QED
    BY <2>6, <2>7
<1>. QED
  BY <1>2, <1>3, <1>4 DEF Parented

\* The entries below an erased one take its parent.
LEMMA ErasedEntryParents ==
  ASSUME NEW R, IsTable(R), Parented(R), NEW n \in DOMAIN R, NEW T,
         DOMAIN T = DOMAIN R \ {n},
         \A m \in DOMAIN R \ {n} :
           T[m].parent = IF R[m].parent = n THEN R[n].parent ELSE R[m].parent
  PROVE  Parented(T)
<1>1. DOMAIN R \subseteq Name /\ DOMAIN T \subseteq Name
  BY DEF IsTable
<1>2. SUFFICES ASSUME NEW m \in DOMAIN R \ {n} PROVE T[m].parent = findParent(T, m)
  BY DEF Parented
<1>3. m \in Name /\ n \in Name /\ Above(T, m) = Above(R, m) \ {n}
  BY <1>1 DEF Above
<1>4. R[m].parent = findParent(R, m) /\ R[n].parent = findParent(R, n)
  BY DEF Parented
<1>5. CASE R[m].parent = n
  <2>1. n # NoName
    BY <1>3, PrefixFacts
  <2>2. IsNearest(n, Above(R, m))
    BY <2>1, <1>1, <1>3, <1>4, <1>5, FindParent
  <2>3. n \in Prefixes[m] /\ Above(R, m) \ {n} \subseteq Prefixes[n]
    BY <2>2 DEF IsNearest, Above
  <2>4. Above(T, m) = Above(R, n)
    BY <2>3, <1>3, PrefixFacts DEF Above
  <2>5. findParent(T, m) = findParent(R, n)
    BY <2>4, SameAboveSameParent
  <2>. QED
    BY <2>5, <1>4, <1>5
<1>6. CASE R[m].parent # n
  <2>1. CASE Above(R, m) = {}
    <3>1. Above(T, m) = Above(R, m)
      BY <2>1, <1>3
    <3>2. findParent(T, m) = findParent(R, m)
      BY <3>1, SameAboveSameParent
    <3>. QED
      BY <3>2, <1>4, <1>6
  <2>2. CASE Above(R, m) # {}
    <3>1. IsNearest(R[m].parent, Above(R, m))
      BY <2>2, <1>1, <1>3, <1>4, FindParent
    <3>2. IsNearest(R[m].parent, Above(T, m))
      BY <3>1, <1>3, <1>6 DEF IsNearest
    <3>3. findParent(T, m) = R[m].parent
      BY <3>2, <1>1, <1>3, FindParent
    <3>. QED
      BY <3>3, <1>6
  <2>. QED
    BY <2>1, <2>2
<1>. QED
  BY <1>5, <1>6

----------------------------------------------------------------------------
(* The chain of ancestors *)

\* The smallest of a set of numbers is in the set.
LEMMA MinOf ==
  ASSUME NEW S \in SUBSET Nat, S # {}
  PROVE  Min(S) \in S
<1>1. PICK x \in S : \A y \in S : x <= y
  BY SmallestNat
<1>. QED
  BY <1>1 DEF Min

\* What the function in Chain computes.
Up(R) == [x \in DOMAIN R \cup {NoName} |->
            IF x = NoName THEN {} ELSE ({x} \cup Prefixes[x]) \cap DOMAIN R]
IsUp(u, R) == u = [x \in DOMAIN R \cup {NoName} |->
                     IF x = NoName THEN {} ELSE {x} \cup u[R[x].parent]]

\* The parent of an entry is an entry or nothing, and everything above the entry
\* is the parent or above the parent.
LEMMA ParentStep ==
  ASSUME NEW R, IsTable(R), Parented(R), NEW x \in DOMAIN R
  PROVE  /\ x # NoName /\ x \in Name
         /\ R[x].parent = NoName => Prefixes[x] \cap DOMAIN R = {}
         /\ R[x].parent # NoName =>
              /\ R[x].parent \in DOMAIN R /\ R[x].parent \in Prefixes[x]
              /\ Prefixes[x] \cap DOMAIN R = ({R[x].parent} \cup Prefixes[R[x].parent]) \cap DOMAIN R
<1>1. DOMAIN R \subseteq Name /\ x \in Name /\ x # NoName
  BY PrefixFacts DEF IsTable
<1>2. PICK p : p = R[x].parent /\ p = findParent(R, x)
  BY DEF Parented
<1>3. ASSUME p = NoName PROVE Above(R, x) = {}
  <2>. SUFFICES ASSUME Above(R, x) # {} PROVE FALSE
    OBVIOUS
  <2>1. p \in Above(R, x)
    BY <1>1, <1>2, FindParent DEF IsNearest
  <2>. QED
    BY <2>1, <1>1, <1>3, PrefixFacts DEF Above
<1>4. ASSUME p # NoName PROVE IsNearest(p, Above(R, x))
  BY <1>1, <1>2, <1>4, FindParent
<1>5. ASSUME p # NoName
      PROVE  p \in DOMAIN R /\ p \in Prefixes[x]
             /\ Prefixes[x] \cap DOMAIN R = ({p} \cup Prefixes[p]) \cap DOMAIN R
  <2>1. p \in Above(R, x) /\ Above(R, x) \ {p} \subseteq Prefixes[p]
    BY <1>4, <1>5 DEF IsNearest
  <2>. QED
    BY <2>1, <1>1, PrefixFacts DEF Above
<1>. QED
  BY <1>1, <1>2, <1>3, <1>5 DEF Above

\* The entries above satisfy the equation that Chain is defined by,
LEMMA UpIsUp ==
  ASSUME NEW R, IsTable(R), Parented(R)
  PROVE  IsUp(Up(R), R)
<1>1. NoName \notin DOMAIN R
  BY PrefixFacts DEF IsTable
<1>2. ASSUME NEW x \in DOMAIN R PROVE Up(R)[x] = {x} \cup Up(R)[R[x].parent]
  <2>1. Up(R)[x] = ({x} \cup Prefixes[x]) \cap DOMAIN R
    BY <1>1 DEF Up
  <2>2. CASE R[x].parent = NoName
    <3>1. Up(R)[R[x].parent] = {}
      BY <2>2 DEF Up
    <3>. QED
      BY <2>1, <2>2, <3>1, ParentStep
  <2>3. CASE R[x].parent # NoName
    <3>1. R[x].parent \in DOMAIN R
      BY <2>3, ParentStep
    <3>2. Up(R)[R[x].parent] = ({R[x].parent} \cup Prefixes[R[x].parent]) \cap DOMAIN R
      BY <3>1, <2>3 DEF Up
    <3>. QED
      BY <2>1, <2>3, <3>2, ParentStep
  <2>. QED
    BY <2>2, <2>3
<1>3. Up(R)[NoName] = {}
  BY DEF Up
<1>4. Up(R) = [x \in DOMAIN R \cup {NoName} |-> Up(R)[x]]
  BY DEF Up
<1>. QED
  BY <1>1, <1>2, <1>3, <1>4 DEF IsUp

\* and nothing else does: a name where another solution differs has a shorter one.
LEMMA UpIsOnly ==
  ASSUME NEW R, IsTable(R), Parented(R), NEW u, IsUp(u, R), NEW x \in DOMAIN R \cup {NoName}
  PROVE  u[x] = Up(R)[x]
<1>1. IsUp(Up(R), R)
  BY UpIsUp
<1>2. NoName \notin DOMAIN R /\ DOMAIN R \subseteq Name
  BY PrefixFacts DEF IsTable
<1>3. u[NoName] = Up(R)[NoName]
  BY <1>1 DEF IsUp
<1>4. \A y \in DOMAIN R : u[y] = {y} \cup u[R[y].parent] /\ Up(R)[y] = {y} \cup Up(R)[R[y].parent]
  BY <1>1, <1>2 DEF IsUp
<1>. DEFINE Bad == {y \in DOMAIN R : u[y] # Up(R)[y]}
            N == {Depth(y) : y \in Bad}
<1>5. Bad = {}
  <2>. SUFFICES ASSUME Bad # {} PROVE FALSE
    OBVIOUS
  <2>1. \A y \in Name : Depth(y) \in Nat
    BY PrefixFacts, FS_CardinalityType DEF Depth
  <2>2. N \in SUBSET Nat /\ N # {}
    BY <2>1, <1>2
  <2>3. PICK d \in N : \A e \in N : d <= e
    <3>. HIDE DEF N
    <3>. QED
      BY <2>2, SmallestNat
  <2>4. PICK y \in Bad : d = Depth(y)
    OBVIOUS
  <2>5. \A z \in Bad : Depth(y) <= Depth(z)
    BY <2>3, <2>4
  <2>6. u[R[y].parent] # Up(R)[R[y].parent]
    BY <1>4, <2>4
  <2>7. R[y].parent # NoName
    BY <2>6, <1>3
  <2>8. R[y].parent \in Bad /\ R[y].parent \in Prefixes[y]
    BY <2>6, <2>7, ParentStep
  <2>9. Depth(R[y].parent) < Depth(y) /\ Depth(R[y].parent) \in Nat /\ Depth(y) \in Nat
    BY <2>8, <1>2, PrefixIsShorter
  <2>. QED
    BY <2>5, <2>8, <2>9
<1>. QED
  BY <1>3, <1>5

\* The parent pointers of an entry lead to all entries above it, and no others.
LEMMA ChainOf ==
  ASSUME NEW R, IsTable(R), Parented(R)
  PROVE  /\ Chain(R, NoName) = {}
         /\ \A n \in DOMAIN R : Chain(R, n) = ({n} \cup Prefixes[n]) \cap DOMAIN R
<1>1. \A n : Chain(R, n) = (CHOOSE u : IsUp(u, R))[n]
  BY DEF Chain, IsUp
<1>2. IsUp(CHOOSE u : IsUp(u, R), R)
  BY UpIsUp
<1>3. \A n \in DOMAIN R \cup {NoName} : Chain(R, n) = Up(R)[n]
  <2>. DEFINE v == CHOOSE u : IsUp(u, R)
  <2>. HIDE DEF v
  <2>1. IsUp(v, R) /\ \A n : Chain(R, n) = v[n]
    BY <1>1, <1>2 DEF v
  <2>. QED
    BY <2>1, UpIsOnly
<1>4. NoName \notin DOMAIN R
  BY PrefixFacts DEF IsTable
<1>. QED
  BY <1>3, <1>4 DEF Up

----------------------------------------------------------------------------
(* Route sets and changes *)

\* A set of routes: the cost by face.
IsRoutes(g) == DOMAIN g \subseteq Face /\ \A f \in DOMAIN g : g[f] \in Cost

\* The two parts of a change.
IsFib(F) == /\ DOMAIN F \subseteq Name \X Face
            /\ \A x \in DOMAIN F : F[x].action \in {"add", "remove"} /\ F[x].cost \in Cost \cup {0}
IsInherited(I) == DOMAIN I \subseteq Name \X Face /\ \A x \in DOMAIN I : I[x] \in BOOLEAN
IsChange(c) == IsFib(c.fib) /\ IsInherited(c.inherited)

\* No routes and no change are routes and a change.
LEMMA NoRoutesTyped == IsRoutes(NoRoutes) /\ IsFib(NoRoutes) /\ IsInherited(NoRoutes) /\ IsChange(NoChange)
  BY DEF IsRoutes, IsFib, IsInherited, IsChange, NoRoutes, NoChange

\* Route sets may be merged.
LEMMA OverrideRoutes ==
  ASSUME NEW g, IsRoutes(g), NEW h, IsRoutes(h)
  PROVE  IsRoutes(Override(g, h))
  BY DEF IsRoutes, Override

\* Two changes one after the other are a change.
LEMMA ThenTyped ==
  ASSUME NEW c, IsChange(c), NEW d, IsChange(d)
  PROVE  IsChange(Then(c, d))
<1>1. IsFib(Override(c.fib, d.fib))
  BY DEF IsChange, IsFib, Override
<1>2. IsInherited(Override(c.inherited, d.inherited))
  BY DEF IsChange, IsInherited, Override
<1>. QED
  BY <1>1, <1>2 DEF IsChange, Then

\* One FIB update is a change.
LEMMA FibTyped ==
  ASSUME NEW n \in Name, NEW f \in Face, NEW u,
         u.action \in {"add", "remove"}, u.cost \in Cost \cup {0}
  PROVE  IsChange(Fib(n, f, u))
  BY NoRoutesTyped DEF IsChange, Fib, IsFib

\* A FIB update that adds a nexthop.
LEMMA AddTyped ==
  ASSUME NEW c \in Cost
  PROVE  AddNextHop(c).action \in {"add", "remove"} /\ AddNextHop(c).cost \in Cost \cup {0}
  BY DEF AddNextHop

\* A FIB update that removes one.
LEMMA RemoveTyped == RemoveNextHop.action \in {"add", "remove"} /\ RemoveNextHop.cost \in Cost \cup {0}
  BY DEF RemoveNextHop

\* Inherited routes are a change.
LEMMA InheritTyped ==
  ASSUME NEW P \in SUBSET (Name \X Face), NEW g, IsRoutes(g), \A x \in P : x[2] \in DOMAIN g
  PROVE  IsChange(Inherit(P, g))
<1>1. \A x \in P : g[x[2]] \in Cost
  BY DEF IsRoutes
<1>2. IsFib([x \in P |-> AddNextHop(g[x[2]])])
  BY <1>1 DEF IsFib, AddNextHop
<1>3. IsInherited([x \in P |-> TRUE])
  BY DEF IsInherited
<1>. QED
  BY <1>2, <1>3 DEF IsChange, Inherit

\* The end of inherited routes is a change.
LEMMA DisinheritTyped ==
  ASSUME NEW P \in SUBSET (Name \X Face)
  PROVE  IsChange(Disinherit(P))
<1>1. IsFib([x \in P |-> RemoveNextHop])
  BY RemoveTyped DEF IsFib
<1>2. IsInherited([x \in P |-> FALSE])
  BY DEF IsInherited
<1>. QED
  BY <1>1, <1>2 DEF IsChange, Disinherit

\* The positions of routes are numbers, and their costs are costs.
LEMMA OnFaceFacts ==
  ASSUME NEW e, e.routes \in Seq(Route), NEW f
  PROVE  /\ OnFace(e, f) \subseteq DOMAIN e.routes /\ InheritOn(e, f) \subseteq OnFace(e, f)
         /\ DOMAIN e.routes \subseteq Nat
         /\ \A i \in DOMAIN e.routes : e.routes[i] \in Route /\ e.routes[i].cost \in Cost
                                       /\ e.routes[i].face \in Face
         /\ CostsOf(e, OnFace(e, f)) \subseteq Cost /\ CostsOf(e, InheritOn(e, f)) \subseteq Cost
<1>1. DOMAIN e.routes \subseteq Nat /\ \A i \in DOMAIN e.routes : e.routes[i] \in Route
  OBVIOUS
<1>2. \A i \in DOMAIN e.routes : e.routes[i].cost \in Cost /\ e.routes[i].face \in Face
  BY <1>1 DEF Route
<1>. QED
  BY <1>1, <1>2 DEF OnFace, InheritOn, CostsOf

\* The ancestors' routes are routes: of the ancestors that give a face there is a
\* nearest one.
LEMMA AncestorRoutes ==
  ASSUME NEW R, IsTable(R), Parented(R), NEW p \in DOMAIN R \cup {NoName}
  PROVE  IsRoutes(getAncestorRoutes(R, p))
<1>. DEFINE giver(f) == {x \in Visible(R, p) : hasChildInheritOnFaceId(R[x], f)}
            nearest(f) == CHOOSE x \in giver(f) : \A y \in giver(f) : y \in Chain(R, x)
            first(f) == R[nearest(f)].routes[Min(InheritOn(R[nearest(f)], f))]
<1>1. getAncestorRoutes(R, p) = [f \in {g \in Face : giver(g) # {}} |-> first(f).cost]
  BY DEF getAncestorRoutes
<1>2. ASSUME NEW f \in Face, giver(f) # {} PROVE first(f).cost \in Cost
  <2>1. p # NoName
    BY <1>2, ChainOf DEF Visible
  <2>2. p \in DOMAIN R /\ p \in Name /\ DOMAIN R \subseteq Name
    BY <2>1 DEF IsTable
  <2>3. giver(f) \subseteq ({p} \cup Prefixes[p]) \cap DOMAIN R
    BY <2>2, ChainOf DEF Visible
  <2>4. PICK A : A = giver(f)
    OBVIOUS
  <2>5. PICK q \in A : IsNearest(q, A)
    <3>1. A # {} /\ A \in SUBSET (Prefixes[p] \cup {p})
      BY <1>2, <2>3, <2>4
    <3>. QED
      BY <3>1, <2>2, NearestExists
  <2>6. \A y \in A : y \in Chain(R, q)
    BY <2>3, <2>4, <2>5, ChainOf DEF IsNearest
  <2>7. nearest(f) \in A
    BY <2>4, <2>5, <2>6
  <2>8. PICK x : x = nearest(f) /\ x \in A
    BY <2>7
  <2>9. x \in DOMAIN R /\ InheritOn(R[x], f) # {}
    <3>1. x \in giver(f)
      BY <2>8, <2>4
    <3>. HIDE DEF nearest, first
    <3>. QED
      BY <3>1, <2>3 DEF hasChildInheritOnFaceId
  <2>10. R[x].routes \in Seq(Route)
    BY <2>9, EntryTyped
  <2>11. Min(InheritOn(R[x], f)) \in InheritOn(R[x], f)
    BY <2>9, <2>10, OnFaceFacts, MinOf
  <2>12. R[x].routes[Min(InheritOn(R[x], f))].cost \in Cost
    BY <2>10, <2>11, OnFaceFacts
  <2>. QED
    BY <2>8, <2>12
<1>. HIDE DEF first, giver
<1>. QED
  BY <1>1, <1>2 DEF IsRoutes

----------------------------------------------------------------------------
(* The computation of FIB updates *)

\* The parent of an entry is an entry or nothing.
LEMMA ParentIsEntry ==
  ASSUME NEW R, IsTable(R), Parented(R)
  PROVE  /\ \A n \in Name : findParent(R, n) \in DOMAIN R \cup {NoName}
         /\ \A n \in DOMAIN R : R[n].parent \in DOMAIN R \cup {NoName}
<1>1. DOMAIN R \subseteq Name
  BY DEF IsTable
<1>2. \A n \in Name : findParent(R, n) \in DOMAIN R \cup {NoName}
  BY <1>1, FindParent DEF Above
<1>. QED
  BY <1>1, <1>2 DEF Parented

\* A route alone is a route set.
LEMMA SelfTyped ==
  ASSUME NEW r \in Route
  PROVE  IsRoutes(Self(r)) /\ r.face \in Face /\ r.cost \in Cost /\ r.cost \in Nat
  BY CostAssumption DEF IsRoutes, Self, Route

\* Faces of a route set, paired with a name.
LEMMA PairsOfName ==
  ASSUME NEW n \in Name, NEW g, IsRoutes(g), NEW F \in SUBSET (DOMAIN g)
  PROVE  /\ {<<n, f>> : f \in F} \in SUBSET (Name \X Face)
         /\ \A x \in {<<n, f>> : f \in F} : x[2] \in DOMAIN g
  BY DEF IsRoutes

\* addInheritedRoutes yields a change.
LEMMA AddInherited ==
  ASSUME NEW n \in Name, NEW e, NEW g, IsRoutes(g)
  PROVE  IsChange(addInheritedRoutes(n, e, g))
<1>. DEFINE F == {h \in DOMAIN g : ~hasFaceId(e, h)}
<1>1. F \in SUBSET (DOMAIN g)
  OBVIOUS
<1>2. addInheritedRoutes(n, e, g) = Inherit({<<n, f>> : f \in F}, g)
  BY DEF addInheritedRoutes
<1>. HIDE DEF F
<1>. QED
  BY <1>1, <1>2, PairsOfName, InheritTyped

\* removeInheritedRoutes yields a change.
LEMMA RemoveInherited ==
  ASSUME NEW n \in Name, NEW e, NEW g, IsRoutes(g)
  PROVE  IsChange(removeInheritedRoutes(n, e, g))
<1>. DEFINE F == DOMAIN g \cap e.inherited
<1>1. F \in SUBSET (DOMAIN g)
  OBVIOUS
<1>2. removeInheritedRoutes(n, e, g) = Disinherit({<<n, f>> : f \in F})
  BY DEF removeInheritedRoutes
<1>. HIDE DEF F
<1>. QED
  BY <1>1, <1>2, PairsOfName, DisinheritTyped

\* modifyChildrensInheritedRoutes yields a change.
LEMMA ModifyChildren ==
  ASSUME NEW R, IsTable(R), NEW K, NEW g, IsRoutes(g), NEW h, IsRoutes(h)
  PROVE  IsChange(modifyChildrensInheritedRoutes(R, K, g, h))
<1>. DEFINE P == {x \in (DOMAIN R) \X (DOMAIN h) :
                     x[1] \in Reached(R, K, x[2]) /\ x[2] \in R[x[1]].inherited}
            Q == {x \in (DOMAIN R) \X (DOMAIN g) :
                     x[1] \in Reached(R, K, x[2]) /\ ~hasFaceId(R[x[1]], x[2])}
<1>1. modifyChildrensInheritedRoutes(R, K, g, h) = Then(Disinherit(P), Inherit(Q, g))
  BY DEF modifyChildrensInheritedRoutes
<1>2. P \in SUBSET (Name \X Face) /\ Q \in SUBSET (Name \X Face) /\ \A x \in Q : x[2] \in DOMAIN g
  BY DEF IsTable, IsRoutes
<1>. HIDE DEF P, Q
<1>3. IsChange(Disinherit(P)) /\ IsChange(Inherit(Q, g))
  BY <1>2, InheritTyped, DisinheritTyped
<1>. QED
  BY <1>1, <1>3, ThenTyped

\* createFibUpdatesForNewRibEntry yields a change.
LEMMA NewRibEntry ==
  ASSUME NEW R, IsTable(R), Parented(R), NEW n \in Name, NEW r \in Route
  PROVE  IsChange(createFibUpdatesForNewRibEntry(R, n, r))
<1>. DEFINE p == findParent(R, n)
            K == {d \in DOMAIN R : n \in Prefixes[d] /\ R[d].parent = p}
            ancestors == getAncestorRoutes(R, p)
            inh == Inherit({<<n, f>> : f \in DOMAIN ancestors \ {r.face}}, ancestors)
            own == Fib(n, r.face, AddNextHop(r.cost))
            self == Then(IF r.capture THEN NoChange ELSE inh, own)
            toAdd == IF ~r.inherit THEN NoRoutes
                     ELSE IF r.capture THEN Self(r) ELSE Override(ancestors, Self(r))
            toRemove == IF r.capture THEN ancestors ELSE NoRoutes
<1>1. createFibUpdatesForNewRibEntry(R, n, r)
        = Then(self, modifyChildrensInheritedRoutes(R, K, toAdd, toRemove))
  BY DEF createFibUpdatesForNewRibEntry
<1>2. IsRoutes(ancestors)
  BY ParentIsEntry, AncestorRoutes
<1>. HIDE DEF ancestors, K
<1>3. IsRoutes(toAdd) /\ IsRoutes(toRemove)
  BY <1>2, SelfTyped, NoRoutesTyped, OverrideRoutes
<1>4. IsChange(inh)
  <2>1. DOMAIN ancestors \ {r.face} \in SUBSET (DOMAIN ancestors)
    OBVIOUS
  <2>. QED
    BY <2>1, <1>2, PairsOfName, InheritTyped
<1>5. IsChange(own)
  BY SelfTyped, AddTyped, FibTyped
<1>. HIDE DEF inh, own
<1>6. IsChange(self)
  BY <1>4, <1>5, ThenTyped, NoRoutesTyped
<1>. HIDE DEF self, toAdd, toRemove
<1>7. IsChange(modifyChildrensInheritedRoutes(R, K, toAdd, toRemove))
  BY <1>3, ModifyChildren
<1>. QED
  BY <1>1, <1>6, <1>7, ThenTyped

\* createFibUpdatesForNewRoute yields a change.
LEMMA NewRoute ==
  ASSUME NEW R, IsTable(R), Parented(R), NEW n \in Name, NEW e, e.parent \in DOMAIN R \cup {NoName},
         NEW r \in Route, NEW on
  PROVE  IsChange(createFibUpdatesForNewRoute(R, n, e, r, on))
<1>. DEFINE isBest(I) == \A c \in CostsOf(e, I) : r.cost <= c
            toAdd == IF r.inherit /\ isBest(InheritOn(e, r.face)) THEN Self(r) ELSE NoRoutes
            toRemove == IF on THEN getAncestorRoutes(R, e.parent) ELSE NoRoutes
            fibs == Fib(n, r.face, AddNextHop(r.cost))
            own == IF isBest(OnFace(e, r.face)) THEN fibs ELSE NoChange
            K == Children(R, n)
<1>1. createFibUpdatesForNewRoute(R, n, e, r, on)
        = Then(Then(removeInheritedRoutes(n, e, toRemove),
                    modifyChildrensInheritedRoutes(R, K, toAdd, toRemove)), own)
  BY DEF createFibUpdatesForNewRoute
<1>2. IsRoutes(toAdd)
  BY SelfTyped, NoRoutesTyped
<1>3. IsRoutes(toRemove)
  BY AncestorRoutes, NoRoutesTyped
<1>4. IsChange(fibs)
  BY SelfTyped, AddTyped, FibTyped
<1>. HIDE DEF fibs
<1>5. IsChange(own)
  BY <1>4, NoRoutesTyped
<1>. HIDE DEF own, toAdd, toRemove, K
<1>6. IsChange(removeInheritedRoutes(n, e, toRemove))
      /\ IsChange(modifyChildrensInheritedRoutes(R, K, toAdd, toRemove))
  BY <1>2, <1>3, RemoveInherited, ModifyChildren
<1>. QED
  BY <1>1, <1>5, <1>6, ThenTyped

\* createFibUpdatesForUpdatedRoute yields a change unless prevRoute is null.
LEMMA UpdatedRoute ==
  ASSUME NEW R, IsTable(R), Parented(R), NEW n \in Name, NEW e, e.parent \in DOMAIN R \cup {NoName},
         e.routes \in Seq(Route), NEW r \in Route, NEW old \in Route,
         OnFace(e, r.face) # {}, ~PrevRouteIsNull(e, r, old)
  PROVE  IsChange(createFibUpdatesForUpdatedRoute(R, n, e, r, old))
<1>. DEFINE f == r.face
            lowest == Min(CostsOf(e, OnFace(e, f)))
            prev == CostsOf(e, InheritOn(e, f))
            sameFlags == r.inherit = old.inherit /\ r.capture = old.capture
            K == Children(R, n)
            down(toAdd, toRemove) == modifyChildrensInheritedRoutes(R, K, toAdd, toRemove)
            ancestors == getAncestorRoutes(R, e.parent)
            own == IF r.cost = old.cost THEN NoChange
                   ELSE IF r.cost <= lowest THEN Fib(n, f, AddNextHop(r.cost))
                   ELSE IF old.cost < lowest THEN Fib(n, f, AddNextHop(Min(prev)))
                   ELSE NoChange
            restored == IF prev # {} THEN [g \in {f} |-> Min(prev)]
                        ELSE [g \in DOMAIN ancestors \cap {f} |-> ancestors[g]]
            inheritance ==
              IF r.inherit /\ (~old.inherit \/ sameFlags) /\ \A c \in prev : r.cost <= c
              THEN down(Self(r), NoRoutes)
              ELSE IF old.inherit /\ ~r.inherit THEN down(restored, Self(r))
              ELSE NoChange
            capture ==
              IF r.capture /\ ~old.capture
              THEN Then(removeInheritedRoutes(n, e, ancestors), down(NoRoutes, ancestors))
              ELSE IF old.capture /\ ~r.capture
              THEN Then(addInheritedRoutes(n, e, ancestors), down(ancestors, NoRoutes))
              ELSE NoChange
<1>1. createFibUpdatesForUpdatedRoute(R, n, e, r, old)
        = IF sameFlags /\ r.cost = old.cost THEN NoChange ELSE Then(Then(own, inheritance), capture)
  BY DEF createFibUpdatesForUpdatedRoute
<1>2. IsRoutes(ancestors)
  BY AncestorRoutes
<1>3. prev \in SUBSET Cost /\ CostsOf(e, OnFace(e, f)) \in SUBSET Cost
  BY OnFaceFacts
<1>4. prev # {} => Min(prev) \in Cost
  <2>. HIDE DEF prev
  <2>. QED
    BY <1>3, CostAssumption, MinOf
<1>5. lowest \in Nat
  <2>1. CostsOf(e, OnFace(e, f)) # {}
    BY DEF CostsOf
  <2>. QED
    BY <2>1, <1>3, CostAssumption, MinOf
<1>6. r.cost > lowest /\ old.cost < lowest => prev # {}
  BY DEF PrevRouteIsNull, hasChildInheritOnFaceId, CostsOf
<1>7. r.cost \in Nat /\ r.cost \in Cost /\ f \in Face /\ old.cost \in Nat
  BY SelfTyped
<1>. HIDE DEF ancestors, prev, lowest, f, K
<1>8. IsChange(own)
  <2>1. IsChange(Fib(n, f, AddNextHop(r.cost)))
    BY <1>7, AddTyped, FibTyped
  <2>2. ASSUME prev # {} PROVE IsChange(Fib(n, f, AddNextHop(Min(prev))))
    BY <2>2, <1>4, <1>7, AddTyped, FibTyped
  <2>. QED
    BY <2>1, <2>2, <1>5, <1>6, <1>7, NoRoutesTyped
<1>9. IsRoutes(restored)
  <2>1. ASSUME prev # {} PROVE IsRoutes([g \in {f} |-> Min(prev)])
    BY <2>1, <1>4, <1>7 DEF IsRoutes
  <2>2. IsRoutes([g \in DOMAIN ancestors \cap {f} |-> ancestors[g]])
    BY <1>2 DEF IsRoutes
  <2>. QED
    BY <2>1, <2>2
<1>. HIDE DEF own, restored
<1>10. /\ IsChange(down(Self(r), NoRoutes)) /\ IsChange(down(restored, Self(r)))
       /\ IsChange(down(NoRoutes, ancestors)) /\ IsChange(down(ancestors, NoRoutes))
  BY <1>2, <1>9, SelfTyped, NoRoutesTyped, ModifyChildren
<1>11. IsChange(removeInheritedRoutes(n, e, ancestors)) /\ IsChange(addInheritedRoutes(n, e, ancestors))
  BY <1>2, RemoveInherited, AddInherited
<1>. HIDE DEF down, sameFlags
<1>12. IsChange(inheritance)
  BY <1>10, NoRoutesTyped
<1>13. IsChange(capture)
  BY <1>10, <1>11, NoRoutesTyped, ThenTyped
<1>. HIDE DEF inheritance, capture
<1>. QED
  BY <1>1, <1>8, <1>12, <1>13, NoRoutesTyped, ThenTyped

\* createFibUpdatesForErasedRoute yields a change.
LEMMA ErasedRoute ==
  ASSUME NEW R, IsTable(R), Parented(R), NEW n \in Name, NEW e, e.parent \in DOMAIN R \cup {NoName},
         NEW r \in Route, NEW off
  PROVE  IsChange(createFibUpdatesForErasedRoute(R, n, e, r, off))
<1>. DEFINE ancestors == getAncestorRoutes(R, e.parent)
            stays == e.routes # <<>>
            restored == IF off /\ stays THEN ancestors ELSE NoRoutes
            toAdd == IF r.capture THEN restored
                     ELSE IF r.inherit /\ ~hasCapture(e) THEN ancestors ELSE NoRoutes
            toRemove == IF r.inherit THEN Self(r) ELSE NoRoutes
            self == IF r.capture THEN addInheritedRoutes(n, e, restored) ELSE NoChange
            unblocked == IF hasCapture(e) \/ ~stays THEN {} ELSE DOMAIN ancestors \cap {r.face}
            fibs == Fib(n, r.face, RemoveNextHop)
            K == Children(R, n)
            inh == Inherit({<<n, f>> : f \in unblocked}, ancestors)
<1>1. createFibUpdatesForErasedRoute(R, n, e, r, off)
        = Then(Then(Then(fibs, self), modifyChildrensInheritedRoutes(R, K, toAdd, toRemove)), inh)
  BY DEF createFibUpdatesForErasedRoute
<1>2. IsRoutes(ancestors)
  BY AncestorRoutes
<1>. HIDE DEF ancestors
<1>3. IsRoutes(restored) /\ IsRoutes(toAdd) /\ IsRoutes(toRemove)
  BY <1>2, SelfTyped, NoRoutesTyped
<1>4. IsChange(fibs)
  BY SelfTyped, RemoveTyped, FibTyped
<1>5. unblocked \in SUBSET (DOMAIN ancestors)
  OBVIOUS
<1>. HIDE DEF unblocked, fibs, toAdd, toRemove, restored, K
<1>6. IsChange(inh)
  BY <1>2, <1>5, PairsOfName, InheritTyped
<1>7. IsChange(self)
  BY <1>3, AddInherited, NoRoutesTyped
<1>8. IsChange(modifyChildrensInheritedRoutes(R, K, toAdd, toRemove))
  BY <1>3, ModifyChildren
<1>. HIDE DEF inh, self
<1>. QED
  BY <1>1, <1>4, <1>6, <1>7, <1>8, ThenTyped

----------------------------------------------------------------------------
(* Changes of an entry *)

\* A function on 1..k is a sequence.
LEMMA FunctionIsSeq ==
  ASSUME NEW S, NEW k \in Nat, NEW t \in [1..k -> S]
  PROVE  t \in Seq(S) /\ Len(t) = k
  OBVIOUS

\* eraseRoute leaves an entry, with routes if there were others.
LEMMA WithoutTyped ==
  ASSUME NEW e \in Entry, NEW i \in DOMAIN e.routes
  PROVE  /\ Without(e, i) \in Entry
         /\ Without(e, i).parent = e.parent
         /\ Len(e.routes) # 1 => Without(e, i).routes # <<>>
<1>1. e.routes \in Seq(Route) /\ e.inherited \in SUBSET Face /\ e.nCapture \in Int
      /\ e.parent \in Name \cup {NoName}
  BY DEF Entry
<1>. DEFINE s == [j \in 1..(Len(e.routes) - 1) |-> IF j < i THEN e.routes[j] ELSE e.routes[j + 1]]
            c == IF e.routes[i].capture THEN e.nCapture - 1 ELSE e.nCapture
<1>2. Len(e.routes) \in Nat /\ Len(e.routes) >= 1 /\ i \in 1..Len(e.routes)
  BY <1>1
<1>3. \A j \in 1..(Len(e.routes) - 1) : s[j] \in Route
  BY <1>1, <1>2
<1>4. s \in Seq(Route) /\ Len(s) = Len(e.routes) - 1
  <2>1. PICK k \in Nat : k = Len(e.routes) - 1
    BY <1>2
  <2>2. s \in [1..k -> Route]
    BY <1>3, <2>1
  <2>. HIDE DEF s
  <2>. QED
    BY <2>1, <2>2, FunctionIsSeq
<1>5. c \in Int
  BY <1>1
<1>6. Without(e, i) = [[e EXCEPT !.routes = s] EXCEPT !.nCapture = c]
  BY DEF Without
<1>7. Len(e.routes) # 1 => s # <<>>
  <2>1. Len(e.routes) # 1 => Len(s) # 0
    BY <1>2, <1>4
  <2>2. Len(<<>>) = 0
    OBVIOUS
  <2>. HIDE DEF s
  <2>. QED
    BY <2>1, <2>2
<1>. HIDE DEF s, c
<1>8. Without(e, i) = [routes |-> s, inherited |-> e.inherited, nCapture |-> c, parent |-> e.parent]
  BY <1>6 DEF Entry
<1>. QED
  BY <1>1, <1>4, <1>5, <1>7, <1>8 DEF Entry

\* The entry with another route in the place of one it has.
Replaced(e, i, r) == [e EXCEPT !.routes[i] = r]

\* Updating a route leaves an entry that has the route.
LEMMA ReplacedTyped ==
  ASSUME NEW e \in Entry, NEW i \in DOMAIN e.routes, NEW r \in Route
  PROVE  /\ Replaced(e, i, r) \in Entry
         /\ Replaced(e, i, r).parent = e.parent
         /\ Replaced(e, i, r).routes # <<>>
         /\ i \in OnFace(Replaced(e, i, r), r.face)
<1>1. e.routes \in Seq(Route) /\ e.inherited \in SUBSET Face /\ e.nCapture \in Int
      /\ e.parent \in Name \cup {NoName}
  BY DEF Entry
<1>. DEFINE s == [e.routes EXCEPT ![i] = r]
<1>2. s \in Seq(Route) /\ Len(s) = Len(e.routes) /\ s[i] = r /\ i \in DOMAIN s
  BY <1>1
<1>3. s # <<>>
  BY <1>2
<1>4. Replaced(e, i, r) = [e EXCEPT !.routes = s]
  BY DEF Replaced
<1>. HIDE DEF s
<1>5. Replaced(e, i, r) = [routes |-> s, inherited |-> e.inherited,
                           nCapture |-> e.nCapture, parent |-> e.parent]
  BY <1>4 DEF Entry
<1>. QED
  BY <1>1, <1>2, <1>3, <1>5 DEF Entry, OnFace

\* The place of a route that is found.
LEMMA FoundAt ==
  ASSUME NEW e \in Entry, NEW r, findRoute(e, r) # {}
  PROVE  Min(findRoute(e, r)) \in DOMAIN e.routes /\ Min(findRoute(e, r)) \in OnFace(e, r.face)
<1>1. e.routes \in Seq(Route)
  BY DEF Entry
<1>2. findRoute(e, r) \subseteq OnFace(e, r.face) /\ findRoute(e, r) \in SUBSET Nat
  BY <1>1, OnFaceFacts DEF findRoute
<1>. QED
  BY <1>1, <1>2, MinOf, OnFaceFacts

\* computeUpdatesForRegistration yields a change unless prevRoute is null.
LEMMA ComputeRegistration ==
  ASSUME NEW R, IsTable(R), Parented(R), NEW n \in Name, NEW r \in Route,
         ~(/\ n \in DOMAIN R
           /\ findRoute(R[n], r) # {}
           /\ PrevRouteIsNull(Replaced(R[n], Min(findRoute(R[n], r)), r), r,
                              R[n].routes[Min(findRoute(R[n], r))]))
  PROVE  IsChange(computeUpdatesForRegistration(R, n, r))
<1>1. CASE n \notin DOMAIN R
  BY <1>1, NewRibEntry DEF computeUpdatesForRegistration
<1>2. CASE n \in DOMAIN R /\ findRoute(R[n], r) = {}
  <2>1. R[n].parent \in DOMAIN R \cup {NoName}
    BY <1>2, ParentIsEntry
  <2>. QED
    BY <1>2, <2>1, NewRoute DEF computeUpdatesForRegistration
<1>3. CASE n \in DOMAIN R /\ findRoute(R[n], r) # {}
  <2>1. PICK e : e = R[n] /\ e \in Entry /\ e.parent \in DOMAIN R \cup {NoName}
    BY <1>3, EntryTyped, ParentIsEntry
  <2>2. PICK i : i = Min(findRoute(e, r)) /\ i \in DOMAIN e.routes
    BY <1>3, <2>1, FoundAt
  <2>3. PICK d : d = Replaced(e, i, r)
    OBVIOUS
  <2>4. d \in Entry /\ d.parent = e.parent /\ OnFace(d, r.face) # {}
    BY <2>1, <2>2, <2>3, ReplacedTyped
  <2>5. d.routes \in Seq(Route) /\ e.routes[i] \in Route
    BY <2>1, <2>2, <2>4, OnFaceFacts DEF Entry
  <2>6. ~PrevRouteIsNull(d, r, e.routes[i])
    BY <1>3, <2>1, <2>2, <2>3
  <2>7. IsChange(createFibUpdatesForUpdatedRoute(R, n, d, r, e.routes[i]))
    BY <2>1, <2>4, <2>5, <2>6, UpdatedRoute
  <2>8. computeUpdatesForRegistration(R, n, r) = createFibUpdatesForUpdatedRoute(R, n, d, r, e.routes[i])
    BY <1>3, <2>1, <2>2, <2>3 DEF computeUpdatesForRegistration, Replaced
  <2>. QED
    BY <2>7, <2>8
<1>. QED
  BY <1>1, <1>2, <1>3

\* computeUpdatesForUnregistration yields a change.
LEMMA ComputeUnregistration ==
  ASSUME NEW R, IsTable(R), Parented(R), NEW n \in Name, NEW r \in Route
  PROVE  IsChange(computeUpdatesForUnregistration(R, n, r))
<1>1. CASE n \notin DOMAIN R \/ findRoute(R[n], r) = {}
  BY <1>1, NoRoutesTyped DEF computeUpdatesForUnregistration
<1>2. CASE n \in DOMAIN R /\ findRoute(R[n], r) # {}
  <2>1. PICK e : e = R[n] /\ e \in Entry /\ e.parent \in DOMAIN R \cup {NoName}
    BY <1>2, EntryTyped, ParentIsEntry
  <2>2. PICK i : i = Min(findRoute(e, r)) /\ i \in DOMAIN e.routes
    BY <1>2, <2>1, FoundAt
  <2>3. PICK temp : temp = Without(e, i)
    OBVIOUS
  <2>4. temp \in Entry /\ temp.parent = e.parent
    BY <2>1, <2>2, <2>3, WithoutTyped
  <2>. DEFINE erased == createFibUpdatesForErasedRoute(R, n, temp, e.routes[i],
                                                       hasCapture(e) /\ ~hasCapture(temp))
              second == CHOOSE j \in SecondLowest(e, r.face) : TRUE
              new == createFibUpdatesForNewRoute(R, n, temp, e.routes[second], FALSE)
              next == IF SecondLowest(e, r.face) = {} THEN NoChange ELSE new
              ends == [x \in {n} \X e.inherited |-> RemoveNextHop]
              last == IF Len(e.routes) = 1 THEN [fib |-> ends, inherited |-> NoRoutes] ELSE NoChange
  <2>5. computeUpdatesForUnregistration(R, n, r) = Then(Then(erased, next), last)
    BY <1>2, <2>1, <2>2, <2>3 DEF computeUpdatesForUnregistration
  <2>6. e.routes \in Seq(Route) /\ e.routes[i] \in Route /\ e.inherited \in SUBSET Face
    BY <2>1, <2>2, OnFaceFacts DEF Entry
  <2>7. IsChange(erased)
    BY <2>1, <2>4, <2>6, ErasedRoute
  <2>8. ASSUME SecondLowest(e, r.face) # {} PROVE IsChange(new)
    <3>1. second \in DOMAIN e.routes
      BY <2>8 DEF SecondLowest, OnFace
    <3>2. e.routes[second] \in Route
      BY <3>1, <2>6, OnFaceFacts
    <3>. HIDE DEF second
    <3>. QED
      BY <3>2, <2>1, <2>4, NewRoute
  <2>9. IsChange([fib |-> ends, inherited |-> NoRoutes])
    <3>1. IsFib(ends)
      BY <2>6, RemoveTyped DEF IsFib
    <3>. HIDE DEF ends
    <3>. QED
      BY <3>1, NoRoutesTyped DEF IsChange
  <2>. HIDE DEF erased, new, ends
  <2>10. IsChange(next) /\ IsChange(last)
    BY <2>8, <2>9, NoRoutesTyped
  <2>. HIDE DEF next, last
  <2>. QED
    BY <2>5, <2>7, <2>10, ThenTyped
<1>. QED
  BY <1>1, <1>2

----------------------------------------------------------------------------
(* Changes of the table *)

\* An entry is replaced by one with the same parent.
LEMMA EditedEntry ==
  ASSUME NEW R, IsTable(R), Parented(R), NEW n \in DOMAIN R, NEW e \in Entry,
         e.routes # <<>>, e.parent = R[n].parent
  PROVE  IsTable([R EXCEPT ![n] = e]) /\ Parented([R EXCEPT ![n] = e])
<1>. DEFINE T == [R EXCEPT ![n] = e]
<1>1. DOMAIN T = DOMAIN R /\ T[n] = e /\ \A m \in DOMAIN R \ {n} : T[m] = R[m]
  OBVIOUS
<1>2. T = [m \in DOMAIN R |-> T[m]]
  OBVIOUS
<1>3. \A m \in DOMAIN R : T[m] \in Entry /\ T[m].routes # <<>> /\ T[m].parent = R[m].parent
  BY <1>1 DEF IsTable
<1>. HIDE DEF T
<1>4. IsTable(T)
  BY <1>1, <1>2, <1>3 DEF IsTable
<1>5. Parented(T)
  BY <1>1, <1>3, SameParents
<1>. QED
  BY <1>4, <1>5 DEF T

\* insert keeps the table and its parent pointers right.
LEMMA InsertKeeps ==
  ASSUME NEW R, IsTable(R), Parented(R), NEW n \in Name, NEW r \in Route
  PROVE  IsTable(insert(R, n, r)) /\ Parented(insert(R, n, r))
<1>1. CASE n \in DOMAIN R /\ findRoute(R[n], r) = {}
  <2>1. PICK e : e = R[n] /\ e \in Entry
    BY <1>1, EntryTyped
  <2>2. e.routes \in Seq(Route) /\ e.inherited \in SUBSET Face /\ e.nCapture \in Int
        /\ e.parent \in Name \cup {NoName}
    BY <2>1 DEF Entry
  <2>3. PICK s : s = Append(e.routes, r)
    OBVIOUS
  <2>4. s \in Seq(Route) /\ s # <<>>
    BY <2>2, <2>3
  <2>5. PICK c : c = IF r.capture THEN e.nCapture + 1 ELSE e.nCapture
    OBVIOUS
  <2>6. c \in Int
    BY <2>2, <2>5
  <2>7. PICK d : d = [e EXCEPT !.routes = s, !.nCapture = c]
    OBVIOUS
  <2>8. d = [routes |-> s, inherited |-> e.inherited, nCapture |-> c, parent |-> e.parent]
    BY <2>1, <2>7 DEF Entry
  <2>9. d \in Entry /\ d.routes # <<>> /\ d.parent = R[n].parent
    BY <2>1, <2>2, <2>4, <2>6, <2>8 DEF Entry
  <2>10. insert(R, n, r) = [R EXCEPT ![n] = d]
    <3>1. insert(R, n, r) = [R EXCEPT ![n].routes = Append(@, r),
                                      ![n].nCapture = IF r.capture THEN @ + 1 ELSE @]
      BY <1>1 DEF insert
    <3>. QED
      BY <3>1, <1>1, <2>1, <2>2, <2>3, <2>5, <2>7
  <2>11. IsTable([R EXCEPT ![n] = d]) /\ Parented([R EXCEPT ![n] = d])
    BY <1>1, <2>9, EditedEntry
  <2>. QED
    BY <2>10, <2>11
<1>2. CASE n \in DOMAIN R /\ findRoute(R[n], r) # {}
  <2>1. PICK e : e = R[n] /\ e \in Entry
    BY <1>2, EntryTyped
  <2>2. PICK i : i = Min(findRoute(e, r)) /\ i \in DOMAIN e.routes
    BY <1>2, <2>1, FoundAt
  <2>3. PICK d : d = Replaced(e, i, r)
    OBVIOUS
  <2>4. d \in Entry /\ d.parent = R[n].parent /\ d.routes # <<>>
    BY <2>1, <2>2, <2>3, ReplacedTyped
  <2>5. insert(R, n, r) = [R EXCEPT ![n] = d]
    <3>1. insert(R, n, r) = [R EXCEPT ![n].routes[i] = r]
      BY <1>2, <2>1, <2>2 DEF insert
    <3>. QED
      BY <3>1, <2>1, <2>3 DEF Replaced
  <2>. QED
    BY <1>2, <2>4, <2>5, EditedEntry
<1>3. CASE n \notin DOMAIN R
  <2>. DEFINE p == findParent(R, n)
              new == [routes |-> <<r>>, inherited |-> {},
                      nCapture |-> IF r.capture THEN 1 ELSE 0, parent |-> p]
              moved(m) == [R[m] EXCEPT !.parent = n]
              below(m) == n \in Prefixes[m] /\ R[m].parent = p
              T == [m \in DOMAIN R \cup {n} |->
                      IF m = n THEN new ELSE IF below(m) THEN moved(m) ELSE R[m]]
  <2>1. insert(R, n, r) = T
    BY <1>3 DEF insert
  <2>2. p \in Name \cup {NoName} /\ DOMAIN R \subseteq Name /\ IsFiniteSet(DOMAIN R)
    BY ParentIsEntry DEF IsTable
  <2>3. new \in Entry /\ new.routes # <<>> /\ new.parent = p
    <3>1. <<r>> \in Seq(Route) /\ <<r>> # <<>>
      OBVIOUS
    <3>. HIDE DEF p
    <3>. QED
      BY <3>1, <2>2 DEF Entry
  <2>4. \A m \in DOMAIN R : moved(m) \in Entry /\ moved(m).routes # <<>> /\ moved(m).parent = n
    <3>. SUFFICES ASSUME NEW m \in DOMAIN R
                  PROVE  moved(m) \in Entry /\ moved(m).routes # <<>> /\ moved(m).parent = n
      OBVIOUS
    <3>1. PICK e : e = R[m] /\ e \in Entry /\ e.routes # <<>>
      BY EntryTyped
    <3>2. moved(m) = [routes |-> e.routes, inherited |-> e.inherited,
                      nCapture |-> e.nCapture, parent |-> n]
      BY <3>1 DEF Entry
    <3>. QED
      BY <3>1, <3>2 DEF Entry
  <2>5. \A m \in DOMAIN R : R[m] \in Entry /\ R[m].routes # <<>>
    BY EntryTyped
  <2>6. IsFiniteSet(DOMAIN R \cup {n})
    BY <2>2, FS_AddElement
  <2>7. /\ DOMAIN T = DOMAIN R \cup {n}
        /\ T[n] = new
        /\ \A m \in DOMAIN R : T[m] = IF below(m) THEN moved(m) ELSE R[m]
        /\ T = [m \in DOMAIN R \cup {n} |-> T[m]]
    <3>. HIDE DEF new, moved, below
    <3>. QED
      BY <1>3
  <2>. HIDE DEF T
  <2>8. IsTable(T)
    <3>1. \A m \in DOMAIN R \cup {n} : T[m] \in Entry /\ T[m].routes # <<>>
      <4>. HIDE DEF new, moved, below
      <4>. QED
        BY <2>3, <2>4, <2>5, <2>7
    <3>. QED
      BY <3>1, <2>2, <2>6, <2>7 DEF IsTable
  <2>9. Parented(T)
    <3>1. \A m \in DOMAIN R : T[m].parent = IF n \in Prefixes[m] /\ R[m].parent = findParent(R, n)
                                            THEN n ELSE R[m].parent
      <4>. HIDE DEF moved
      <4>. QED
        BY <2>4, <2>7
    <3>2. T[n].parent = findParent(R, n)
      BY <2>3, <2>7
    <3>. QED
      BY <3>1, <3>2, <2>7, <1>3, NewEntryParents
  <2>. QED
    BY <2>1, <2>8, <2>9
<1>. QED
  BY <1>1, <1>2, <1>3

\* So does eraseEntry,
LEMMA EraseEntryKeeps ==
  ASSUME NEW R, IsTable(R), Parented(R), NEW n \in DOMAIN R
  PROVE  IsTable(eraseEntry(R, n)) /\ Parented(eraseEntry(R, n))
<1>. DEFINE moved(m) == [R[m] EXCEPT !.parent = R[n].parent]
            T == [m \in DOMAIN R \ {n} |-> IF R[m].parent = n THEN moved(m) ELSE R[m]]
<1>1. eraseEntry(R, n) = T
  BY DEF eraseEntry
<1>2. DOMAIN R \subseteq Name /\ IsFiniteSet(DOMAIN R) /\ R[n].parent \in Name \cup {NoName}
  BY EntryTyped DEF IsTable
<1>3. \A m \in DOMAIN R : moved(m) \in Entry /\ moved(m).routes # <<>> /\ moved(m).parent = R[n].parent
  <2>. SUFFICES ASSUME NEW m \in DOMAIN R
                PROVE  moved(m) \in Entry /\ moved(m).routes # <<>> /\ moved(m).parent = R[n].parent
    OBVIOUS
  <2>1. PICK e : e = R[m] /\ e \in Entry /\ e.routes # <<>>
    BY EntryTyped
  <2>2. moved(m) = [routes |-> e.routes, inherited |-> e.inherited,
                    nCapture |-> e.nCapture, parent |-> R[n].parent]
    BY <2>1 DEF Entry
  <2>. QED
    BY <2>1, <2>2, <1>2 DEF Entry
<1>4. \A m \in DOMAIN R : R[m] \in Entry /\ R[m].routes # <<>>
  BY EntryTyped
<1>5. IsFiniteSet(DOMAIN R \ {n})
  BY <1>2, FS_RemoveElement
<1>6. /\ DOMAIN T = DOMAIN R \ {n}
      /\ \A m \in DOMAIN R \ {n} : T[m] = IF R[m].parent = n THEN moved(m) ELSE R[m]
      /\ T = [m \in DOMAIN R \ {n} |-> T[m]]
  <2>. HIDE DEF moved
  <2>. QED
    OBVIOUS
<1>. HIDE DEF T
<1>7. IsTable(T)
  <2>1. \A m \in DOMAIN R \ {n} : T[m] \in Entry /\ T[m].routes # <<>>
    <3>. HIDE DEF moved
    <3>. QED
      BY <1>3, <1>4, <1>6
  <2>. QED
    BY <2>1, <1>2, <1>5, <1>6 DEF IsTable
<1>8. Parented(T)
  <2>1. \A m \in DOMAIN R \ {n} :
          T[m].parent = IF R[m].parent = n THEN R[n].parent ELSE R[m].parent
    <3>. HIDE DEF moved
    <3>. QED
      BY <1>3, <1>6
  <2>. QED
    BY <2>1, <1>6, ErasedEntryParents
<1>. QED
  BY <1>1, <1>7, <1>8

\* erase,
LEMMA EraseKeeps ==
  ASSUME NEW R, IsTable(R), Parented(R), NEW n, NEW r
  PROVE  IsTable(erase(R, n, r)) /\ Parented(erase(R, n, r))
<1>1. CASE n \notin DOMAIN R \/ findRoute(R[n], r) = {}
  BY <1>1 DEF erase
<1>2. CASE n \in DOMAIN R /\ findRoute(R[n], r) # {} /\ Len(R[n].routes) = 1
  BY <1>2, EraseEntryKeeps DEF erase
<1>3. CASE n \in DOMAIN R /\ findRoute(R[n], r) # {} /\ Len(R[n].routes) # 1
  <2>1. R[n] \in Entry
    BY <1>3, EntryTyped
  <2>2. PICK i : i = Min(findRoute(R[n], r)) /\ i \in DOMAIN R[n].routes
    BY <1>3, <2>1, FoundAt
  <2>3. PICK d : d = Without(R[n], i)
    OBVIOUS
  <2>4. d \in Entry /\ d.parent = R[n].parent /\ d.routes # <<>>
    BY <1>3, <2>1, <2>2, <2>3, WithoutTyped
  <2>5. erase(R, n, r) = [R EXCEPT ![n] = d]
    BY <1>3, <2>2, <2>3 DEF erase
  <2>6. IsTable([R EXCEPT ![n] = d]) /\ Parented([R EXCEPT ![n] = d])
    BY <1>3, <2>4, EditedEntry
  <2>. QED
    BY <2>5, <2>6
<1>. QED
  BY <1>1, <1>2, <1>3

\* and modifyInheritedRoutes.
LEMMA ModifyInheritedKeeps ==
  ASSUME NEW R, IsTable(R), Parented(R), NEW I
  PROVE  IsTable(modifyInheritedRoutes(R, I)) /\ Parented(modifyInheritedRoutes(R, I))
<1>. DEFINE inh(m) == {f \in Face : IF <<m, f>> \in DOMAIN I THEN I[<<m, f>>] ELSE f \in R[m].inherited}
            new(m) == [R[m] EXCEPT !.inherited = inh(m)]
            T == [m \in DOMAIN R |-> new(m)]
<1>1. modifyInheritedRoutes(R, I) = T
  BY DEF modifyInheritedRoutes
<1>2. \A m \in DOMAIN R : new(m) \in Entry /\ new(m).routes # <<>> /\ new(m).parent = R[m].parent
  <2>. SUFFICES ASSUME NEW m \in DOMAIN R
                PROVE  new(m) \in Entry /\ new(m).routes # <<>> /\ new(m).parent = R[m].parent
    OBVIOUS
  <2>1. PICK e : e = R[m] /\ e \in Entry /\ e.routes # <<>>
    BY EntryTyped
  <2>2. inh(m) \in SUBSET Face
    OBVIOUS
  <2>. HIDE DEF inh
  <2>3. new(m) = [routes |-> e.routes, inherited |-> inh(m), nCapture |-> e.nCapture, parent |-> e.parent]
    BY <2>1 DEF Entry
  <2>. QED
    BY <2>1, <2>2, <2>3 DEF Entry
<1>. HIDE DEF new
<1>3. DOMAIN T = DOMAIN R /\ T = [m \in DOMAIN R |-> T[m]] /\ \A m \in DOMAIN R : T[m] = new(m)
  OBVIOUS
<1>. HIDE DEF T
<1>4. IsTable(T)
  BY <1>2, <1>3 DEF IsTable
<1>5. Parented(T)
  BY <1>2, <1>3, SameParents
<1>. QED
  BY <1>1, <1>4, <1>5

\* A route's event is over.
LEMMA ExpirationKeeps ==
  ASSUME NEW R, IsTable(R), Parented(R), NEW n \in DOMAIN R, NEW i \in DOMAIN R[n].routes
  PROVE  IsTable([R EXCEPT ![n].routes[i].expires = FALSE])
         /\ Parented([R EXCEPT ![n].routes[i].expires = FALSE])
<1>1. PICK e : e = R[n] /\ e \in Entry
  BY EntryTyped
<1>2. e.routes[i] \in Route
  BY <1>1, OnFaceFacts DEF Entry
<1>3. PICK r : r = [e.routes[i] EXCEPT !.expires = FALSE]
  OBVIOUS
<1>4. r \in Route
  BY <1>2, <1>3 DEF Route
<1>5. PICK d : d = Replaced(e, i, r)
  OBVIOUS
<1>6. d \in Entry /\ d.parent = R[n].parent /\ d.routes # <<>>
  BY <1>1, <1>4, <1>5, ReplacedTyped
<1>7. [R EXCEPT ![n].routes[i].expires = FALSE] = [R EXCEPT ![n] = d]
  BY <1>1, <1>3, <1>5 DEF Replaced
<1>8. IsTable([R EXCEPT ![n] = d]) /\ Parented([R EXCEPT ![n] = d])
  BY <1>6, EditedEntry
<1>. QED
  BY <1>7, <1>8

\* The updates of enqueueRemoveFace are finitely many.
LEMMA RoutesOnFinite ==
  ASSUME IsTable(rib), NEW F
  PROVE  IsFiniteSet(RoutesOn(F)) /\ RoutesOn(F) \subseteq Update
<1>. DEFINE up(n, i) == [action |-> "remove face", name |-> n, route |-> rib[n].routes[i]]
            J(n) == {j \in DOMAIN rib[n].routes : rib[n].routes[j].face \in F}
            A(n) == {up(n, i) : i \in J(n)}
            B == {A(n) : n \in DOMAIN rib}
<1>1. RoutesOn(F) = UNION B
  BY DEF RoutesOn
<1>2. \A n \in DOMAIN rib : n \in Name /\ rib[n].routes \in Seq(Route)
  BY EntryTyped
<1>3. ASSUME NEW n \in DOMAIN rib PROVE IsFiniteSet(A(n)) /\ A(n) \subseteq Update
  <2>1. rib[n].routes \in Seq(Route) /\ n \in Name
    BY <1>2
  <2>2. IsFiniteSet(1..Len(rib[n].routes)) /\ J(n) \subseteq 1..Len(rib[n].routes)
    BY <2>1, FS_Interval
  <2>3. IsFiniteSet(J(n))
    BY <2>2, FS_Subset
  <2>4. \A i \in J(n) : up(n, i) \in Update
    BY <2>1 DEF Update
  <2>5. A(n) \subseteq Update
    <3>. HIDE DEF up, J
    <3>. QED
      BY <2>4
  <2>6. PICK h : h = [i \in J(n) |-> up(n, i)]
    OBVIOUS
  <2>7. h \in Surjection(J(n), A(n))
    <3>. HIDE DEF up, J
    <3>. QED
      BY <2>6 DEF Surjection
  <2>8. IsFiniteSet(A(n))
    <3>. HIDE DEF A, J
    <3>. QED
      BY <2>3, <2>7, FS_Surjection
  <2>. QED
    BY <2>5, <2>8
<1>. HIDE DEF A
<1>4. IsFiniteSet(B)
  <2>1. PICK h : h = [n \in DOMAIN rib |-> A(n)]
    OBVIOUS
  <2>2. h \in Surjection(DOMAIN rib, B)
    BY <2>1 DEF Surjection
  <2>3. IsFiniteSet(DOMAIN rib)
    BY DEF IsTable
  <2>. HIDE DEF B
  <2>. QED
    BY <2>2, <2>3, FS_Surjection
<1>5. \A S \in B : IsFiniteSet(S) /\ S \subseteq Update
  BY <1>3
<1>. HIDE DEF B
<1>6. IsFiniteSet(UNION B)
  BY <1>4, <1>5, FS_UNION
<1>. QED
  BY <1>1, <1>5, <1>6

\* enqueueRemoveFace queues updates.
LEMMA EnqueueRemoveFaceTyped ==
  ASSUME IsTable(rib), queue \in Seq(Update), NEW F, enqueueRemoveFace(F)
  PROVE  queue' \in Seq(Update)
<1>1. PICK k, U : k = Cardinality(RoutesOn(F)) /\ U = RoutesOn(F)
  OBVIOUS
<1>2. k \in Nat /\ U \subseteq Update
  BY <1>1, RoutesOnFinite, FS_CardinalityType
<1>3. PICK order \in [1..k -> U] : queue' = queue \o order
  BY <1>1 DEF enqueueRemoveFace
<1>4. order \in [1..k -> Update]
  BY <1>2, <1>3
<1>5. order \in Seq(Update)
  BY <1>2, <1>4, FunctionIsSeq
<1>. QED
  BY <1>3, <1>5

----------------------------------------------------------------------------
(* Commands on the wire *)

\* The answer to a command of w counts for the update u.
Answered(w, u) == \E k \in DOMAIN w : \E c \in w[k] : c.live /\ c.update = u

\* A group has a command that is waited for, for each of its updates.
LEMMA CommandsTyped ==
  ASSUME NEW U \in SUBSET FibUpdate, NEW b \in Update
  PROVE  /\ Commands(U, b) \in SUBSET Command
         /\ \A u \in U : \E c \in Commands(U, b) : c.live /\ c.update = u
<1>1. MaxTimeouts \in Nat
  BY RibAssumption
<1>. DEFINE cmd(u) == [update |-> u, op |-> u.action, for |-> b, tries |-> 0, live |-> TRUE]
<1>2. \A u \in U : cmd(u) \in Command /\ cmd(u).live /\ cmd(u).update = u
  BY <1>1 DEF Command, FibUpdate
<1>3. Commands(U, b) = {cmd(u) : u \in U}
  BY DEF Commands
<1>. HIDE DEF cmd
<1>. QED
  BY <1>2, <1>3

\* Another group of commands.
LEMMA GroupAdded ==
  ASSUME NEW w \in Seq(SUBSET Command), NEW G \in SUBSET Command
  PROVE  /\ Append(w, G) \in Seq(SUBSET Command)
         /\ \A u : Answered(w, u) => Answered(Append(w, G), u)
         /\ \A u : (\E c \in G : c.live /\ c.update = u) => Answered(Append(w, G), u)
<1>1. PICK v : v = Append(w, G)
  OBVIOUS
<1>2. /\ v \in Seq(SUBSET Command)
      /\ DOMAIN w \subseteq DOMAIN v /\ \A k \in DOMAIN w : v[k] = w[k]
      /\ \E k \in DOMAIN v : v[k] = G
  <2>1. Len(v) = Len(w) + 1 /\ v \in Seq(SUBSET Command)
        /\ (\A k \in 1..Len(w) : v[k] = w[k]) /\ v[Len(w) + 1] = G
    BY <1>1, AppendProperties
  <2>. QED
    BY <2>1
<1>. QED
  BY <1>1, <1>2 DEF Answered

\* The updates of a group that was sent are answered.
LEMMA GroupSent ==
  ASSUME NEW w \in Seq(SUBSET Command), NEW U \in SUBSET FibUpdate, NEW b \in Update,
         NEW v, v = Append(w, Commands(U, b))
  PROVE  v \in Seq(SUBSET Command) /\ \A u \in U : Answered(v, u)
<1>1. PICK G : G = Commands(U, b)
  OBVIOUS
<1>2. G \in SUBSET Command /\ \A u \in U : \E c \in G : c.live /\ c.update = u
  BY <1>1, CommandsTyped
<1>3. Append(w, G) \in Seq(SUBSET Command)
      /\ \A u : (\E c \in G : c.live /\ c.update = u) => Answered(Append(w, G), u)
  BY <1>2, GroupAdded
<1>4. v = Append(w, G)
  BY <1>1
<1>. QED
  BY <1>2, <1>3, <1>4

\* A command is taken off the wire: the others stay.
LEMMA TakenOff ==
  ASSUME wire \in Seq(SUBSET Command), NEW cmd \in Ready
  PROVE  /\ cmd \in Command
         /\ Taken(cmd) \in Seq(SUBSET Command)
         /\ \A u : (u # cmd.update \/ ~cmd.live) /\ Answered(wire, u) => Answered(Taken(cmd), u)
<1>1. wire # <<>> /\ cmd \in Head(wire)
  BY DEF Ready
<1>2. /\ Head(wire) \in SUBSET Command /\ Tail(wire) \in Seq(SUBSET Command)
      /\ Head(wire) = wire[1]
      /\ Len(Tail(wire)) = Len(wire) - 1 /\ Len(wire) \in Nat /\ Len(wire) >= 1
      /\ \A i \in 1..Len(Tail(wire)) : Tail(wire)[i] = wire[i + 1]
  BY <1>1
<1>3. CASE Head(wire) = {cmd}
  <2>1. Taken(cmd) = Tail(wire)
    BY <1>3 DEF Taken
  <2>2. ASSUME NEW u, u # cmd.update \/ ~cmd.live, Answered(wire, u) PROVE Answered(Tail(wire), u)
    <3>1. PICK k \in DOMAIN wire : \E c \in wire[k] : c.live /\ c.update = u
      BY <2>2 DEF Answered
    <3>0. PICK c \in wire[k] : c.live /\ c.update = u
      BY <3>1
    <3>2. k # 1
      BY <3>0, <2>2, <1>2, <1>3
    <3>3. k - 1 \in DOMAIN Tail(wire) /\ Tail(wire)[k - 1] = wire[k]
      BY <3>2, <1>2
    <3>. QED
      BY <3>0, <3>3 DEF Answered
  <2>. QED
    BY <1>1, <1>2, <2>1, <2>2
<1>4. CASE Head(wire) # {cmd}
  <2>1. PICK G : G = Head(wire) \ {cmd}
    OBVIOUS
  <2>2. PICK v : v = <<G>> \o Tail(wire)
    OBVIOUS
  <2>3. Taken(cmd) = v
    BY <1>4, <2>1, <2>2 DEF Taken
  <2>4. G \in SUBSET Command /\ <<G>> \in Seq(SUBSET Command) /\ Len(<<G>>) = 1 /\ <<G>>[1] = G
    BY <1>2, <2>1
  <2>5. /\ v \in Seq(SUBSET Command) /\ Len(v) = Len(wire)
        /\ v[1] = G /\ \A i \in 2..Len(wire) : v[i] = wire[i]
    <3>1. /\ v \in Seq(SUBSET Command) /\ Len(v) = 1 + Len(Tail(wire))
          /\ \A i \in 1..(1 + Len(Tail(wire))) : v[i] = IF i <= 1 THEN <<G>>[i] ELSE Tail(wire)[i - 1]
      BY <1>2, <2>2, <2>4, ConcatProperties
    <3>2. Len(v) = Len(wire) /\ v[1] = G
      BY <3>1, <2>4, <1>2
    <3>3. ASSUME NEW i \in 2..Len(wire) PROVE v[i] = wire[i]
      <4>1. v[i] = Tail(wire)[i - 1]
        BY <3>1, <1>2
      <4>2. Tail(wire)[i - 1] = wire[(i - 1) + 1]
        BY <1>2
      <4>3. (i - 1) + 1 = i
        OBVIOUS
      <4>. QED
        BY <4>1, <4>2, <4>3
    <3>. QED
      BY <3>1, <3>2, <3>3
  <2>6. ASSUME NEW u, u # cmd.update \/ ~cmd.live, Answered(wire, u) PROVE Answered(v, u)
    <3>1. PICK k \in DOMAIN wire : \E c \in wire[k] : c.live /\ c.update = u
      BY <2>6 DEF Answered
    <3>0. PICK c \in wire[k] : c.live /\ c.update = u
      BY <3>1
    <3>2. k \in DOMAIN v /\ k \in 1..Len(wire)
      BY <2>5
    <3>3. c \in v[k]
      <4>1. CASE k = 1
        BY <4>1, <3>0, <2>1, <2>5, <2>6, <1>2
      <4>2. CASE k # 1
        <5>1. v[k] = wire[k]
          BY <4>2, <3>2, <2>5
        <5>. QED
          BY <5>1
      <4>. QED
        BY <4>1, <4>2
    <3>. QED
      BY <3>0, <3>2, <3>3 DEF Answered
  <2>. QED
    BY <1>1, <1>2, <2>3, <2>5, <2>6
<1>. QED
  BY <1>3, <1>4

\* A command that timed out is not waited for any more, the others are.
Abandoned(k, cmd) == [wire EXCEPT ![k] = (@ \ {cmd}) \cup {[cmd EXCEPT !.live = FALSE]}]

\* The answers to the other commands still count.
LEMMA AbandonedKeeps ==
  ASSUME wire \in Seq(SUBSET Command), NEW k \in DOMAIN wire, NEW cmd \in wire[k]
  PROVE  /\ cmd \in Command
         /\ Abandoned(k, cmd) \in Seq(SUBSET Command)
         /\ \A u : u # cmd.update /\ Answered(wire, u) => Answered(Abandoned(k, cmd), u)
<1>1. wire[k] \in SUBSET Command /\ cmd \in Command
  OBVIOUS
<1>2. PICK d : d = [cmd EXCEPT !.live = FALSE]
  OBVIOUS
<1>3. d \in Command
  BY <1>1, <1>2 DEF Command
<1>4. PICK G : G = (wire[k] \ {cmd}) \cup {d}
  OBVIOUS
<1>5. G \in SUBSET Command
  BY <1>1, <1>3, <1>4
<1>6. PICK v : v = [wire EXCEPT ![k] = G]
  OBVIOUS
<1>7. Abandoned(k, cmd) = v
  BY <1>2, <1>4, <1>6 DEF Abandoned
<1>8. v \in Seq(SUBSET Command) /\ DOMAIN v = DOMAIN wire /\ v[k] = G
      /\ \A i \in DOMAIN wire \ {k} : v[i] = wire[i]
  BY <1>5, <1>6
<1>9. ASSUME NEW u, u # cmd.update, Answered(wire, u) PROVE Answered(v, u)
  <2>1. PICK i \in DOMAIN wire : \E c \in wire[i] : c.live /\ c.update = u
    BY <1>9 DEF Answered
  <2>0. PICK c \in wire[i] : c.live /\ c.update = u
    BY <2>1
  <2>2. c \in v[i]
    BY <2>0, <1>4, <1>8, <1>9
  <2>. QED
    BY <2>0, <2>2, <1>8 DEF Answered
<1>. QED
  BY <1>1, <1>7, <1>8, <1>9

----------------------------------------------------------------------------
(* The inductive invariant *)

TableInv == IsTable(rib) /\ Parented(rib)

\* The updates of the batch are sorted by face, as OnUpdateSuccess relies on.
BatchInv ==
  /\ inProgress \in BOOLEAN
  /\ batchFace \in Face \cup {NoFace}
  /\ batchUpdates \subseteq FibUpdate /\ otherUpdates \subseteq FibUpdate
  /\ \A u \in batchUpdates : u.face = batchFace
  /\ \A u \in otherUpdates : u.face # batchFace
  /\ IsInherited(inheritUpdates)

ForwarderInv ==
  /\ fib \in [Name \X Face -> Cost \cup {0, NoCost}]
  /\ faces \subseteq Face /\ notices \subseteq Face /\ snapshot \subseteq SUBSET Face
HistoryInv ==
  /\ failed \subseteq Update /\ lasting \subseteq [name : Name, face : Face, origin : Origin]
  /\ fault \in {"none", "null route", "no entry", "timeouts"}
  /\ requests \in 0..MaxRequests
  /\ fired \subseteq Requests

RibInv ==
  /\ TableInv /\ BatchInv
  /\ queue \in Seq(Update)
  /\ wire \in Seq(SUBSET Command)
  /\ ForwarderInv /\ HistoryInv
  /\ InProgressIsAnswered

\* What the invariant says of the table and the types.
LEMMA InvTypes == RibInv => TypeOK /\ ParentIsNearest
<1>. SUFFICES ASSUME RibInv PROVE TypeOK /\ ParentIsNearest
  OBVIOUS
<1>1. DOMAIN rib \subseteq Name /\ \A n \in DOMAIN rib : IsEntry(rib[n])
  <2>1. DOMAIN rib \subseteq Name
    BY DEF RibInv, TableInv, IsTable
  <2>. QED
    BY <2>1, EntryTyped DEF RibInv, TableInv, IsEntry
<1>2. TypeOK
  BY <1>1 DEF RibInv, BatchInv, ForwarderInv, HistoryInv, IsInherited, TypeOK
<1>. QED
  BY <1>2 DEF RibInv, TableInv, Parented, ParentIsNearest

\* The invariant holds initially.
LEMMA InvInit == Init => RibInv
<1>. SUFFICES ASSUME Init PROVE RibInv
  OBVIOUS
<1>1. rib = [n \in {} |-> NoName] /\ queue = <<>> /\ inProgress = FALSE /\ batchFace = NoFace
  BY DEF Init
<1>2. batchUpdates = {} /\ otherUpdates = {} /\ inheritUpdates = NoRoutes /\ wire = <<>>
  BY DEF Init
<1>3. TableInv
  <2>1. DOMAIN rib = {} /\ rib \in [{} -> Entry]
    BY <1>1
  <2>. QED
    BY <2>1, FS_EmptySet DEF TableInv, IsTable, Parented
<1>4. BatchInv
  BY <1>1, <1>2, NoRoutesTyped DEF BatchInv
<1>5. ForwarderInv
  BY DEF Init, ForwarderInv
<1>6. HistoryInv
  BY RibAssumption DEF Init, HistoryInv
<1>. QED
  BY <1>1, <1>2, <1>3, <1>4, <1>5, <1>6 DEF RibInv, InProgressIsAnswered

\* What the actions that leave the batch in progress alone keep.
LEMMA SameBatch ==
  ASSUME BatchInv, InProgressIsAnswered, fault = "none",
         UNCHANGED <<inProgress, batchFace, batchUpdates, otherUpdates, inheritUpdates, wire>>
  PROVE  BatchInv' /\ InProgressIsAnswered'
<1>1. BatchInv'
  BY DEF BatchInv
<1>2. InProgressIsAnswered'
  BY DEF InProgressIsAnswered
<1>. QED
  BY <1>1, <1>2

\* A request makes an update and a route.
LEMMA RequestTyped ==
  ASSUME NEW q \in Requests, NEW a \in {"register", "unregister"}
  PROVE  [action |-> a, name |-> q.name, route |-> q.route] \in Update
         /\ RouteId(q) \in [name : Name, face : Face, origin : Origin]
  BY RibAssumption DEF Update, RouteId, Route

\* Requests keep the invariant.
LEMMA RegisterStep ==
  ASSUME RibInv, NEW q \in Requests, RegisterEntry(q) \/ UnregisterEntry(q)
  PROVE  RibInv'
<1>1. /\ fault = "none" /\ fault' = fault /\ requests < MaxRequests /\ requests' = requests + 1
      /\ UNCHANGED <<rib, inProgress, batchFace, batchUpdates, otherUpdates, inheritUpdates,
                     wire, fib, faces, notices, snapshot>>
  BY DEF RegisterEntry, UnregisterEntry, Rest, faceVars
<1>2. PICK a \in {"register", "unregister"} : addUpdateToQueue(a, q.name, q.route)
  BY DEF RegisterEntry, UnregisterEntry
<1>3. queue' \in Seq(Update)
  <2>1. PICK u : u = [action |-> a, name |-> q.name, route |-> q.route] /\ u \in Update
    BY RequestTyped
  <2>2. queue' = Append(queue, u) /\ queue \in Seq(Update)
    BY <2>1, <1>2 DEF addUpdateToQueue, RibInv
  <2>. QED
    BY <2>1, <2>2
<1>4. /\ failed' \subseteq failed /\ fired' \subseteq fired
      /\ lasting' \subseteq lasting \cup {RouteId(q)}
  BY DEF RegisterEntry, UnregisterEntry
<1>5. HistoryInv'
  <2>1. RouteId(q) \in [name : Name, face : Face, origin : Origin]
    BY <1>2, RequestTyped
  <2>2. requests' \in 0..MaxRequests
    BY <1>1, RibAssumption DEF HistoryInv, RibInv
  <2>. QED
    BY <1>1, <1>4, <2>1, <2>2 DEF HistoryInv, RibInv
<1>6. ForwarderInv' /\ TableInv' /\ wire' \in Seq(SUBSET Command)
  BY <1>1 DEF ForwarderInv, TableInv, RibInv
<1>. QED
  BY <1>1, <1>3, <1>5, <1>6, SameBatch DEF RibInv

\* So does the expiration of a registration that is not applied yet,
LEMMA RegistrationExpiresStep ==
  ASSUME RibInv, NEW q \in Requests, RegistrationExpires(q)
  PROVE  RibInv'
<1>1. /\ fault = "none"
      /\ UNCHANGED <<rib, inProgress, batchFace, batchUpdates, otherUpdates, inheritUpdates,
                     wire, fib, faces, notices, snapshot, failed, lasting, fault, requests>>
  BY DEF RegistrationExpires, Rest, faceVars
<1>2. queue' \in Seq(Update)
  <2>1. PICK u : u = [action |-> "unregister", name |-> q.name, route |-> q.route] /\ u \in Update
    BY RequestTyped
  <2>2. queue' = Append(queue, u) /\ queue \in Seq(Update)
    BY <2>1 DEF RegistrationExpires, addUpdateToQueue, RibInv
  <2>. QED
    BY <2>1, <2>2
<1>3. fired' \subseteq Requests
  BY DEF RegistrationExpires, RibInv, HistoryInv
<1>4. TableInv' /\ HistoryInv' /\ ForwarderInv' /\ wire' \in Seq(SUBSET Command)
  BY <1>1, <1>3 DEF TableInv, ForwarderInv, HistoryInv, RibInv
<1>. QED
  BY <1>1, <1>2, <1>4, SameBatch DEF RibInv

\* of a route in the table,
LEMMA ExpirationStep ==
  ASSUME RibInv, NEW n \in DOMAIN rib, NEW i \in DOMAIN rib[n].routes, RouteExpiration(n, i)
  PROVE  RibInv'
<1>1. /\ fault = "none"
      /\ rib' = [rib EXCEPT ![n].routes[i].expires = FALSE]
      /\ addUpdateToQueue("unregister", n, rib[n].routes[i])
      /\ UNCHANGED <<inProgress, batchFace, batchUpdates, otherUpdates, inheritUpdates,
                     wire, fib, faces, notices, snapshot, failed, lasting, fault, requests, fired>>
  BY DEF RouteExpiration, Rest, faceVars
<1>2. TableInv'
  BY <1>1, ExpirationKeeps DEF TableInv, RibInv
<1>3. queue' \in Seq(Update)
  <2>1. n \in Name /\ rib[n].routes[i] \in Route
    BY EntryTyped, OnFaceFacts DEF RibInv, TableInv
  <2>2. [action |-> "unregister", name |-> n, route |-> rib[n].routes[i]] \in Update
    BY <2>1 DEF Update
  <2>. QED
    BY <2>2, <1>1 DEF addUpdateToQueue, RibInv
<1>4. HistoryInv' /\ ForwarderInv' /\ wire' \in Seq(SUBSET Command)
  BY <1>1 DEF ForwarderInv, HistoryInv, RibInv
<1>. QED
  BY <1>1, <1>2, <1>3, <1>4, SameBatch DEF RibInv

\* the removal of the routes of faces that are gone,
LEMMA RemoveFacesStep ==
  ASSUME RibInv, NEW F,
         \/ BeginRemoveFace(F)
         \/ F \in snapshot /\ BeginRemoveFailedFaces(F)
  PROVE  RibInv'
<1>1. /\ fault = "none"
      /\ UNCHANGED <<rib, inProgress, batchFace, batchUpdates, otherUpdates, inheritUpdates,
                     wire, fib, faces, failed, lasting, fault, requests, fired>>
  BY DEF BeginRemoveFace, BeginRemoveFailedFaces, Rest
<1>2. notices' \subseteq notices /\ snapshot' \subseteq snapshot
  BY DEF BeginRemoveFace, BeginRemoveFailedFaces
<1>3. PICK G : enqueueRemoveFace(G)
  BY DEF BeginRemoveFace, BeginRemoveFailedFaces
<1>4. queue' \in Seq(Update)
  BY <1>3, EnqueueRemoveFaceTyped DEF RibInv, TableInv
<1>5. TableInv' /\ HistoryInv' /\ ForwarderInv' /\ wire' \in Seq(SUBSET Command)
  BY <1>1, <1>2 DEF TableInv, ForwarderInv, HistoryInv, RibInv
<1>. QED
  BY <1>1, <1>4, <1>5, SameBatch DEF RibInv

\* and whatever the forwarder does meanwhile.
LEMMA ForwarderStep ==
  ASSUME RibInv, NEW f, FaceDestroyed(f) \/ FaceCreated(f) \/ NoticeLost(f) \/ FetchActiveFaces
  PROVE  RibInv'
<1>1. UNCHANGED <<rib, queue, inProgress, batchFace, batchUpdates, otherUpdates, inheritUpdates,
                  wire, failed, fault, requests, fired>>
  BY DEF FaceDestroyed, FaceCreated, NoticeLost, FetchActiveFaces, ribVars
<1>2. lasting' \subseteq lasting
  BY DEF FaceDestroyed, FaceCreated, NoticeLost, FetchActiveFaces
<1>3. faces' \subseteq Face /\ notices' \subseteq Face
  BY RibAssumption DEF FaceDestroyed, FaceCreated, NoticeLost, FetchActiveFaces, RibInv, ForwarderInv
<1>4. snapshot' \subseteq SUBSET Face
  BY DEF FaceDestroyed, FaceCreated, NoticeLost, FetchActiveFaces, RibInv, ForwarderInv
<1>5. fib' \in [Name \X Face -> Cost \cup {0, NoCost}]
  BY DEF FaceDestroyed, FaceCreated, NoticeLost, FetchActiveFaces, RibInv, ForwarderInv
<1>6. TableInv' /\ HistoryInv' /\ BatchInv' /\ queue' \in Seq(Update) /\ wire' \in Seq(SUBSET Command)
  BY <1>1, <1>2 DEF TableInv, HistoryInv, BatchInv, RibInv
<1>7. InProgressIsAnswered'
  BY <1>1 DEF InProgressIsAnswered, RibInv
<1>. QED
  BY <1>3, <1>4, <1>5, <1>6, <1>7 DEF RibInv, ForwarderInv

\* What the end of a batch does to the table.
BatchApplied == TableInv' /\ inProgress' = FALSE /\ fault' \in {fault, "no entry"}

\* onFibUpdateSuccess keeps the table right.
LEMMA ApplyBatch ==
  ASSUME TableInv, NEW b \in Update, NEW I, applyBatch(b, I)
  PROVE  BatchApplied
<1>1. PICK R : /\ R = IF b.action = "register" THEN insert(rib, b.name, b.route)
                      ELSE erase(rib, b.name, b.route)
               /\ \/ rib' = modifyInheritedRoutes(R, I) /\ fault' = fault
                  \/ rib' = R /\ fault' = "no entry"
  BY DEF applyBatch
<1>2. b.name \in Name /\ b.route \in Route
  BY DEF Update
<1>3. IsTable(R) /\ Parented(R)
  BY <1>1, <1>2, InsertKeeps, EraseKeeps DEF TableInv
<1>4. PICK T : T = modifyInheritedRoutes(R, I) /\ IsTable(T) /\ Parented(T)
  BY <1>3, ModifyInheritedKeeps
<1>5. TableInv'
  BY <1>1, <1>3, <1>4 DEF TableInv
<1>. QED
  BY <1>1, <1>5 DEF BatchApplied, applyBatch

\* After sendOthers the RIB waits for updates that are on the wire, or not at all.
OthersSent(others) ==
  /\ TableInv' /\ wire' \in Seq(SUBSET Command) /\ fault' \in {fault, "no entry"}
  /\ inProgress' \in BOOLEAN
  /\ inProgress' => others # {} /\ \A u \in others : Answered(wire', u)

\* sendUpdatesForNonBatchFaceId, with or without anything to send.
LEMMA SendOthers ==
  ASSUME TableInv, NEW rest \in Seq(SUBSET Command), NEW others \in SUBSET FibUpdate,
         NEW b \in Update, NEW I, sendOthers(rest, others, b, I)
  PROVE  OthersSent(others)
<1>1. CASE others # {}
  <2>1. wire' = Append(rest, Commands(others, b)) /\ UNCHANGED <<rib, fault>> /\ inProgress' = TRUE
    BY <1>1 DEF sendOthers
  <2>4. wire' \in Seq(SUBSET Command) /\ \A u \in others : Answered(wire', u)
    BY <2>1, GroupSent
  <2>. QED
    BY <1>1, <2>1, <2>4 DEF OthersSent, TableInv
<1>2. CASE others = {}
  <2>1. wire' = rest /\ applyBatch(b, I)
    BY <1>2 DEF sendOthers
  <2>2. BatchApplied
    BY <2>1, ApplyBatch
  <2>. QED
    BY <2>1, <2>2 DEF OthersSent, BatchApplied
<1>. QED
  BY <1>1, <1>2

\* The FIB updates of a RIB update are a change, null pointer apart.
LEMMA ComputeTyped ==
  ASSUME TableInv, NEW b \in Update, ~DereferencesNull(b)
  PROVE  IsChange(computeUpdates(b))
<1>1. b.name \in Name /\ b.route \in Route
  BY DEF Update
<1>2. CASE b.action = "register"
  <2>1. ~(/\ b.name \in DOMAIN rib
          /\ findRoute(rib[b.name], b.route) # {}
          /\ PrevRouteIsNull(Replaced(rib[b.name], Min(findRoute(rib[b.name], b.route)), b.route),
                             b.route, rib[b.name].routes[Min(findRoute(rib[b.name], b.route))]))
    BY <1>2 DEF DereferencesNull, Replaced
  <2>2. IsChange(computeUpdatesForRegistration(rib, b.name, b.route))
    BY <1>1, <2>1, ComputeRegistration DEF TableInv
  <2>. QED
    BY <1>2, <2>2 DEF computeUpdates
<1>3. CASE b.action # "register"
  BY <1>1, <1>3, ComputeUnregistration DEF TableInv, computeUpdates
<1>. QED
  BY <1>2, <1>3

\* A change sorted by face.
LEMMA UpdatesForTyped ==
  ASSUME NEW c, IsChange(c), NEW F
  PROVE  UpdatesFor(c, F) \in SUBSET FibUpdate /\ \A u \in UpdatesFor(c, F) : u.face \in F
<1>. DEFINE up(x) == [name |-> x[1], face |-> x[2], action |-> c.fib[x].action, cost |-> c.fib[x].cost]
<1>1. \A x \in DOMAIN c.fib : up(x) \in FibUpdate /\ up(x).face = x[2]
  BY DEF IsChange, IsFib, FibUpdate
<1>2. UpdatesFor(c, F) = {up(x) : x \in {y \in DOMAIN c.fib : y[2] \in F}}
  BY DEF UpdatesFor
<1>. HIDE DEF up
<1>. QED
  BY <1>1, <1>2

\* The start of a batch keeps the invariant.
LEMMA SendBatchStep ==
  ASSUME RibInv, SendBatchFromQueue
  PROVE  RibInv'
<1>1. fault = "none" /\ queue # <<>> /\ queue \in Seq(Update) /\ TableInv /\ wire \in Seq(SUBSET Command)
  BY DEF SendBatchFromQueue, RibInv
<1>2. PICK b : b = Head(queue) /\ b \in Update
  BY <1>1
<1>3. ~DereferencesNull(b)
  BY <1>2 DEF SendBatchFromQueue
<1>4. PICK c : c = computeUpdates(b) /\ IsChange(c)
  BY <1>1, <1>2, <1>3, ComputeTyped
<1>5. /\ batchUpdates' = IF b.action = "remove face" THEN {} ELSE UpdatesFor(c, {b.route.face})
      /\ otherUpdates' = UpdatesFor(c, Face \ {b.route.face})
      /\ inheritUpdates' = c.inherited
      /\ batchFace' = b.route.face
  BY <1>2, <1>4 DEF SendBatchFromQueue
<1>6. /\ queue' = Tail(queue)
      /\ UNCHANGED <<fib, faces, notices, snapshot, failed, lasting, requests, fired>>
  BY DEF SendBatchFromQueue, faceVars
<1>7. PICK B, O, I : B = batchUpdates' /\ O = otherUpdates' /\ I = inheritUpdates'
  OBVIOUS
<1>8. /\ B \in SUBSET FibUpdate /\ O \in SUBSET FibUpdate /\ IsInherited(I)
      /\ (\A u \in B : u.face = b.route.face) /\ \A u \in O : u.face # b.route.face
  <2>1. /\ UpdatesFor(c, {b.route.face}) \in SUBSET FibUpdate
        /\ \A u \in UpdatesFor(c, {b.route.face}) : u.face \in {b.route.face}
        /\ UpdatesFor(c, Face \ {b.route.face}) \in SUBSET FibUpdate
        /\ \A u \in UpdatesFor(c, Face \ {b.route.face}) : u.face \in Face \ {b.route.face}
    BY <1>4, UpdatesForTyped
  <2>. QED
    BY <1>4, <1>5, <1>7, <2>1 DEF IsChange
<1>9. b.route.face \in Face
  BY <1>2 DEF Update, Route
<1>10. \/ /\ B # {} /\ wire' = Append(wire, Commands(B, b)) /\ inProgress' = TRUE
          /\ UNCHANGED <<rib, fault>>
       \/ B = {} /\ sendOthers(wire, O, b, I)
  BY <1>2, <1>7 DEF SendBatchFromQueue
<1>11. /\ TableInv' /\ wire' \in Seq(SUBSET Command) /\ fault' \in {fault, "no entry"}
       /\ inProgress' \in BOOLEAN
       /\ inProgress' => \/ B # {} /\ \A u \in B : Answered(wire', u)
                         \/ B = {} /\ O # {} /\ \A u \in O : Answered(wire', u)
  <2>1. CASE B # {} /\ wire' = Append(wire, Commands(B, b)) /\ inProgress' = TRUE /\ UNCHANGED <<rib, fault>>
    <3>3. wire' \in Seq(SUBSET Command) /\ \A u \in B : Answered(wire', u)
      BY <2>1, <1>1, <1>2, <1>8, GroupSent
    <3>. QED
      BY <2>1, <3>3, <1>1 DEF TableInv
  <2>2. CASE B = {} /\ sendOthers(wire, O, b, I)
    <3>1. OthersSent(O)
      BY <2>2, <1>1, <1>2, <1>8, SendOthers
    <3>. QED
      BY <2>2, <3>1 DEF OthersSent
  <2>. QED
    BY <1>10, <2>1, <2>2
<1>12. BatchInv'
  BY <1>5, <1>7, <1>8, <1>9, <1>11 DEF BatchInv
<1>13. InProgressIsAnswered'
  BY <1>7, <1>11 DEF InProgressIsAnswered, Answered
<1>14. queue' \in Seq(Update)
  BY <1>1, <1>6
<1>15. ForwarderInv' /\ HistoryInv'
  BY <1>1, <1>6, <1>11 DEF RibInv, ForwarderInv, HistoryInv
<1>. QED
  BY <1>11, <1>12, <1>13, <1>14, <1>15 DEF RibInv

\* So does the null pointer, which ends the process,
LEMMA NullRouteStep ==
  ASSUME RibInv, NullRoute
  PROVE  RibInv'
<1>1. /\ fault' = "null route"
      /\ UNCHANGED <<rib, queue, inProgress, batchFace, batchUpdates, otherUpdates, inheritUpdates,
                     wire, fib, faces, notices, snapshot, failed, lasting, requests, fired>>
  BY DEF NullRoute, ribVars, faceVars
<1>2. TableInv' /\ BatchInv' /\ ForwarderInv' /\ HistoryInv' /\ queue' \in Seq(Update)
      /\ wire' \in Seq(SUBSET Command)
  BY <1>1 DEF RibInv, TableInv, BatchInv, ForwarderInv, HistoryInv
<1>3. InProgressIsAnswered'
  BY <1>1 DEF InProgressIsAnswered
<1>. QED
  BY <1>2, <1>3 DEF RibInv

\* The answers that are still waited for, in terms of Answered.
LEMMA AnsweredForm ==
  InProgressIsAnswered <=>
    (inProgress /\ fault = "none" =>
       /\ batchUpdates \cup otherUpdates # {}
       /\ \A u \in IF batchUpdates # {} THEN batchUpdates ELSE otherUpdates : Answered(wire, u))
  BY DEF InProgressIsAnswered, Answered

\* A command executed in the FIB.
LEMMA ExecuteTyped ==
  ASSUME ForwarderInv, NEW cmd \in Command, ExecuteInFib(cmd)
  PROVE  fib' \in [Name \X Face -> Cost \cup {0, NoCost}]
<1>1. <<cmd.update.name, cmd.update.face>> \in Name \X Face /\ cmd.update.cost \in Cost \cup {0}
  BY DEF Command, FibUpdate
<1>2. PICK v : v = IF cmd.op = "add" THEN cmd.update.cost ELSE NoCost
  OBVIOUS
<1>3. v \in Cost \cup {0, NoCost}
  BY <1>1, <1>2
<1>4. fib' = fib \/ fib' = [fib EXCEPT ![<<cmd.update.name, cmd.update.face>>] = v]
  BY <1>2 DEF ExecuteInFib
<1>. QED
  BY <1>1, <1>3, <1>4 DEF ForwarderInv

\* a command that nobody waits for,
LEMMA LateStep ==
  ASSUME RibInv, NEW cmd \in Ready, ExecuteLate(cmd)
  PROVE  RibInv'
<1>1. /\ fault = "none" /\ ~cmd.live /\ wire' = Taken(cmd) /\ ExecuteInFib(cmd)
      /\ UNCHANGED <<rib, queue, inProgress, batchFace, batchUpdates, otherUpdates, inheritUpdates,
                     faces, notices, snapshot, failed, lasting, fault, requests, fired>>
  BY DEF ExecuteLate, Rest, ribVars, faceVars
<1>2. /\ cmd \in Command /\ wire' \in Seq(SUBSET Command)
      /\ \A u : Answered(wire, u) => Answered(wire', u)
  BY <1>1, TakenOff DEF RibInv
<1>3. InProgressIsAnswered'
  BY <1>1, <1>2, AnsweredForm DEF RibInv, InProgressIsAnswered, Answered
<1>4. ForwarderInv'
  BY <1>1, <1>2, ExecuteTyped DEF RibInv, ForwarderInv
<1>5. TableInv' /\ BatchInv' /\ HistoryInv' /\ queue' \in Seq(Update)
  BY <1>1 DEF RibInv, TableInv, BatchInv, HistoryInv
<1>. QED
  BY <1>2, <1>3, <1>4, <1>5 DEF RibInv

\* An answer for another face: whoever is still waited for keeps its command.
LEMMA OtherStep ==
  ASSUME RibInv, NEW cmd \in Ready, fault = "none", cmd.update.face # batchFace, OtherUpdateDone(cmd)
  PROVE  /\ TableInv' /\ BatchInv' /\ queue' \in Seq(Update) /\ wire' \in Seq(SUBSET Command)
         /\ fault' \in {fault, "no entry"} /\ InProgressIsAnswered'
<1>1. /\ otherUpdates' = otherUpdates \ {cmd.update} /\ wire' = Taken(cmd)
      /\ IF otherUpdates' = {} THEN applyBatch(cmd.for, inheritUpdates)
         ELSE UNCHANGED <<rib, fault, inProgress>>
      /\ UNCHANGED <<queue, batchFace, batchUpdates, inheritUpdates>>
  BY DEF OtherUpdateDone
<1>2. /\ cmd \in Command /\ wire' \in Seq(SUBSET Command)
      /\ \A u : u # cmd.update /\ Answered(wire, u) => Answered(wire', u)
  BY <1>1, TakenOff DEF RibInv
<1>3. cmd.for \in Update
  BY <1>2 DEF Command
<1>4. TableInv /\ BatchInv /\ InProgressIsAnswered /\ queue \in Seq(Update)
  BY DEF RibInv
<1>5. CASE otherUpdates' = {}
  <2>1. BatchApplied
    <3>1. PICK b, I : b = cmd.for /\ I = inheritUpdates
      OBVIOUS
    <3>2. applyBatch(b, I)
      BY <1>1, <1>5, <3>1
    <3>. QED
      BY <3>1, <3>2, <1>3, <1>4, ApplyBatch
  <2>2. BatchInv'
    BY <2>1, <1>1, <1>4 DEF BatchInv, BatchApplied
  <2>3. InProgressIsAnswered'
    BY <2>1 DEF InProgressIsAnswered, BatchApplied
  <2>. QED
    BY <2>1, <2>2, <2>3, <1>1, <1>2, <1>4 DEF BatchApplied
<1>6. CASE otherUpdates' # {}
  <2>1. UNCHANGED <<rib, fault, inProgress>>
    BY <1>1, <1>6
  <2>2. BatchInv' /\ TableInv'
    BY <2>1, <1>1, <1>4 DEF BatchInv, TableInv
  <2>3. ASSUME inProgress, NEW u \in IF batchUpdates # {} THEN batchUpdates ELSE otherUpdates'
        PROVE  Answered(wire', u)
    <3>1. u # cmd.update
      BY <1>1, <1>4 DEF BatchInv
    <3>2. u \in IF batchUpdates # {} THEN batchUpdates ELSE otherUpdates
      BY <1>1
    <3>3. Answered(wire, u)
      BY <2>3, <3>2, <1>4, AnsweredForm
    <3>. QED
      BY <3>1, <3>3, <1>2
  <2>4. InProgressIsAnswered'
    BY <2>1, <2>3, <1>1, <1>6 DEF InProgressIsAnswered, Answered
  <2>. QED
    BY <2>1, <2>2, <2>4, <1>1, <1>2, <1>4
<1>. QED
  BY <1>5, <1>6

\* An answer for the batch's face.
LEMMA BatchFaceStep ==
  ASSUME RibInv, NEW cmd \in Ready, fault = "none", cmd.update.face = batchFace,
         batchUpdates' = batchUpdates \ {cmd.update},
         IF batchUpdates' = {} THEN sendOthers(Taken(cmd), otherUpdates, cmd.for, inheritUpdates)
         ELSE wire' = Taken(cmd) /\ UNCHANGED <<rib, fault, inProgress>>,
         UNCHANGED <<queue, batchFace, otherUpdates, inheritUpdates>>
  PROVE  /\ TableInv' /\ BatchInv' /\ queue' \in Seq(Update) /\ wire' \in Seq(SUBSET Command)
         /\ fault' \in {fault, "no entry"} /\ InProgressIsAnswered'
<1>1. PICK rest, others, b, I : /\ rest = Taken(cmd) /\ others = otherUpdates
                                /\ b = cmd.for /\ I = inheritUpdates
  OBVIOUS
<1>2. /\ cmd \in Command /\ rest \in Seq(SUBSET Command)
      /\ \A u : u # cmd.update /\ Answered(wire, u) => Answered(rest, u)
  BY <1>1, TakenOff DEF RibInv
<1>3. b \in Update
  BY <1>1, <1>2 DEF Command
<1>4. TableInv /\ BatchInv /\ InProgressIsAnswered /\ queue \in Seq(Update)
  BY DEF RibInv
<1>5. others \in SUBSET FibUpdate
  BY <1>1, <1>4 DEF BatchInv
<1>6. CASE batchUpdates' = {}
  <2>1. sendOthers(rest, others, b, I)
    BY <1>1, <1>6
  <2>2. OthersSent(others)
    BY <2>1, <1>2, <1>3, <1>4, <1>5, SendOthers
  <2>3. BatchInv'
    BY <2>2, <1>4, <1>6 DEF BatchInv, OthersSent
  <2>4. InProgressIsAnswered'
    BY <2>2, <1>1, <1>6 DEF InProgressIsAnswered, Answered, OthersSent
  <2>. QED
    BY <2>2, <2>3, <2>4, <1>4 DEF OthersSent
<1>7. CASE batchUpdates' # {}
  <2>1. wire' = rest /\ UNCHANGED <<rib, fault, inProgress>>
    BY <1>1, <1>7
  <2>2. BatchInv' /\ TableInv'
    BY <2>1, <1>4 DEF BatchInv, TableInv
  <2>3. ASSUME inProgress, NEW u \in batchUpdates' PROVE Answered(wire', u)
    <3>1. u # cmd.update /\ u \in batchUpdates
      OBVIOUS
    <3>2. Answered(wire, u)
      BY <2>3, <3>1, <1>4, AnsweredForm
    <3>. QED
      BY <3>1, <3>2, <2>1, <1>2
  <2>4. InProgressIsAnswered'
    BY <2>1, <2>3, <1>7 DEF InProgressIsAnswered, Answered
  <2>. QED
    BY <2>1, <2>2, <2>4, <1>2, <1>4
<1>. QED
  BY <1>6, <1>7

\* an answer that counts,
LEMMA SuccessStep ==
  ASSUME RibInv, NEW cmd \in Ready, OnUpdateSuccess(cmd)
  PROVE  RibInv'
<1>1. /\ fault = "none" /\ ExecuteInFib(cmd)
      /\ UNCHANGED <<faces, notices, snapshot, failed, lasting, requests, fired>>
  BY DEF OnUpdateSuccess, Rest, faceVars
<1>2. cmd \in Command
  BY TakenOff DEF RibInv
<1>3. /\ TableInv' /\ BatchInv' /\ queue' \in Seq(Update) /\ wire' \in Seq(SUBSET Command)
      /\ fault' \in {fault, "no entry"} /\ InProgressIsAnswered'
  <2>1. CASE cmd.update.face = batchFace
    <3>1. /\ batchUpdates' = batchUpdates \ {cmd.update}
          /\ IF batchUpdates' = {} THEN sendOthers(Taken(cmd), otherUpdates, cmd.for, inheritUpdates)
             ELSE wire' = Taken(cmd) /\ UNCHANGED <<rib, fault, inProgress>>
          /\ UNCHANGED <<queue, batchFace, otherUpdates, inheritUpdates>>
      BY <2>1 DEF OnUpdateSuccess
    <3>. QED
      BY <2>1, <3>1, <1>1, BatchFaceStep
  <2>2. CASE cmd.update.face # batchFace
    <3>1. OtherUpdateDone(cmd)
      BY <2>2 DEF OnUpdateSuccess
    <3>. QED
      BY <2>2, <3>1, <1>1, OtherStep
  <2>. QED
    BY <2>1, <2>2
<1>4. ForwarderInv'
  BY <1>1, <1>2, ExecuteTyped DEF RibInv, ForwarderInv
<1>5. HistoryInv'
  BY <1>1, <1>3 DEF RibInv, HistoryInv
<1>. QED
  BY <1>3, <1>4, <1>5 DEF RibInv

\* an answer 410,
LEMMA FaceNotFoundStep ==
  ASSUME RibInv, NEW cmd \in Ready, OnFaceNotFound(cmd)
  PROVE  RibInv'
<1>1. /\ fault = "none"
      /\ UNCHANGED <<fib, faces, notices, snapshot, lasting, requests, fired>>
  BY DEF OnFaceNotFound, Rest, faceVars
<1>2. cmd \in Command /\ Taken(cmd) \in Seq(SUBSET Command)
  BY TakenOff DEF RibInv
<1>3. ForwarderInv'
  BY <1>1 DEF RibInv, ForwarderInv
<1>4. CASE cmd.update.face = batchFace
  <2>1. /\ inProgress' = FALSE /\ failed' = failed \cup {cmd.for} /\ wire' = Taken(cmd)
        /\ UNCHANGED <<rib, queue, batchFace, batchUpdates, otherUpdates, inheritUpdates, fault>>
    BY <1>4 DEF OnFaceNotFound
  <2>2. cmd.for \in Update
    BY <1>2 DEF Command
  <2>3. TableInv' /\ BatchInv' /\ HistoryInv' /\ queue' \in Seq(Update)
    BY <1>1, <2>1, <2>2 DEF RibInv, TableInv, BatchInv, HistoryInv
  <2>4. InProgressIsAnswered'
    BY <2>1 DEF InProgressIsAnswered
  <2>. QED
    BY <1>2, <1>3, <2>1, <2>3, <2>4 DEF RibInv
<1>5. CASE cmd.update.face # batchFace
  <2>1. OtherUpdateDone(cmd) /\ UNCHANGED failed
    BY <1>5 DEF OnFaceNotFound
  <2>2. /\ TableInv' /\ BatchInv' /\ queue' \in Seq(Update) /\ wire' \in Seq(SUBSET Command)
        /\ fault' \in {fault, "no entry"} /\ InProgressIsAnswered'
    BY <1>1, <1>5, <2>1, OtherStep
  <2>3. HistoryInv'
    BY <1>1, <2>1, <2>2 DEF RibInv, HistoryInv
  <2>. QED
    BY <1>3, <2>2, <2>3 DEF RibInv
<1>. QED
  BY <1>4, <1>5

\* a timeout, whether the command is sent again or the updater gives up,
LEMMA TimeoutStep ==
  ASSUME RibInv, NEW k \in DOMAIN wire, NEW cmd \in wire[k], OnTimeout(k, cmd)
  PROVE  RibInv'
<1>1. /\ fault = "none" /\ cmd.live
      /\ UNCHANGED <<rib, queue, inProgress, batchFace, batchUpdates, otherUpdates, inheritUpdates,
                     fib, faces, notices, snapshot, failed, lasting, requests, fired>>
  BY DEF OnTimeout, Rest, ribVars, faceVars
<1>2. TableInv' /\ BatchInv' /\ ForwarderInv' /\ queue' \in Seq(Update)
  BY <1>1 DEF RibInv, TableInv, BatchInv, ForwarderInv
<1>3. PICK w, d : w = Abandoned(k, cmd) /\ d = [cmd EXCEPT !.op = "add", !.tries = @ + 1]
  OBVIOUS
<1>4. /\ cmd \in Command /\ w \in Seq(SUBSET Command)
      /\ \A u : u # cmd.update /\ Answered(wire, u) => Answered(w, u)
  BY <1>3, AbandonedKeeps DEF RibInv
<1>5. CASE cmd.tries < MaxTimeouts
  <2>1. PICK G : G = {d}
    OBVIOUS
  <2>2. wire' = Append(w, G) /\ UNCHANGED fault
    BY <1>3, <1>5, <2>1 DEF OnTimeout, Abandoned
  <2>3. d \in Command /\ d.live /\ d.update = cmd.update
    <3>1. PICK t : t = cmd.tries + 1 /\ t \in 0..MaxTimeouts
      BY <1>4, <1>5, RibAssumption DEF Command
    <3>2. cmd.live = TRUE
      BY <1>1, <1>4 DEF Command
    <3>3. d = [cmd EXCEPT !.op = "add", !.tries = t]
      BY <1>3, <1>4, <3>1 DEF Command
    <3>4. d = [update |-> cmd.update, op |-> "add", for |-> cmd.for, tries |-> t, live |-> TRUE]
      BY <1>4, <3>2, <3>3 DEF Command
    <3>. QED
      BY <1>4, <3>1, <3>4 DEF Command
  <2>4. G \in SUBSET Command
    BY <2>1, <2>3
  <2>5. /\ wire' \in Seq(SUBSET Command)
        /\ \A u : Answered(w, u) => Answered(wire', u)
        /\ \A u : (\E c \in G : c.live /\ c.update = u) => Answered(wire', u)
    <3>1. PICK v : v = Append(w, G)
      OBVIOUS
    <3>2. /\ v \in Seq(SUBSET Command)
          /\ \A u : Answered(w, u) => Answered(v, u)
          /\ \A u : (\E c \in G : c.live /\ c.update = u) => Answered(v, u)
      BY <3>1, <2>4, <1>4, GroupAdded
    <3>3. wire' = v
      BY <3>1, <2>2
    <3>. QED
      BY <3>2, <3>3
  <2>6. Answered(wire', cmd.update)
    BY <2>1, <2>3, <2>5
  <2>7. \A u : Answered(wire, u) => Answered(wire', u)
    BY <1>4, <2>5, <2>6
  <2>8. InProgressIsAnswered'
    BY <1>1, <2>2, <2>7, AnsweredForm DEF RibInv, InProgressIsAnswered, Answered
  <2>9. HistoryInv'
    BY <1>1, <2>2 DEF RibInv, HistoryInv
  <2>. QED
    BY <1>2, <2>5, <2>8, <2>9 DEF RibInv
<1>6. CASE ~(cmd.tries < MaxTimeouts)
  <2>1. fault' = "timeouts" /\ UNCHANGED wire
    BY <1>6 DEF OnTimeout
  <2>2. HistoryInv' /\ wire' \in Seq(SUBSET Command)
    BY <1>1, <2>1 DEF RibInv, HistoryInv
  <2>3. InProgressIsAnswered'
    BY <2>1 DEF InProgressIsAnswered
  <2>. QED
    BY <1>2, <2>2, <2>3 DEF RibInv
<1>. QED
  BY <1>5, <1>6

----------------------------------------------------------------------------
(* Theorems *)

\* and a step of something else.
LEMMA InvStutter ==
  ASSUME RibInv, UNCHANGED vars
  PROVE  RibInv'
<1>1. UNCHANGED <<rib, queue, inProgress, batchFace, batchUpdates, otherUpdates, inheritUpdates,
                  wire, fib, faces, notices, snapshot, failed, lasting, fault, requests, fired>>
  BY DEF vars, ribVars, faceVars
<1>2. TableInv' /\ BatchInv' /\ ForwarderInv' /\ HistoryInv' /\ queue' \in Seq(Update)
      /\ wire' \in Seq(SUBSET Command)
  BY <1>1 DEF RibInv, TableInv, BatchInv, ForwarderInv, HistoryInv
<1>3. InProgressIsAnswered'
  BY <1>1 DEF InProgressIsAnswered, RibInv
<1>. QED
  BY <1>2, <1>3 DEF RibInv

\* The inductive invariant: what the table is, that the updates of a batch are sorted
\* by face, and that those still needed have commands under way.
THEOREM RibInvariance == Spec => []RibInv
<1>1. Init => RibInv
  BY InvInit
<1>2. RibInv /\ [Next]_vars => RibInv'
  <2>. SUFFICES ASSUME RibInv, [Next]_vars PROVE RibInv'
    OBVIOUS
  <2>1. ASSUME NEW q \in Requests, RegisterEntry(q) \/ UnregisterEntry(q) \/ RegistrationExpires(q)
        PROVE  RibInv'
    BY <2>1, RegisterStep, RegistrationExpiresStep
  <2>2. ASSUME NEW n \in DOMAIN rib, NEW i \in DOMAIN rib[n].routes, RouteExpiration(n, i) PROVE RibInv'
    BY <2>2, ExpirationStep
  <2>3. CASE SendBatchFromQueue
    BY <2>3, SendBatchStep
  <2>4. CASE NullRoute
    BY <2>4, NullRouteStep
  <2>5. ASSUME NEW cmd \in Ready, ExecuteLate(cmd) \/ OnUpdateSuccess(cmd) \/ OnFaceNotFound(cmd)
        PROVE  RibInv'
    BY <2>5, LateStep, SuccessStep, FaceNotFoundStep
  <2>6. ASSUME NEW k \in DOMAIN wire, NEW cmd \in wire[k], OnTimeout(k, cmd) PROVE RibInv'
    BY <2>6, TimeoutStep
  <2>7. ASSUME NEW f \in Face, BeginRemoveFace(f) PROVE RibInv'
    BY <2>7, RemoveFacesStep
  <2>8. ASSUME NEW f \in Face, FaceDestroyed(f) \/ FaceCreated(f) \/ NoticeLost(f) PROVE RibInv'
    BY <2>8, ForwarderStep
  <2>9. ASSUME NEW active \in snapshot, BeginRemoveFailedFaces(active) PROVE RibInv'
    BY <2>9, RemoveFacesStep
  <2>10. CASE FetchActiveFaces
    BY <2>10, ForwarderStep
  <2>11. CASE UNCHANGED vars
    BY <2>11, InvStutter
  <2>. QED
    BY <2>1, <2>2, <2>3, <2>4, <2>5, <2>6, <2>7, <2>8, <2>9, <2>10, <2>11 DEF Next
<1>. QED
  BY <1>1, <1>2, PTL DEF Spec

\* The RIB, the updates it computes, the commands it sends and the FIB are well formed
\* in every reachable state; an entry always has a route.
THEOREM TypeCorrect == Spec => []TypeOK
<1>1. RibInv => TypeOK
  BY InvTypes
<1>. QED
  BY <1>1, RibInvariance, PTL

\* insert and eraseEntry keep the parent pointers right for every tree of names.
THEOREM ParentsNearest == Spec => []ParentIsNearest
<1>1. RibInv => ParentIsNearest
  BY InvTypes
<1>. QED
  BY <1>1, RibInvariance, PTL

\* While an update is in progress every FIB update it needs has a command under way
\* whose answer counts: failed batches, late answers and retries included.
THEOREM NeverWaitsForNothing == Spec => []InProgressIsAnswered
<1>1. RibInv => InProgressIsAnswered
  BY DEF RibInv
<1>. QED
  BY <1>1, RibInvariance, PTL
=============================================================================
