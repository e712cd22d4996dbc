------------------------- MODULE ReadvertiseProofs -------------------------
(***************************************************************************)
(* Proofs that Readvertise.tla withdraws a prefix with its last route and  *)
(* that, as long as no two commands of a prefix overlap, the iterators     *)
(* kept for it are valid and what is under way is what the routes want,    *)
(* for any routes, names, policy and numbers of commands under way.        *)
(***************************************************************************)
EXTENDS Readvertise, TLAPS, FiniteSetTheorems, SequenceTheorems

----------------------------------------------------------------------------
(* The inductive invariant *)

\* The routes of the RIB that point to a ReadvertisedRoute.
Users(i) == {r \in routes : index[r] = i}

\* The index of routes and m_rrs belong together.
Linked ==
  /\ IsFiniteSet(routes) /\ Len(rr) <= changes
  /\ \A r \in Route : r \notin routes => index[r] = NoRr
  /\ \A r \in Route : index[r] # NoRr => rr[index[r]].prefix = Policy[r]
  /\ \A i, j \in live : rr[i].prefix = rr[j].prefix => i = j

\* nRibRoutes, as afterAddRoute and beforeRemoveRoute keep it, is the number of routes of
\* the RIB that point to the ReadvertisedRoute.
CountsRoutes ==
  \A i \in live : rr[i].nRibRoutes = Cardinality({r \in routes : index[r] = i})

\* No command is under way for a ReadvertisedRoute that has not been made.
SentForMade == \A k \in Kind : \A i \in Id : i > Len(rr) => flying[<<k, i>>] = 0

\* While the destination is away, m_rrs holds only prefixes that have routes.
ServedWhileAway == ~available => \A i \in live : rr[i].nRibRoutes > 0

\* What SafeWithoutOverlap says of one ReadvertisedRoute, with at most one command
\* under way, and no withdrawal scheduled while the destination is away.
SafeRr(p, i) ==
  /\ UnderWay(i) => i \in live
  /\ flying[<<"advertise", i>>] + flying[<<"withdraw", i>>] <= 1
  /\ flying[<<"advertise", i>>] > 0 => Needed(p)
  /\ flying[<<"withdraw", i>>] > 0 => ~Needed(p)
  /\ ~UnderWay(i) /\ i \in live /\ available =>
       rr[i].retryEvt = IF Needed(p) THEN "advertise" ELSE "withdraw"
  /\ ~available /\ i \in live => rr[i].retryEvt # "withdraw"

Safe(p) ==
  /\ \A r \in routes : Policy[r] = p => index[r] \in Known(p)
  /\ \A i \in 1..Len(rr) : rr[i].prefix = p => SafeRr(p, i)

SafePrefixes == ~fault => \A p \in Prefix \ overlapped : Safe(p)

Table == TypeOK /\ Linked /\ SentForMade /\ CountsRoutes /\ ServedWhileAway

Inv == Table /\ SafePrefixes

----------------------------------------------------------------------------
(* What the helpers of the actions do *)

\* The ReadvertisedRoutes and their fields.
LEMMA RrTyped ==
  ASSUME TypeOK
  PROVE  /\ rr \in Seq(ReadvertisedRoute) /\ Len(rr) \in Nat /\ DOMAIN rr = 1..Len(rr)
         /\ live \subseteq 1..Len(rr) /\ 1..Len(rr) \subseteq Id
         /\ \A i \in 1..Len(rr) : /\ rr[i] \in ReadvertisedRoute
                                  /\ rr[i].prefix \in Prefix /\ rr[i].nRibRoutes \in Nat
                                  /\ rr[i].retryEvt \in Kind \cup {"none"}
<1>1. rr \in Seq(ReadvertisedRoute) /\ Len(rr) <= MaxChanges /\ live \subseteq 1..Len(rr)
  BY DEF TypeOK
<1>2. Len(rr) \in Nat /\ DOMAIN rr = 1..Len(rr)
  BY <1>1, LenProperties
<1>3. \A i \in 1..Len(rr) : rr[i] \in ReadvertisedRoute
  BY <1>1
<1>4. 1..Len(rr) \subseteq Id
  BY <1>1, <1>2, BoundAssumption DEF Id
<1>5. \A x \in ReadvertisedRoute : x.prefix \in Prefix /\ x.nRibRoutes \in Nat
                                     /\ x.retryEvt \in Kind \cup {"none"}
  BY DEF ReadvertisedRoute
<1>. QED
  BY <1>1, <1>2, <1>3, <1>4, <1>5

\* Send adds one command under way for each ReadvertisedRoute it is given.
LEMMA SendAdds ==
  ASSUME TypeOK, NEW A \in SUBSET Id, NEW W \in SUBSET Id, Send(A, W)
  PROVE  /\ flying' \in [Kind \X Id -> 0..MaxFlying]
         /\ \A i \in Id :
              /\ flying'[<<"advertise", i>>] =
                   IF i \in A THEN flying[<<"advertise", i>>] + 1 ELSE flying[<<"advertise", i>>]
              /\ flying'[<<"withdraw", i>>] =
                   IF i \in W THEN flying[<<"withdraw", i>>] + 1 ELSE flying[<<"withdraw", i>>]
<1>. DEFINE sent == ({"advertise"} \X A) \cup ({"withdraw"} \X W)
<1>1. \A c \in sent : flying[c] < MaxFlying
  BY DEF Send
<1>2. flying' = [c \in Kind \X Id |-> IF c \in sent THEN flying[c] + 1 ELSE flying[c]]
  BY DEF Send
<1>3. \A i \in Id : /\ <<"advertise", i>> \in Kind \X Id /\ <<"withdraw", i>> \in Kind \X Id
                    /\ <<"advertise", i>> \in sent <=> i \in A
                    /\ <<"withdraw", i>> \in sent <=> i \in W
  BY DEF Kind
<1>4. \A c \in Kind \X Id : flying[c] \in 0..MaxFlying
  BY DEF TypeOK
<1>. HIDE DEF sent
<1>5. \A c \in Kind \X Id : (IF c \in sent THEN flying[c] + 1 ELSE flying[c]) \in 0..MaxFlying
  BY <1>1, <1>4, BoundAssumption
<1>. QED
  BY <1>2, <1>3, <1>5

\* The same when only advertisements are sent.
LEMMA SendAdvertises ==
  ASSUME TypeOK, NEW A \in SUBSET Id, Send(A, {})
  PROVE  /\ flying' \in [Kind \X Id -> 0..MaxFlying]
         /\ \A i \in Id :
              /\ flying'[<<"advertise", i>>] =
                   IF i \in A THEN flying[<<"advertise", i>>] + 1 ELSE flying[<<"advertise", i>>]
              /\ flying'[<<"withdraw", i>>] = flying[<<"withdraw", i>>]
<1>. DEFINE W == {}
<1>1. W \in SUBSET Id /\ Send(A, W) /\ \A i : i \notin W
  OBVIOUS
<1>. HIDE DEF W
<1>. QED
  BY <1>1, SendAdds

\* The same when only withdrawals are sent.
LEMMA SendWithdraws ==
  ASSUME TypeOK, NEW W \in SUBSET Id, Send({}, W)
  PROVE  /\ flying' \in [Kind \X Id -> 0..MaxFlying]
         /\ \A i \in Id :
              /\ flying'[<<"advertise", i>>] = flying[<<"advertise", i>>]
              /\ flying'[<<"withdraw", i>>] =
                   IF i \in W THEN flying[<<"withdraw", i>>] + 1 ELSE flying[<<"withdraw", i>>]
<1>. DEFINE A == {}
<1>1. A \in SUBSET Id /\ Send(A, W) /\ \A i : i \notin A
  OBVIOUS
<1>. HIDE DEF A
<1>2. /\ flying' \in [Kind \X Id -> 0..MaxFlying]
      /\ \A i \in Id :
           /\ flying'[<<"advertise", i>>] =
                IF i \in A THEN flying[<<"advertise", i>>] + 1 ELSE flying[<<"advertise", i>>]
           /\ flying'[<<"withdraw", i>>] =
                IF i \in W THEN flying[<<"withdraw", i>>] + 1 ELSE flying[<<"withdraw", i>>]
  BY <1>1, SendAdds
<1>. QED
  BY <1>1, <1>2

\* Nothing is under way for what has not been made, whatever is sent for what has been.
LEMMA SentForMadeKept ==
  ASSUME TypeOK, SentForMade, Len(rr') \in Nat, Len(rr) <= Len(rr'),
         \A i \in Id \ 1..Len(rr') :
            /\ flying'[<<"advertise", i>>] = flying[<<"advertise", i>>]
            /\ flying'[<<"withdraw", i>>] = flying[<<"withdraw", i>>]
  PROVE  SentForMade'
<1>1. Len(rr) \in Nat
  BY RrTyped
<1>2. SUFFICES ASSUME NEW i \in Id, i > Len(rr')
               PROVE  flying'[<<"advertise", i>>] = 0 /\ flying'[<<"withdraw", i>>] = 0
  BY DEF SentForMade, Kind
<1>3. i \in Int /\ i \notin 1..Len(rr') /\ i > Len(rr)
  BY <1>1, <1>2, BoundAssumption DEF Id
<1>4. flying[<<"advertise", i>>] = 0 /\ flying[<<"withdraw", i>>] = 0
  BY <1>3 DEF SentForMade, Kind
<1>. QED
  BY <1>3, <1>4

\* Overlaps records the prefix of each ReadvertisedRoute for which a command is under way.
LEMMA OverlapRecorded ==
  ASSUME TypeOK, NEW S \in SUBSET (1..Len(rr)), NEW E \in SUBSET (1..Len(rr)), Overlaps(S, E)
  PROVE  /\ overlapped' \subseteq Prefix /\ overlapped \subseteq overlapped'
         /\ \A i \in S : rr[i].prefix \notin overlapped' => ~UnderWay(i)
         /\ \A i \in E : rr[i].prefix \notin overlapped' => ~UnderWay(i)'
<1>. DEFINE both == {i \in S : UnderWay(i)} \cup {i \in E : \E k \in Kind : flying'[<<k, i>>] > 0}
<1>1. overlapped' = overlapped \cup {rr[i].prefix : i \in both}
  BY DEF Overlaps
<1>2. \A i \in 1..Len(rr) : rr[i].prefix \in Prefix
  BY RrTyped
<1>3. both \subseteq 1..Len(rr)
  OBVIOUS
<1>4. \A i \in both : rr[i].prefix \in overlapped'
  BY <1>1
<1>5. \A i \in S : UnderWay(i) => i \in both
  OBVIOUS
<1>6. \A i \in E : UnderWay(i)' => i \in both
  BY DEF UnderWay
<1>. HIDE DEF both
<1>7. overlapped' \subseteq Prefix /\ overlapped \subseteq overlapped'
  BY <1>1, <1>2, <1>3 DEF TypeOK
<1>. QED
  BY <1>4, <1>5, <1>6, <1>7

\* The same when nothing is erased.
LEMMA OverlapOfSent ==
  ASSUME TypeOK, NEW S \in SUBSET (1..Len(rr)), Overlaps(S, {})
  PROVE  /\ overlapped' \subseteq Prefix /\ overlapped \subseteq overlapped'
         /\ \A i \in S : rr[i].prefix \notin overlapped' => ~UnderWay(i)
<1>. DEFINE E == {}
<1>1. E \in SUBSET (1..Len(rr)) /\ Overlaps(S, E)
  OBVIOUS
<1>. HIDE DEF E
<1>. QED
  BY <1>1, OverlapRecorded

\* One ReadvertisedRoute is changed.
LEMMA RrChanged ==
  ASSUME NEW s \in Seq(ReadvertisedRoute), NEW i \in 1..Len(s), NEW x \in ReadvertisedRoute,
         NEW t, t = [s EXCEPT ![i] = x]
  PROVE  /\ t \in Seq(ReadvertisedRoute) /\ Len(t) = Len(s)
         /\ t[i] = x /\ \A j \in 1..Len(s) : j # i => t[j] = s[j]
  OBVIOUS

\* A ReadvertisedRoute counts one route more.
LEMMA RrIncreased ==
  ASSUME TypeOK, NEW i \in 1..Len(rr), NEW t, t = [rr EXCEPT ![i].nRibRoutes = Counted(i)]
  PROVE  /\ t \in Seq(ReadvertisedRoute) /\ Len(t) = Len(rr)
         /\ t[i].prefix = rr[i].prefix /\ t[i].nRibRoutes = rr[i].nRibRoutes + 1
         /\ t[i].retryEvt = rr[i].retryEvt
         /\ \A j \in 1..Len(rr) : j # i => t[j] = rr[j]
<1>. DEFINE x == [rr[i] EXCEPT !.nRibRoutes = rr[i].nRibRoutes + 1]
<1>1. /\ x \in ReadvertisedRoute /\ x.prefix = rr[i].prefix
      /\ x.nRibRoutes = rr[i].nRibRoutes + 1 /\ x.retryEvt = rr[i].retryEvt
  BY RrTyped DEF ReadvertisedRoute
<1>2. t = [rr EXCEPT ![i] = x]
  BY DEF Counted
<1>. HIDE DEF x
<1>3. rr \in Seq(ReadvertisedRoute) /\ x \in ReadvertisedRoute
  BY <1>1, RrTyped
<1>4. /\ t \in Seq(ReadvertisedRoute) /\ Len(t) = Len(rr)
      /\ t[i] = x /\ \A j \in 1..Len(rr) : j # i => t[j] = rr[j]
  BY <1>2, <1>3, RrChanged
<1>. QED
  BY <1>1, <1>4

\* A ReadvertisedRoute counts one route less.
LEMMA RrDecreased ==
  ASSUME TypeOK, NEW i \in 1..Len(rr), rr[i].nRibRoutes > 0,
         NEW t, t = [rr EXCEPT ![i].nRibRoutes = @ - 1]
  PROVE  /\ t \in Seq(ReadvertisedRoute) /\ Len(t) = Len(rr)
         /\ t[i].prefix = rr[i].prefix /\ t[i].nRibRoutes = rr[i].nRibRoutes - 1
         /\ t[i].retryEvt = rr[i].retryEvt
         /\ \A j \in 1..Len(rr) : j # i => t[j] = rr[j]
<1>. DEFINE x == [rr[i] EXCEPT !.nRibRoutes = rr[i].nRibRoutes - 1]
<1>1. /\ x \in ReadvertisedRoute /\ x.prefix = rr[i].prefix
      /\ x.nRibRoutes = rr[i].nRibRoutes - 1 /\ x.retryEvt = rr[i].retryEvt
  <2>1. rr[i] \in ReadvertisedRoute /\ rr[i].nRibRoutes \in Nat
    BY RrTyped
  <2>2. rr[i].nRibRoutes - 1 \in Nat
    BY <2>1
  <2>. QED
    BY <2>1, <2>2 DEF ReadvertisedRoute
<1>2. t = [rr EXCEPT ![i] = x]
  BY Zenon
<1>. HIDE DEF x
<1>3. rr \in Seq(ReadvertisedRoute) /\ x \in ReadvertisedRoute
  BY <1>1, RrTyped
<1>4. /\ t \in Seq(ReadvertisedRoute) /\ Len(t) = Len(rr)
      /\ t[i] = x /\ \A j \in 1..Len(rr) : j # i => t[j] = rr[j]
  BY <1>2, <1>3, RrChanged
<1>. QED
  BY <1>1, <1>4

\* The timer of a ReadvertisedRoute is set or cancelled.
LEMMA RrRescheduled ==
  ASSUME TypeOK, NEW i \in 1..Len(rr), NEW k \in Kind \cup {"none"}, Rescheduled(k, i)
  PROVE  /\ rr' \in Seq(ReadvertisedRoute) /\ Len(rr') = Len(rr) /\ rr'[i].retryEvt = k
         /\ \A j \in 1..Len(rr) : /\ rr'[j].prefix = rr[j].prefix
                                  /\ rr'[j].nRibRoutes = rr[j].nRibRoutes
                                  /\ j # i => rr'[j] = rr[j]
<1>. DEFINE x == [rr[i] EXCEPT !.retryEvt = k]
<1>1. /\ x \in ReadvertisedRoute /\ x.prefix = rr[i].prefix
      /\ x.nRibRoutes = rr[i].nRibRoutes /\ x.retryEvt = k
  BY RrTyped DEF ReadvertisedRoute
<1>2. rr' = [rr EXCEPT ![i] = x]
  BY Zenon DEF Rescheduled
<1>. HIDE DEF x
<1>3. rr \in Seq(ReadvertisedRoute) /\ x \in ReadvertisedRoute
  BY <1>1, RrTyped
<1>4. /\ rr' \in Seq(ReadvertisedRoute) /\ Len(rr') = Len(rr)
      /\ rr'[i] = x /\ \A j \in 1..Len(rr) : j # i => rr'[j] = rr[j]
  BY <1>2, <1>3, RrChanged
<1>. QED
  BY <1>1, <1>4

\* afterDestinationUnavailable leaves everything but the timers.
LEMMA CancelledRrs ==
  ASSUME NEW s \in Seq(ReadvertisedRoute)
  PROVE  /\ Cancelled(s) \in Seq(ReadvertisedRoute) /\ Len(Cancelled(s)) = Len(s)
         /\ \A j \in 1..Len(s) : /\ Cancelled(s)[j].prefix = s[j].prefix
                                 /\ Cancelled(s)[j].nRibRoutes = s[j].nRibRoutes
                                 /\ Cancelled(s)[j].retryEvt = "none"
<1>1. DOMAIN s = 1..Len(s) /\ Len(s) \in Nat
  BY LenProperties
<1>2. \A j \in 1..Len(s) : s[j] \in ReadvertisedRoute
  OBVIOUS
<1>3. \A j \in 1..Len(s) : /\ [s[j] EXCEPT !.retryEvt = "none"] \in ReadvertisedRoute
                           /\ [s[j] EXCEPT !.retryEvt = "none"].prefix = s[j].prefix
                           /\ [s[j] EXCEPT !.retryEvt = "none"].nRibRoutes = s[j].nRibRoutes
                           /\ [s[j] EXCEPT !.retryEvt = "none"].retryEvt = "none"
  BY <1>2 DEF ReadvertisedRoute
<1>4. Cancelled(s) = [j \in 1..Len(s) |-> [s[j] EXCEPT !.retryEvt = "none"]]
  BY <1>1 DEF Cancelled
<1>5. Cancelled(s) \in [1..Len(s) -> ReadvertisedRoute]
  BY <1>3, <1>4
<1>6. Cancelled(s) \in Seq(ReadvertisedRoute) /\ Len(Cancelled(s)) = Len(s)
  BY <1>1, <1>5
<1>. QED
  BY <1>3, <1>4, <1>6

----------------------------------------------------------------------------
(* Routes and their prefixes *)

\* A ReadvertisedRoute that a route points to counts it.
LEMMA UserCounted ==
  ASSUME Inv, NEW r \in routes, index[r] \in live
  PROVE  rr[index[r]].nRibRoutes > 0
<1>. DEFINE i == index[r]
<1>1. r \in Users(i) /\ Users(i) \subseteq routes
  BY DEF Users
<1>2. IsFiniteSet(Users(i))
  BY <1>1, FS_Subset DEF Inv, Table, Linked
<1>3. Cardinality(Users(i)) # 0 /\ Cardinality(Users(i)) \in Nat
  BY <1>1, <1>2, FS_EmptySet, FS_CardinalityType
<1>4. rr[i].nRibRoutes = Cardinality(Users(i))
  BY DEF Inv, Table, CountsRoutes, Users
<1>. QED
  BY <1>3, <1>4

\* A prefix that is safe is needed exactly while its ReadvertisedRoute counts a route.
LEMMA NeededIsCounted ==
  ASSUME Inv, NEW p \in Prefix, Safe(p), NEW i \in live, rr[i].prefix = p
  PROVE  Needed(p) <=> rr[i].nRibRoutes > 0
<1>1. ASSUME Needed(p) PROVE rr[i].nRibRoutes > 0
  <2>1. PICK r \in routes : Policy[r] = p
    BY <1>1 DEF Needed
  <2>2. index[r] \in live /\ rr[index[r]].prefix = p
    BY <2>1 DEF Safe, Known
  <2>3. index[r] = i
    BY <2>2 DEF Inv, Table, Linked
  <2>. QED
    BY <2>2, <2>3, UserCounted
<1>2. ASSUME rr[i].nRibRoutes > 0 PROVE Needed(p)
  <2>1. Cardinality(Users(i)) # 0
    BY <1>2 DEF Inv, Table, CountsRoutes, Users
  <2>2. Users(i) # {}
    BY <2>1, FS_EmptySet
  <2>3. PICK r \in routes : index[r] = i
    BY <2>2 DEF Users
  <2>4. r \in Route /\ index[r] # NoRr
    BY <2>3, BoundAssumption DEF Inv, Table, TypeOK
  <2>. QED
    BY <2>3, <2>4 DEF Inv, Table, Linked, Needed
<1>. QED
  BY <1>1, <1>2

----------------------------------------------------------------------------
(* Routes come *)

\* What every action of a route that comes does.
LEMMA AddedRoute ==
  ASSUME Table, NEW r \in Route, Added(r)
  PROVE  /\ routes' \subseteq Route /\ IsFiniteSet(routes') /\ r \notin routes
         /\ routes' = routes \cup {r} /\ index[r] = NoRr
         /\ changes' = changes + 1 /\ changes \in Nat /\ changes' \in 0..MaxChanges
         /\ available' \in BOOLEAN /\ available' = (available \/ Comes(r))
         /\ gateway' = gateway /\ fault' = fault /\ ~fault
         /\ Again(r) \subseteq live
<1>1. IsFiniteSet(routes \cup {r})
  BY FS_AddElement DEF Table, Linked
<1>2. changes' \in 0..MaxChanges
  BY BoundAssumption DEF Added, Table, TypeOK
<1>. QED
  BY <1>1, <1>2, BoundAssumption DEF Added, Table, TypeOK, Linked, Again

\* AddUnadvertised keeps the table and its counts.
LEMMA AddUnadvertisedTable ==
  ASSUME Table, NEW r \in Route, AddUnadvertised(r)
  PROVE  Table'
<1>1. Added(r) /\ Send(Again(r), {}) /\ Overlaps(Again(r), {}) /\ UNCHANGED <<rr, live, index>>
  BY DEF AddUnadvertised, tableVars
<1>2. TypeOK /\ Linked /\ SentForMade /\ CountsRoutes /\ ServedWhileAway
  BY DEF Table
<1>3. Again(r) \in SUBSET Id /\ Again(r) \in SUBSET (1..Len(rr))
  BY <1>1, <1>2, AddedRoute, RrTyped
<1>4. overlapped' \subseteq Prefix
  BY <1>1, <1>2, <1>3, OverlapRecorded
<1>5. /\ flying' \in [Kind \X Id -> 0..MaxFlying]
      /\ \A i \in Id :
           /\ flying'[<<"advertise", i>>] =
                IF i \in Again(r) THEN flying[<<"advertise", i>>] + 1
                ELSE flying[<<"advertise", i>>]
           /\ flying'[<<"withdraw", i>>] = flying[<<"withdraw", i>>]
  BY <1>1, <1>2, <1>3, SendAdvertises
<1>6. TypeOK'
  BY <1>1, <1>2, <1>4, <1>5, AddedRoute DEF TypeOK
<1>7. Linked'
  BY <1>1, <1>2, AddedRoute, RrTyped DEF Linked
<1>8. SentForMade'
  <2>1. \A i \in Id \ 1..Len(rr') :
           /\ flying'[<<"advertise", i>>] = flying[<<"advertise", i>>]
           /\ flying'[<<"withdraw", i>>] = flying[<<"withdraw", i>>]
    BY <1>1, <1>3, <1>5
  <2>2. Len(rr') \in Nat /\ Len(rr) <= Len(rr')
    BY <1>1, <1>2, RrTyped
  <2>. QED
    BY <2>1, <2>2, <1>2, SentForMadeKept
<1>9. CountsRoutes'
  <2>1. \A i \in live : {s \in routes' : index'[s] = i} = {s \in routes : index[s] = i}
    BY <1>1, <1>2, AddedRoute, RrTyped, BoundAssumption
  <2>. QED
    BY <2>1, <1>1, <1>2 DEF CountsRoutes
<1>10. ServedWhileAway'
  BY <1>1, <1>2, AddedRoute DEF ServedWhileAway
<1>. QED
  BY <1>6, <1>7, <1>8, <1>9, <1>10 DEF Table

\* AddKnown keeps the table and its counts.
LEMMA AddKnownTable ==
  ASSUME Table, NEW r \in Route, AddKnown(r)
  PROVE  Table'
<1>1. PICK i \in Known(Policy[r]) :
        LET S == Again(r) \cup IfAvailable(Needing(i), available')
        IN /\ rr' = [rr EXCEPT ![i].nRibRoutes = Counted(i)]
           /\ index' = [index EXCEPT ![r] = i]
           /\ Send(S, {}) /\ Overlaps(S, {})
           /\ UNCHANGED live
  BY DEF AddKnown
<1>. DEFINE S == Again(r) \cup IfAvailable(Needing(i), available')
<1>2. Added(r) /\ TypeOK /\ Linked /\ SentForMade /\ CountsRoutes /\ ServedWhileAway
  BY DEF AddKnown, Table
<1>3. i \in live /\ i \in 1..Len(rr) /\ rr[i].prefix = Policy[r]
  BY <1>2, RrTyped DEF Known
<1>4. S \in SUBSET Id /\ S \in SUBSET (1..Len(rr)) /\ S \subseteq live
  BY <1>2, <1>3, AddedRoute, RrTyped DEF IfAvailable, Needing
<1>5. overlapped' \subseteq Prefix
  BY <1>1, <1>2, <1>4, OverlapRecorded
<1>6. /\ flying' \in [Kind \X Id -> 0..MaxFlying]
      /\ \A j \in Id :
           /\ flying'[<<"advertise", j>>] =
                IF j \in S THEN flying[<<"advertise", j>>] + 1 ELSE flying[<<"advertise", j>>]
           /\ flying'[<<"withdraw", j>>] = flying[<<"withdraw", j>>]
  BY <1>1, <1>2, <1>4, SendAdvertises
<1>7. /\ rr' \in Seq(ReadvertisedRoute) /\ Len(rr') = Len(rr)
      /\ rr'[i].prefix = rr[i].prefix /\ rr'[i].nRibRoutes = rr[i].nRibRoutes + 1
      /\ \A j \in 1..Len(rr) : j # i => rr'[j] = rr[j]
  BY <1>1, <1>2, <1>3, RrIncreased
<1>. HIDE DEF S
<1>8. /\ index'[r] = i /\ \A s \in Route : s # r => index'[s] = index[s]
      /\ index' \in [Route -> 1..Len(rr) \cup {NoRr}]
  BY <1>1, <1>2, <1>3 DEF TypeOK
<1>9. TypeOK'
  BY <1>1, <1>2, <1>5, <1>6, <1>7, <1>8, AddedRoute DEF TypeOK
<1>10. Linked'
  BY <1>1, <1>2, <1>3, <1>7, <1>8, AddedRoute, RrTyped DEF Linked
<1>11. SentForMade'
  <2>1. \A j \in Id \ 1..Len(rr') :
           /\ flying'[<<"advertise", j>>] = flying[<<"advertise", j>>]
           /\ flying'[<<"withdraw", j>>] = flying[<<"withdraw", j>>]
    BY <1>4, <1>6, <1>7
  <2>2. Len(rr') \in Nat /\ Len(rr) <= Len(rr')
    BY <1>2, <1>7, RrTyped
  <2>. QED
    BY <2>1, <2>2, <1>2, SentForMadeKept
<1>12. CountsRoutes'
  <2>1. \A j \in live : j # i =>
          {s \in routes' : index'[s] = j} = {s \in routes : index[s] = j}
    BY <1>2, <1>8, AddedRoute, RrTyped, BoundAssumption
  <2>2. {s \in routes' : index'[s] = i} = {s \in routes : index[s] = i} \cup {r}
    BY <1>2, <1>8, AddedRoute
  <2>3. IsFiniteSet({s \in routes : index[s] = i})
    BY <1>2, FS_Subset DEF Linked
  <2>4. Cardinality({s \in routes' : index'[s] = i})
          = Cardinality({s \in routes : index[s] = i}) + 1
    BY <2>2, <2>3, <1>2, AddedRoute, FS_AddElement
  <2>. QED
    BY <2>1, <2>4, <1>1, <1>2, <1>3, <1>7, RrTyped DEF CountsRoutes
<1>13. ServedWhileAway'
  BY <1>1, <1>2, <1>3, <1>7, AddedRoute, RrTyped DEF ServedWhileAway
<1>. QED
  BY <1>9, <1>10, <1>11, <1>12, <1>13 DEF Table

\* AddNew keeps the table and its counts.
LEMMA AddNewTable ==
  ASSUME Table, NEW r \in Route, AddNew(r)
  PROVE  Table'
<1>. DEFINE i == Len(rr) + 1
            x == [prefix |-> Policy[r], nRibRoutes |-> 1, retryEvt |-> "none"]
            S == Again(r) \cup IfAvailable({i}, available')
<1>1. /\ Added(r) /\ Policy[r] # NoPrefix /\ Known(Policy[r]) = {}
      /\ rr' = Append(rr, x) /\ live' = live \cup {i} /\ index' = [index EXCEPT ![r] = i]
      /\ Send(S, {}) /\ Overlaps(Again(r), {})
  BY DEF AddNew, Advertised
<1>2. TypeOK /\ Linked /\ SentForMade /\ CountsRoutes /\ ServedWhileAway
  BY DEF Table
<1>3. x \in ReadvertisedRoute
  BY <1>1, RouteAssumption DEF ReadvertisedRoute
<1>4. /\ rr' \in Seq(ReadvertisedRoute) /\ Len(rr') = i /\ Len(rr) \in Nat
      /\ rr'[i] = x /\ \A j \in 1..Len(rr) : rr'[j] = rr[j]
  <2>. HIDE DEF x
  <2>. QED
    BY <1>1, <1>2, <1>3, RrTyped, AppendProperties
<1>5. rr'[i].prefix = Policy[r] /\ rr'[i].nRibRoutes = 1
  BY <1>4
<1>. HIDE DEF x
<1>6. i \in Id /\ i \in 1..Len(rr') /\ i \notin 1..Len(rr) /\ Len(rr') <= changes' /\ i <= MaxChanges
  BY <1>1, <1>2, <1>4, AddedRoute, BoundAssumption DEF Linked, Id
<1>7. S \in SUBSET Id /\ S \in SUBSET (1..Len(rr')) /\ Again(r) \in SUBSET (1..Len(rr))
  BY <1>1, <1>2, <1>4, <1>6, AddedRoute, RrTyped DEF IfAvailable
<1>8. overlapped' \subseteq Prefix
  BY <1>1, <1>2, <1>7, OverlapRecorded
<1>9. /\ flying' \in [Kind \X Id -> 0..MaxFlying]
      /\ \A j \in Id :
           /\ flying'[<<"advertise", j>>] =
                IF j \in S THEN flying[<<"advertise", j>>] + 1 ELSE flying[<<"advertise", j>>]
           /\ flying'[<<"withdraw", j>>] = flying[<<"withdraw", j>>]
  BY <1>1, <1>2, <1>7, SendAdvertises
<1>10. /\ index'[r] = i /\ \A s \in Route : s # r => index'[s] = index[s]
       /\ index' \in [Route -> 1..Len(rr') \cup {NoRr}]
       /\ \A s \in Route : index[s] \in 1..Len(rr) \cup {NoRr}
  <2>1. index \in [Route -> 1..Len(rr) \cup {NoRr}]
    BY <1>2 DEF TypeOK
  <2>2. 1..Len(rr) \subseteq 1..Len(rr')
    BY <1>4
  <2>. HIDE DEF i
  <2>. QED
    BY <2>1, <2>2, <1>1, <1>6
<1>11. live' \subseteq 1..Len(rr')
  BY <1>1, <1>2, <1>4, <1>6, RrTyped
<1>. HIDE DEF i, S
<1>12. TypeOK'
  BY <1>1, <1>2, <1>4, <1>6, <1>8, <1>9, <1>10, <1>11, AddedRoute DEF TypeOK
<1>13. Linked'
  <2>1. IsFiniteSet(routes') /\ Len(rr') <= changes'
    BY <1>1, <1>2, <1>6, AddedRoute
  <2>2. \A s \in Route : s \notin routes' => index'[s] = NoRr
    BY <1>1, <1>2, <1>10, AddedRoute DEF Linked
  <2>3. \A s \in Route : index'[s] # NoRr => rr'[index'[s]].prefix = Policy[s]
    BY <1>2, <1>4, <1>5, <1>10 DEF Linked
  <2>4. \A j \in live : rr'[j].prefix = rr[j].prefix /\ rr[j].prefix # Policy[r]
    BY <1>1, <1>2, <1>4, RrTyped DEF Known
  <2>5. \A j, k \in live' : rr'[j].prefix = rr'[k].prefix => j = k
    <3>1. \A j, k \in live : rr[j].prefix = rr[k].prefix => j = k
      BY <1>2 DEF Linked
    <3>2. live' = live \cup {i}
      BY <1>1
    <3>. QED
      BY <3>1, <3>2, <2>4, <1>5
  <2>. QED
    BY <2>1, <2>2, <2>3, <2>5 DEF Linked
<1>14. SentForMade'
  <2>1. \A j \in Id \ 1..Len(rr') :
           /\ flying'[<<"advertise", j>>] = flying[<<"advertise", j>>]
           /\ flying'[<<"withdraw", j>>] = flying[<<"withdraw", j>>]
    BY <1>7, <1>9
  <2>2. Len(rr') \in Nat /\ Len(rr) <= Len(rr')
    BY <1>4 DEF i
  <2>. QED
    BY <2>1, <2>2, <1>2, SentForMadeKept
<1>15. CountsRoutes'
  <2>1. \A j \in live : {s \in routes' : index'[s] = j} = {s \in routes : index[s] = j}
    BY <1>1, <1>2, <1>6, <1>10, AddedRoute, RrTyped, BoundAssumption
  <2>2. \A s \in routes : index[s] # i /\ s \in Route /\ s # r
    BY <1>1, <1>2, <1>6, <1>10, AddedRoute, BoundAssumption DEF TypeOK, Id
  <2>3. {s \in routes' : index'[s] = i} = {r}
    BY <2>2, <1>1, <1>2, <1>10, AddedRoute
  <2>4. Cardinality({s \in routes' : index'[s] = i}) = 1
    BY <2>3, FS_Singleton
  <2>. QED
    BY <2>1, <2>4, <1>1, <1>2, <1>4, <1>5, RrTyped DEF CountsRoutes
<1>16. ServedWhileAway'
  BY <1>1, <1>2, <1>4, <1>5, AddedRoute, RrTyped DEF ServedWhileAway
<1>. QED
  BY <1>12, <1>13, <1>14, <1>15, <1>16 DEF Table

----------------------------------------------------------------------------
(* Routes go *)

\* What every action of a route that goes does.
LEMMA RemovedRoute ==
  ASSUME Table, NEW r \in Route, Removed(r)
  PROVE  /\ routes' \subseteq Route /\ IsFiniteSet(routes') /\ r \in routes
         /\ routes' = routes \ {r}
         /\ changes' = changes + 1 /\ changes \in Nat /\ changes' \in 0..MaxChanges
         /\ available' \in BOOLEAN /\ available' = (available /\ ~Goes(r))
         /\ gateway' = gateway /\ ~fault
         /\ Goes(r) => available
<1>1. IsFiniteSet(routes \ {r})
  BY FS_RemoveElement DEF Table, Linked
<1>2. changes' \in 0..MaxChanges
  BY BoundAssumption DEF Removed, Table, TypeOK
<1>. QED
  BY <1>1, <1>2, BoundAssumption DEF Removed, Table, TypeOK, Goes

\* RemoveUnadvertised keeps the table and its counts.
LEMMA RemoveUnadvertisedTable ==
  ASSUME Table, NEW r \in Route, RemoveUnadvertised(r)
  PROVE  Table'
<1>1. /\ Removed(r) /\ index[r] = NoRr /\ live' = Left(r, live, rr)
      /\ rr' = (IF Goes(r) THEN Cancelled(rr) ELSE rr)
      /\ UNCHANGED <<index, flying, fault>> /\ Overlaps({}, live \ live')
  BY DEF RemoveUnadvertised
<1>2. TypeOK /\ Linked /\ SentForMade /\ CountsRoutes /\ ServedWhileAway
  BY DEF Table
<1>3. /\ rr' \in Seq(ReadvertisedRoute) /\ Len(rr') = Len(rr)
      /\ \A j \in 1..Len(rr) : /\ rr'[j].prefix = rr[j].prefix
                               /\ rr'[j].nRibRoutes = rr[j].nRibRoutes
  BY <1>1, <1>2, RrTyped, CancelledRrs
<1>4. /\ live' \subseteq live /\ live \ live' \in SUBSET (1..Len(rr))
      /\ Goes(r) => \A j \in live' : rr[j].nRibRoutes > 0
  BY <1>1, <1>2, RrTyped DEF Left
<1>5. overlapped' \subseteq Prefix
  <2>. DEFINE S == {}
  <2>1. S \in SUBSET (1..Len(rr)) /\ Overlaps(S, live \ live')
    BY <1>1
  <2>. HIDE DEF S
  <2>. QED
    BY <2>1, <1>2, <1>4, OverlapRecorded
<1>6. TypeOK'
  BY <1>1, <1>2, <1>3, <1>4, <1>5, RemovedRoute DEF TypeOK
<1>7. Linked'
  <2>1. IsFiniteSet(routes') /\ Len(rr') <= changes'
    BY <1>1, <1>2, <1>3, RemovedRoute, RrTyped DEF Linked
  <2>2. \A s \in Route : index[s] # NoRr => index[s] \in 1..Len(rr)
    BY <1>2 DEF TypeOK
  <2>3. \A s \in Route : /\ s \notin routes' => index'[s] = NoRr
                         /\ index'[s] # NoRr => rr'[index'[s]].prefix = Policy[s]
    BY <2>2, <1>1, <1>2, <1>3, RemovedRoute DEF Linked
  <2>4. \A j, k \in live' : rr'[j].prefix = rr'[k].prefix => j = k
    BY <1>2, <1>3, <1>4, RrTyped DEF Linked
  <2>. QED
    BY <2>1, <2>3, <2>4 DEF Linked
<1>8. SentForMade'
  BY <1>1, <1>2, <1>3 DEF SentForMade
<1>9. CountsRoutes'
  <2>1. \A j \in live : {s \in routes' : index'[s] = j} = {s \in routes : index[s] = j}
    BY <1>1, <1>2, RemovedRoute, RrTyped, BoundAssumption
  <2>. QED
    BY <2>1, <1>2, <1>3, <1>4, RrTyped DEF CountsRoutes
<1>10. ServedWhileAway'
  BY <1>1, <1>2, <1>3, <1>4, RemovedRoute, RrTyped DEF ServedWhileAway
<1>. QED
  BY <1>6, <1>7, <1>8, <1>9, <1>10 DEF Table

\* What RemoveAdvertised does, with i the ReadvertisedRoute of r, and last = {i} when r
\* is its last route.
RemoveEffect(r, i, last) ==
  /\ Removed(r) /\ i \in live /\ i \in 1..Len(rr) /\ rr[i].prefix = Policy[r]
  /\ rr[i].nRibRoutes > 0 /\ last \subseteq {i}
  /\ i \notin last <=> rr[i].nRibRoutes > 1
  /\ UNCHANGED fault
  /\ index'[r] = NoRr /\ \A s \in Route : s # r => index'[s] = index[s]
  /\ index' \in [Route -> 1..Len(rr) \cup {NoRr}]
  /\ rr' \in Seq(ReadvertisedRoute) /\ Len(rr') = Len(rr)
  /\ rr'[i].nRibRoutes = rr[i].nRibRoutes - 1
  /\ \A j \in 1..Len(rr) : /\ rr'[j].prefix = rr[j].prefix
                           /\ j # i => rr'[j].nRibRoutes = rr[j].nRibRoutes
                           /\ rr'[j].retryEvt = IF Goes(r) THEN "none" ELSE rr[j].retryEvt
  /\ live' \subseteq live /\ live \ live' \in SUBSET (1..Len(rr))
  /\ \A j \in live : j \in live' <=> /\ available \/ j \notin last
                                     /\ Goes(r) => rr'[j].nRibRoutes > 0
  /\ Send({}, IfAvailable(last, available))
  /\ Overlaps(IfAvailable(last, available), live \ live')

\* RemoveAdvertised does what RemoveEffect says.
LEMMA RemoveAdvertisedSteps ==
  ASSUME Table, NEW r \in Route, RemoveAdvertised(r), NEW i, i = index[r],
         NEW last, last = IF StillNeeded(i) THEN {} ELSE {i}
  PROVE  RemoveEffect(r, i, last)
<1>. DEFINE fewer == [rr EXCEPT ![i].nRibRoutes = @ - 1]
<1>1. /\ Removed(r) /\ i \in live /\ index' = [index EXCEPT ![r] = NoRr]
      /\ rr' = (IF Goes(r) THEN Cancelled(fewer) ELSE fewer)
      /\ live' = Left(r, IF available THEN live ELSE live \ last, fewer)
      /\ Send({}, IfAvailable(last, available))
      /\ Overlaps(IfAvailable(last, available), live \ live')
      /\ UNCHANGED fault
  BY DEF RemoveAdvertised
<1>2. TypeOK /\ Linked /\ CountsRoutes
  BY DEF Table
<1>3. i \in 1..Len(rr) /\ rr[i].nRibRoutes \in Nat /\ i # NoRr
  BY <1>1, <1>2, RrTyped, BoundAssumption
<1>4. rr[i].prefix = Policy[r]
  BY <1>2, <1>3 DEF Linked
<1>5. rr[i].nRibRoutes > 0
  <2>1. r \in Users(i) /\ Users(i) \subseteq routes
    BY <1>1, RemovedRoute DEF Users
  <2>2. IsFiniteSet(Users(i))
    BY <2>1, <1>2, FS_Subset DEF Linked
  <2>3. Cardinality(Users(i)) # 0 /\ rr[i].nRibRoutes = Cardinality(Users(i))
    BY <2>1, <2>2, <1>1, <1>2, FS_EmptySet DEF CountsRoutes, Users
  <2>. QED
    BY <2>3, <1>3
<1>6. /\ last \subseteq {i} /\ i \notin last <=> rr[i].nRibRoutes > 1
  BY DEF StillNeeded
<1>7. /\ index'[r] = NoRr /\ \A s \in Route : s # r => index'[s] = index[s]
      /\ index' \in [Route -> 1..Len(rr) \cup {NoRr}]
  BY <1>1, <1>2 DEF TypeOK
<1>8. /\ fewer \in Seq(ReadvertisedRoute) /\ Len(fewer) = Len(rr)
      /\ fewer[i].prefix = rr[i].prefix /\ fewer[i].nRibRoutes = rr[i].nRibRoutes - 1
      /\ fewer[i].retryEvt = rr[i].retryEvt
      /\ \A j \in 1..Len(rr) : j # i => fewer[j] = rr[j]
  BY <1>2, <1>3, <1>5, RrDecreased
<1>. HIDE DEF fewer
<1>9. /\ rr' \in Seq(ReadvertisedRoute) /\ Len(rr') = Len(rr)
      /\ \A j \in 1..Len(rr) : /\ rr'[j].prefix = fewer[j].prefix
                               /\ rr'[j].nRibRoutes = fewer[j].nRibRoutes
                               /\ rr'[j].retryEvt = IF Goes(r) THEN "none" ELSE fewer[j].retryEvt
  BY <1>1, <1>8, CancelledRrs
<1>10. /\ live' \subseteq live /\ live \ live' \in SUBSET (1..Len(rr))
       /\ \A j \in live : j \in live' <=> /\ available \/ j \notin last
                                          /\ Goes(r) => fewer[j].nRibRoutes > 0
  BY <1>1, <1>2, RrTyped DEF Left
<1>11. \A j \in 1..Len(rr) : /\ rr'[j].prefix = rr[j].prefix
                             /\ j # i => rr'[j].nRibRoutes = rr[j].nRibRoutes
                             /\ rr'[j].retryEvt = IF Goes(r) THEN "none" ELSE rr[j].retryEvt
  BY <1>8, <1>9
<1>12. \A j \in live : j \in live' <=> /\ available \/ j \notin last
                                       /\ Goes(r) => rr'[j].nRibRoutes > 0
  BY <1>2, <1>9, <1>10, RrTyped
<1>. QED
  BY <1>1, <1>3, <1>4, <1>5, <1>6, <1>7, <1>8, <1>9, <1>10, <1>11, <1>12 DEF RemoveEffect

\* RemoveAdvertised keeps the table and its counts.
LEMMA RemoveAdvertisedTable ==
  ASSUME Table, NEW r \in Route, RemoveAdvertised(r)
  PROVE  Table'
<1>1. TypeOK /\ Linked /\ SentForMade /\ CountsRoutes /\ ServedWhileAway
  BY DEF Table
<1>2. PICK i : i = index[r]
  OBVIOUS
<1>3. PICK last : last = IF StillNeeded(i) THEN {} ELSE {i}
  OBVIOUS
<1>. RemoveEffect(r, i, last)
  BY <1>2, <1>3, RemoveAdvertisedSteps
<1>4. /\ Removed(r) /\ i \in live /\ i \in 1..Len(rr) /\ rr[i].prefix = Policy[r]
      /\ rr[i].nRibRoutes > 0 /\ last \subseteq {i}
      /\ i \notin last <=> rr[i].nRibRoutes > 1
      /\ UNCHANGED fault
      /\ index'[r] = NoRr /\ \A s \in Route : s # r => index'[s] = index[s]
      /\ index' \in [Route -> 1..Len(rr) \cup {NoRr}]
  BY DEF RemoveEffect
<1>5. /\ rr' \in Seq(ReadvertisedRoute) /\ Len(rr') = Len(rr)
      /\ rr'[i].nRibRoutes = rr[i].nRibRoutes - 1
      /\ \A j \in 1..Len(rr) : /\ rr'[j].prefix = rr[j].prefix
                               /\ j # i => rr'[j].nRibRoutes = rr[j].nRibRoutes
  BY DEF RemoveEffect
<1>6. /\ live' \subseteq live /\ live \ live' \in SUBSET (1..Len(rr))
      /\ \A j \in live : j \in live' <=> /\ available \/ j \notin last
                                         /\ Goes(r) => rr'[j].nRibRoutes > 0
  BY DEF RemoveEffect
<1>7. PICK W : W = IfAvailable(last, available)
  OBVIOUS
<1>8. /\ Send({}, W) /\ Overlaps(W, live \ live')
  BY <1>7 DEF RemoveEffect
<1>9. W \in SUBSET Id /\ W \in SUBSET (1..Len(rr))
  BY <1>1, <1>4, <1>7, RrTyped DEF IfAvailable
<1>10. overlapped' \subseteq Prefix
  BY <1>1, <1>6, <1>8, <1>9, OverlapRecorded
<1>11. /\ flying' \in [Kind \X Id -> 0..MaxFlying]
       /\ \A j \in Id :
           /\ flying'[<<"advertise", j>>] = flying[<<"advertise", j>>]
           /\ flying'[<<"withdraw", j>>] =
                IF j \in W THEN flying[<<"withdraw", j>>] + 1 ELSE flying[<<"withdraw", j>>]
  BY <1>1, <1>8, <1>9, SendWithdraws
<1>12. TypeOK'
  BY <1>1, <1>4, <1>5, <1>6, <1>10, <1>11, RemovedRoute DEF TypeOK
<1>13. Linked'
  <2>1. IsFiniteSet(routes') /\ Len(rr') <= changes'
    BY <1>1, <1>4, <1>5, RemovedRoute, RrTyped DEF Linked
  <2>2. \A s \in Route : index[s] # NoRr => index[s] \in 1..Len(rr)
    BY <1>1 DEF TypeOK
  <2>3. \A s \in Route : /\ s \notin routes' => index'[s] = NoRr
                         /\ index'[s] # NoRr => rr'[index'[s]].prefix = Policy[s]
    BY <2>2, <1>1, <1>4, <1>5, RemovedRoute DEF Linked
  <2>4. \A j, k \in live' : rr'[j].prefix = rr'[k].prefix => j = k
    BY <1>1, <1>5, <1>6, RrTyped DEF Linked
  <2>. QED
    BY <2>1, <2>3, <2>4 DEF Linked
<1>14. SentForMade'
  <2>1. \A j \in Id \ 1..Len(rr') :
           /\ flying'[<<"advertise", j>>] = flying[<<"advertise", j>>]
           /\ flying'[<<"withdraw", j>>] = flying[<<"withdraw", j>>]
    BY <1>5, <1>9, <1>11
  <2>2. Len(rr') \in Nat /\ Len(rr) <= Len(rr')
    BY <1>1, <1>5, RrTyped
  <2>. QED
    BY <2>1, <2>2, <1>1, SentForMadeKept
<1>15. CountsRoutes'
  <2>1. \A j \in live : j # i =>
          {s \in routes' : index'[s] = j} = {s \in routes : index[s] = j}
    <3>1. \A s \in routes : s \in Route
      BY <1>1 DEF TypeOK
    <3>. QED
      BY <3>1, <1>1, <1>2, <1>4, RemovedRoute, RrTyped, BoundAssumption
  <2>2. {s \in routes' : index'[s] = i} = {s \in routes : index[s] = i} \ {r}
    BY <1>1, <1>4, RemovedRoute DEF TypeOK
  <2>3. IsFiniteSet({s \in routes : index[s] = i}) /\ r \in {s \in routes : index[s] = i}
    BY <1>1, <1>2, <1>4, RemovedRoute, FS_Subset DEF Linked
  <2>4. Cardinality({s \in routes' : index'[s] = i})
          = Cardinality({s \in routes : index[s] = i}) - 1
    BY <2>2, <2>3, FS_RemoveElement
  <2>. QED
    BY <2>1, <2>4, <1>1, <1>4, <1>5, <1>6, RrTyped DEF CountsRoutes
<1>16. ServedWhileAway'
  <2>1. ASSUME ~available', NEW j \in live' PROVE rr'[j].nRibRoutes > 0
    <3>1. j \in live /\ rr[j].nRibRoutes \in Nat /\ j \in 1..Len(rr)
      BY <2>1, <1>1, <1>6, RrTyped
    <3>2. CASE Goes(r)
      BY <3>1, <3>2, <2>1, <1>6
    <3>3. CASE ~Goes(r)
      <4>1. ~available /\ j \notin last /\ rr[j].nRibRoutes > 0
        BY <3>1, <3>3, <2>1, <1>1, <1>4, <1>6, RemovedRoute DEF ServedWhileAway
      <4>. QED
        BY <4>1, <3>1, <1>4, <1>5
    <3>. QED
      BY <3>2, <3>3
  <2>. QED
    BY <2>1 DEF ServedWhileAway
<1>. QED
  BY <1>12, <1>13, <1>14, <1>15, <1>16 DEF Table

----------------------------------------------------------------------------
(* Answers and timers *)

\* A command has been answered.
LEMMA AnsweredCommand ==
  ASSUME Table, NEW k \in Kind, NEW i \in 1..Len(rr), Answered(k, i)
  PROVE  /\ flying' \in [Kind \X Id -> 0..MaxFlying] /\ ~fault
         /\ flying[<<k, i>>] > 0 /\ flying'[<<k, i>>] = flying[<<k, i>>] - 1
         /\ \A c \in Kind : \A j \in Id : c # k \/ j # i => flying'[<<c, j>>] = flying[<<c, j>>]
         /\ SentForMade /\ i \in Id
<1>1. TypeOK /\ SentForMade /\ i \in Id
  BY RrTyped DEF Table
<1>2. /\ ~fault /\ flying[<<k, i>>] > 0
      /\ flying' = [flying EXCEPT ![<<k, i>>] = @ - 1]
  BY DEF Answered
<1>3. <<k, i>> \in Kind \X Id /\ flying \in [Kind \X Id -> 0..MaxFlying]
  BY <1>1 DEF TypeOK
<1>4. flying[<<k, i>>] - 1 \in 0..MaxFlying
  BY <1>2, <1>3, BoundAssumption
<1>. QED
  BY <1>1, <1>2, <1>3, <1>4

\* The links between routes and m_rrs depend on prefixes only.
LEMMA SameLinks ==
  ASSUME TypeOK, Linked, UNCHANGED <<routes, index, changes>>, live' \subseteq live,
         Len(rr') = Len(rr), \A j \in 1..Len(rr) : rr'[j].prefix = rr[j].prefix
  PROVE  Linked'
<1>1. \A s \in Route : index[s] # NoRr => index[s] \in 1..Len(rr)
  BY DEF TypeOK
<1>2. \A s \in Route : /\ s \notin routes' => index'[s] = NoRr
                       /\ index'[s] # NoRr => rr'[index'[s]].prefix = Policy[s]
  BY <1>1 DEF Linked
<1>3. \A j, k \in live' : rr'[j].prefix = rr'[k].prefix => j = k
  BY RrTyped DEF Linked
<1>. QED
  BY <1>2, <1>3 DEF Linked

\* An answer changes timers and erases, and leaves prefixes and counts alone.
LEMMA AnswerKeepsTable ==
  ASSUME Table, NEW k \in Kind, NEW i \in 1..Len(rr), Answered(k, i), UNCHANGED fault,
         UNCHANGED <<routes, available, index, overlapped, changes>>, live' \subseteq live,
         rr' \in Seq(ReadvertisedRoute), Len(rr') = Len(rr),
         \A j \in 1..Len(rr) : /\ rr'[j].prefix = rr[j].prefix
                               /\ rr'[j].nRibRoutes = rr[j].nRibRoutes,
         gateway' \subseteq Prefix
  PROVE  Table'
<1>1. TypeOK /\ Linked /\ SentForMade /\ CountsRoutes /\ ServedWhileAway
  BY DEF Table
<1>2. TypeOK'
  BY <1>1, AnsweredCommand DEF TypeOK
<1>3. Linked'
  BY <1>1, SameLinks
<1>4. SentForMade'
  <2>1. \A c \in Kind : \A j \in Id : j > Len(rr) => flying'[<<c, j>>] = flying[<<c, j>>]
    <3>1. \A j \in Id : j > Len(rr) => j # i
      BY <1>1, RrTyped
    <3>. QED
      BY <3>1, AnsweredCommand
  <2>. QED
    BY <2>1, <1>1 DEF SentForMade
<1>5. CountsRoutes'
  BY <1>1, RrTyped DEF CountsRoutes
<1>6. ServedWhileAway'
  BY <1>1, RrTyped DEF ServedWhileAway
<1>. QED
  BY <1>2, <1>3, <1>4, <1>5, <1>6 DEF Table

\* Succeeds keeps the table and its counts.
LEMMA SucceedsTable ==
  ASSUME Table, NEW k \in Kind, NEW i \in 1..Len(rr), Succeeds(k, i)
  PROVE  Table'
<1>1. TypeOK /\ Linked /\ SentForMade /\ CountsRoutes /\ ServedWhileAway
  BY DEF Table
<1>2. /\ Answered(k, i) /\ Executed(k, i) /\ i \in live /\ UNCHANGED fault
      /\ UNCHANGED <<routes, available, index, overlapped, changes>>
      /\ live' \subseteq live
  BY DEF Succeeds, Answered
<1>3. PICK e \in Kind \cup {"none"} : Rescheduled(e, i)
  BY DEF Succeeds, Rescheduled, Kind
<1>4. /\ rr' \in Seq(ReadvertisedRoute) /\ Len(rr') = Len(rr)
      /\ \A j \in 1..Len(rr) : /\ rr'[j].prefix = rr[j].prefix
                               /\ rr'[j].nRibRoutes = rr[j].nRibRoutes
  BY <1>1, <1>3, RrRescheduled
<1>5. gateway' \subseteq Prefix
  BY <1>1, <1>2, RrTyped DEF Executed, TypeOK
<1>. QED
  BY <1>1, <1>2, <1>4, <1>5, AnswerKeepsTable

\* Fails keeps the table and its counts.
LEMMA FailsTable ==
  ASSUME Table, NEW k \in Kind, NEW i \in 1..Len(rr), Fails(k, i)
  PROVE  Table'
<1>1. TypeOK
  BY DEF Table
<1>2. /\ Answered(k, i) /\ (Executed(k, i) \/ UNCHANGED gateway)
      /\ UNCHANGED <<live, fault>> /\ live' \subseteq live
      /\ UNCHANGED <<routes, available, index, overlapped, changes>>
      /\ Rescheduled(k, i)
  BY DEF Fails, Answered
<1>3. /\ rr' \in Seq(ReadvertisedRoute) /\ Len(rr') = Len(rr)
      /\ \A j \in 1..Len(rr) : /\ rr'[j].prefix = rr[j].prefix
                               /\ rr'[j].nRibRoutes = rr[j].nRibRoutes
  BY <1>1, <1>2, RrRescheduled
<1>4. gateway' \subseteq Prefix
  BY <1>1, <1>2, RrTyped DEF Executed, TypeOK
<1>. QED
  BY <1>2, <1>3, <1>4, AnswerKeepsTable

\* What Timer does, with k the command that was scheduled: it sends the command, or
\* gives up a withdrawal while the destination is away.
TimerEffect(i, k) ==
  /\ ~fault /\ i \in live /\ k \in Kind
  /\ UNCHANGED <<routes, available, index, gateway, fault, changes>>
  /\ rr' \in Seq(ReadvertisedRoute) /\ Len(rr') = Len(rr) /\ rr'[i].retryEvt = "none"
  /\ \A j \in 1..Len(rr) : /\ rr'[j].prefix = rr[j].prefix
                           /\ rr'[j].nRibRoutes = rr[j].nRibRoutes
                           /\ j # i => rr'[j] = rr[j]
  /\ live' = IF available \/ k # "withdraw" THEN live ELSE live \ {i}
  /\ flying' \in [Kind \X Id -> 0..MaxFlying]
  /\ \A j \in Id : \A c \in Kind :
       flying'[<<c, j>>] =
         IF available /\ j = i /\ c = k THEN flying[<<c, j>>] + 1 ELSE flying[<<c, j>>]
  /\ overlapped' \subseteq Prefix /\ overlapped \subseteq overlapped'
  /\ available /\ rr[i].prefix \notin overlapped' => ~UnderWay(i)

\* Timer does what TimerEffect says.
LEMMA TimerSteps ==
  ASSUME Table, NEW i \in 1..Len(rr), Timer(i), NEW k, k = rr[i].retryEvt
  PROVE  TimerEffect(i, k)
<1>. DEFINE last == IF k = "withdraw" THEN {i} ELSE {}
            A == IfAvailable({i} \ last, available)
            W == IfAvailable(last, available)
            S == IfAvailable({i}, available)
<1>1. /\ ~fault /\ i \in live /\ k # "none"
      /\ UNCHANGED <<routes, available, index, gateway, fault, changes>>
      /\ Rescheduled("none", i)
      /\ Send(A, W)
      /\ live' = (IF available THEN live ELSE live \ last)
      /\ Overlaps(S, live \ live')
  BY DEF Timer, Rescheduled
<1>2. TypeOK /\ i \in Id /\ k \in Kind
  BY <1>1, RrTyped DEF Table
<1>3. /\ rr' \in Seq(ReadvertisedRoute) /\ Len(rr') = Len(rr) /\ rr'[i].retryEvt = "none"
      /\ \A j \in 1..Len(rr) : /\ rr'[j].prefix = rr[j].prefix
                               /\ rr'[j].nRibRoutes = rr[j].nRibRoutes
                               /\ j # i => rr'[j] = rr[j]
  BY <1>1, <1>2, RrRescheduled
<1>4. /\ A \in SUBSET Id /\ W \in SUBSET Id
      /\ S \in SUBSET (1..Len(rr)) /\ live \ live' \in SUBSET (1..Len(rr))
  BY <1>1, <1>2, RrTyped DEF IfAvailable
<1>5. /\ \A j : j \in A <=> available /\ j = i /\ k = "advertise"
      /\ \A j : j \in W <=> available /\ j = i /\ k = "withdraw"
      /\ \A j : j \in S <=> available /\ j = i
  BY <1>2 DEF IfAvailable, Kind
<1>6. live' = IF available \/ k # "withdraw" THEN live ELSE live \ {i}
  BY <1>1
<1>. HIDE DEF last, A, W, S
<1>7. /\ flying' \in [Kind \X Id -> 0..MaxFlying]
      /\ \A j \in Id :
              /\ flying'[<<"advertise", j>>] =
                   IF j \in A THEN flying[<<"advertise", j>>] + 1 ELSE flying[<<"advertise", j>>]
              /\ flying'[<<"withdraw", j>>] =
                   IF j \in W THEN flying[<<"withdraw", j>>] + 1 ELSE flying[<<"withdraw", j>>]
  BY <1>1, <1>2, <1>4, SendAdds
<1>8. /\ overlapped' \subseteq Prefix /\ overlapped \subseteq overlapped'
      /\ \A j \in S : rr[j].prefix \notin overlapped' => ~UnderWay(j)
  BY <1>1, <1>2, <1>4, OverlapRecorded
<1>9. \A j \in Id : \A c \in Kind :
              flying'[<<c, j>>] =
                IF available /\ j = i /\ c = k THEN flying[<<c, j>>] + 1 ELSE flying[<<c, j>>]
  BY <1>2, <1>5, <1>7 DEF Kind
<1>. QED
  BY <1>1, <1>2, <1>3, <1>5, <1>6, <1>7, <1>8, <1>9 DEF TimerEffect

\* Timer keeps the table and its counts.
LEMMA TimerTable ==
  ASSUME Table, NEW i \in 1..Len(rr), Timer(i)
  PROVE  Table'
<1>1. TypeOK /\ Linked /\ SentForMade /\ CountsRoutes /\ ServedWhileAway /\ i \in Id
  BY RrTyped DEF Table
<1>2. PICK k : k = rr[i].retryEvt
  OBVIOUS
<1>. TimerEffect(i, k)
  BY <1>2, TimerSteps
<1>3. /\ k \in Kind /\ UNCHANGED <<routes, available, index, gateway, fault, changes>>
      /\ rr' \in Seq(ReadvertisedRoute) /\ Len(rr') = Len(rr)
      /\ \A j \in 1..Len(rr) : /\ rr'[j].prefix = rr[j].prefix
                               /\ rr'[j].nRibRoutes = rr[j].nRibRoutes
      /\ live' \subseteq live
      /\ flying' \in [Kind \X Id -> 0..MaxFlying]
      /\ \A j \in Id : \A c \in Kind :
              flying'[<<c, j>>] =
                IF available /\ j = i /\ c = k THEN flying[<<c, j>>] + 1 ELSE flying[<<c, j>>]
      /\ overlapped' \subseteq Prefix
  BY DEF TimerEffect
<1>4. TypeOK'
  BY <1>1, <1>3 DEF TypeOK
<1>5. Linked'
  BY <1>1, <1>3, SameLinks
<1>6. SentForMade'
  <2>1. \A j \in Id : j > Len(rr) => j # i
    BY <1>1, RrTyped
  <2>2. ASSUME NEW c \in Kind, NEW j \in Id, j > Len(rr) PROVE flying'[<<c, j>>] = 0
    <3>1. flying'[<<c, j>>] = flying[<<c, j>>]
      BY <2>1, <2>2, <1>3
    <3>. QED
      BY <3>1, <2>2, <1>1 DEF SentForMade
  <2>. QED
    BY <2>2, <1>3 DEF SentForMade
<1>7. CountsRoutes'
  <2>1. \A j \in live : rr[j].nRibRoutes = Cardinality({s \in routes : index[s] = j})
    BY <1>1 DEF CountsRoutes
  <2>2. \A j \in live' : rr'[j].nRibRoutes = rr[j].nRibRoutes
    BY <1>1, <1>3, RrTyped
  <2>3. routes' = routes /\ index' = index /\ live' \subseteq live
    BY <1>3
  <2>. QED
    BY <2>1, <2>2, <2>3 DEF CountsRoutes
<1>8. ServedWhileAway'
  BY <1>1, <1>3, RrTyped DEF ServedWhileAway
<1>. QED
  BY <1>4, <1>5, <1>6, <1>7, <1>8 DEF Table

----------------------------------------------------------------------------
(* Prefixes without overlap stay safe *)

\* The commands under way for a ReadvertisedRoute.
LEMMA UnderWayKinds ==
  ASSUME NEW F \in [Kind \X Id -> 0..MaxFlying], NEW i \in Id
  PROVE  /\ F[<<"advertise", i>>] \in Nat /\ F[<<"withdraw", i>>] \in Nat
         /\ (\E k \in Kind : F[<<k, i>>] > 0)
              <=> F[<<"advertise", i>>] > 0 \/ F[<<"withdraw", i>>] > 0
<1>1. <<"advertise", i>> \in Kind \X Id /\ <<"withdraw", i>> \in Kind \X Id
  BY DEF Kind
<1>2. \A c \in Kind \X Id : F[c] \in Nat
  BY BoundAssumption
<1>. QED
  BY <1>1, <1>2 DEF Kind

\* The ReadvertisedRoute i of the prefix p keeps its commands and its timer, or is
\* advertised because the destination became available, or is erased or loses its timer
\* because the destination went away.
KeptRr(p, i) ==
  /\ i \in 1..Len(rr) /\ rr[i].prefix = p
  /\ flying'[<<"withdraw", i>>] = flying[<<"withdraw", i>>]
  /\ \/ flying'[<<"advertise", i>>] = flying[<<"advertise", i>>]
     \/ /\ flying'[<<"advertise", i>>] = flying[<<"advertise", i>>] + 1
        /\ ~UnderWay(i) /\ i \in live /\ i \in live' /\ Needed(p)
  /\ i \in live' => i \in live
  /\ i \in live /\ i \notin live' => ~UnderWay(i)'
  /\ i \in live' => \/ /\ rr'[i].retryEvt = rr[i].retryEvt
                       /\ available => available'
                       /\ available' => available \/ UnderWay(i)'
                    \/ rr'[i].retryEvt = "none" /\ ~available'

\* The step is about another prefix.
Kept(p) ==
  /\ Needed(p)' <=> Needed(p)
  /\ \A s \in routes' : Policy[s] = p => s \in routes /\ index'[s] = index[s] /\ index[s] \in live'
  /\ \A i \in 1..Len(rr') : rr'[i].prefix = p => KeptRr(p, i)
  /\ \A i \in 1..Len(rr) : rr'[i].prefix = rr[i].prefix

\* A step about another prefix leaves this one safe.
LEMMA OtherPrefix ==
  ASSUME Inv, Table', NEW p \in Prefix, Safe(p), Kept(p)
  PROVE  Safe(p)'
<1>1. TypeOK /\ TypeOK' /\ Linked
  BY DEF Inv, Table
<1>2. ASSUME NEW s \in routes', Policy[s] = p PROVE index'[s] \in Known(p)'
  <2>1. index[s] \in Known(p) /\ index'[s] = index[s] /\ index[s] \in live'
    BY <1>2 DEF Safe, Kept
  <2>2. index[s] \in 1..Len(rr) /\ rr[index[s]].prefix = p
    BY <2>1, <1>1, RrTyped DEF Known
  <2>. QED
    BY <2>1, <2>2 DEF Known, Kept
<1>3. ASSUME NEW i \in 1..Len(rr'), rr'[i].prefix = p PROVE SafeRr(p, i)'
  <2>1. i \in 1..Len(rr) /\ rr[i].prefix = p /\ SafeRr(p, i) /\ i \in Id
    BY <1>1, <1>3, RrTyped DEF Safe, Kept, KeptRr
  <2>2. /\ flying \in [Kind \X Id -> 0..MaxFlying] /\ flying' \in [Kind \X Id -> 0..MaxFlying]
    BY <1>1 DEF TypeOK
  <2>3. /\ flying[<<"advertise", i>>] \in Nat /\ flying[<<"withdraw", i>>] \in Nat
        /\ UnderWay(i) <=> flying[<<"advertise", i>>] > 0 \/ flying[<<"withdraw", i>>] > 0
    BY <2>1, <2>2, UnderWayKinds DEF UnderWay
  <2>4. /\ flying'[<<"advertise", i>>] \in Nat /\ flying'[<<"withdraw", i>>] \in Nat
        /\ UnderWay(i)' <=> flying'[<<"advertise", i>>] > 0 \/ flying'[<<"withdraw", i>>] > 0
    BY <2>1, <2>2, UnderWayKinds DEF UnderWay
  <2>5. KeptRr(p, i) /\ (Needed(p)' <=> Needed(p))
    BY <1>3 DEF Kept
  <2>. QED
    BY <2>1, <2>3, <2>4, <2>5 DEF SafeRr, KeptRr
<1>. QED
  BY <1>2, <1>3 DEF Safe

\* What is advertised because the destination became available is what routes need.
LEMMA AgainNeeded ==
  ASSUME Inv, NEW r \in Route, Added(r), NEW p \in Prefix, Safe(p),
         NEW i \in Again(r), rr[i].prefix = p
  PROVE  Needed(p) /\ i \in live /\ Comes(r) /\ ~available
<1>1. Comes(r) /\ i \in live /\ ~available
  BY DEF Again, Comes
<1>2. rr[i].nRibRoutes > 0
  BY <1>1 DEF Inv, Table, ServedWhileAway
<1>. QED
  BY <1>1, <1>2, NeededIsCounted

\* A route of another prefix comes; S is what is advertised with it.
AddsElsewhere(r, p, S) ==
  /\ Added(r) /\ Policy[r] # p
  /\ \A s \in Route : s # r => index'[s] = index[s]
  /\ \A i \in 1..Len(rr') : rr'[i].prefix = p => i \in 1..Len(rr)
  /\ \A i \in 1..Len(rr) : /\ rr'[i].prefix = rr[i].prefix
                           /\ rr'[i].retryEvt = rr[i].retryEvt
                           /\ i \in live' <=> i \in live
  /\ \A i \in 1..Len(rr) : rr[i].prefix = p => /\ i \in S <=> i \in Again(r)
                                               /\ i \in S => ~UnderWay(i)
  /\ \A i \in Id : /\ flying'[<<"advertise", i>>] =
                        IF i \in S THEN flying[<<"advertise", i>>] + 1
                        ELSE flying[<<"advertise", i>>]
                   /\ flying'[<<"withdraw", i>>] = flying[<<"withdraw", i>>]

\* AddElsewhere keeps the prefixes without overlap safe.
LEMMA AddElsewhereSafe ==
  ASSUME Inv, Table', NEW r \in Route, NEW p \in Prefix, Safe(p), NEW S, AddsElsewhere(r, p, S)
  PROVE  Safe(p)'
<1>1. Table /\ TypeOK /\ Linked /\ Added(r) /\ Policy[r] # p
  BY DEF Inv, Table, AddsElsewhere
<1>2. Needed(p)' <=> Needed(p)
  BY <1>1, AddedRoute DEF Needed
<1>3. ASSUME NEW s \in routes', Policy[s] = p
      PROVE  s \in routes /\ index'[s] = index[s] /\ index[s] \in live'
  <2>1. s \in routes /\ s \in Route /\ s # r
    BY <1>1, <1>3, AddedRoute
  <2>2. index[s] \in live /\ index[s] \in 1..Len(rr)
    BY <2>1, <1>1, <1>3, RrTyped DEF Safe, Known
  <2>. QED
    BY <2>1, <2>2 DEF AddsElsewhere
<1>4. ASSUME NEW i \in 1..Len(rr), rr[i].prefix = p PROVE KeptRr(p, i)
  <2>1. i \in Id
    BY <1>1, RrTyped
  <2>2. /\ flying'[<<"advertise", i>>] =
             IF i \in S THEN flying[<<"advertise", i>>] + 1 ELSE flying[<<"advertise", i>>]
        /\ flying'[<<"withdraw", i>>] = flying[<<"withdraw", i>>]
        /\ i \in S <=> i \in Again(r)
        /\ i \in S => ~UnderWay(i)
        /\ i \in live' <=> i \in live
        /\ rr'[i].retryEvt = rr[i].retryEvt
    BY <2>1, <1>4 DEF AddsElsewhere
  <2>3. CASE i \in S
    <3>1. i \in live /\ i \in live' /\ Needed(p) /\ ~available
      BY <2>2, <2>3, <1>1, <1>4, AgainNeeded
    <3>2. UnderWay(i)'
      <4>1. flying[<<"advertise", i>>] \in Nat
        BY <2>1, <1>1, UnderWayKinds DEF TypeOK
      <4>. QED
        BY <4>1, <2>2, <2>3 DEF UnderWay, Kind
    <3>. QED
      BY <3>1, <3>2, <2>2, <2>3, <1>4 DEF KeptRr
  <2>4. CASE i \notin S
    <3>1. i \in live => (available' <=> available)
      BY <2>2, <2>4, <1>1, AddedRoute DEF Again
    <3>. QED
      BY <3>1, <2>2, <2>4, <1>4 DEF KeptRr
  <2>. QED
    BY <2>3, <2>4
<1>5. Kept(p)
  BY <1>2, <1>3, <1>4 DEF Kept, AddsElsewhere
<1>. QED
  BY <1>5, OtherPrefix

\* AddUnadvertised keeps the prefixes without overlap safe.
LEMMA AddUnadvertisedSafe ==
  ASSUME Inv, Table', NEW r \in Route, AddUnadvertised(r), NEW p \in Prefix \ overlapped'
  PROVE  Safe(p)'
<1>1. /\ Added(r) /\ Policy[r] = NoPrefix
      /\ Send(Again(r), {}) /\ Overlaps(Again(r), {}) /\ UNCHANGED <<rr, live, index>>
  BY DEF AddUnadvertised, tableVars, Advertised
<1>2. Table /\ TypeOK
  BY DEF Inv, Table
<1>3. Again(r) \in SUBSET Id /\ Again(r) \in SUBSET (1..Len(rr))
  BY <1>1, <1>2, AddedRoute, RrTyped
<1>4. /\ overlapped \subseteq overlapped'
      /\ \A i \in Again(r) : rr[i].prefix \notin overlapped' => ~UnderWay(i)
  BY <1>1, <1>2, <1>3, OverlapOfSent
<1>5. \A i \in Id : /\ flying'[<<"advertise", i>>] =
                         IF i \in Again(r) THEN flying[<<"advertise", i>>] + 1
                         ELSE flying[<<"advertise", i>>]
                    /\ flying'[<<"withdraw", i>>] = flying[<<"withdraw", i>>]
  BY <1>1, <1>2, <1>3, SendAdvertises
<1>6. p \in Prefix /\ Safe(p) /\ Policy[r] # p
  BY <1>1, <1>2, <1>4, AddedRoute, RouteAssumption DEF Inv, SafePrefixes
<1>7. AddsElsewhere(r, p, Again(r))
  BY <1>1, <1>4, <1>5, <1>6 DEF AddsElsewhere
<1>. QED
  BY <1>6, <1>7, AddElsewhereSafe

\* AddKnown keeps the prefixes without overlap safe.
LEMMA AddKnownSafe ==
  ASSUME Inv, Table', NEW r \in Route, AddKnown(r), NEW p \in Prefix \ overlapped'
  PROVE  Safe(p)'
<1>1. PICK i \in Known(Policy[r]) :
        LET S == Again(r) \cup IfAvailable(Needing(i), available')
        IN /\ rr' = [rr EXCEPT ![i].nRibRoutes = Counted(i)]
           /\ index' = [index EXCEPT ![r] = i]
           /\ Send(S, {}) /\ Overlaps(S, {})
           /\ UNCHANGED live
  BY DEF AddKnown
<1>. DEFINE S == Again(r) \cup IfAvailable(Needing(i), available')
<1>2. Added(r) /\ Table /\ TypeOK /\ Linked /\ ServedWhileAway
  BY DEF AddKnown, Inv, Table
<1>3. i \in live /\ i \in 1..Len(rr) /\ rr[i].prefix = Policy[r] /\ i \in Id
  BY <1>2, RrTyped DEF Known
<1>4. S \in SUBSET Id /\ S \in SUBSET (1..Len(rr)) /\ S \subseteq live /\ S \subseteq Again(r) \cup {i}
  BY <1>2, <1>3, AddedRoute, RrTyped DEF IfAvailable, Needing
<1>5. /\ Again(r) \subseteq S
      /\ i \notin S => ~Comes(r) /\ (rr[i].nRibRoutes # 0 \/ ~available')
      /\ i \in S => Comes(r) \/ available'
  BY <1>3 DEF IfAvailable, Needing, Again
<1>6. /\ overlapped \subseteq overlapped'
      /\ \A j \in S : rr[j].prefix \notin overlapped' => ~UnderWay(j)
  BY <1>1, <1>2, <1>4, OverlapOfSent
<1>7. \A j \in Id :
         /\ flying'[<<"advertise", j>>] =
              IF j \in S THEN flying[<<"advertise", j>>] + 1 ELSE flying[<<"advertise", j>>]
         /\ flying'[<<"withdraw", j>>] = flying[<<"withdraw", j>>]
  BY <1>1, <1>2, <1>4, SendAdvertises
<1>8. /\ Len(rr') = Len(rr) /\ rr'[i].prefix = rr[i].prefix
      /\ rr'[i].retryEvt = rr[i].retryEvt
      /\ \A j \in 1..Len(rr) : j # i => rr'[j] = rr[j]
  BY <1>1, <1>2, <1>3, RrIncreased
<1>. HIDE DEF S
<1>9. index'[r] = i /\ \A s \in Route : s # r => index'[s] = index[s]
  BY <1>1, <1>2, <1>3 DEF TypeOK
<1>10. p \in Prefix /\ Safe(p)
  BY <1>2, <1>6, AddedRoute DEF Inv, SafePrefixes
<1>11. \A j \in 1..Len(rr) : rr'[j].prefix = rr[j].prefix /\ rr'[j].retryEvt = rr[j].retryEvt
  BY <1>8
<1>12. CASE Policy[r] # p
  <2>1. AddsElsewhere(r, p, S)
    BY <1>1, <1>2, <1>3, <1>4, <1>5, <1>6, <1>7, <1>8, <1>9, <1>11, <1>12 DEF AddsElsewhere
  <2>. QED
    BY <2>1, <1>10, AddElsewhereSafe
<1>13. CASE Policy[r] = p
  <2>1. Needed(p)'
    BY <1>2, <1>13, AddedRoute DEF Needed
  <2>2. ASSUME NEW s \in routes', Policy[s] = p PROVE index'[s] \in Known(p)'
    <3>1. index'[s] \in live /\ rr[index'[s]].prefix = p /\ index'[s] \in 1..Len(rr)
      <4>1. CASE s = r
        BY <4>1, <1>3, <1>9, <1>13
      <4>2. CASE s # r
        <5>1. s \in routes /\ s \in Route
          BY <4>2, <2>2, <1>2, AddedRoute
        <5>2. index[s] \in Known(p) /\ index'[s] = index[s]
          BY <5>1, <4>2, <2>2, <1>9, <1>10 DEF Safe
        <5>. QED
          BY <5>2, <1>2, RrTyped DEF Known
      <4>. QED
        BY <4>1, <4>2
    <3>. QED
      BY <3>1, <1>1, <1>11 DEF Known
  <2>3. ASSUME NEW j \in 1..Len(rr), rr[j].prefix = p PROVE SafeRr(p, j)'
    <3>1. SafeRr(p, j) /\ j \in Id
      BY <2>3, <1>2, <1>10, RrTyped DEF Safe
    <3>2. flying \in [Kind \X Id -> 0..MaxFlying] /\ flying' \in [Kind \X Id -> 0..MaxFlying]
      BY <1>2 DEF Table, TypeOK
    <3>3. /\ flying[<<"advertise", j>>] \in Nat /\ flying[<<"withdraw", j>>] \in Nat
          /\ UnderWay(j) <=> flying[<<"advertise", j>>] > 0 \/ flying[<<"withdraw", j>>] > 0
      BY <3>1, <3>2, UnderWayKinds DEF UnderWay
    <3>4. /\ flying'[<<"advertise", j>>] \in Nat /\ flying'[<<"withdraw", j>>] \in Nat
          /\ UnderWay(j)' <=> flying'[<<"advertise", j>>] > 0 \/ flying'[<<"withdraw", j>>] > 0
      BY <3>1, <3>2, UnderWayKinds DEF UnderWay
    <3>5. CASE j # i
      <4>1. j \notin live /\ j \notin S /\ ~UnderWay(j)
        BY <3>1, <3>5, <2>3, <1>2, <1>3, <1>4, <1>13 DEF Linked, SafeRr
      <4>2. ~UnderWay(j)' /\ j \notin live'
        BY <4>1, <3>1, <3>3, <3>4, <1>1, <1>7
      <4>. QED
        BY <4>2, <3>4 DEF SafeRr
    <3>6. CASE j = i /\ i \in S
      <4>1. ~UnderWay(i)
        BY <3>6, <1>3, <1>6, <1>13
      <4>2. flying'[<<"advertise", i>>] = 1 /\ flying'[<<"withdraw", i>>] = 0
        BY <4>1, <3>1, <3>3, <3>6, <1>7
      <4>3. Comes(r) \/ available'
        BY <3>6, <1>5
      <4>4. available' /\ i \in live'
        BY <4>3, <1>1, <1>2, <1>3, AddedRoute
      <4>. QED
        BY <4>2, <4>4, <3>4, <3>6, <2>1 DEF SafeRr
    <3>7. CASE j = i /\ i \notin S
      <4>1. available' <=> available
        BY <3>7, <1>2, <1>5, AddedRoute
      <4>2. rr[i].nRibRoutes \in Nat
        BY <1>2, <1>3, RrTyped
      <4>3. rr[i].nRibRoutes > 0
        BY <4>1, <4>2, <3>7, <1>2, <1>3, <1>5 DEF ServedWhileAway
      <4>4. Needed(p)
        BY <4>3, <1>3, <1>10, <1>13, NeededIsCounted
      <4>5. /\ flying'[<<"advertise", i>>] = flying[<<"advertise", i>>]
            /\ flying'[<<"withdraw", i>>] = flying[<<"withdraw", i>>]
        BY <3>1, <3>7, <1>7
      <4>6. rr'[i].retryEvt = rr[i].retryEvt /\ (i \in live' <=> i \in live)
        BY <1>1, <1>8
      <4>. QED
        BY <4>1, <4>4, <4>5, <4>6, <3>1, <3>3, <3>4, <3>7, <2>1 DEF SafeRr
    <3>. QED
      BY <3>5, <3>6, <3>7
  <2>. QED
    BY <2>2, <2>3, <1>8, <1>11 DEF Safe
<1>. QED
  BY <1>12, <1>13

\* AddNew keeps the prefixes without overlap safe.
LEMMA AddNewSafe ==
  ASSUME Inv, Table', NEW r \in Route, AddNew(r), NEW p \in Prefix \ overlapped'
  PROVE  Safe(p)'
<1>. DEFINE i == Len(rr) + 1
            x == [prefix |-> Policy[r], nRibRoutes |-> 1, retryEvt |-> "none"]
            S == Again(r) \cup IfAvailable({i}, available')
<1>1. /\ Added(r) /\ Policy[r] # NoPrefix /\ Known(Policy[r]) = {}
      /\ rr' = Append(rr, x) /\ live' = live \cup {i} /\ index' = [index EXCEPT ![r] = i]
      /\ Send(S, {}) /\ Overlaps(Again(r), {})
  BY DEF AddNew, Advertised
<1>2. Table /\ TypeOK /\ Linked /\ SentForMade
  BY DEF Inv, Table
<1>3. x \in ReadvertisedRoute
  BY <1>1, RouteAssumption DEF ReadvertisedRoute
<1>4. /\ Len(rr') = i /\ Len(rr) \in Nat
      /\ rr'[i] = x /\ \A j \in 1..Len(rr) : rr'[j] = rr[j]
  <2>. HIDE DEF x
  <2>. QED
    BY <1>1, <1>2, <1>3, RrTyped, AppendProperties
<1>5. rr'[i].prefix = Policy[r] /\ rr'[i].retryEvt = "none"
  BY <1>4
<1>. HIDE DEF x
<1>6. i \in Id /\ i \in 1..Len(rr') /\ i \notin 1..Len(rr) /\ i > Len(rr)
  BY <1>1, <1>2, <1>4, AddedRoute, BoundAssumption DEF Linked, Id
<1>7. /\ S \in SUBSET Id /\ Again(r) \in SUBSET (1..Len(rr))
      /\ i \in S <=> available'
      /\ \A j \in 1..Len(rr) : j \in S <=> j \in Again(r)
  BY <1>1, <1>2, <1>4, <1>6, AddedRoute, RrTyped DEF IfAvailable
<1>8. /\ overlapped \subseteq overlapped'
      /\ \A j \in Again(r) : rr[j].prefix \notin overlapped' => ~UnderWay(j)
  BY <1>1, <1>2, <1>7, OverlapOfSent
<1>9. \A j \in Id :
         /\ flying'[<<"advertise", j>>] =
              IF j \in S THEN flying[<<"advertise", j>>] + 1 ELSE flying[<<"advertise", j>>]
         /\ flying'[<<"withdraw", j>>] = flying[<<"withdraw", j>>]
  BY <1>1, <1>2, <1>7, SendAdvertises
<1>10. index'[r] = i /\ \A s \in Route : s # r => index'[s] = index[s]
  <2>. HIDE DEF i
  <2>. QED
    BY <1>1, <1>2 DEF TypeOK
<1>11. p \in Prefix /\ Safe(p)
  BY <1>1, <1>2, <1>8, AddedRoute DEF Inv, SafePrefixes
<1>12. \A j \in 1..Len(rr') : j = i \/ j \in 1..Len(rr)
  BY <1>4
<1>13. \A j \in 1..Len(rr) : j \in live' <=> j \in live
  BY <1>1, <1>6
<1>. HIDE DEF i, S
<1>14. CASE Policy[r] # p
  <2>1. AddsElsewhere(r, p, S)
    BY <1>1, <1>4, <1>5, <1>7, <1>8, <1>9, <1>10, <1>12, <1>13, <1>14 DEF AddsElsewhere
  <2>. QED
    BY <2>1, <1>11, AddElsewhereSafe
<1>15. CASE Policy[r] = p
  <2>1. Needed(p)'
    BY <1>1, <1>2, <1>15, AddedRoute DEF Needed
  <2>2. ASSUME NEW s \in routes', Policy[s] = p PROVE index'[s] \in Known(p)'
    <3>1. s = r
      BY <2>2, <1>1, <1>2, <1>11, <1>15, AddedRoute DEF Safe
    <3>2. i \in live' /\ rr'[i].prefix = p
      BY <1>1, <1>5, <1>15
    <3>. QED
      BY <3>1, <3>2, <1>10 DEF Known
  <2>3. ASSUME NEW j \in 1..Len(rr'), rr'[j].prefix = p PROVE SafeRr(p, j)'
    <3>1. j \in Id
      BY <1>2, <1>6, <1>12, RrTyped
    <3>2. flying \in [Kind \X Id -> 0..MaxFlying] /\ flying' \in [Kind \X Id -> 0..MaxFlying]
      BY <1>2 DEF Table, TypeOK
    <3>3. /\ flying[<<"advertise", j>>] \in Nat /\ flying[<<"withdraw", j>>] \in Nat
          /\ UnderWay(j) <=> flying[<<"advertise", j>>] > 0 \/ flying[<<"withdraw", j>>] > 0
      BY <3>1, <3>2, UnderWayKinds DEF UnderWay
    <3>4. /\ flying'[<<"advertise", j>>] \in Nat /\ flying'[<<"withdraw", j>>] \in Nat
          /\ UnderWay(j)' <=> flying'[<<"advertise", j>>] > 0 \/ flying'[<<"withdraw", j>>] > 0
      BY <3>1, <3>2, UnderWayKinds DEF UnderWay
    <3>5. CASE j = i
      <4>1. flying[<<"advertise", i>>] = 0 /\ flying[<<"withdraw", i>>] = 0
        BY <1>2, <1>6 DEF SentForMade, Kind
      <4>2. /\ flying'[<<"withdraw", i>>] = 0
            /\ flying'[<<"advertise", i>>] = IF available' THEN 1 ELSE 0
        BY <4>1, <1>6, <1>7, <1>9
      <4>3. i \in live' /\ rr'[i].retryEvt = "none"
        BY <1>1, <1>5
      <4>4. /\ UnderWay(j)' <=> available'
            /\ j \in live' /\ rr'[j].retryEvt = "none"
            /\ flying'[<<"advertise", j>>] + flying'[<<"withdraw", j>>] <= 1
            /\ ~(flying'[<<"withdraw", j>>] > 0)
        BY <4>2, <4>3, <3>4, <3>5
      <4>. QED
        BY <4>4, <2>1 DEF SafeRr
    <3>6. CASE j # i
      <4>1. j \in 1..Len(rr) /\ rr[j].prefix = p
        BY <3>6, <2>3, <1>4, <1>12
      <4>2. j \notin live /\ SafeRr(p, j)
        BY <4>1, <1>1, <1>11, <1>15 DEF Known, Safe
      <4>3. ~UnderWay(j) /\ j \notin live' /\ j \notin S
        BY <4>1, <4>2, <1>1, <1>2, <1>7, <1>13, AddedRoute DEF SafeRr
      <4>4. ~UnderWay(j)'
        BY <4>3, <3>1, <3>3, <3>4, <1>9
      <4>. QED
        BY <4>3, <4>4, <3>4 DEF SafeRr
    <3>. QED
      BY <3>5, <3>6
  <2>. QED
    BY <2>2, <2>3 DEF Safe
<1>. QED
  BY <1>14, <1>15

\* RemoveUnadvertised keeps the prefixes without overlap safe.
LEMMA RemoveUnadvertisedSafe ==
  ASSUME Inv, Table', NEW r \in Route, RemoveUnadvertised(r), NEW p \in Prefix \ overlapped'
  PROVE  Safe(p)'
<1>1. /\ Removed(r) /\ index[r] = NoRr /\ live' = Left(r, live, rr)
      /\ rr' = (IF Goes(r) THEN Cancelled(rr) ELSE rr)
      /\ UNCHANGED <<index, flying, fault>> /\ Overlaps({}, live \ live')
  BY DEF RemoveUnadvertised
<1>2. Table /\ TypeOK /\ Linked
  BY DEF Inv, Table
<1>3. /\ Len(rr') = Len(rr)
      /\ \A j \in 1..Len(rr) : /\ rr'[j].prefix = rr[j].prefix
                               /\ rr'[j].retryEvt = IF Goes(r) THEN "none" ELSE rr[j].retryEvt
  BY <1>1, <1>2, RrTyped, CancelledRrs
<1>4. /\ live' \subseteq live /\ live \ live' \in SUBSET (1..Len(rr))
      /\ \A j \in live : rr[j].nRibRoutes > 0 => j \in live'
  BY <1>1, <1>2, RrTyped DEF Left
<1>5. /\ overlapped \subseteq overlapped'
      /\ \A j \in live \ live' : rr[j].prefix \notin overlapped' => ~UnderWay(j)'
  <2>. DEFINE S == {}
  <2>1. S \in SUBSET (1..Len(rr)) /\ Overlaps(S, live \ live')
    BY <1>1
  <2>. HIDE DEF S
  <2>. QED
    BY <2>1, <1>2, <1>4, OverlapRecorded
<1>6. p \in Prefix /\ Safe(p)
  BY <1>1, <1>2, <1>5, RemovedRoute DEF Inv, SafePrefixes
<1>7. Policy[r] # p
  BY <1>1, <1>2, <1>6, RemovedRoute, RrTyped, BoundAssumption DEF Safe, Known
<1>8. Needed(p)' <=> Needed(p)
  BY <1>1, <1>2, <1>7, RemovedRoute DEF Needed
<1>9. ASSUME NEW s \in routes', Policy[s] = p
      PROVE  s \in routes /\ index'[s] = index[s] /\ index[s] \in live'
  <2>1. s \in routes /\ index[s] \in live
    BY <1>1, <1>2, <1>6, <1>9, RemovedRoute DEF Safe, Known
  <2>2. rr[index[s]].nRibRoutes > 0
    BY <2>1, UserCounted
  <2>. QED
    BY <2>1, <2>2, <1>1, <1>4
<1>10. available' <=> available /\ ~Goes(r)
  BY <1>1, <1>2, RemovedRoute
<1>11. ASSUME NEW j \in 1..Len(rr), rr[j].prefix = p PROVE KeptRr(p, j)
  BY <1>1, <1>3, <1>4, <1>5, <1>10, <1>11 DEF KeptRr
<1>12. Kept(p)
  BY <1>3, <1>8, <1>9, <1>11 DEF Kept
<1>. QED
  BY <1>6, <1>12, OtherPrefix

\* RemoveAdvertised keeps the prefixes without overlap safe.
LEMMA RemoveAdvertisedSafe ==
  ASSUME Inv, Table', NEW r \in Route, RemoveAdvertised(r), NEW p \in Prefix \ overlapped'
  PROVE  Safe(p)'
<1>1. Table /\ TypeOK /\ Linked /\ CountsRoutes /\ ServedWhileAway
  BY DEF Inv, Table
<1>2. PICK i : i = index[r]
  OBVIOUS
<1>3. PICK last : last = IF StillNeeded(i) THEN {} ELSE {i}
  OBVIOUS
<1>. RemoveEffect(r, i, last)
  BY <1>1, <1>2, <1>3, RemoveAdvertisedSteps
<1>4. /\ Removed(r) /\ i \in live /\ i \in 1..Len(rr) /\ rr[i].prefix = Policy[r]
      /\ rr[i].nRibRoutes > 0 /\ last \subseteq {i}
      /\ i \notin last <=> rr[i].nRibRoutes > 1
      /\ index'[r] = NoRr /\ \A s \in Route : s # r => index'[s] = index[s]
      /\ i \in Id /\ rr[i].nRibRoutes \in Nat
  BY <1>1, RrTyped DEF RemoveEffect
<1>5. /\ Len(rr') = Len(rr) /\ rr'[i].nRibRoutes = rr[i].nRibRoutes - 1
      /\ \A j \in 1..Len(rr) : /\ rr'[j].prefix = rr[j].prefix
                               /\ j # i => rr'[j].nRibRoutes = rr[j].nRibRoutes
                               /\ rr'[j].retryEvt = IF Goes(r) THEN "none" ELSE rr[j].retryEvt
  BY DEF RemoveEffect
<1>6. /\ live' \subseteq live /\ live \ live' \in SUBSET (1..Len(rr))
      /\ \A j \in live : j \in live' <=> /\ available \/ j \notin last
                                         /\ Goes(r) => rr'[j].nRibRoutes > 0
  BY DEF RemoveEffect
<1>7. PICK W : W = IfAvailable(last, available)
  OBVIOUS
<1>8. /\ Send({}, W) /\ Overlaps(W, live \ live')
  BY <1>7 DEF RemoveEffect
<1>9. W \in SUBSET Id /\ W \in SUBSET (1..Len(rr)) /\ \A j : j \in W <=> available /\ j \in last
  BY <1>1, <1>4, <1>7, RrTyped DEF IfAvailable
<1>10. /\ overlapped \subseteq overlapped'
       /\ \A j \in W : rr[j].prefix \notin overlapped' => ~UnderWay(j)
       /\ \A j \in live \ live' : rr[j].prefix \notin overlapped' => ~UnderWay(j)'
  BY <1>1, <1>6, <1>8, <1>9, OverlapRecorded
<1>11. \A j \in Id :
          /\ flying'[<<"advertise", j>>] = flying[<<"advertise", j>>]
          /\ flying'[<<"withdraw", j>>] =
               IF j \in W THEN flying[<<"withdraw", j>>] + 1 ELSE flying[<<"withdraw", j>>]
  BY <1>1, <1>8, <1>9, SendWithdraws
<1>12. p \in Prefix /\ Safe(p)
  BY <1>1, <1>4, <1>10, RemovedRoute DEF Inv, SafePrefixes
<1>13. available' <=> available /\ ~Goes(r)
  BY <1>1, <1>4, RemovedRoute
<1>14. routes' = routes \ {r} /\ r \in routes /\ routes \subseteq Route /\ (Goes(r) => available)
  BY <1>1, <1>4, RemovedRoute DEF TypeOK
<1>15. CASE Policy[r] # p
  <2>1. Needed(p)' <=> Needed(p)
    BY <1>14, <1>15 DEF Needed
  <2>2. ASSUME NEW s \in routes', Policy[s] = p
        PROVE  s \in routes /\ index'[s] = index[s] /\ index[s] \in live'
    <3>1. s \in routes /\ s \in Route /\ s # r /\ index[s] \in live /\ rr[index[s]].prefix = p
      BY <2>2, <1>12, <1>14 DEF Safe, Known
    <3>2. rr[index[s]].nRibRoutes > 0 /\ index[s] # i /\ index[s] \in 1..Len(rr)
      BY <3>1, <1>1, <1>4, <1>15, UserCounted, RrTyped
    <3>3. rr'[index[s]].nRibRoutes > 0 /\ index[s] \notin last
      BY <3>2, <1>4, <1>5
    <3>. QED
      BY <3>1, <3>3, <1>4, <1>6
  <2>3. ASSUME NEW j \in 1..Len(rr), rr[j].prefix = p PROVE KeptRr(p, j)
    <3>1. j # i /\ j \notin W /\ j \in Id
      BY <2>3, <1>1, <1>4, <1>9, <1>15, RrTyped
    <3>. QED
      BY <3>1, <2>3, <1>5, <1>6, <1>10, <1>11, <1>13 DEF KeptRr
  <2>4. Kept(p)
    BY <2>1, <2>2, <2>3, <1>5 DEF Kept
  <2>. QED
    BY <2>4, <1>12, OtherPrefix
<1>16. CASE Policy[r] = p
  <2>1. Needed(p)' <=> i \notin last
    <3>1. Needed(p)' <=> \E s \in Users(i) : s # r
      <4>1. \A s \in routes : Policy[s] = p => index[s] = i
        BY <1>1, <1>4, <1>12, <1>16 DEF Safe, Known, Linked
      <4>2. \A s \in routes : index[s] = i => Policy[s] = p
        <5>1. i # NoRr
          BY <1>1, <1>4, RrTyped, BoundAssumption
        <5>. QED
          BY <5>1, <1>1, <1>4, <1>14, <1>16 DEF Linked
      <4>. QED
        BY <4>1, <4>2, <1>14 DEF Needed, Users
    <3>2. r \in Users(i) /\ IsFiniteSet(Users(i)) /\ Cardinality(Users(i)) = rr[i].nRibRoutes
      <4>1. Users(i) \subseteq routes
        BY DEF Users
      <4>. QED
        BY <4>1, <1>1, <1>2, <1>4, <1>14, FS_Subset DEF Users, Linked, CountsRoutes
    <3>3. rr[i].nRibRoutes = 1 <=> \E x : Users(i) = {x}
      BY <3>2, FS_Singleton
    <3>4. rr[i].nRibRoutes = 1 <=> \A s \in Users(i) : s = r
      BY <3>2, <3>3
    <3>. QED
      BY <3>1, <3>4, <1>4
  <2>2. ASSUME NEW s \in routes', Policy[s] = p PROVE index'[s] \in Known(p)'
    <3>1. s \in routes /\ s # r /\ s \in Route /\ index[s] \in Known(p)
      BY <2>2, <1>12, <1>14 DEF Safe
    <3>2. index'[s] = i
      BY <3>1, <1>1, <1>4, <1>16 DEF Known, Linked
    <3>3. Needed(p)'
      BY <2>2 DEF Needed
    <3>4. i \notin last /\ rr'[i].nRibRoutes > 0
      BY <3>3, <2>1, <1>4, <1>5
    <3>5. i \in live' /\ rr'[i].prefix = p
      BY <3>4, <1>4, <1>5, <1>6, <1>16
    <3>. QED
      BY <3>2, <3>5 DEF Known
  <2>3. ASSUME NEW j \in 1..Len(rr), rr[j].prefix = p PROVE SafeRr(p, j)'
    <3>1. SafeRr(p, j) /\ j \in Id
      BY <2>3, <1>1, <1>12, RrTyped DEF Safe
    <3>2. flying \in [Kind \X Id -> 0..MaxFlying] /\ flying' \in [Kind \X Id -> 0..MaxFlying]
      BY <1>1 DEF Table, TypeOK
    <3>3. /\ flying[<<"advertise", j>>] \in Nat /\ flying[<<"withdraw", j>>] \in Nat
          /\ UnderWay(j) <=> flying[<<"advertise", j>>] > 0 \/ flying[<<"withdraw", j>>] > 0
      BY <3>1, <3>2, UnderWayKinds DEF UnderWay
    <3>4. /\ flying'[<<"advertise", j>>] \in Nat /\ flying'[<<"withdraw", j>>] \in Nat
          /\ UnderWay(j)' <=> flying'[<<"advertise", j>>] > 0 \/ flying'[<<"withdraw", j>>] > 0
      BY <3>1, <3>2, UnderWayKinds DEF UnderWay
    <3>5. CASE j # i
      <4>1. j \notin live /\ j \notin W /\ ~UnderWay(j)
        BY <3>1, <3>5, <2>3, <1>1, <1>4, <1>9, <1>16 DEF Linked, SafeRr
      <4>2. ~UnderWay(j)' /\ j \notin live'
        BY <4>1, <3>1, <3>3, <3>4, <1>6, <1>11
      <4>. QED
        BY <4>2, <3>4 DEF SafeRr
    <3>6. CASE j = i /\ i \notin last
      <4>1. i \notin W /\ Needed(p)' /\ Needed(p)
        BY <3>6, <2>1, <1>9, <1>14, <1>16 DEF Needed
      <4>2. /\ flying'[<<"advertise", i>>] = flying[<<"advertise", i>>]
            /\ flying'[<<"withdraw", i>>] = flying[<<"withdraw", i>>]
            /\ UnderWay(i)' <=> UnderWay(i)
        BY <4>1, <3>3, <3>4, <3>6, <1>4, <1>11
      <4>3. i \in live' /\ rr'[i].retryEvt = IF Goes(r) THEN "none" ELSE rr[i].retryEvt
        BY <3>6, <1>4, <1>5, <1>6
      <4>4. CASE Goes(r)
        BY <4>1, <4>2, <4>3, <4>4, <3>1, <3>6, <1>13 DEF SafeRr
      <4>5. CASE ~Goes(r)
        BY <4>1, <4>2, <4>3, <4>5, <3>1, <3>6, <1>4, <1>13 DEF SafeRr
      <4>. QED
        BY <4>4, <4>5
    <3>7. CASE j = i /\ i \in last /\ available
      <4>1. i \in W /\ ~Needed(p)' /\ ~UnderWay(i)
        BY <3>7, <2>1, <1>4, <1>9, <1>10, <1>16
      <4>2. flying'[<<"advertise", i>>] = 0 /\ flying'[<<"withdraw", i>>] = 1
        BY <4>1, <3>3, <3>7, <1>4, <1>11
      <4>3. UnderWay(i)'
        BY <4>2, <3>4, <3>7
      <4>4. i \in live'
        BY <4>3, <1>4, <1>10, <1>16
      <4>5. ~Goes(r)
        BY <4>4, <3>7, <1>4, <1>5, <1>6
      <4>. QED
        BY <4>1, <4>2, <4>3, <4>4, <4>5, <3>7, <1>13 DEF SafeRr
    <3>8. CASE j = i /\ i \in last /\ ~available
      <4>1. i \notin live'
        BY <3>8, <1>4, <1>6
      <4>2. ~UnderWay(i)'
        BY <4>1, <1>4, <1>10, <1>16
      <4>. QED
        BY <4>1, <4>2, <3>4, <3>8 DEF SafeRr
    <3>. QED
      BY <3>5, <3>6, <3>7, <3>8
  <2>. QED
    BY <2>2, <2>3, <1>5 DEF Safe
<1>. QED
  BY <1>15, <1>16

\* An answer or a timer leaves the other prefixes alone.
LEMMA StepElsewhereSafe ==
  ASSUME Inv, Table', NEW p \in Prefix, Safe(p), NEW i \in 1..Len(rr), rr[i].prefix # p,
         UNCHANGED <<routes, available, index>>, Len(rr') = Len(rr),
         \A j \in 1..Len(rr) : rr'[j].prefix = rr[j].prefix /\ (j # i => rr'[j] = rr[j]),
         \A j \in 1..Len(rr) : j # i => (j \in live' <=> j \in live),
         \A j \in Id : j # i => /\ flying'[<<"advertise", j>>] = flying[<<"advertise", j>>]
                                /\ flying'[<<"withdraw", j>>] = flying[<<"withdraw", j>>]
  PROVE  Safe(p)'
<1>1. TypeOK /\ (Needed(p)' <=> Needed(p))
  BY DEF Inv, Table, Needed
<1>2. ASSUME NEW s \in routes', Policy[s] = p
      PROVE  s \in routes /\ index'[s] = index[s] /\ index[s] \in live'
  <2>1. s \in routes /\ index'[s] = index[s] /\ index[s] \in live /\ rr[index[s]].prefix = p
    BY <1>2 DEF Safe, Known
  <2>. QED
    BY <2>1, <1>1, RrTyped
<1>3. ASSUME NEW j \in 1..Len(rr), rr[j].prefix = p PROVE KeptRr(p, j)
  <2>1. j # i /\ j \in Id
    BY <1>1, <1>3, RrTyped
  <2>. QED
    BY <2>1, <1>3 DEF KeptRr
<1>4. Kept(p)
  BY <1>1, <1>2, <1>3 DEF Kept
<1>. QED
  BY <1>4, OtherPrefix

\* Erased or rescheduled as SafeRr demands, the prefix of the answered command is safe.
LEMMA OwnPrefixSafe ==
  ASSUME Inv, Table', NEW p \in Prefix, Safe(p), NEW i \in live, rr[i].prefix = p,
         UNCHANGED <<routes, available, index>>, Len(rr') = Len(rr),
         \A j \in 1..Len(rr) : rr'[j].prefix = rr[j].prefix /\ (j # i => rr'[j] = rr[j]),
         \A j \in 1..Len(rr) : j # i => (j \in live' <=> j \in live),
         \A j \in Id : j # i => /\ flying'[<<"advertise", j>>] = flying[<<"advertise", j>>]
                                /\ flying'[<<"withdraw", j>>] = flying[<<"withdraw", j>>],
         SafeRr(p, i)', Needed(p) => i \in live'
  PROVE  Safe(p)'
<1>1. TypeOK /\ Linked /\ (Needed(p)' <=> Needed(p))
  BY DEF Inv, Table, Needed
<1>2. ASSUME NEW s \in routes', Policy[s] = p PROVE index'[s] \in Known(p)'
  <2>1. s \in routes /\ index'[s] = index[s] /\ index[s] \in live /\ rr[index[s]].prefix = p
    BY <1>2 DEF Safe, Known
  <2>2. index[s] = i /\ Needed(p) /\ i \in 1..Len(rr)
    BY <2>1, <1>1, <1>2, RrTyped DEF Linked, Needed
  <2>. QED
    BY <2>1, <2>2 DEF Known
<1>3. ASSUME NEW j \in 1..Len(rr), rr[j].prefix = p PROVE SafeRr(p, j)'
  <2>1. CASE j = i
    BY <2>1
  <2>2. CASE j # i
    <3>1. j \notin live /\ j \notin live' /\ j \in Id /\ SafeRr(p, j)
      BY <2>2, <1>1, <1>3, RrTyped DEF Linked, Safe
    <3>2. UnderWay(j)' <=> UnderWay(j)
      BY <3>1, <2>2 DEF UnderWay, Kind
    <3>3. /\ flying'[<<"advertise", j>>] = flying[<<"advertise", j>>]
          /\ flying'[<<"withdraw", j>>] = flying[<<"withdraw", j>>]
      BY <3>1, <2>2
    <3>. QED
      BY <3>1, <3>2, <3>3, <1>1 DEF SafeRr
  <2>. QED
    BY <2>1, <2>2
<1>. QED
  BY <1>2, <1>3 DEF Safe

\* What an answer does to the commands under way for its ReadvertisedRoute.
LEMMA AnswerEnds ==
  ASSUME Inv, Table', NEW k \in Kind, NEW i \in 1..Len(rr), Answered(k, i), SafeRr(rr[i].prefix, i)
  PROVE  /\ flying'[<<"advertise", i>>] = 0 /\ flying'[<<"withdraw", i>>] = 0 /\ ~UnderWay(i)'
         /\ IF k = "advertise" THEN Needed(rr[i].prefix) ELSE ~Needed(rr[i].prefix)
<1>1. Table /\ TypeOK /\ i \in Id
  BY RrTyped DEF Inv, Table
<1>2. flying \in [Kind \X Id -> 0..MaxFlying] /\ flying' \in [Kind \X Id -> 0..MaxFlying]
  BY <1>1 DEF Table, TypeOK
<1>3. /\ flying[<<"advertise", i>>] \in Nat /\ flying[<<"withdraw", i>>] \in Nat
  BY <1>1, <1>2, UnderWayKinds
<1>4. UnderWay(i)' <=> flying'[<<"advertise", i>>] > 0 \/ flying'[<<"withdraw", i>>] > 0
  BY <1>1, <1>2, UnderWayKinds DEF UnderWay
<1>5. /\ flying[<<k, i>>] > 0 /\ flying'[<<k, i>>] = flying[<<k, i>>] - 1
      /\ \A c \in Kind : c # k => flying'[<<c, i>>] = flying[<<c, i>>]
  BY <1>1, AnsweredCommand
<1>6. flying[<<"advertise", i>>] + flying[<<"withdraw", i>>] <= 1
  BY DEF SafeRr
<1>7. CASE k = "advertise"
  <2>1. flying'[<<"advertise", i>>] = 0 /\ flying'[<<"withdraw", i>>] = 0
    BY <1>3, <1>5, <1>6, <1>7 DEF Kind
  <2>. QED
    BY <2>1, <1>4, <1>5, <1>7 DEF SafeRr
<1>8. CASE k = "withdraw"
  <2>1. flying'[<<"advertise", i>>] = 0 /\ flying'[<<"withdraw", i>>] = 0
    BY <1>3, <1>5, <1>6, <1>8 DEF Kind
  <2>. QED
    BY <2>1, <1>4, <1>5, <1>8 DEF SafeRr
<1>. QED
  BY <1>7, <1>8 DEF Kind

\* Succeeds keeps the prefixes without overlap safe.
LEMMA SucceedsSafe ==
  ASSUME Inv, Table', NEW k \in Kind, NEW i \in 1..Len(rr), Succeeds(k, i),
         NEW p \in Prefix \ overlapped'
  PROVE  Safe(p)'
<1>1. /\ Answered(k, i) /\ i \in live
      /\ UNCHANGED <<routes, available, index, overlapped>>
      /\ live' = IF k = "advertise" THEN live ELSE live \ {i}
  BY DEF Succeeds, Answered
<1>2. Rescheduled(IF k = "advertise" THEN k ELSE "none", i)
  BY DEF Succeeds, Rescheduled
<1>3. PICK e \in Kind \cup {"none"} : /\ Rescheduled(e, i)
                                      /\ k = "advertise" => e = "advertise"
  BY <1>2
<1>4. Table /\ TypeOK
  BY DEF Inv, Table
<1>5. /\ Len(rr') = Len(rr) /\ rr'[i].retryEvt = e
      /\ \A j \in 1..Len(rr) : rr'[j].prefix = rr[j].prefix /\ (j # i => rr'[j] = rr[j])
  BY <1>3, <1>4, RrRescheduled
<1>6. p \in Prefix /\ Safe(p)
  BY <1>1, <1>4, AnsweredCommand DEF Inv, SafePrefixes
<1>7. \A j \in Id : j # i => /\ flying'[<<"advertise", j>>] = flying[<<"advertise", j>>]
                             /\ flying'[<<"withdraw", j>>] = flying[<<"withdraw", j>>]
  BY <1>1, <1>4, AnsweredCommand DEF Kind
<1>8. \A j \in 1..Len(rr) : j # i => (j \in live' <=> j \in live)
  BY <1>1
<1>9. CASE rr[i].prefix # p
  BY <1>1, <1>5, <1>6, <1>7, <1>8, <1>9, StepElsewhereSafe
<1>10. CASE rr[i].prefix = p
  <2>1. SafeRr(p, i)
    BY <1>6, <1>10 DEF Safe
  <2>2. /\ flying'[<<"advertise", i>>] = 0 /\ flying'[<<"withdraw", i>>] = 0 /\ ~UnderWay(i)'
        /\ IF k = "advertise" THEN Needed(p) ELSE ~Needed(p)
    BY <2>1, <1>1, <1>10, AnswerEnds
  <2>3. Needed(p)' <=> Needed(p)
    BY <1>1 DEF Needed
  <2>4. SafeRr(p, i)'
    BY <2>2, <2>3, <1>1, <1>3, <1>5 DEF SafeRr
  <2>5. Needed(p) => i \in live'
    BY <2>2, <1>1
  <2>. QED
    BY <2>4, <2>5, <1>1, <1>5, <1>6, <1>7, <1>8, <1>10, OwnPrefixSafe
<1>. QED
  BY <1>9, <1>10

\* Fails keeps the prefixes without overlap safe.
LEMMA FailsSafe ==
  ASSUME Inv, Table', NEW k \in Kind, NEW i \in 1..Len(rr), Fails(k, i),
         NEW p \in Prefix \ overlapped'
  PROVE  Safe(p)'
<1>1. /\ Answered(k, i) /\ i \in live /\ Rescheduled(k, i)
      /\ UNCHANGED <<routes, available, index, overlapped>> /\ live' = live
  BY DEF Fails, Answered
<1>2. Table /\ TypeOK /\ ServedWhileAway
  BY DEF Inv, Table
<1>3. /\ Len(rr') = Len(rr) /\ rr'[i].retryEvt = k
      /\ \A j \in 1..Len(rr) : rr'[j].prefix = rr[j].prefix /\ (j # i => rr'[j] = rr[j])
  BY <1>1, <1>2, RrRescheduled
<1>4. p \in Prefix /\ Safe(p)
  BY <1>1, <1>2, AnsweredCommand DEF Inv, SafePrefixes
<1>5. \A j \in Id : j # i => /\ flying'[<<"advertise", j>>] = flying[<<"advertise", j>>]
                             /\ flying'[<<"withdraw", j>>] = flying[<<"withdraw", j>>]
  BY <1>1, <1>2, AnsweredCommand DEF Kind
<1>6. \A j \in 1..Len(rr) : j # i => (j \in live' <=> j \in live)
  BY <1>1
<1>7. CASE rr[i].prefix # p
  BY <1>1, <1>3, <1>4, <1>5, <1>6, <1>7, StepElsewhereSafe
<1>8. CASE rr[i].prefix = p
  <2>1. SafeRr(p, i)
    BY <1>4, <1>8 DEF Safe
  <2>2. /\ flying'[<<"advertise", i>>] = 0 /\ flying'[<<"withdraw", i>>] = 0 /\ ~UnderWay(i)'
        /\ IF k = "advertise" THEN Needed(p) ELSE ~Needed(p)
    BY <2>1, <1>1, <1>8, AnswerEnds
  <2>3. Needed(p)' <=> Needed(p)
    BY <1>1 DEF Needed
  <2>4. k = "withdraw" => available
    <3>1. Needed(p) <=> rr[i].nRibRoutes > 0
      BY <1>1, <1>4, <1>8, NeededIsCounted
    <3>. QED
      BY <3>1, <2>2, <1>1, <1>2 DEF ServedWhileAway
  <2>5. rr'[i].retryEvt = IF Needed(p) THEN "advertise" ELSE "withdraw"
    BY <2>2, <1>3 DEF Kind
  <2>6. SafeRr(p, i)'
    BY <2>2, <2>3, <2>4, <2>5, <1>1, <1>3 DEF SafeRr
  <2>. QED
    BY <2>6, <1>1, <1>3, <1>4, <1>5, <1>6, <1>8, OwnPrefixSafe
<1>. QED
  BY <1>7, <1>8

\* Timer keeps the prefixes without overlap safe.
LEMMA TimerSafe ==
  ASSUME Inv, Table', NEW i \in 1..Len(rr), Timer(i), NEW p \in Prefix \ overlapped'
  PROVE  Safe(p)'
<1>1. Table /\ TypeOK /\ ServedWhileAway /\ i \in Id
  BY RrTyped DEF Inv, Table
<1>2. PICK k : k = rr[i].retryEvt
  OBVIOUS
<1>. TimerEffect(i, k)
  BY <1>1, <1>2, TimerSteps
<1>3. /\ ~fault /\ i \in live /\ k \in Kind /\ UNCHANGED <<routes, available, index>>
      /\ Len(rr') = Len(rr) /\ rr'[i].retryEvt = "none"
      /\ \A j \in 1..Len(rr) : rr'[j].prefix = rr[j].prefix /\ (j # i => rr'[j] = rr[j])
      /\ live' = IF available \/ k # "withdraw" THEN live ELSE live \ {i}
      /\ overlapped \subseteq overlapped'
      /\ available /\ rr[i].prefix \notin overlapped' => ~UnderWay(i)
  BY DEF TimerEffect
<1>4. \A j \in Id : \A c \in Kind :
        flying'[<<c, j>>] =
          IF available /\ j = i /\ c = k THEN flying[<<c, j>>] + 1 ELSE flying[<<c, j>>]
  BY DEF TimerEffect
<1>5. p \in Prefix /\ Safe(p)
  BY <1>3 DEF Inv, SafePrefixes
<1>6. \A j \in Id : j # i => /\ flying'[<<"advertise", j>>] = flying[<<"advertise", j>>]
                             /\ flying'[<<"withdraw", j>>] = flying[<<"withdraw", j>>]
  BY <1>4 DEF Kind
<1>7. \A j \in 1..Len(rr) : j # i => (j \in live' <=> j \in live)
  BY <1>3
<1>8. CASE rr[i].prefix # p
  BY <1>3, <1>5, <1>6, <1>7, <1>8, StepElsewhereSafe
<1>9. CASE rr[i].prefix = p
  <2>1. SafeRr(p, i)
    BY <1>5, <1>9 DEF Safe
  <2>2. flying \in [Kind \X Id -> 0..MaxFlying] /\ flying' \in [Kind \X Id -> 0..MaxFlying]
    BY <1>1 DEF Table, TypeOK
  <2>3. /\ flying[<<"advertise", i>>] \in Nat /\ flying[<<"withdraw", i>>] \in Nat
        /\ UnderWay(i) <=> flying[<<"advertise", i>>] > 0 \/ flying[<<"withdraw", i>>] > 0
    BY <2>2, <1>1, UnderWayKinds DEF UnderWay
  <2>4. UnderWay(i)' <=> flying'[<<"advertise", i>>] > 0 \/ flying'[<<"withdraw", i>>] > 0
    BY <2>2, <1>1, UnderWayKinds DEF UnderWay
  <2>5. Needed(p)' <=> Needed(p)
    BY <1>3 DEF Needed
  <2>6. CASE available
    <3>1. ~UnderWay(i) /\ live' = live
      BY <2>6, <1>3, <1>9
    <3>2. k = IF Needed(p) THEN "advertise" ELSE "withdraw"
      BY <3>1, <2>1, <2>6, <1>2, <1>3 DEF SafeRr
    <3>3. /\ flying'[<<"advertise", i>>] = IF k = "advertise" THEN 1 ELSE 0
          /\ flying'[<<"withdraw", i>>] = IF k = "advertise" THEN 0 ELSE 1
      BY <3>1, <2>3, <2>6, <1>1, <1>3, <1>4 DEF Kind
    <3>4. UnderWay(i)'
      BY <3>3, <2>4
    <3>5. ASSUME Needed(p) PROVE SafeRr(p, i)'
      BY <3>1, <3>2, <3>3, <3>4, <3>5, <2>5, <2>6, <1>3 DEF SafeRr
    <3>6. ASSUME ~Needed(p) PROVE SafeRr(p, i)'
      BY <3>1, <3>2, <3>3, <3>4, <3>6, <2>5, <2>6, <1>3 DEF SafeRr
    <3>7. SafeRr(p, i)' /\ i \in live'
      BY <3>1, <3>5, <3>6, <1>3
    <3>. QED
      BY <3>7, <1>3, <1>5, <1>6, <1>7, <1>9, OwnPrefixSafe
  <2>7. CASE ~available
    <3>1. k # "withdraw" /\ live' = live
      BY <2>1, <2>7, <1>2, <1>3 DEF SafeRr
    <3>2. /\ flying'[<<"advertise", i>>] = flying[<<"advertise", i>>]
          /\ flying'[<<"withdraw", i>>] = flying[<<"withdraw", i>>]
      BY <2>7, <1>1, <1>4 DEF Kind
    <3>3. SafeRr(p, i)'
      BY <3>1, <3>2, <2>1, <2>3, <2>4, <2>5, <2>7, <1>3 DEF SafeRr
    <3>. QED
      BY <3>1, <3>3, <1>3, <1>5, <1>6, <1>7, <1>9, OwnPrefixSafe
  <2>. QED
    BY <2>6, <2>7
<1>. QED
  BY <1>8, <1>9

----------------------------------------------------------------------------
(* Theorems *)

\* The invariant holds before any route has come.
LEMMA InitInv == Init => Inv
<1>. SUFFICES ASSUME Init PROVE Inv
  OBVIOUS
<1>1. rr = <<>> /\ Len(rr) = 0 /\ live = {} /\ routes = {} /\ rr \in Seq(ReadvertisedRoute)
  BY EmptySeq DEF Init
<1>2. TypeOK
  <2>1. /\ routes = {} /\ available = FALSE /\ live = {} /\ gateway = {} /\ overlapped = {}
        /\ fault = FALSE /\ changes = 0
    BY DEF Init
  <2>4. Len(rr) <= MaxChanges /\ changes \in 0..MaxChanges
    BY <2>1, <1>1, BoundAssumption
  <2>2. index \in [Route -> 1..Len(rr) \cup {NoRr}]
    BY DEF Init
  <2>3. flying \in [Kind \X Id -> 0..MaxFlying]
    BY BoundAssumption DEF Init
  <2>. QED
    BY <2>1, <2>2, <2>3, <2>4, <1>1 DEF TypeOK
<1>3. Linked
  BY <1>1, FS_EmptySet DEF Init, Linked
<1>4. SentForMade
  BY DEF Init, SentForMade
<1>5. CountsRoutes /\ ServedWhileAway
  BY <1>1 DEF CountsRoutes, ServedWhileAway
<1>6. SafePrefixes
  BY <1>1 DEF SafePrefixes, Safe
<1>. QED
  BY <1>2, <1>3, <1>4, <1>5, <1>6 DEF Inv, Table

\* Every step keeps the table and its counts.
LEMMA NextTable ==
  ASSUME Inv, [Next]_vars
  PROVE  Table'
<1>. Table
  BY DEF Inv
<1>1. ASSUME NEW r \in Route, AddUnadvertised(r) \/ AddKnown(r) \/ AddNew(r) PROVE Table'
  BY <1>1, AddUnadvertisedTable, AddKnownTable, AddNewTable
<1>2. ASSUME NEW r \in Route, RemoveUnadvertised(r) \/ RemoveAdvertised(r) PROVE Table'
  BY <1>2, RemoveUnadvertisedTable, RemoveAdvertisedTable
<1>3. ASSUME NEW i \in 1..Len(rr), Timer(i) \/ \E k \in Kind : Succeeds(k, i) \/ Fails(k, i)
      PROVE  Table'
  BY <1>3, TimerTable, SucceedsTable, FailsTable
<1>4. CASE Stale
  <2>1. fault' \in BOOLEAN /\ UNCHANGED <<routes, available, rr, live, index, flying,
                                           gateway, overlapped, changes>>
    BY <1>4 DEF Stale, tableVars
  <2>. QED
    BY <2>1 DEF Table, TypeOK, Linked, SentForMade, CountsRoutes, ServedWhileAway
<1>5. CASE UNCHANGED vars
  BY <1>5 DEF vars, tableVars, Table, TypeOK, Linked, SentForMade, CountsRoutes, ServedWhileAway
<1>. QED
  BY <1>1, <1>2, <1>3, <1>4, <1>5 DEF Next

\* Every step keeps the prefixes without overlap safe.
LEMMA NextSafe ==
  ASSUME Inv, [Next]_vars
  PROVE  SafePrefixes'
<1>. Table'
  BY NextTable
<1>. SUFFICES ASSUME ~fault', NEW p \in Prefix \ overlapped' PROVE Safe(p)'
  BY DEF SafePrefixes
<1>1. ASSUME NEW r \in Route, AddUnadvertised(r) \/ AddKnown(r) \/ AddNew(r) PROVE Safe(p)'
  BY <1>1, AddUnadvertisedSafe, AddKnownSafe, AddNewSafe
<1>2. ASSUME NEW r \in Route, RemoveUnadvertised(r) \/ RemoveAdvertised(r) PROVE Safe(p)'
  BY <1>2, RemoveUnadvertisedSafe, RemoveAdvertisedSafe
<1>3. ASSUME NEW i \in 1..Len(rr), Timer(i) \/ \E k \in Kind : Succeeds(k, i) \/ Fails(k, i)
      PROVE  Safe(p)'
  BY <1>3, TimerSafe, SucceedsSafe, FailsSafe
<1>4. CASE Stale
  BY <1>4 DEF Stale
<1>5. CASE UNCHANGED vars
  <2>1. Safe(p)
    BY <1>5 DEF vars, tableVars, Inv, SafePrefixes
  <2>. QED
    BY <2>1, <1>5 DEF vars, tableVars, Safe, SafeRr, Known, Needed, UnderWay
<1>. QED
  BY <1>1, <1>2, <1>3, <1>4, <1>5 DEF Next

\* The inductive invariant holds in every reachable state: the tables of Readvertise stay
\* linked and counted, and prefixes without overlap stay safe, whatever routes come and go
\* and however commands are answered.
THEOREM Invariance == Spec => []Inv
<1>1. Init => Inv
  BY InitInv
<1>2. Inv /\ [Next]_vars => Inv'
  BY NextTable, NextSafe DEF Inv
<1>. QED
  BY <1>1, <1>2, PTL DEF Spec

\* Type correctness: a ReadvertisedRoute counts a natural number of routes, and m_rrs and
\* the index of routes refer to ReadvertisedRoutes that were made.
THEOREM TypeCorrect == Spec => []TypeOK
<1>1. Inv => TypeOK
  BY DEF Inv, Table
<1>. QED
  BY <1>1, Invariance, PTL

\* What RemoveAdvertised does to the ReadvertisedRoute of its route.
LEMMA RemoveGone ==
  ASSUME Table, NEW r \in Route, RemoveAdvertised(r), NEW i, i = index[r]
  PROVE  Gone(r, i)
<1>1. TypeOK /\ Linked /\ CountsRoutes
  BY DEF Table
<1>2. PICK last : last = IF StillNeeded(i) THEN {} ELSE {i}
  OBVIOUS
<1>3. RemoveEffect(r, i, last)
  BY <1>2, RemoveAdvertisedSteps
<1>4. /\ Removed(r) /\ i \in live /\ i \in 1..Len(rr) /\ i \in Id
      /\ rr[i].nRibRoutes \in Nat \ {0} /\ last \subseteq {i}
      /\ i \notin last <=> rr[i].nRibRoutes > 1
      /\ rr'[i].nRibRoutes = rr[i].nRibRoutes - 1
  BY <1>1, <1>3, RrTyped DEF RemoveEffect
<1>5. i \in live' <=> (available \/ i \notin last) /\ (Goes(r) => rr'[i].nRibRoutes > 0)
  BY <1>3, <1>4 DEF RemoveEffect
<1>6. PICK W : W = IfAvailable(last, available)
  OBVIOUS
<1>7. Send({}, W) /\ W \in SUBSET Id
  BY <1>3, <1>4, <1>6 DEF RemoveEffect, IfAvailable
<1>8. /\ flying'[<<"withdraw", i>>] =
           IF i \in W THEN flying[<<"withdraw", i>>] + 1 ELSE flying[<<"withdraw", i>>]
      /\ flying[<<"withdraw", i>>] \in Int
  <2>1. <<"withdraw", i>> \in Kind \X Id
    BY <1>4 DEF Kind
  <2>2. flying \in [Kind \X Id -> 0..MaxFlying]
    BY <1>1 DEF TypeOK
  <2>3. flying[<<"withdraw", i>>] \in Int
    BY <2>1, <2>2, BoundAssumption
  <2>. QED
    BY <2>3, <1>1, <1>4, <1>7, SendWithdraws
<1>9. rr[i].nRibRoutes = 1 <=> ~\E s \in routes' : index[s] = i
  <2>1. r \in Users(i) /\ Users(i) \subseteq routes /\ routes' = routes \ {r}
    BY <1>4, RemovedRoute DEF Users
  <2>2. IsFiniteSet(Users(i)) /\ Cardinality(Users(i)) = rr[i].nRibRoutes
    BY <2>1, <1>1, <1>4, FS_Subset DEF Users, Linked, CountsRoutes
  <2>3. rr[i].nRibRoutes = 1 <=> \E x : Users(i) = {x}
    BY <2>2, FS_Singleton
  <2>4. rr[i].nRibRoutes = 1 <=> \A s \in Users(i) : s = r
    BY <2>1, <2>3
  <2>. QED
    BY <2>1, <2>4 DEF Users
<1>10. CASE \E s \in routes' : index[s] = i
  <2>1. rr[i].nRibRoutes > 1 /\ i \notin last /\ i \notin W
    BY <1>4, <1>6, <1>9, <1>10 DEF IfAvailable
  <2>2. i \in live' /\ flying'[<<"withdraw", i>>] - flying[<<"withdraw", i>>] = 0
    BY <2>1, <1>4, <1>5, <1>8
  <2>. QED
    BY <2>2, <1>10 DEF Gone
<1>11. CASE ~\E s \in routes' : index[s] = i
  <2>1. i \in last /\ (i \in W <=> available)
    BY <1>4, <1>6, <1>9, <1>11 DEF IfAvailable
  <2>2. /\ available => flying'[<<"withdraw", i>>] - flying[<<"withdraw", i>>] = 1
        /\ ~available => /\ flying'[<<"withdraw", i>>] - flying[<<"withdraw", i>>] = 0
                          /\ i \notin live'
    BY <2>1, <1>5, <1>8
  <2>. QED
    BY <2>2, <1>11 DEF Gone
<1>. QED
  BY <1>10, <1>11

\* beforeRemoveRoute withdraws a prefix exactly with its last route: for any routes and
\* policy, however often routes and the destination come and go and commands fail, nRibRoutes
\* reaches zero when no other route of the RIB points to the ReadvertisedRoute, and only then.
THEOREM WithdrawnWithLastRoute == Spec => LastRouteWithdraws
<1>. DEFINE Step == \A r \in routes \ routes' : \A i \in live : index[r] = i => Gone(r, i)
<1>1. Inv /\ [Next]_vars => [Step]_vars
  <2>. SUFFICES ASSUME Inv, Next, NEW r \in routes \ routes', NEW i \in live, index[r] = i
                PROVE  Gone(r, i)
    OBVIOUS
  <2>1. Table /\ r \in Route /\ i # NoRr
    BY RrTyped, BoundAssumption DEF Inv, Table, TypeOK
  <2>2. ASSUME NEW s \in Route, AddUnadvertised(s) \/ AddKnown(s) \/ AddNew(s) PROVE FALSE
    BY <2>2 DEF AddUnadvertised, AddKnown, AddNew, Added
  <2>3. ASSUME NEW j, Timer(j) \/ \E k \in Kind : Succeeds(k, j) \/ Fails(k, j) PROVE FALSE
    BY <2>3 DEF Timer, Succeeds, Fails, Answered
  <2>4. ~Stale
    BY DEF Stale
  <2>5. PICK s \in Route : RemoveUnadvertised(s) \/ RemoveAdvertised(s)
    BY <2>2, <2>3, <2>4 DEF Next
  <2>6. s = r
    BY <2>5 DEF RemoveUnadvertised, RemoveAdvertised, Removed
  <2>7. RemoveAdvertised(r)
    BY <2>1, <2>5, <2>6 DEF RemoveUnadvertised
  <2>. QED
    BY <2>1, <2>7, RemoveGone
<1>2. [][Step]_vars <=> LastRouteWithdraws
  BY DEF LastRouteWithdraws
<1>. QED
  BY <1>1, <1>2, Invariance, PTL DEF Spec

\* The callbacks of advertise and withdraw and the index of routes use only iterators that
\* are valid, and the command under way or scheduled is the one that the routes want, for
\* every prefix for which no two commands have overlapped.
THEOREM SafeUnlessOverlap == Spec => []SafeWithoutOverlap
<1>1. Inv => SafeWithoutOverlap
  BY DEF Inv, SafePrefixes, Safe, SafeRr, SafeWithoutOverlap
<1>. QED
  BY <1>1, Invariance, PTL
=============================================================================
