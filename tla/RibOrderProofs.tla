-------------------------- MODULE RibOrderProofs --------------------------
(***************************************************************************)
(* Why a route that was registered without an expiration period is still   *)
(* in the RIB when everything that was queued is done (Rib!LastingRoute-   *)
(* Stays).  The invariant OrderInv relates the order of the queue, the     *)
(* commands on the wire and the batch they belong to: for each route that  *)
(* lasts, the last update about it that is queued registers it; or none is *)
(* queued and the batch in progress registers it; or neither is about it   *)
(* and it is in the table.  So updates may be queued behind it, by faces   *)
(* that come down or routes that expire, as long as they are about others. *)
(*                                                                         *)
(* The second half is about why the FIB is what the RIB calls for when     *)
(* nothing is due (Rib!FibMatchesRib).  To the FIB a table is a set of     *)
(* offers, what its routes give.  That the change FibUpdater computes      *)
(* leads from the nexthops of the offers before to those after is a fact   *)
(* about tables alone (ChangeIsRight); the invariant Matching carries it   *)
(* through the batch: each nexthop is right already or one of the updates  *)
(* that are pending makes it so.                                           *)
(***************************************************************************)
EXTENDS RibProofs

----------------------------------------------------------------------------
(* Routes that last: the order of the queue *)

\* The route an update is about.
IdOf(b) == [name |-> b.name, face |-> b.route.face, origin |-> b.route.origin]

\* No update of the queue q is about the route x; the last one that is registers it.
NoneAbout(q, x) == \A j \in DOMAIN q : IdOf(q[j]) # x
LastRegisters(q, x) ==
  \E i \in DOMAIN q : /\ IdOf(q[i]) = x /\ q[i].action = "register"
                      /\ \A j \in DOMAIN q : j > i => IdOf(q[j]) # x

\* Updates about other routes come behind the ones that wait.
LEMMA BehindOthers ==
  ASSUME NEW q \in Seq(Update), NEW t \in Seq(Update), NEW x, NoneAbout(t, x)
  PROVE  /\ NoneAbout(q, x) => NoneAbout(q \o t, x)
         /\ LastRegisters(q, x) => LastRegisters(q \o t, x)
<1>1. PICK v : v = q \o t
  OBVIOUS
<1>2. /\ Len(q) \in Nat /\ Len(t) \in Nat /\ DOMAIN q = 1..Len(q) /\ DOMAIN t = 1..Len(t)
      /\ DOMAIN v = 1..(Len(q) + Len(t))
      /\ \A i \in 1..Len(q) : v[i] = q[i]
      /\ \A i \in (Len(q) + 1)..(Len(q) + Len(t)) : i - Len(q) \in DOMAIN t /\ v[i] = t[i - Len(q)]
  BY <1>1
<1>4. ASSUME NEW i \in DOMAIN v, i \notin DOMAIN q PROVE IdOf(v[i]) # x
  <2>1. i - Len(q) \in DOMAIN t /\ v[i] = t[i - Len(q)]
    BY <1>2, <1>4
  <2>. QED
    BY <2>1 DEF NoneAbout
<1>5. NoneAbout(q, x) => NoneAbout(v, x)
  BY <1>2, <1>4 DEF NoneAbout
<1>6. ASSUME LastRegisters(q, x) PROVE LastRegisters(v, x)
  <2>1. PICK i \in DOMAIN q : /\ IdOf(q[i]) = x /\ q[i].action = "register"
                              /\ \A j \in DOMAIN q : j > i => IdOf(q[j]) # x
    BY <1>6 DEF LastRegisters
  <2>2. i \in DOMAIN v /\ v[i] = q[i]
    BY <1>2
  <2>3. \A j \in DOMAIN v : j > i => IdOf(v[j]) # x
    BY <1>2, <1>4, <2>1
  <2>. QED
    BY <2>1, <2>2, <2>3 DEF LastRegisters
<1>. QED
  BY <1>1, <1>5, <1>6

\* One more update.
LEMMA BehindOne ==
  ASSUME NEW q \in Seq(Update), NEW u \in Update, NEW x
  PROVE  /\ IdOf(u) # x /\ NoneAbout(q, x) => NoneAbout(Append(q, u), x)
         /\ IdOf(u) # x /\ LastRegisters(q, x) => LastRegisters(Append(q, u), x)
         /\ IdOf(u) = x /\ u.action = "register" => LastRegisters(Append(q, u), x)
<1>1. PICK v : v = Append(q, u)
  OBVIOUS
<1>2. /\ Len(q) \in Nat /\ DOMAIN q = 1..Len(q) /\ DOMAIN v = 1..(Len(q) + 1)
      /\ v[Len(q) + 1] = u /\ \A i \in 1..Len(q) : v[i] = q[i]
  BY <1>1, AppendProperties
<1>3. PICK m : m = Len(q)
  OBVIOUS
<1>4. ASSUME IdOf(u) # x, LastRegisters(q, x) PROVE LastRegisters(v, x)
  <2>1. PICK i \in DOMAIN q : /\ IdOf(q[i]) = x /\ q[i].action = "register"
                              /\ \A j \in DOMAIN q : j > i => IdOf(q[j]) # x
    BY <1>4 DEF LastRegisters
  <2>2. i \in DOMAIN v /\ v[i] = q[i]
    BY <1>2
  <2>3. \A j \in DOMAIN v : j > i => IdOf(v[j]) # x
    BY <1>2, <1>4, <2>1
  <2>. QED
    BY <2>1, <2>2, <2>3 DEF LastRegisters
<1>5. ASSUME IdOf(u) = x, u.action = "register" PROVE LastRegisters(v, x)
  <2>1. m + 1 \in DOMAIN v /\ v[m + 1] = u /\ \A j \in DOMAIN v : ~(j > m + 1)
    BY <1>2, <1>3
  <2>. QED
    BY <2>1, <1>5 DEF LastRegisters
<1>6. IdOf(u) # x /\ NoneAbout(q, x) => NoneAbout(v, x)
  BY <1>2 DEF NoneAbout
<1>. QED
  BY <1>1, <1>4, <1>5, <1>6

\* The first update is taken out.
LEMMA FirstTaken ==
  ASSUME NEW q \in Seq(Update), q # <<>>, NEW b, b = Head(q), NEW x
  PROVE  /\ NoneAbout(q, x) => NoneAbout(Tail(q), x) /\ IdOf(b) # x
         /\ LastRegisters(q, x) => \/ LastRegisters(Tail(q), x)
                                   \/ NoneAbout(Tail(q), x) /\ IdOf(b) = x /\ b.action = "register"
<1>1. PICK v : v = Tail(q)
  OBVIOUS
<1>2. /\ Len(q) \in Nat /\ Len(q) >= 1 /\ DOMAIN q = 1..Len(q) /\ b = q[1]
      /\ DOMAIN v = 1..(Len(q) - 1)
      /\ \A i \in 1..(Len(q) - 1) : v[i] = q[i + 1]
  BY <1>1
<1>3. PICK m : m = Len(q)
  OBVIOUS
<1>4. NoneAbout(q, x) => NoneAbout(v, x) /\ IdOf(b) # x
  BY <1>2 DEF NoneAbout
<1>5. ASSUME LastRegisters(q, x)
      PROVE  \/ LastRegisters(v, x)
             \/ NoneAbout(v, x) /\ IdOf(b) = x /\ b.action = "register"
  <2>1. PICK i \in DOMAIN q : /\ IdOf(q[i]) = x /\ q[i].action = "register"
                              /\ \A j \in DOMAIN q : j > i => IdOf(q[j]) # x
    BY <1>5 DEF LastRegisters
  <2>2. CASE i = 1
    BY <1>2, <2>1, <2>2 DEF NoneAbout
  <2>3. CASE i # 1
    <3>1. i - 1 \in DOMAIN v /\ v[i - 1] = q[i]
      BY <1>2, <2>3
    <3>2. \A j \in DOMAIN v : j > i - 1 => IdOf(v[j]) # x
      BY <1>2, <2>1
    <3>. QED
      BY <2>1, <3>1, <3>2 DEF LastRegisters
  <2>. QED
    BY <2>2, <2>3
<1>. QED
  BY <1>1, <1>4, <1>5

----------------------------------------------------------------------------
(* The commands of one batch *)

\* The commands of w that are waited for are those of batch b, for updates in U, one
\* for each.
Carries(w, U, b) ==
  /\ \A k \in DOMAIN w : \A c \in w[k] : c.live => c.update \in U /\ c.for = b
  /\ \A j, k \in DOMAIN w : \A c \in w[j], d \in w[k] :
       c.live /\ d.live /\ c.update = d.update => j = k /\ c = d

NoneAwaited(w) == \A k \in DOMAIN w : \A c \in w[k] : ~c.live

\* Nothing is awaited when no update is left.
LEMMA CarriesNothing ==
  ASSUME NEW w, NEW b
  PROVE  Carries(w, {}, b) => NoneAwaited(w)
  BY DEF Carries, NoneAwaited

\* What Taken(cmd) has of the wire.
LEMMA TakenIsPart ==
  ASSUME wire \in Seq(SUBSET Command), NEW cmd \in Ready, NEW v, v = Taken(cmd)
  PROVE  /\ 1 \in DOMAIN wire /\ cmd \in wire[1]
         /\ \E s \in {0, 1} : \A k \in DOMAIN v :
              k \in Int /\ k + s \in DOMAIN wire /\ v[k] \subseteq wire[k + s] /\ (k + s = 1 => cmd \notin v[k])
<1>1. wire # <<>> /\ cmd \in Head(wire)
  BY DEF Ready
<1>2. /\ Head(wire) \in SUBSET Command /\ Tail(wire) \in Seq(SUBSET Command)
      /\ Head(wire) = wire[1] /\ DOMAIN wire = 1..Len(wire)
      /\ Len(Tail(wire)) = Len(wire) - 1 /\ Len(wire) \in Nat /\ Len(wire) >= 1
      /\ \A i \in 1..Len(Tail(wire)) : Tail(wire)[i] = wire[i + 1]
  BY <1>1
<1>3. CASE Head(wire) = {cmd}
  <2>1. v = Tail(wire) /\ DOMAIN v = 1..(Len(wire) - 1)
    BY <1>3, <1>2 DEF Taken
  <2>2. \A k \in DOMAIN v : k \in Int /\ k + 1 \in DOMAIN wire /\ v[k] \subseteq wire[k + 1] /\ k + 1 # 1
    BY <1>2, <2>1
  <2>. QED
    BY <1>1, <1>2, <2>2
<1>4. CASE Head(wire) # {cmd}
  <2>1. PICK G : G = Head(wire) \ {cmd}
    OBVIOUS
  <2>2. v = <<G>> \o Tail(wire)
    BY <1>4, <2>1 DEF Taken
  <2>3. G \in SUBSET Command /\ <<G>> \in Seq(SUBSET Command) /\ Len(<<G>>) = 1 /\ <<G>>[1] = G
    BY <1>2, <2>1
  <2>4. /\ v \in Seq(SUBSET Command) /\ Len(v) = 1 + Len(Tail(wire))
        /\ \A i \in 1..(1 + Len(Tail(wire))) : v[i] = IF i <= 1 THEN <<G>>[i] ELSE Tail(wire)[i - 1]
    BY <1>2, <2>2, <2>3, ConcatProperties
  <2>5. DOMAIN v = 1..Len(wire) /\ v[1] = G
    BY <2>4, <2>3, <1>2
  <2>6. ASSUME NEW k \in DOMAIN v, k # 1 PROVE v[k] = wire[k]
    <3>1. v[k] = Tail(wire)[k - 1]
      BY <2>6, <2>4, <2>5, <1>2
    <3>2. Tail(wire)[k - 1] = wire[(k - 1) + 1]
      BY <2>6, <2>5, <1>2
    <3>3. (k - 1) + 1 = k
      BY <2>5
    <3>. QED
      BY <3>1, <3>2, <3>3
  <2>7. \A k \in DOMAIN v : k \in Int /\ k + 0 \in DOMAIN wire /\ v[k] \subseteq wire[k + 0]
                            /\ (k + 0 = 1 => cmd \notin v[k])
    BY <1>2, <2>1, <2>5, <2>6
  <2>. QED
    BY <1>1, <1>2, <2>7
<1>. QED
  BY <1>3, <1>4

\* A command that is waited for leaves the wire, and its update the batch.
LEMMA CarriesTaken ==
  ASSUME wire \in Seq(SUBSET Command), NEW U, NEW b, Carries(wire, U, b), NEW cmd \in Ready, cmd.live,
         NEW v, v = Taken(cmd)
  PROVE  cmd.update \in U /\ cmd.for = b /\ Carries(v, U \ {cmd.update}, b)
<1>1. 1 \in DOMAIN wire /\ cmd \in wire[1]
  BY TakenIsPart
<1>2. PICK s \in {0, 1} : \A k \in DOMAIN v :
         k \in Int /\ k + s \in DOMAIN wire /\ v[k] \subseteq wire[k + s] /\ (k + s = 1 => cmd \notin v[k])
  BY TakenIsPart
<1>3. ASSUME NEW k \in DOMAIN v, NEW c \in v[k], c.live
      PROVE  c.update \in U \ {cmd.update} /\ c.for = b
  BY <1>1, <1>2, <1>3 DEF Carries
<1>4. ASSUME NEW j \in DOMAIN v, NEW k \in DOMAIN v, NEW c \in v[j], NEW d \in v[k],
             c.live, d.live, c.update = d.update
      PROVE  j = k /\ c = d
  <2>1. j + s = k + s /\ c = d
    BY <1>2, <1>4 DEF Carries
  <2>. QED
    BY <2>1, <1>2
<1>. QED
  BY <1>1, <1>3, <1>4 DEF Carries

\* One that nobody waits for leaves everything else.
LEMMA CarriesLate ==
  ASSUME wire \in Seq(SUBSET Command), NEW cmd \in Ready, NEW v, v = Taken(cmd)
  PROVE  /\ \A U, b : Carries(wire, U, b) => Carries(v, U, b)
         /\ NoneAwaited(wire) => NoneAwaited(v)
<1>2. PICK s \in {0, 1} : \A k \in DOMAIN v :
         k \in Int /\ k + s \in DOMAIN wire /\ v[k] \subseteq wire[k + s] /\ (k + s = 1 => cmd \notin v[k])
  BY TakenIsPart
<1>3. ASSUME NEW U, NEW b, Carries(wire, U, b) PROVE Carries(v, U, b)
  <2>1. \A k \in DOMAIN v : \A c \in v[k] : c.live => c.update \in U /\ c.for = b
    BY <1>2, <1>3 DEF Carries
  <2>2. ASSUME NEW j \in DOMAIN v, NEW k \in DOMAIN v, NEW c \in v[j], NEW d \in v[k],
               c.live, d.live, c.update = d.update
        PROVE  j = k /\ c = d
    <3>1. j + s = k + s /\ c = d
      BY <1>2, <1>3, <2>2 DEF Carries
    <3>. QED
      BY <3>1, <1>2
  <2>. QED
    BY <2>1, <2>2 DEF Carries
<1>4. NoneAwaited(wire) => NoneAwaited(v)
  BY <1>2 DEF NoneAwaited
<1>. QED
  BY <1>3, <1>4

\* A batch is sent.
LEMMA CarriesSent ==
  ASSUME NEW w \in Seq(SUBSET Command), NoneAwaited(w), NEW U \in SUBSET FibUpdate, NEW b \in Update,
         NEW v, v = Append(w, Commands(U, b))
  PROVE  Carries(v, U, b)
<1>. DEFINE cmd(u) == [update |-> u, op |-> u.action, for |-> b, tries |-> 0, live |-> TRUE]
<1>1. PICK G : G = Commands(U, b) /\ G \in SUBSET Command
  BY CommandsTyped
<1>2. G = {cmd(u) : u \in U}
  BY <1>1 DEF Commands
<1>3. \A c \in G : c.update \in U /\ c.for = b /\ c = cmd(c.update)
  BY <1>2
<1>. HIDE DEF cmd
<1>4. /\ Len(w) \in Nat /\ DOMAIN w = 1..Len(w) /\ DOMAIN v = 1..(Len(w) + 1)
      /\ v[Len(w) + 1] = G /\ \A i \in 1..Len(w) : v[i] = w[i]
  <2>1. Append(w, G) \in Seq(SUBSET Command) /\ Len(Append(w, G)) = Len(w) + 1
        /\ (\A i \in 1..Len(w) : Append(w, G)[i] = w[i]) /\ Append(w, G)[Len(w) + 1] = G
    BY <1>1, AppendProperties
  <2>. QED
    BY <2>1, <1>1
<1>5. PICK m : m = Len(w) + 1
  OBVIOUS
<1>6. \A k \in DOMAIN v : \A c \in v[k] : c.live => k = m /\ c \in G
  BY <1>4, <1>5 DEF NoneAwaited
<1>. QED
  BY <1>3, <1>6 DEF Carries

\* A command is sent again: it is waited for at its new place.
LEMMA CarriesResent ==
  ASSUME wire \in Seq(SUBSET Command), NEW U, NEW b, Carries(wire, U, b),
         NEW k \in DOMAIN wire, NEW cmd \in wire[k], cmd.live,
         NEW d, d.update = cmd.update, d.for = cmd.for,
         NEW v, v = Append(Abandoned(k, cmd), {d})
  PROVE  Carries(v, U, b)
<1>1. PICK w : w = Abandoned(k, cmd) /\ w \in Seq(SUBSET Command)
  BY AbandonedKeeps
<1>2. cmd \in Command
  BY AbandonedKeeps
<1>3. PICK x : x = [cmd EXCEPT !.live = FALSE]
  OBVIOUS
<1>4. ~x.live
  BY <1>2, <1>3 DEF Command
<1>5. /\ DOMAIN w = DOMAIN wire /\ w[k] = (wire[k] \ {cmd}) \cup {x}
      /\ \A i \in DOMAIN wire \ {k} : w[i] = wire[i]
  BY <1>1, <1>3 DEF Abandoned
<1>6. \A i \in DOMAIN w : \A c \in w[i] : c.live => c \in wire[i] /\ ~(i = k /\ c = cmd)
  BY <1>4, <1>5
<1>7. \A i \in DOMAIN w : \A c \in w[i] : c.live => /\ c.update \in U /\ c.for = b
                                                    /\ c.update # cmd.update
  BY <1>5, <1>6 DEF Carries
<1>8. d.update \in U /\ d.for = b
  BY DEF Carries
<1>9. /\ Len(w) \in Nat /\ DOMAIN w = 1..Len(w) /\ DOMAIN v = 1..(Len(w) + 1)
      /\ v[Len(w) + 1] = {d} /\ \A i \in 1..Len(w) : v[i] = w[i]
  <2>1. v = Append(w, {d})
    BY <1>1
  <2>. QED
    BY <2>1, <1>1
<1>10. PICK m : m = Len(w) + 1
  OBVIOUS
<1>11. \A i \in DOMAIN v : \A c \in v[i] : c.live => \/ i \in DOMAIN w /\ c \in w[i]
                                                     \/ i = m /\ c = d
  BY <1>9, <1>10
<1>12. \A i \in DOMAIN v : \A c \in v[i] : c.live => c.update \in U /\ c.for = b
  BY <1>7, <1>8, <1>11
<1>13. ASSUME NEW i \in DOMAIN v, NEW j \in DOMAIN v, NEW c \in v[i], NEW e \in v[j],
              c.live, e.live, c.update = e.update
       PROVE  i = j /\ c = e
  <2>1. CASE i \in DOMAIN w /\ c \in w[i] /\ j \in DOMAIN w /\ e \in w[j]
    BY <2>1, <1>5, <1>6, <1>13 DEF Carries
  <2>2. CASE i = m /\ c = d /\ j = m /\ e = d
    BY <2>2
  <2>3. CASE i \in DOMAIN w /\ c \in w[i] /\ j = m /\ e = d
    BY <2>3, <1>7, <1>13
  <2>4. CASE i = m /\ c = d /\ j \in DOMAIN w /\ e \in w[j]
    BY <2>4, <1>7, <1>13
  <2>. QED
    BY <1>11, <1>13, <2>1, <2>2, <2>3, <2>4
<1>. QED
  BY <1>12, <1>13 DEF Carries

\* A route that is found has the face and the origin.
LEMMA FoundThere ==
  ASSUME NEW e \in Entry, NEW r, findRoute(e, r) # {}
  PROVE  Min(findRoute(e, r)) \in DOMAIN e.routes /\ Min(findRoute(e, r)) \in findRoute(e, r)
<1>1. e.routes \in Seq(Route)
  BY DEF Entry
<1>2. findRoute(e, r) \subseteq OnFace(e, r.face) /\ findRoute(e, r) \in SUBSET Nat
  BY <1>1, OnFaceFacts DEF findRoute
<1>. QED
  BY <1>1, <1>2, MinOf, OnFaceFacts

----------------------------------------------------------------------------
(* The routes of the table *)

\* T has the routes of R but for those with n, face and origin of r, and nothing else
\* but r.
Edits(R, T, n, r) ==
  /\ \A m \in Name : \A s \in Route : s \in RoutesAt(R, m) /\ ~(m = n /\ s.face = r.face /\ s.origin = r.origin)
               => s \in RoutesAt(T, m)
  /\ \A m \in Name : \A s \in Route : s \in RoutesAt(T, m) => s \in RoutesAt(R, m) \/ (m = n /\ s = r)

RoutesOf(e) == {e.routes[i] : i \in DOMAIN e.routes}

\* One entry is changed.
Edited(R, n, d, T) == T = [R EXCEPT ![n] = d]

\* The others keep their routes.
LEMMA RoutesOfEdited ==
  ASSUME NEW R, NEW n \in DOMAIN R, NEW d, NEW T, Edited(R, n, d, T)
  PROVE  /\ RoutesAt(T, n) = RoutesOf(d) /\ RoutesAt(R, n) = RoutesOf(R[n])
         /\ \A m \in Name : m # n => RoutesAt(T, m) = RoutesAt(R, m)
<1>1. DOMAIN T = DOMAIN R /\ T[n] = d /\ \A m \in DOMAIN R : m # n => T[m] = R[m]
  BY DEF Edited
<1>. QED
  BY <1>1 DEF RoutesAt, RoutesOf

\* The entries keep their routes.
LEMMA RoutesOfSame ==
  ASSUME NEW R, NEW T, DOMAIN T = DOMAIN R, \A m \in DOMAIN R : T[m].routes = R[m].routes
  PROVE  \A m \in Name : RoutesAt(T, m) = RoutesAt(R, m)
  BY DEF RoutesAt

\* insert has the route afterwards.
LEMMA InsertRoutes ==
  ASSUME NEW R, IsTable(R), NEW n \in Name, NEW r \in Route, NEW T, T = insert(R, n, r)
  PROVE  Edits(R, T, n, r) /\ r \in RoutesAt(T, n)
<1>1. CASE n \in DOMAIN R /\ findRoute(R[n], r) = {}
  <2>1. PICK e : e = R[n] /\ e \in Entry
    BY <1>1, EntryTyped
  <2>2. e.routes \in Seq(Route) /\ e.nCapture \in Int
    BY <2>1 DEF Entry
  <2>3. PICK s : s = Append(e.routes, r)
    OBVIOUS
  <2>4. PICK c : c = IF r.capture THEN e.nCapture + 1 ELSE e.nCapture
    OBVIOUS
  <2>5. PICK d : d = [e EXCEPT !.routes = s, !.nCapture = c]
    OBVIOUS
  <2>6. d.routes = s
    BY <2>1, <2>5 DEF Entry
  <2>7. T = [R EXCEPT ![n] = d]
    <3>1. T = [R EXCEPT ![n].routes = Append(@, r),
                        ![n].nCapture = IF r.capture THEN @ + 1 ELSE @]
      BY <1>1 DEF insert
    <3>. QED
      BY <3>1, <1>1, <2>1, <2>2, <2>3, <2>4, <2>5
  <2>8. {s[i] : i \in DOMAIN s} = {e.routes[i] : i \in DOMAIN e.routes} \cup {r}
    <3>1. /\ Len(e.routes) \in Nat /\ DOMAIN e.routes = 1..Len(e.routes) /\ DOMAIN s = 1..(Len(e.routes) + 1)
          /\ s[Len(e.routes) + 1] = r /\ \A i \in 1..Len(e.routes) : s[i] = e.routes[i]
      BY <2>2, <2>3, AppendProperties
    <3>2. PICK m : m = Len(e.routes)
      OBVIOUS
    <3>3. \A i \in DOMAIN s : i \in DOMAIN e.routes \/ i = m + 1
      BY <3>1, <3>2
    <3>4. DOMAIN e.routes \subseteq DOMAIN s /\ m + 1 \in DOMAIN s /\ s[m + 1] = r
      BY <3>1, <3>2
    <3>. QED
      BY <3>1, <3>3, <3>4
  <2>10. RoutesOf(d) = RoutesOf(e) \cup {r}
    BY <2>6, <2>8 DEF RoutesOf
  <2>9. /\ RoutesAt(T, n) = RoutesAt(R, n) \cup {r}
        /\ \A m \in Name : m # n => RoutesAt(T, m) = RoutesAt(R, m)
    <3>1. Edited(R, n, d, T)
      BY <2>7 DEF Edited
    <3>. QED
      BY <1>1, <2>1, <3>1, <2>10, RoutesOfEdited
  <2>. QED
    BY <2>9 DEF Edits
<1>2. CASE n \in DOMAIN R /\ findRoute(R[n], r) # {}
  <2>1. PICK e : e = R[n] /\ e \in Entry
    BY <1>2, EntryTyped
  <2>2. PICK i : i = Min(findRoute(e, r)) /\ i \in DOMAIN e.routes /\ i \in findRoute(e, r)
    BY <1>2, <2>1, FoundThere
  <2>3. PICK d : d = Replaced(e, i, r)
    OBVIOUS
  <2>4. T = [R EXCEPT ![n] = d]
    <3>1. T = [R EXCEPT ![n].routes[i] = r]
      BY <1>2, <2>1, <2>2 DEF insert
    <3>. QED
      BY <3>1, <2>1, <2>3 DEF Replaced
  <2>5. d.routes = [e.routes EXCEPT ![i] = r]
    BY <2>1, <2>3 DEF Replaced, Entry
  <2>6. e.routes[i].face = r.face /\ e.routes[i].origin = r.origin
    BY <2>2 DEF findRoute, OnFace
  <2>7. /\ DOMAIN d.routes = DOMAIN e.routes /\ d.routes[i] = r
        /\ \A j \in DOMAIN e.routes : j # i => d.routes[j] = e.routes[j]
    BY <2>2, <2>5
  <2>8. /\ RoutesAt(T, n) = RoutesOf(d) /\ RoutesAt(R, n) = RoutesOf(e)
        /\ \A m \in Name : m # n => RoutesAt(T, m) = RoutesAt(R, m)
    <3>1. Edited(R, n, d, T)
      BY <2>4 DEF Edited
    <3>. QED
      BY <1>2, <2>1, <3>1, RoutesOfEdited
  <2>. QED
    BY <2>2, <2>6, <2>7, <2>8 DEF Edits, RoutesOf
<1>3. CASE n \notin DOMAIN R
  <2>. DEFINE p == findParent(R, n)
              new == [routes |-> <<r>>, inherited |-> {},
                      nCapture |-> IF r.capture THEN 1 ELSE 0, parent |-> p]
              moved(m) == [R[m] EXCEPT !.parent = n]
              below(m) == n \in Prefixes[m] /\ R[m].parent = p
              V == [m \in DOMAIN R \cup {n} |->
                      IF m = n THEN new ELSE IF below(m) THEN moved(m) ELSE R[m]]
  <2>1. T = V
    BY <1>3 DEF insert
  <2>2. new.routes = <<r>>
    OBVIOUS
  <2>3. \A m \in DOMAIN R : moved(m).routes = R[m].routes
    <3>1. \A m \in DOMAIN R : R[m] \in Entry
      BY EntryTyped
    <3>. QED
      BY <3>1 DEF Entry
  <2>4. /\ DOMAIN V = DOMAIN R \cup {n} /\ V[n] = new
        /\ \A m \in DOMAIN R : V[m] = IF below(m) THEN moved(m) ELSE R[m]
    <3>. HIDE DEF new, moved, below
    <3>. QED
      BY <1>3
  <2>. HIDE DEF V, new, moved, below
  <2>5. /\ RoutesAt(T, n) = {<<r>>[i] : i \in DOMAIN <<r>>}
        /\ \A m \in Name : m # n => RoutesAt(T, m) = RoutesAt(R, m)
    BY <2>1, <2>2, <2>3, <2>4 DEF RoutesAt
  <2>6. {<<r>>[i] : i \in DOMAIN <<r>>} = {r} /\ RoutesAt(R, n) = {}
    BY <1>3 DEF RoutesAt
  <2>. QED
    BY <2>5, <2>6 DEF Edits
<1>. QED
  BY <1>1, <1>2, <1>3

\* erase takes away at most a route of that face and origin.
LEMMA EraseRoutes ==
  ASSUME NEW R, IsTable(R), NEW n, NEW r, NEW T, T = erase(R, n, r)
  PROVE  Edits(R, T, n, r) /\ \A m \in Name : RoutesAt(T, m) \subseteq RoutesAt(R, m)
<1>1. CASE n \notin DOMAIN R \/ findRoute(R[n], r) = {}
  BY <1>1 DEF erase, Edits
<1>0. ASSUME n \in DOMAIN R, findRoute(R[n], r) # {}
      PROVE  \E i \in DOMAIN R[n].routes : /\ i = Min(findRoute(R[n], r)) /\ R[n].routes[i].face = r.face
                                           /\ R[n].routes[i].origin = r.origin
  <2>1. PICK e : e = R[n] /\ e \in Entry
    BY <1>0, EntryTyped
  <2>2. PICK i : i = Min(findRoute(e, r)) /\ i \in DOMAIN e.routes /\ i \in findRoute(e, r)
    BY <1>0, <2>1, FoundThere
  <2>. QED
    BY <2>1, <2>2 DEF findRoute, OnFace
<1>2. CASE n \in DOMAIN R /\ findRoute(R[n], r) # {} /\ Len(R[n].routes) = 1
  <2>1. PICK i \in DOMAIN R[n].routes : R[n].routes[i].face = r.face /\ R[n].routes[i].origin = r.origin
    BY <1>0, <1>2
  <2>2. DOMAIN R[n].routes = {1}
    <3>1. R[n].routes \in Seq(Route)
      BY <1>2, EntryTyped
    <3>. QED
      BY <3>1, <1>2
  <2>3. \A s \in RoutesAt(R, n) : s.face = r.face /\ s.origin = r.origin
    BY <1>2, <2>1, <2>2 DEF RoutesAt
  <2>. DEFINE moved(m) == [R[m] EXCEPT !.parent = R[n].parent]
              V == [m \in DOMAIN R \ {n} |-> IF R[m].parent = n THEN moved(m) ELSE R[m]]
  <2>4. T = V
    BY <1>2 DEF erase, eraseEntry
  <2>5. \A m \in DOMAIN R : moved(m).routes = R[m].routes
    <3>1. \A m \in DOMAIN R : R[m] \in Entry
      BY EntryTyped
    <3>. QED
      BY <3>1 DEF Entry
  <2>. HIDE DEF moved
  <2>6. DOMAIN T = DOMAIN R \ {n} /\ \A m \in DOMAIN R \ {n} : T[m].routes = R[m].routes
    BY <2>4, <2>5
  <2>7. RoutesAt(T, n) = {} /\ \A m \in Name : m # n => RoutesAt(T, m) = RoutesAt(R, m)
    BY <2>6 DEF RoutesAt
  <2>. QED
    BY <2>3, <2>7 DEF Edits
<1>3. CASE n \in DOMAIN R /\ findRoute(R[n], r) # {} /\ Len(R[n].routes) # 1
  <2>1. PICK e : e = R[n] /\ e \in Entry
    BY <1>3, EntryTyped
  <2>2. PICK i \in DOMAIN e.routes : /\ i = Min(findRoute(e, r)) /\ e.routes[i].face = r.face
                                     /\ e.routes[i].origin = r.origin
    BY <1>0, <1>3, <2>1
  <2>3. PICK d : d = Without(e, i)
    OBVIOUS
  <2>4. T = [R EXCEPT ![n] = d]
    BY <1>3, <2>1, <2>2, <2>3 DEF erase
  <2>5. PICK s : s = [j \in 1..(Len(e.routes) - 1) |-> IF j < i THEN e.routes[j] ELSE e.routes[j + 1]]
    OBVIOUS
  <2>6. d.routes = s
    <3>1. PICK c : c = IF e.routes[i].capture THEN e.nCapture - 1 ELSE e.nCapture
      OBVIOUS
    <3>2. d = [[e EXCEPT !.routes = s] EXCEPT !.nCapture = c]
      BY <2>3, <2>5, <3>1 DEF Without
    <3>. QED
      BY <3>2, <2>1 DEF Entry
  <2>7. e.routes \in Seq(Route) /\ Len(e.routes) \in Nat /\ DOMAIN e.routes = 1..Len(e.routes)
        /\ DOMAIN s = 1..(Len(e.routes) - 1)
    BY <2>1, <2>5 DEF Entry
  <2>8. \A j \in DOMAIN s : \E k \in DOMAIN e.routes : s[j] = e.routes[k]
    <3>1. ASSUME NEW j \in DOMAIN s PROVE \E k \in DOMAIN e.routes : s[j] = e.routes[k]
      <4>1. j \in DOMAIN e.routes /\ j + 1 \in DOMAIN e.routes
        BY <2>7
      <4>2. s[j] = IF j < i THEN e.routes[j] ELSE e.routes[j + 1]
        BY <2>5, <2>7
      <4>. QED
        BY <4>1, <4>2
    <3>. QED
      BY <3>1
  <2>9. \A k \in DOMAIN e.routes : k # i => \E j \in DOMAIN s : s[j] = e.routes[k]
    <3>1. ASSUME NEW k \in DOMAIN e.routes, k < i PROVE \E j \in DOMAIN s : s[j] = e.routes[k]
      <4>1. k \in DOMAIN s
        BY <2>7, <3>1
      <4>2. s[k] = e.routes[k]
        BY <4>1, <2>5, <2>7, <3>1
      <4>. QED
        BY <4>1, <4>2
    <3>2. ASSUME NEW k \in DOMAIN e.routes, k > i PROVE \E j \in DOMAIN s : s[j] = e.routes[k]
      <4>1. k - 1 \in DOMAIN s /\ ~(k - 1 < i) /\ (k - 1) + 1 = k
        BY <2>7, <3>2
      <4>2. s[k - 1] = e.routes[(k - 1) + 1]
        BY <4>1, <2>5, <2>7
      <4>. QED
        BY <4>1, <4>2
    <3>3. \A k \in DOMAIN e.routes : k < i \/ k = i \/ k > i
      BY <2>7
    <3>. QED
      BY <3>1, <3>2, <3>3
  <2>10. /\ RoutesAt(T, n) = RoutesOf(d) /\ RoutesAt(R, n) = RoutesOf(e)
         /\ \A m \in Name : m # n => RoutesAt(T, m) = RoutesAt(R, m)
    <3>1. Edited(R, n, d, T)
      BY <2>4 DEF Edited
    <3>. QED
      BY <1>3, <2>1, <3>1, RoutesOfEdited
  <2>11. RoutesAt(T, n) \subseteq RoutesAt(R, n)
    BY <2>6, <2>8, <2>10 DEF RoutesOf
  <2>12. \A x \in RoutesAt(R, n) : (x.face = r.face /\ x.origin = r.origin) \/ x \in RoutesAt(T, n)
    BY <2>2, <2>6, <2>9, <2>10 DEF RoutesOf
  <2>. QED
    BY <2>10, <2>11, <2>12 DEF Edits
<1>. QED
  BY <1>1, <1>2, <1>3

\* modifyInheritedRoutes changes no route.
LEMMA ModifyInheritedRoutes ==
  ASSUME NEW R, IsTable(R), NEW I, NEW T, T = modifyInheritedRoutes(R, I)
  PROVE  \A m \in Name : RoutesAt(T, m) = RoutesAt(R, m)
<1>. DEFINE inh(m) == {f \in Face : IF <<m, f>> \in DOMAIN I THEN I[<<m, f>>] ELSE f \in R[m].inherited}
            new(m) == [R[m] EXCEPT !.inherited = inh(m)]
<1>1. T = [m \in DOMAIN R |-> new(m)]
  BY DEF modifyInheritedRoutes
<1>2. \A m \in DOMAIN R : new(m).routes = R[m].routes
  <2>1. \A m \in DOMAIN R : R[m] \in Entry
    BY EntryTyped
  <2>. HIDE DEF inh
  <2>. QED
    BY <2>1 DEF Entry
<1>. HIDE DEF new
<1>3. DOMAIN T = DOMAIN R /\ \A m \in DOMAIN R : T[m].routes = R[m].routes
  BY <1>1, <1>2
<1>. QED
  BY <1>3, RoutesOfSame

----------------------------------------------------------------------------
(* Routes that last: the invariant *)

\* What LastingRouteStays supposes: no face is new, and requests for a route agree on
\* whether it expires.  (A third supposition, that no batch fails, is about behaviours.)
Steady ==
  /\ NewFace = {}
  /\ \A p, q \in Requests : RouteId(p) = RouteId(q) => p.route.expires = q.route.expires

\* The routes that are requested with an expiration; only these expire.
Expiring == {RouteId(q) : q \in {p \in Requests : p.route.expires}}
MayExpire(n, r) == r.expires => [name |-> n, face |-> r.face, origin |-> r.origin] \in Expiring

InRib(x) == \E r \in RoutesAt(rib, x.name) : r.face = x.face /\ r.origin = x.origin

\* The route is there when batch b is done.
Ends(x, b) == /\ IdOf(b) = x => b.action = "register"
              /\ IdOf(b) # x => InRib(x)

\* The route x will be there when the updates of q are done, and batch b before them.
KeptFor(q, x, b) == LastRegisters(q, x) \/ (NoneAbout(q, x) /\ Ends(x, b))

\* The same when no batch is in progress.
KeptAtRest(x) ==
  \/ LastRegisters(queue, x)
  \/ NoneAbout(queue, x) /\ InRib(x)

FacesOrder == notices \cap faces = {} /\ \A S \in snapshot : faces \subseteq S
LastingOrder == \A x \in lasting : x.face \in faces /\ x \notin Expiring
RoutesExpire == \A n \in Name : \A r \in RoutesAt(rib, n) : MayExpire(n, r)
QueueExpires == \A i \in DOMAIN queue : MayExpire(queue[i].name, queue[i].route)

Awaited == IF batchUpdates # {} THEN batchUpdates ELSE otherUpdates
InBatch(b) ==
  /\ Carries(wire, Awaited, b)
  /\ MayExpire(b.name, b.route)
  /\ \A x \in lasting : KeptFor(queue, x, b)
AtRest == NoneAwaited(wire) /\ \A x \in lasting : KeptAtRest(x)

OrderInv ==
  /\ FacesOrder /\ LastingOrder /\ RoutesExpire /\ QueueExpires
  /\ inProgress => \E b \in Update : InBatch(b)
  /\ ~inProgress => AtRest

\* A route that lasts is in the queue as before, or behind.
StillQueued(x) ==
  \/ LastRegisters(queue', x)
  \/ /\ x \in lasting
     /\ NoneAbout(queue, x) => NoneAbout(queue', x)
     /\ LastRegisters(queue, x) => LastRegisters(queue', x)

\* Steps that leave the batch alone.
LEMMA BatchAlone ==
  ASSUME OrderInv, UNCHANGED <<inProgress, batchUpdates, otherUpdates, wire>>,
         FacesOrder', LastingOrder', RoutesExpire', QueueExpires',
         \A x \in lasting' : StillQueued(x) /\ (InRib(x) => InRib(x)')
  PROVE  OrderInv'
<1>1. ASSUME NEW b \in Update, InBatch(b) PROVE InBatch(b)'
  <2>1. Carries(wire, Awaited, b)'
    BY <1>1 DEF InBatch, Awaited, Carries
  <2>2. ASSUME NEW x \in lasting' PROVE KeptFor(queue, x, b)'
    <3>1. StillQueued(x) /\ (InRib(x) => InRib(x)')
      OBVIOUS
    <3>2. CASE LastRegisters(queue', x)
      BY <3>2 DEF KeptFor
    <3>3. CASE /\ x \in lasting
               /\ NoneAbout(queue, x) => NoneAbout(queue', x)
               /\ LastRegisters(queue, x) => LastRegisters(queue', x)
      <4>1. KeptFor(queue, x, b)
        BY <1>1, <3>3 DEF InBatch
      <4>. QED
        BY <4>1, <3>1, <3>3 DEF KeptFor, Ends
    <3>. QED
      BY <3>1, <3>2, <3>3 DEF StillQueued
  <2>. QED
    BY <1>1, <2>1, <2>2 DEF InBatch
<1>2. ASSUME AtRest PROVE AtRest'
  <2>1. NoneAwaited(wire)'
    BY <1>2 DEF AtRest, NoneAwaited
  <2>2. ASSUME NEW x \in lasting' PROVE KeptAtRest(x)'
    <3>1. StillQueued(x) /\ (InRib(x) => InRib(x)')
      OBVIOUS
    <3>2. CASE LastRegisters(queue', x)
      BY <3>2 DEF KeptAtRest
    <3>3. CASE /\ x \in lasting
               /\ NoneAbout(queue, x) => NoneAbout(queue', x)
               /\ LastRegisters(queue, x) => LastRegisters(queue', x)
      <4>1. KeptAtRest(x)
        BY <1>2, <3>3 DEF AtRest
      <4>. QED
        BY <4>1, <3>1, <3>3 DEF KeptAtRest
    <3>. QED
      BY <3>1, <3>2, <3>3 DEF StillQueued
  <2>. QED
    BY <2>1, <2>2 DEF AtRest
<1>3. CASE inProgress
  <2>1. PICK b \in Update : InBatch(b)
    BY <1>3 DEF OrderInv
  <2>2. InBatch(b)'
    BY <1>1, <2>1
  <2>. QED
    BY <1>3, <2>2 DEF OrderInv
<1>4. CASE ~inProgress
  BY <1>2, <1>4 DEF OrderInv
<1>. QED
  BY <1>3, <1>4

\* One more update in the queue.
LEMMA QueueOne ==
  ASSUME RibInv, OrderInv, NEW u \in Update, queue' = Append(queue, u), MayExpire(u.name, u.route)
  PROVE  /\ QueueExpires'
         /\ \A x \in lasting : IdOf(u) # x => StillQueued(x)
         /\ \A x : IdOf(u) = x /\ u.action = "register" => StillQueued(x)
<1>1. queue \in Seq(Update)
  BY DEF RibInv
<1>2. PICK v : v = Append(queue, u)
  OBVIOUS
<1>3. /\ Len(queue) \in Nat /\ DOMAIN queue = 1..Len(queue) /\ DOMAIN v = 1..(Len(queue) + 1)
      /\ v[Len(queue) + 1] = u /\ \A i \in 1..Len(queue) : v[i] = queue[i]
  BY <1>1, <1>2, AppendProperties
<1>4. \A i \in DOMAIN v : MayExpire(v[i].name, v[i].route)
  BY <1>3 DEF OrderInv, QueueExpires
<1>5. QueueExpires'
  BY <1>2, <1>4 DEF QueueExpires, MayExpire
<1>6. ASSUME NEW x \in lasting, IdOf(u) # x PROVE StillQueued(x)
  BY <1>1, <1>6, BehindOne DEF StillQueued
<1>7. ASSUME NEW x, IdOf(u) = x, u.action = "register" PROVE StillQueued(x)
  BY <1>1, <1>7, BehindOne DEF StillQueued
<1>. QED
  BY <1>5, <1>6, <1>7

\* Requests keep the order.
LEMMA RequestOrder ==
  ASSUME Steady, RibInv, OrderInv, NEW q \in Requests, RegisterEntry(q) \/ UnregisterEntry(q)
  PROVE  OrderInv'
<1>1. UNCHANGED <<rib, inProgress, batchUpdates, otherUpdates, wire, faces, notices, snapshot>>
  BY DEF RegisterEntry, UnregisterEntry, faceVars
<1>2. PICK a \in {"register", "unregister"} :
         /\ addUpdateToQueue(a, q.name, q.route)
         /\ a = "register" =>
              lasting' = IF q.route.expires \/ q.route.face \notin faces THEN lasting \ {RouteId(q)}
                         ELSE lasting \cup {RouteId(q)}
         /\ a = "unregister" => lasting' = lasting \ {RouteId(q)}
  BY DEF RegisterEntry, UnregisterEntry
<1>3. PICK u : u = [action |-> a, name |-> q.name, route |-> q.route] /\ u \in Update
  BY RequestTyped
<1>4. queue' = Append(queue, u)
  BY <1>2, <1>3 DEF addUpdateToQueue
<1>5. IdOf(u) = RouteId(q) /\ u.action = a
  BY <1>3 DEF IdOf, RouteId
<1>6. MayExpire(u.name, u.route)
  <2>1. [name |-> u.name, face |-> u.route.face, origin |-> u.route.origin] = RouteId(q)
    BY <1>3 DEF RouteId
  <2>2. u.route = q.route
    BY <1>3
  <2>3. q.route.expires => RouteId(q) \in Expiring
    BY DEF Expiring
  <2>. QED
    BY <2>1, <2>2, <2>3 DEF MayExpire
<1>7. /\ QueueExpires'
      /\ \A x \in lasting : IdOf(u) # x => StillQueued(x)
      /\ \A x : IdOf(u) = x /\ u.action = "register" => StillQueued(x)
  BY <1>3, <1>4, <1>6, QueueOne
<1>8. \A x \in lasting' : x = RouteId(q) => a = "register" /\ ~q.route.expires /\ x.face \in faces
  BY <1>2 DEF RouteId
<1>9. \A x \in lasting' : x # RouteId(q) => x \in lasting
  BY <1>2
<1>10. \A x \in lasting' : StillQueued(x)
  BY <1>5, <1>7, <1>8, <1>9
<1>11. ~q.route.expires => RouteId(q) \notin Expiring
  <2>. SUFFICES ASSUME ~q.route.expires, RouteId(q) \in Expiring PROVE FALSE
    OBVIOUS
  <2>1. PICK p \in Requests : p.route.expires /\ RouteId(q) = RouteId(p)
    BY DEF Expiring
  <2>. QED
    BY <2>1 DEF Steady
<1>12. LastingOrder'
  BY <1>1, <1>8, <1>9, <1>11 DEF LastingOrder, OrderInv, Expiring
<1>13. FacesOrder' /\ RoutesExpire'
  BY <1>1 DEF FacesOrder, RoutesExpire, OrderInv
<1>14. \A x \in lasting' : InRib(x) => InRib(x)'
  BY <1>1 DEF InRib
<1>. QED
  BY <1>1, <1>7, <1>10, <1>12, <1>13, <1>14, BatchAlone

\* Expirations keep the order: only routes that are requested with one expire, before
\* they are in the table,
LEMMA RegistrationExpiresOrder ==
  ASSUME RibInv, OrderInv, NEW q \in Requests, RegistrationExpires(q)
  PROVE  OrderInv'
<1>1. UNCHANGED <<rib, inProgress, batchUpdates, otherUpdates, wire, faces, notices, snapshot, lasting>>
  BY DEF RegistrationExpires, faceVars
<1>2. PICK u : u = [action |-> "unregister", name |-> q.name, route |-> q.route] /\ u \in Update
  BY RequestTyped
<1>3. queue' = Append(queue, u) /\ IdOf(u) = RouteId(q)
  BY <1>2 DEF RegistrationExpires, addUpdateToQueue, IdOf, RouteId
<1>4. IdOf(u) \in Expiring
  BY <1>3 DEF RegistrationExpires, Expiring
<1>5. MayExpire(u.name, u.route)
  BY <1>4 DEF MayExpire, IdOf
<1>6. QueueExpires' /\ \A x \in lasting : IdOf(u) # x => StillQueued(x)
  BY <1>2, <1>3, <1>5, QueueOne
<1>7. \A x \in lasting : StillQueued(x)
  BY <1>4, <1>6 DEF OrderInv, LastingOrder
<1>8. FacesOrder' /\ LastingOrder' /\ RoutesExpire'
  BY <1>1 DEF FacesOrder, LastingOrder, RoutesExpire, OrderInv, Expiring
<1>9. \A x \in lasting : InRib(x) => InRib(x)'
  BY <1>1 DEF InRib
<1>. QED
  BY <1>1, <1>6, <1>7, <1>8, <1>9, BatchAlone

\* and then.
LEMMA ExpirationOrder ==
  ASSUME RibInv, OrderInv, NEW n \in DOMAIN rib, NEW i \in DOMAIN rib[n].routes, RouteExpiration(n, i)
  PROVE  OrderInv'
<1>1. /\ rib' = [rib EXCEPT ![n].routes[i].expires = FALSE]
      /\ rib[n].routes[i].expires
      /\ addUpdateToQueue("unregister", n, rib[n].routes[i])
      /\ UNCHANGED <<inProgress, batchUpdates, otherUpdates, wire, faces, notices, snapshot, lasting>>
  BY DEF RouteExpiration, faceVars
<1>2. PICK e : e = rib[n] /\ e \in Entry
  BY EntryTyped DEF RibInv, TableInv
<1>3. PICK o : o = e.routes[i]
  OBVIOUS
<1>4. o \in Route /\ n \in Name
  BY <1>2, <1>3, OnFaceFacts DEF Entry, RibInv, TableInv, IsTable
<1>5. PICK r : r = [o EXCEPT !.expires = FALSE]
  OBVIOUS
<1>6. r \in Route /\ r.expires = FALSE /\ r.face = o.face /\ r.origin = o.origin
  BY <1>4, <1>5 DEF Route
<1>7. PICK d : d = Replaced(e, i, r)
  OBVIOUS
<1>8. Edited(rib, n, d, rib')
  <2>1. rib' = [rib EXCEPT ![n] = d]
    BY <1>1, <1>2, <1>3, <1>5, <1>7 DEF Replaced
  <2>. QED
    BY <2>1 DEF Edited
<1>9. d.routes = [e.routes EXCEPT ![i] = r]
  BY <1>2, <1>7 DEF Replaced, Entry
<1>10. /\ DOMAIN d.routes = DOMAIN e.routes /\ d.routes[i] = r
       /\ \A j \in DOMAIN e.routes : j # i => d.routes[j] = e.routes[j]
  BY <1>2, <1>9
<1>11. PICK T : T = rib'
  OBVIOUS
<1>12. /\ RoutesAt(T, n) = RoutesOf(d) /\ RoutesAt(rib, n) = RoutesOf(e)
       /\ \A m \in Name : m # n => RoutesAt(T, m) = RoutesAt(rib, m)
  BY <1>2, <1>8, <1>11, RoutesOfEdited
<1>13. \A m \in Name : \A s \in RoutesAt(T, m) : s \in RoutesAt(rib, m) \/ ~s.expires
  BY <1>6, <1>10, <1>12 DEF RoutesOf
<1>14. \A m \in Name : \A s \in RoutesAt(rib, m) :
         \E t \in RoutesAt(T, m) : t.face = s.face /\ t.origin = s.origin
  <2>1. ASSUME NEW s \in RoutesOf(e) PROVE \E t \in RoutesOf(d) : t.face = s.face /\ t.origin = s.origin
    <3>1. PICK j \in DOMAIN e.routes : s = e.routes[j]
      BY <2>1 DEF RoutesOf
    <3>. QED
      BY <3>1, <1>3, <1>6, <1>10 DEF RoutesOf
  <2>. QED
    BY <2>1, <1>12
<1>15. RoutesExpire'
  BY <1>11, <1>13 DEF RoutesExpire, OrderInv, MayExpire
<1>16. \A x \in lasting : x.name \in Name
  BY DEF RibInv, HistoryInv
<1>17. \A x \in lasting : InRib(x) => InRib(x)'
  BY <1>11, <1>14, <1>16 DEF InRib
<1>18. PICK u : u = [action |-> "unregister", name |-> n, route |-> o]
  OBVIOUS
<1>19. u \in Update /\ queue' = Append(queue, u) /\ u.name = n /\ u.route = o
  BY <1>1, <1>2, <1>3, <1>4, <1>18 DEF Update, addUpdateToQueue
<1>20. o \in RoutesAt(rib, n)
  BY <1>2, <1>3, <1>12 DEF RoutesOf
<1>21. MayExpire(n, o) /\ o.expires
  BY <1>1, <1>2, <1>3, <1>4, <1>20 DEF OrderInv, RoutesExpire
<1>22. QueueExpires' /\ \A x \in lasting : IdOf(u) # x => StillQueued(x)
  BY <1>19, <1>21, QueueOne
<1>23. IdOf(u) \in Expiring
  BY <1>19, <1>21 DEF IdOf, MayExpire
<1>24. \A x \in lasting : StillQueued(x)
  BY <1>22, <1>23 DEF OrderInv, LastingOrder
<1>25. FacesOrder' /\ LastingOrder'
  BY <1>1 DEF FacesOrder, LastingOrder, OrderInv, Expiring
<1>. QED
  BY <1>1, <1>15, <1>17, <1>22, <1>24, <1>25, BatchAlone

\* The updates of enqueueRemoveFace are about routes of the table on those faces.
LEMMA EnqueuedForFaces ==
  ASSUME RibInv, NEW F, enqueueRemoveFace(F)
  PROVE  \E t \in Seq(Update) :
           /\ queue' = queue \o t
           /\ \A j \in DOMAIN t : t[j].route.face \in F /\ t[j].route \in RoutesAt(rib, t[j].name)
<1>1. PICK k, U : k = Cardinality(RoutesOn(F)) /\ U = RoutesOn(F)
  OBVIOUS
<1>2. k \in Nat /\ U \subseteq Update
  BY <1>1, RoutesOnFinite, FS_CardinalityType DEF RibInv, TableInv
<1>3. PICK order \in [1..k -> U] : queue' = queue \o order
  BY <1>1 DEF enqueueRemoveFace
<1>4. order \in [1..k -> Update]
  BY <1>2, <1>3
<1>5. order \in Seq(Update)
  BY <1>2, <1>4, FunctionIsSeq
<1>6. ASSUME NEW u \in U PROVE u.route.face \in F /\ u.route \in RoutesAt(rib, u.name)
  <2>1. PICK n \in DOMAIN rib : \E i \in DOMAIN rib[n].routes :
           /\ rib[n].routes[i].face \in F
           /\ u = [action |-> "remove face", name |-> n, route |-> rib[n].routes[i]]
    BY <1>1, <1>6 DEF RoutesOn
  <2>2. PICK i \in DOMAIN rib[n].routes :
           /\ rib[n].routes[i].face \in F
           /\ u = [action |-> "remove face", name |-> n, route |-> rib[n].routes[i]]
    BY <2>1
  <2>3. u.name = n /\ u.route = rib[n].routes[i]
    BY <2>2
  <2>. QED
    BY <2>2, <2>3 DEF RoutesAt
<1>. QED
  BY <1>3, <1>5, <1>6

\* The removal of the routes of faces that are gone keeps the order.
LEMMA RemoveFacesOrder ==
  ASSUME RibInv, OrderInv, NEW F,
         \/ BeginRemoveFace(F)
         \/ F \in snapshot /\ BeginRemoveFailedFaces(F)
  PROVE  OrderInv'
<1>1. UNCHANGED <<rib, inProgress, batchUpdates, otherUpdates, wire, faces, lasting>>
  BY DEF BeginRemoveFace, BeginRemoveFailedFaces
<1>2. notices' \subseteq notices /\ snapshot' \subseteq snapshot
  BY DEF BeginRemoveFace, BeginRemoveFailedFaces
<1>3. PICK G : enqueueRemoveFace(G) /\ G \cap faces = {}
  <2>1. CASE BeginRemoveFace(F)
    BY <2>1 DEF BeginRemoveFace, OrderInv, FacesOrder
  <2>2. CASE F \in snapshot /\ BeginRemoveFailedFaces(F)
    BY <2>2 DEF BeginRemoveFailedFaces, OrderInv, FacesOrder
  <2>. QED
    BY <2>1, <2>2
<1>4. PICK t \in Seq(Update) :
           /\ queue' = queue \o t
           /\ \A j \in DOMAIN t : t[j].route.face \in G /\ t[j].route \in RoutesAt(rib, t[j].name)
  BY <1>3, EnqueuedForFaces
<1>5. queue \in Seq(Update)
  BY DEF RibInv
<1>6. ASSUME NEW j \in DOMAIN t PROVE MayExpire(t[j].name, t[j].route)
  <2>1. t[j] \in Update
    OBVIOUS
  <2>2. t[j].name \in Name
    BY <2>1 DEF Update
  <2>. QED
    BY <2>2, <1>4, <1>6 DEF OrderInv, RoutesExpire
<1>7. QueueExpires'
  <2>1. PICK v : v = queue \o t
    OBVIOUS
  <2>2. /\ Len(queue) \in Nat /\ Len(t) \in Nat /\ DOMAIN queue = 1..Len(queue) /\ DOMAIN t = 1..Len(t)
        /\ DOMAIN v = 1..(Len(queue) + Len(t))
        /\ \A i \in 1..Len(queue) : v[i] = queue[i]
        /\ \A i \in (Len(queue) + 1)..(Len(queue) + Len(t)) : i - Len(queue) \in DOMAIN t /\ v[i] = t[i - Len(queue)]
    BY <2>1, <1>5
  <2>3. ASSUME NEW i \in DOMAIN v PROVE MayExpire(v[i].name, v[i].route)
    <3>1. CASE i \in DOMAIN queue
      BY <3>1, <2>2 DEF OrderInv, QueueExpires
    <3>2. CASE i \notin DOMAIN queue
      <4>1. i - Len(queue) \in DOMAIN t /\ v[i] = t[i - Len(queue)]
        BY <3>2, <2>2
      <4>. QED
        BY <4>1, <1>6
    <3>. QED
      BY <3>1, <3>2
  <2>. QED
    BY <2>1, <2>3, <1>4 DEF QueueExpires, MayExpire
<1>8. ASSUME NEW x \in lasting PROVE StillQueued(x)
  <2>1. x.face \in faces
    BY DEF OrderInv, LastingOrder
  <2>2. NoneAbout(t, x)
    <3>1. ASSUME NEW j \in DOMAIN t PROVE IdOf(t[j]) # x
      <4>1. IdOf(t[j]).face = t[j].route.face
        BY DEF IdOf
      <4>. QED
        BY <4>1, <2>1, <1>3, <1>4
    <3>. QED
      BY <3>1 DEF NoneAbout
  <2>. QED
    BY <2>2, <1>4, <1>5, BehindOthers DEF StillQueued
<1>9. FacesOrder' /\ LastingOrder' /\ RoutesExpire'
  BY <1>1, <1>2 DEF FacesOrder, LastingOrder, RoutesExpire, OrderInv, Expiring, MayExpire
<1>10. \A x \in lasting : InRib(x) => InRib(x)'
  BY <1>1 DEF InRib
<1>. QED
  BY <1>1, <1>7, <1>8, <1>9, <1>10, BatchAlone

\* Steps that leave the queue and the table alone.
LEMMA TableAlone ==
  ASSUME OrderInv, UNCHANGED <<rib, queue, inProgress, batchUpdates, otherUpdates, wire>>,
         lasting' \subseteq lasting, FacesOrder', LastingOrder'
  PROVE  OrderInv'
<1>1. RoutesExpire' /\ QueueExpires'
  BY DEF OrderInv, RoutesExpire, QueueExpires, MayExpire
<1>2. \A x \in lasting' : StillQueued(x) /\ (InRib(x) => InRib(x)')
  BY DEF StillQueued, InRib
<1>. QED
  BY <1>1, <1>2, BatchAlone

\* The forwarder keeps the order.
LEMMA ForwarderOrder ==
  ASSUME Steady, RibInv, OrderInv, NEW f,
         FaceDestroyed(f) \/ FaceCreated(f) \/ NoticeLost(f) \/ FetchActiveFaces
  PROVE  OrderInv'
<1>1. UNCHANGED <<rib, queue, inProgress, batchUpdates, otherUpdates, wire>> /\ lasting' \subseteq lasting
  BY DEF FaceDestroyed, FaceCreated, NoticeLost, FetchActiveFaces, ribVars
<1>2. ~FaceCreated(f)
  BY DEF Steady, FaceCreated
<1>3. FacesOrder'
  BY <1>2 DEF FaceDestroyed, NoticeLost, FetchActiveFaces, OrderInv, FacesOrder
<1>4. LastingOrder'
  BY <1>2 DEF FaceDestroyed, NoticeLost, FetchActiveFaces, OrderInv, LastingOrder, Expiring
<1>. QED
  BY <1>1, <1>3, <1>4, TableAlone

\* So does the null pointer, and a step of something else.
LEMMA AloneOrder ==
  ASSUME OrderInv, NullRoute \/ UNCHANGED vars
  PROVE  OrderInv'
<1>1. UNCHANGED <<rib, queue, inProgress, batchUpdates, otherUpdates, wire, faces, notices, snapshot, lasting>>
  BY DEF NullRoute, vars, ribVars, faceVars
<1>2. FacesOrder' /\ LastingOrder'
  BY <1>1 DEF OrderInv, FacesOrder, LastingOrder, Expiring
<1>. QED
  BY <1>1, <1>2, TableAlone

----------------------------------------------------------------------------
(* Routes that last: the batches *)

\* Routes of the table are routes.
LEMMA RoutesTyped ==
  ASSUME NEW R, IsTable(R), NEW n
  PROVE  RoutesAt(R, n) \subseteq Route
<1>1. CASE n \in DOMAIN R
  <2>1. R[n].routes \in Seq(Route)
    BY <1>1, EntryTyped
  <2>. QED
    BY <1>1, <2>1 DEF RoutesAt
<1>2. CASE n \notin DOMAIN R
  BY <1>2 DEF RoutesAt
<1>. QED
  BY <1>1, <1>2

\* onFibUpdateSuccess: what the end of a batch does to the routes.
LEMMA BatchEnds ==
  ASSUME RibInv, RoutesExpire, NEW b \in Update, MayExpire(b.name, b.route), NEW I, applyBatch(b, I)
  PROVE  RoutesExpire' /\ \A x \in lasting : Ends(x, b) => InRib(x)'
<1>1. PICK R : /\ R = IF b.action = "register" THEN insert(rib, b.name, b.route)
                      ELSE erase(rib, b.name, b.route)
               /\ \/ rib' = modifyInheritedRoutes(R, I)
                  \/ rib' = R
  BY DEF applyBatch
<1>2. PICK n, r : n = b.name /\ r = b.route
  OBVIOUS
<1>3. n \in Name /\ r \in Route
  BY <1>2 DEF Update
<1>4. IsTable(rib) /\ Parented(rib)
  BY DEF RibInv, TableInv
<1>5. /\ Edits(rib, R, n, r) /\ IsTable(R)
      /\ b.action = "register" => r \in RoutesAt(R, n)
  <2>1. CASE b.action = "register"
    <3>1. R = insert(rib, n, r)
      BY <1>1, <1>2, <2>1
    <3>. QED
      BY <3>1, <1>3, <1>4, InsertRoutes, InsertKeeps
  <2>2. CASE b.action # "register"
    <3>1. R = erase(rib, n, r)
      BY <1>1, <1>2, <2>2
    <3>. QED
      BY <2>2, <3>1, <1>3, <1>4, EraseRoutes, EraseKeeps
  <2>. QED
    BY <2>1, <2>2
<1>6. PICK T : T = rib'
  OBVIOUS
<1>7. \A m \in Name : RoutesAt(T, m) = RoutesAt(R, m)
  BY <1>1, <1>5, <1>6, ModifyInheritedRoutes
<1>8. RoutesExpire'
  <2>1. ASSUME NEW m \in Name, NEW s \in RoutesAt(T, m) PROVE MayExpire(m, s)
    <3>1. s \in RoutesAt(R, m) /\ s \in Route
      BY <2>1, <1>5, <1>7, RoutesTyped
    <3>2. s \in RoutesAt(rib, m) \/ (m = n /\ s = r)
      BY <3>1, <1>5 DEF Edits
    <3>. QED
      BY <3>2, <1>2 DEF RoutesExpire
  <2>. QED
    BY <2>1, <1>6 DEF RoutesExpire, MayExpire
<1>9. ASSUME NEW x \in lasting, Ends(x, b) PROVE InRib(x)'
  <2>1. /\ x = [name |-> x.name, face |-> x.face, origin |-> x.origin] /\ x.name \in Name
    BY DEF RibInv, HistoryInv
  <2>2. CASE IdOf(b) = x
    <3>1. x.name = n /\ x.face = r.face /\ x.origin = r.origin
      BY <2>2, <1>2 DEF IdOf
    <3>2. r \in RoutesAt(T, n)
      BY <2>2, <1>3, <1>5, <1>7, <1>9 DEF Ends
    <3>. QED
      BY <3>1, <3>2, <1>6 DEF InRib
  <2>3. CASE IdOf(b) # x
    <3>1. PICK s \in RoutesAt(rib, x.name) : s.face = x.face /\ s.origin = x.origin
      BY <2>3, <1>9 DEF Ends, InRib
    <3>2. s \in Route
      BY <3>1, <1>4, RoutesTyped
    <3>3. ~(x.name = n /\ s.face = r.face /\ s.origin = r.origin)
      BY <2>1, <2>3, <3>1, <1>2 DEF IdOf
    <3>4. s \in RoutesAt(R, x.name)
      BY <2>1, <3>1, <3>2, <3>3, <1>5 DEF Edits
    <3>5. s \in RoutesAt(T, x.name)
      BY <2>1, <3>4, <1>7
    <3>. QED
      BY <3>1, <3>5, <1>6 DEF InRib
  <2>. QED
    BY <2>2, <2>3
<1>. QED
  BY <1>8, <1>9

\* sendUpdatesForNonBatchFaceId keeps the order, with or without anything to send.
LEMMA OthersOrder ==
  ASSUME RibInv, RoutesExpire, FacesOrder', LastingOrder', QueueExpires',
         NEW rest \in Seq(SUBSET Command), NoneAwaited(rest), NEW others \in SUBSET FibUpdate,
         NEW b \in Update, MayExpire(b.name, b.route), NEW I, sendOthers(rest, others, b, I),
         batchUpdates' = {}, otherUpdates' = others, lasting' = lasting,
         \A x \in lasting : KeptFor(queue', x, b)
  PROVE  OrderInv'
<1>1. CASE others # {}
  <2>1. wire' = Append(rest, Commands(others, b)) /\ rib' = rib /\ inProgress' = TRUE
    BY <1>1 DEF sendOthers
  <2>2. RoutesExpire'
    BY <2>1 DEF RoutesExpire, MayExpire
  <2>3. Carries(wire', others, b)
    BY <2>1, CarriesSent
  <2>4. Carries(wire, Awaited, b)'
    BY <2>3 DEF Carries, Awaited
  <2>5. \A x \in lasting' : KeptFor(queue, x, b)'
    BY <2>1 DEF KeptFor, Ends, InRib
  <2>6. InBatch(b)'
    BY <2>4, <2>5 DEF InBatch, MayExpire
  <2>. QED
    BY <2>1, <2>2, <2>6 DEF OrderInv
<1>2. CASE others = {}
  <2>1. wire' = rest /\ applyBatch(b, I)
    BY <1>2 DEF sendOthers
  <2>2. RoutesExpire' /\ \A x \in lasting : Ends(x, b) => InRib(x)'
    BY <2>1, BatchEnds
  <2>3. NoneAwaited(wire)'
    BY <2>1 DEF NoneAwaited
  <2>4. \A x \in lasting' : KeptAtRest(x)'
    BY <2>2 DEF KeptFor, KeptAtRest
  <2>5. inProgress' = FALSE
    BY <2>1 DEF applyBatch
  <2>. QED
    BY <2>2, <2>3, <2>4, <2>5 DEF OrderInv, AtRest
<1>. QED
  BY <1>1, <1>2

\* The start of a batch keeps the order.
LEMMA SendBatchOrder ==
  ASSUME RibInv, OrderInv, SendBatchFromQueue
  PROVE  OrderInv'
<1>1. ~inProgress /\ queue # <<>> /\ queue \in Seq(Update) /\ TableInv /\ wire \in Seq(SUBSET Command)
  BY DEF SendBatchFromQueue, RibInv
<1>2. PICK b : b = Head(queue) /\ b \in Update
  BY <1>1
<1>3. ~DereferencesNull(b)
  BY <1>2 DEF SendBatchFromQueue
<1>4. PICK c : c = computeUpdates(b) /\ IsChange(c)
  BY <1>1, <1>2, <1>3, ComputeTyped
<1>5. /\ batchUpdates' = IF b.action = "remove face" THEN {} ELSE UpdatesFor(c, {b.route.face})
      /\ otherUpdates' = UpdatesFor(c, Face \ {b.route.face})
  BY <1>2, <1>4 DEF SendBatchFromQueue
<1>6. queue' = Tail(queue) /\ UNCHANGED <<faces, notices, snapshot, lasting>>
  BY DEF SendBatchFromQueue, faceVars
<1>7. PICK B, O, I : B = batchUpdates' /\ O = otherUpdates' /\ I = inheritUpdates'
  OBVIOUS
<1>8. B \in SUBSET FibUpdate /\ O \in SUBSET FibUpdate
  BY <1>4, <1>5, <1>7, UpdatesForTyped
<1>9. \/ /\ B # {} /\ wire' = Append(wire, Commands(B, b)) /\ inProgress' = TRUE /\ rib' = rib
      \/ B = {} /\ sendOthers(wire, O, b, I)
  BY <1>2, <1>7 DEF SendBatchFromQueue
<1>10. NoneAwaited(wire) /\ \A x \in lasting : KeptAtRest(x)
  BY <1>1 DEF OrderInv, AtRest
<1>11. MayExpire(b.name, b.route) /\ QueueExpires'
  <2>1. PICK v : v = Tail(queue)
    OBVIOUS
  <2>2. /\ Len(queue) \in Nat /\ Len(queue) >= 1 /\ DOMAIN queue = 1..Len(queue) /\ b = queue[1]
        /\ DOMAIN v = 1..(Len(queue) - 1)
        /\ \A i \in 1..(Len(queue) - 1) : v[i] = queue[i + 1]
    BY <1>1, <1>2, <2>1
  <2>3. ASSUME NEW i \in DOMAIN v PROVE MayExpire(v[i].name, v[i].route)
    <3>1. i + 1 \in DOMAIN queue /\ v[i] = queue[i + 1]
      BY <2>2
    <3>. QED
      BY <3>1 DEF OrderInv, QueueExpires
  <2>4. 1 \in DOMAIN queue
    BY <2>2
  <2>5. MayExpire(b.name, b.route)
    BY <2>2, <2>4 DEF OrderInv, QueueExpires
  <2>. QED
    BY <2>1, <2>3, <2>5, <1>6 DEF QueueExpires, MayExpire
<1>12. ASSUME NEW x \in lasting PROVE KeptFor(queue', x, b)
  <2>1. /\ NoneAbout(queue, x) => NoneAbout(Tail(queue), x) /\ IdOf(b) # x
        /\ LastRegisters(queue, x) => \/ LastRegisters(Tail(queue), x)
                                      \/ NoneAbout(Tail(queue), x) /\ IdOf(b) = x /\ b.action = "register"
    BY <1>1, <1>2, FirstTaken
  <2>2. LastRegisters(queue, x) \/ (NoneAbout(queue, x) /\ InRib(x))
    BY <1>10 DEF KeptAtRest
  <2>. QED
    BY <2>1, <2>2, <1>6 DEF KeptFor, Ends
<1>13. FacesOrder' /\ LastingOrder' /\ RoutesExpire
  BY <1>6 DEF OrderInv, FacesOrder, LastingOrder, Expiring
<1>14. CASE B # {} /\ wire' = Append(wire, Commands(B, b)) /\ inProgress' = TRUE /\ rib' = rib
  <2>1. Carries(wire', B, b)
    BY <1>14, <1>1, <1>2, <1>8, <1>10, CarriesSent
  <2>2. Carries(wire, Awaited, b)'
    BY <2>1, <1>7, <1>14 DEF Carries, Awaited
  <2>3. \A x \in lasting' : KeptFor(queue, x, b)'
    BY <1>6, <1>12, <1>14 DEF KeptFor, Ends, InRib
  <2>4. InBatch(b)'
    BY <2>2, <2>3, <1>11 DEF InBatch, MayExpire
  <2>5. RoutesExpire'
    BY <1>13, <1>14 DEF RoutesExpire, MayExpire
  <2>. QED
    BY <2>4, <2>5, <1>2, <1>11, <1>13, <1>14 DEF OrderInv
<1>15. CASE B = {} /\ sendOthers(wire, O, b, I)
  BY <1>15, <1>1, <1>2, <1>6, <1>7, <1>8, <1>10, <1>11, <1>12, <1>13, OthersOrder
<1>. QED
  BY <1>9, <1>14, <1>15

\* A command that is waited for belongs to the batch in progress.
LEMMA AwaitedInBatch ==
  ASSUME RibInv, OrderInv, NEW k \in DOMAIN wire, NEW cmd \in wire[k], cmd.live
  PROVE  inProgress /\ \E b \in Update : InBatch(b)
<1>1. inProgress
  BY DEF OrderInv, AtRest, NoneAwaited
<1>. QED
  BY <1>1 DEF OrderInv

\* Answers nobody waits for keep the order.
LEMMA LateOrder ==
  ASSUME RibInv, OrderInv, NEW cmd \in Ready, ExecuteLate(cmd)
  PROVE  OrderInv'
<1>1. /\ wire' = Taken(cmd)
      /\ UNCHANGED <<rib, queue, inProgress, batchUpdates, otherUpdates, faces, notices, snapshot, lasting>>
  BY DEF ExecuteLate, ribVars, faceVars
<1>2. PICK v : v = wire'
  OBVIOUS
<1>3. /\ \A U, b : Carries(wire, U, b) => Carries(v, U, b)
      /\ NoneAwaited(wire) => NoneAwaited(v)
  BY <1>1, <1>2, CarriesLate DEF RibInv
<1>4. FacesOrder' /\ LastingOrder' /\ RoutesExpire' /\ QueueExpires'
  BY <1>1 DEF OrderInv, FacesOrder, LastingOrder, Expiring, RoutesExpire, QueueExpires, MayExpire
<1>5. ASSUME NEW b \in Update, InBatch(b) PROVE InBatch(b)'
  <2>1. Carries(v, Awaited, b)
    BY <1>3, <1>5 DEF InBatch
  <2>2. Carries(wire, Awaited, b)'
    BY <2>1, <1>1, <1>2 DEF Carries, Awaited
  <2>3. \A x \in lasting' : KeptFor(queue, x, b)'
    BY <1>1, <1>5 DEF InBatch, KeptFor, Ends, InRib
  <2>. QED
    BY <2>2, <2>3, <1>5 DEF InBatch, MayExpire
<1>6. ASSUME AtRest PROVE AtRest'
  BY <1>1, <1>2, <1>3, <1>6 DEF AtRest, NoneAwaited, KeptAtRest, InRib
<1>. QED
  BY <1>1, <1>4, <1>5, <1>6 DEF OrderInv

\* An answer that counts: the command leaves the wire, and its update the batch.
LEMMA AnswerTaken ==
  ASSUME RibInv, OrderInv, NEW cmd \in Ready, cmd.live, NEW rest, rest = Taken(cmd)
  PROVE  /\ inProgress /\ rest \in Seq(SUBSET Command)
         /\ cmd.for \in Update /\ InBatch(cmd.for)
         /\ cmd.update \in Awaited /\ Carries(rest, Awaited \ {cmd.update}, cmd.for)
<1>1. wire \in Seq(SUBSET Command)
  BY DEF RibInv
<1>2. 1 \in DOMAIN wire /\ cmd \in wire[1]
  BY <1>1, TakenIsPart
<1>3. inProgress
  BY <1>2, AwaitedInBatch
<1>4. PICK b \in Update : InBatch(b)
  BY <1>2, AwaitedInBatch
<1>5. Carries(wire, Awaited, b)
  BY <1>4 DEF InBatch
<1>6. PICK U : U = Awaited
  OBVIOUS
<1>7. cmd.update \in U /\ cmd.for = b /\ Carries(rest, U \ {cmd.update}, b)
  BY <1>1, <1>5, <1>6, CarriesTaken
<1>8. rest \in Seq(SUBSET Command)
  BY <1>1, TakenOff
<1>. QED
  BY <1>3, <1>4, <1>6, <1>7, <1>8

\* The batch goes on.
LEMMA BatchGoesOn ==
  ASSUME OrderInv, inProgress, NEW b \in Update, InBatch(b), NEW U, Carries(wire', U, b), Awaited' = U,
         UNCHANGED <<rib, queue, inProgress, faces, notices, snapshot, lasting>>
  PROVE  OrderInv'
<1>1. FacesOrder' /\ LastingOrder' /\ RoutesExpire' /\ QueueExpires'
  BY DEF OrderInv, FacesOrder, LastingOrder, Expiring, RoutesExpire, QueueExpires, MayExpire
<1>2. Carries(wire, Awaited, b)'
  BY DEF Carries
<1>3. \A x \in lasting' : KeptFor(queue, x, b)'
  BY DEF InBatch, KeptFor, Ends, InRib
<1>4. InBatch(b)'
  BY <1>2, <1>3 DEF InBatch, MayExpire
<1>. QED
  BY <1>1, <1>4 DEF OrderInv

\* An answer for another face.
LEMMA OtherOrder ==
  ASSUME RibInv, OrderInv, NEW cmd \in Ready, cmd.live, cmd.update.face # batchFace, OtherUpdateDone(cmd),
         UNCHANGED <<faces, notices, snapshot, lasting>>
  PROVE  OrderInv'
<1>1. PICK rest, b, I : rest = Taken(cmd) /\ b = cmd.for /\ I = inheritUpdates
  OBVIOUS
<1>2. /\ inProgress /\ rest \in Seq(SUBSET Command) /\ b \in Update /\ InBatch(b)
      /\ cmd.update \in Awaited /\ Carries(rest, Awaited \ {cmd.update}, b)
  BY <1>1, AnswerTaken
<1>3. batchUpdates = {} /\ Awaited = otherUpdates
  BY <1>2 DEF RibInv, BatchInv, Awaited
<1>4. PICK O : O = otherUpdates \ {cmd.update}
  OBVIOUS
<1>5. /\ otherUpdates' = O /\ wire' = rest /\ batchUpdates' = {} /\ queue' = queue
      /\ O = {} => applyBatch(b, I)
      /\ O # {} => UNCHANGED <<rib, inProgress>>
  BY <1>1, <1>3, <1>4 DEF OtherUpdateDone
<1>6. Carries(rest, O, b)
  BY <1>2, <1>3, <1>4
<1>7. CASE O = {}
  <2>1. NoneAwaited(rest)
    BY <1>6, <1>7, CarriesNothing
  <2>2. sendOthers(rest, O, b, I)
    BY <1>5, <1>7 DEF sendOthers
  <2>3. FacesOrder' /\ LastingOrder' /\ RoutesExpire /\ QueueExpires'
    BY <1>5 DEF OrderInv, FacesOrder, LastingOrder, Expiring, QueueExpires, MayExpire
  <2>4. MayExpire(b.name, b.route) /\ \A x \in lasting : KeptFor(queue', x, b)
    BY <1>2, <1>5 DEF InBatch
  <2>5. O \in SUBSET FibUpdate
    BY <1>7
  <2>. QED
    BY <1>2, <1>5, <2>1, <2>2, <2>3, <2>4, <2>5, OthersOrder
<1>8. CASE O # {}
  <2>1. Awaited' = O
    BY <1>5 DEF Awaited
  <2>2. Carries(wire', O, b)
    BY <1>5, <1>6
  <2>. QED
    BY <1>2, <1>5, <1>8, <2>1, <2>2, BatchGoesOn
<1>. QED
  BY <1>7, <1>8

\* Answers that count keep the order.
LEMMA SuccessOrder ==
  ASSUME RibInv, OrderInv, NEW cmd \in Ready, OnUpdateSuccess(cmd)
  PROVE  OrderInv'
<1>1. cmd.live /\ UNCHANGED <<faces, notices, snapshot, lasting>>
  BY DEF OnUpdateSuccess, faceVars
<1>2. CASE cmd.update.face # batchFace
  <2>1. OtherUpdateDone(cmd)
    BY <1>2 DEF OnUpdateSuccess
  <2>. QED
    BY <1>1, <1>2, <2>1, OtherOrder
<1>3. CASE cmd.update.face = batchFace
  <2>1. PICK rest, b, I, O : rest = Taken(cmd) /\ b = cmd.for /\ I = inheritUpdates /\ O = otherUpdates
    OBVIOUS
  <2>2. /\ inProgress /\ rest \in Seq(SUBSET Command) /\ b \in Update /\ InBatch(b)
        /\ cmd.update \in Awaited /\ Carries(rest, Awaited \ {cmd.update}, b)
    BY <1>1, <2>1, AnswerTaken
  <2>3. batchUpdates # {} /\ Awaited = batchUpdates
    BY <1>3, <2>2 DEF RibInv, BatchInv, Awaited
  <2>4. PICK B : B = batchUpdates \ {cmd.update}
    OBVIOUS
  <2>5. /\ batchUpdates' = B /\ otherUpdates' = O /\ queue' = queue
        /\ B = {} => sendOthers(rest, O, b, I)
        /\ B # {} => wire' = rest /\ UNCHANGED <<rib, inProgress>>
    BY <1>3, <2>1, <2>4 DEF OnUpdateSuccess
  <2>6. Carries(rest, B, b)
    BY <2>2, <2>3, <2>4
  <2>7. CASE B = {}
    <3>1. NoneAwaited(rest)
      BY <2>6, <2>7, CarriesNothing
    <3>2. FacesOrder' /\ LastingOrder' /\ RoutesExpire /\ QueueExpires'
      BY <1>1, <2>5 DEF OrderInv, FacesOrder, LastingOrder, Expiring, QueueExpires, MayExpire
    <3>3. MayExpire(b.name, b.route) /\ \A x \in lasting : KeptFor(queue', x, b)
      BY <2>2, <2>5 DEF InBatch
    <3>4. O \in SUBSET FibUpdate
      BY <2>1 DEF RibInv, BatchInv
    <3>. QED
      BY <1>1, <2>2, <2>5, <2>7, <3>1, <3>2, <3>3, <3>4, OthersOrder
  <2>8. CASE B # {}
    <3>1. Awaited' = B
      BY <2>5, <2>8 DEF Awaited
    <3>2. Carries(wire', B, b)
      BY <2>5, <2>6, <2>8
    <3>. QED
      BY <1>1, <2>2, <2>5, <2>8, <3>1, <3>2, BatchGoesOn
  <2>. QED
    BY <2>7, <2>8
<1>. QED
  BY <1>2, <1>3

\* So does 410 for another face; for the batch's face the batch fails.
LEMMA FaceNotFoundOrder ==
  ASSUME RibInv, OrderInv, failed' = {}, NEW cmd \in Ready, OnFaceNotFound(cmd)
  PROVE  OrderInv'
<1>1. cmd.live /\ UNCHANGED <<faces, notices, snapshot, lasting>>
  BY DEF OnFaceNotFound, faceVars
<1>2. cmd.update.face # batchFace /\ OtherUpdateDone(cmd)
  BY DEF OnFaceNotFound
<1>. QED
  BY <1>1, <1>2, OtherOrder

\* And so does a timeout.
LEMMA TimeoutOrder ==
  ASSUME RibInv, OrderInv, NEW k \in DOMAIN wire, NEW cmd \in wire[k], OnTimeout(k, cmd)
  PROVE  OrderInv'
<1>1. /\ cmd.live
      /\ UNCHANGED <<rib, queue, inProgress, batchUpdates, otherUpdates, faces, notices, snapshot, lasting>>
  BY DEF OnTimeout, ribVars, faceVars
<1>2. wire \in Seq(SUBSET Command)
  BY DEF RibInv
<1>3. inProgress /\ \E b \in Update : InBatch(b)
  BY <1>1, AwaitedInBatch
<1>4. PICK b \in Update : InBatch(b)
  BY <1>3
<1>5. PICK U : U = Awaited /\ Carries(wire, U, b)
  BY <1>4 DEF InBatch
<1>6. Awaited' = U
  BY <1>1, <1>5 DEF Awaited
<1>7. CASE cmd.tries < MaxTimeouts
  <2>1. PICK d : d = [cmd EXCEPT !.op = "add", !.tries = @ + 1]
    OBVIOUS
  <2>2. wire' = Append(Abandoned(k, cmd), {d})
    BY <1>7, <2>1 DEF OnTimeout, Abandoned
  <2>3. cmd \in Command
    BY <1>2, AbandonedKeeps
  <2>4. d.update = cmd.update /\ d.for = cmd.for
    <3>1. PICK t : t = cmd.tries + 1
      OBVIOUS
    <3>2. d = [cmd EXCEPT !.op = "add", !.tries = t]
      BY <2>1, <2>3, <3>1 DEF Command
    <3>3. d = [update |-> cmd.update, op |-> "add", for |-> cmd.for, tries |-> t, live |-> cmd.live]
      BY <2>3, <3>2 DEF Command
    <3>. QED
      BY <3>3
  <2>5. Carries(wire', U, b)
    BY <1>1, <1>2, <1>5, <2>2, <2>4, CarriesResent
  <2>. QED
    BY <1>1, <1>3, <1>4, <1>6, <2>5, BatchGoesOn
<1>8. CASE ~(cmd.tries < MaxTimeouts)
  <2>1. wire' = wire
    BY <1>8 DEF OnTimeout
  <2>2. Carries(wire', U, b)
    BY <1>5, <2>1
  <2>. QED
    BY <1>1, <1>3, <1>4, <1>6, <2>2, BatchGoesOn
<1>. QED
  BY <1>7, <1>8

\* Before anything is requested.
LEMMA OrderInit == Init => OrderInv
<1>. SUFFICES ASSUME Init PROVE OrderInv
  OBVIOUS
<1>1. /\ rib = [n \in {} |-> NoName] /\ queue = <<>> /\ inProgress = FALSE /\ wire = <<>>
      /\ notices = {} /\ snapshot = {} /\ lasting = {}
  BY DEF Init
<1>2. DOMAIN rib = {} /\ DOMAIN queue = {} /\ DOMAIN wire = {}
  BY <1>1
<1>. QED
  BY <1>1, <1>2 DEF OrderInv, FacesOrder, LastingOrder, RoutesExpire, QueueExpires, AtRest, NoneAwaited,
                    RoutesAt

\* At rest with an empty queue every route that lasts is there.
LEMMA OrderKeepsRoutes == OrderInv => LastingRouteStays
<1>. SUFFICES ASSUME OrderInv, Quiet, NEW x \in lasting PROVE InRib(x)
  BY DEF LastingRouteStays, InRib
<1>1. ~inProgress /\ queue = <<>>
  BY DEF Quiet
<1>2. KeptAtRest(x)
  BY <1>1 DEF OrderInv, AtRest
<1>3. DOMAIN queue = {}
  BY <1>1
<1>. QED
  BY <1>2, <1>3 DEF KeptAtRest, LastRegisters

\* A route registered without an expiration period stays until it is unregistered or its
\* face is destroyed, whatever is queued before and behind it: other routes expire, faces
\* come down and their routes are cleaned up, datasets are fetched, commands time out
\* and are sent again.  Suppositions: no face is created (a dataset fetched before takes
\* it for a failed one), requests for one route agree on whether it expires (else a
\* renewal may lose against the expiration it comes too late for), and no batch fails.
THEOREM LastingStays ==
  Steady /\ Spec /\ [](failed = {}) => []LastingRouteStays
<1>1. Init => OrderInv
  BY OrderInit
<1>2. Steady /\ RibInv /\ OrderInv /\ (failed = {})' /\ [Next]_vars => OrderInv'
  <2>. SUFFICES ASSUME Steady, RibInv, OrderInv, failed' = {}, [Next]_vars PROVE OrderInv'
    OBVIOUS
  <2>1. ASSUME NEW q \in Requests, RegisterEntry(q) \/ UnregisterEntry(q) \/ RegistrationExpires(q)
        PROVE  OrderInv'
    BY <2>1, RequestOrder, RegistrationExpiresOrder
  <2>2. ASSUME NEW n \in DOMAIN rib, NEW i \in DOMAIN rib[n].routes, RouteExpiration(n, i) PROVE OrderInv'
    BY <2>2, ExpirationOrder
  <2>3. CASE SendBatchFromQueue
    BY <2>3, SendBatchOrder
  <2>4. CASE NullRoute \/ UNCHANGED vars
    BY <2>4, AloneOrder
  <2>5. ASSUME NEW cmd \in Ready, ExecuteLate(cmd) \/ OnUpdateSuccess(cmd) \/ OnFaceNotFound(cmd)
        PROVE  OrderInv'
    BY <2>5, LateOrder, SuccessOrder, FaceNotFoundOrder
  <2>6. ASSUME NEW k \in DOMAIN wire, NEW cmd \in wire[k], OnTimeout(k, cmd) PROVE OrderInv'
    BY <2>6, TimeoutOrder
  <2>7. ASSUME NEW f \in Face, BeginRemoveFace(f) PROVE OrderInv'
    BY <2>7, RemoveFacesOrder
  <2>8. ASSUME NEW f \in Face, FaceDestroyed(f) \/ FaceCreated(f) \/ NoticeLost(f) PROVE OrderInv'
    BY <2>8, ForwarderOrder
  <2>9. ASSUME NEW active \in snapshot, BeginRemoveFailedFaces(active) PROVE OrderInv'
    BY <2>9, RemoveFacesOrder
  <2>10. CASE FetchActiveFaces
    BY <2>10, ForwarderOrder
  <2>. QED
    BY <2>1, <2>2, <2>3, <2>4, <2>5, <2>6, <2>7, <2>8, <2>9, <2>10 DEF Next
<1>3. OrderInv => LastingRouteStays
  BY OrderKeepsRoutes
<1>4. Steady /\ [Next]_vars => Steady'
  BY DEF Steady, RouteId
<1>. QED
  BY <1>1, <1>2, <1>3, <1>4, RibInvariance, PTL DEF Spec

----------------------------------------------------------------------------
(* Offers: what the routes of a table are to the FIB *)

Offer(n, r) == [name |-> n, face |-> r.face, cost |-> r.cost, inherit |-> r.inherit]
OfferSet == [name : Name, face : Face, cost : Cost, inherit : BOOLEAN]

\* The offers of a table, and what a RIB update makes of them.
Offers(R) == UNION {{Offer(n, r) : r \in RoutesAt(R, n)} : n \in Name}
NotOf(V, n, f) == {v \in V : ~(v.name = n /\ v.face = f)}
OffersAfter(V, b) ==
  NotOf(V, b.name, b.route.face)
    \cup (IF b.action = "register" THEN {Offer(b.name, b.route)} ELSE {})

Offered(V) == {v.name : v \in V}
Owns(V, n, f) == \E v \in V : v.name = n /\ v.face = f
Gives(V, n, f) == \E v \in V : v.name = n /\ v.face = f /\ v.inherit
GiversOf(V, n, f) == {v \in V : v.name \in Prefixes[n] /\ v.face = f /\ v.inherit}
IsGiver(V, n, f, v) ==
  v \in GiversOf(V, n, f) /\ \A w \in GiversOf(V, n, f) : w.name = v.name \/ w.name \in Prefixes[v.name]

\* The nexthop that the offers call for at n on f is k.
Hop(V, n, f, k) ==
  \/ \E v \in V : v.name = n /\ v.face = f /\ k = v.cost
  \/ /\ n \in Offered(V) /\ ~Owns(V, n, f)
     /\ \E v \in V : IsGiver(V, n, f, v) /\ k = v.cost
  \/ /\ n \notin Offered(V) \/ (~Owns(V, n, f) /\ GiversOf(V, n, f) = {})
     /\ k = NoCost

\* The name inherits on the face.
Inherits(V, n, f) == n \in Offered(V) /\ ~Owns(V, n, f) /\ GiversOf(V, n, f) # {}

----------------------------------------------------------------------------
(* The requests for which the FIB follows the RIB *)

\* What is requested at the name to be inherited below is on the face of q.
GivesNoOther(q) ==
  \A s, t \in Requests :
    s.name = q.name /\ s.route.inherit /\ q.name \in Prefixes[t.name] => s.route.face = q.route.face

\* No face is created, no route captures, one origin per name and face.  A route below an
\* inheritable one on its face is inheritable; it costs as much, or its name gives on no
\* other face.  Nothing is below a route on a face that may be destroyed.
Tame ==
  /\ NewFace = {}
  /\ \A q \in Requests : ~q.route.capture
  /\ \A p, q \in Requests :
       p.route.face = q.route.face /\ p.name = q.name => p.route.origin = q.route.origin
  /\ \A p, q \in Requests :
       p.route.face = q.route.face /\ p.name \in Prefixes[q.name] /\ p.route.inherit =>
         /\ q.route.inherit
         /\ p.route.cost = q.route.cost \/ GivesNoOther(q)
  /\ \A p, q \in Requests : p.route.face \in Breakable => p.name \notin Prefixes[q.name]

\* The route was requested at the name, with or without expiration.
Requested(n, r) ==
  \E q \in Requests : /\ q.name = n /\ q.route.face = r.face /\ q.route.origin = r.origin
                      /\ q.route.cost = r.cost /\ q.route.inherit = r.inherit
                      /\ q.route.capture = r.capture

\* Tables that such requests lead to.
IsTame(R) ==
  /\ IsTable(R) /\ Parented(R)
  /\ \A n \in DOMAIN R :
       /\ R[n].nCapture = 0
       /\ \A i, j \in DOMAIN R[n].routes : R[n].routes[i].face = R[n].routes[j].face => i = j
       /\ \A i \in DOMAIN R[n].routes : Requested(n, R[n].routes[i])

----------------------------------------------------------------------------
(* The offers of a tame table *)

\* Offers are the routes of the entries.
LEMMA OfferOf ==
  ASSUME NEW R, IsTable(R)
  PROVE  /\ \A v \in Offers(R) : \E n \in DOMAIN R : \E i \in DOMAIN R[n].routes :
              v = Offer(n, R[n].routes[i])
         /\ \A n \in DOMAIN R : \A i \in DOMAIN R[n].routes : Offer(n, R[n].routes[i]) \in Offers(R)
         /\ Offers(R) \subseteq OfferSet
<1>1. DOMAIN R \subseteq Name
  BY DEF IsTable
<1>2. ASSUME NEW v \in Offers(R)
      PROVE  \E n \in DOMAIN R : \E i \in DOMAIN R[n].routes : v = Offer(n, R[n].routes[i])
  <2>1. PICK n \in Name : \E r \in RoutesAt(R, n) : v = Offer(n, r)
    BY DEF Offers
  <2>2. PICK r \in RoutesAt(R, n) : v = Offer(n, r)
    BY <2>1
  <2>3. n \in DOMAIN R
    BY <2>2 DEF RoutesAt
  <2>4. PICK i \in DOMAIN R[n].routes : r = R[n].routes[i]
    BY <2>2, <2>3 DEF RoutesAt
  <2>. QED
    BY <2>2, <2>3, <2>4
<1>3. ASSUME NEW n \in DOMAIN R, NEW i \in DOMAIN R[n].routes PROVE Offer(n, R[n].routes[i]) \in Offers(R)
  <2>1. n \in Name /\ R[n].routes[i] \in RoutesAt(R, n)
    BY <1>1 DEF RoutesAt
  <2>. QED
    BY <2>1 DEF Offers
<1>4. ASSUME NEW n \in DOMAIN R, NEW i \in DOMAIN R[n].routes PROVE Offer(n, R[n].routes[i]) \in OfferSet
  <2>1. R[n].routes[i] \in Route /\ n \in Name
    BY EntryTyped, OnFaceFacts
  <2>. QED
    BY <2>1 DEF Offer, OfferSet, Route
<1>. QED
  BY <1>2, <1>3, <1>4

\* At most one offer for a name and a face.
Single(V) == \A v, w \in V : v.name = w.name /\ v.face = w.face => v = w

\* Each offer was requested.
AllRequested(V) ==
  \A v \in V : \E q \in Requests : /\ q.name = v.name /\ q.route.face = v.face
                                   /\ q.route.cost = v.cost /\ q.route.inherit = v.inherit

\* The offers of a tame table say what its entries say.
LEMMA TameOffers ==
  ASSUME NEW R, IsTame(R), NEW V, V = Offers(R)
  PROVE  /\ V \subseteq OfferSet /\ Single(V) /\ AllRequested(V) /\ Offered(V) = DOMAIN R
         /\ \A n \in DOMAIN R : \A f : (hasFaceId(R[n], f) <=> Owns(V, n, f))
         /\ \A n \in DOMAIN R : \A f : (hasChildInheritOnFaceId(R[n], f) <=> Gives(V, n, f))
         /\ \A v \in V : /\ v.name \in DOMAIN R
                         /\ CostsOf(R[v.name], OnFace(R[v.name], v.face)) = {v.cost}
                         /\ v.inherit => /\ CostsOf(R[v.name], InheritOn(R[v.name], v.face)) = {v.cost}
                                         /\ \A i \in InheritOn(R[v.name], v.face) : R[v.name].routes[i].cost = v.cost
<1>1. IsTable(R)
  BY DEF IsTame
<1>2. /\ V \subseteq OfferSet
      /\ \A v \in V : \E n \in DOMAIN R : \E i \in DOMAIN R[n].routes : v = Offer(n, R[n].routes[i])
      /\ \A n \in DOMAIN R : \A i \in DOMAIN R[n].routes : Offer(n, R[n].routes[i]) \in V
  BY <1>1, OfferOf
<1>3. \A v \in V : \E i \in DOMAIN R[v.name].routes :
         /\ v.name \in DOMAIN R /\ v.face = R[v.name].routes[i].face
         /\ v.cost = R[v.name].routes[i].cost /\ v.inherit = R[v.name].routes[i].inherit
  BY <1>2 DEF Offer
<1>4. \A n \in DOMAIN R : \A i \in DOMAIN R[n].routes :
        \E v \in V : /\ v.name = n /\ v.face = R[n].routes[i].face
                     /\ v.cost = R[n].routes[i].cost /\ v.inherit = R[n].routes[i].inherit
  BY <1>2 DEF Offer
<1>5. \A n \in DOMAIN R : \A i, j \in DOMAIN R[n].routes : R[n].routes[i].face = R[n].routes[j].face => i = j
  BY DEF IsTame
<1>6. Single(V)
  <2>. SUFFICES ASSUME NEW v \in V, NEW w \in V, v.name = w.name, v.face = w.face PROVE v = w
    BY DEF Single
  <2>1. v.cost = w.cost /\ v.inherit = w.inherit
    BY <1>3, <1>5
  <2>. QED
    BY <2>1, <1>2 DEF OfferSet
<1>7. AllRequested(V)
  <2>1. \A n \in DOMAIN R : \A i \in DOMAIN R[n].routes : Requested(n, R[n].routes[i])
    BY DEF IsTame
  <2>. SUFFICES ASSUME NEW v \in V
                PROVE  \E q \in Requests : /\ q.name = v.name /\ q.route.face = v.face
                                           /\ q.route.cost = v.cost /\ q.route.inherit = v.inherit
    BY DEF AllRequested
  <2>2. PICK i \in DOMAIN R[v.name].routes :
         /\ v.name \in DOMAIN R /\ v.face = R[v.name].routes[i].face
         /\ v.cost = R[v.name].routes[i].cost /\ v.inherit = R[v.name].routes[i].inherit
    BY <1>3
  <2>3. Requested(v.name, R[v.name].routes[i])
    BY <2>1, <2>2
  <2>. QED
    BY <2>2, <2>3 DEF Requested
<1>8. Offered(V) = DOMAIN R
  <2>1. ASSUME NEW n \in DOMAIN R PROVE n \in Offered(V)
    <3>1. PICK s : s = R[n].routes /\ s \in Seq(Route) /\ s # <<>>
      BY <1>1, EntryTyped
    <3>2. 1 \in DOMAIN s
      BY <3>1
    <3>3. PICK v \in V : v.name = n
      BY <3>1, <3>2, <1>4
    <3>. QED
      BY <3>3 DEF Offered
  <2>2. ASSUME NEW v \in V PROVE v.name \in DOMAIN R
    BY <1>3
  <2>. QED
    BY <2>1, <2>2 DEF Offered
<1>9. \A n \in DOMAIN R : \A f : (hasFaceId(R[n], f) <=> Owns(V, n, f))
  BY <1>3, <1>4 DEF hasFaceId, OnFace, Owns
<1>10. \A n \in DOMAIN R : \A f : (hasChildInheritOnFaceId(R[n], f) <=> Gives(V, n, f))
  BY <1>3, <1>4 DEF hasChildInheritOnFaceId, InheritOn, OnFace, Gives
<1>11. ASSUME NEW v \in V
       PROVE  /\ v.name \in DOMAIN R
              /\ CostsOf(R[v.name], OnFace(R[v.name], v.face)) = {v.cost}
              /\ v.inherit => /\ CostsOf(R[v.name], InheritOn(R[v.name], v.face)) = {v.cost}
                              /\ \A i \in InheritOn(R[v.name], v.face) : R[v.name].routes[i].cost = v.cost
  <2>1. PICK e : e = R[v.name]
    OBVIOUS
  <2>2. PICK i \in DOMAIN e.routes :
         /\ v.name \in DOMAIN R /\ v.face = e.routes[i].face
         /\ v.cost = e.routes[i].cost /\ v.inherit = e.routes[i].inherit
    BY <1>3, <2>1
  <2>3. OnFace(e, v.face) = {i}
    BY <2>1, <2>2, <1>5 DEF OnFace
  <2>4. v.inherit => InheritOn(e, v.face) = {i}
    BY <2>2, <2>3 DEF InheritOn
  <2>. QED
    BY <2>1, <2>2, <2>3, <2>4 DEF CostsOf
<1>. QED
  BY <1>2, <1>6, <1>7, <1>8, <1>9, <1>10, <1>11

----------------------------------------------------------------------------
(* The subtrees of the table *)

\* The entries right below n: no other entry is between.
Kids(R, n) == {d \in DOMAIN R : n \in Prefixes[d] /\ \A y \in DOMAIN R : n \in Prefixes[y] => y \notin Prefixes[d]}

\* The children of an entry are the entries right below it.
LEMMA ChildrenAreKids ==
  ASSUME NEW R, IsTable(R), Parented(R), NEW n \in DOMAIN R
  PROVE  Children(R, n) = Kids(R, n)
<1>1. DOMAIN R \subseteq Name /\ n # NoName
  BY PrefixFacts DEF IsTable
<1>2. ASSUME NEW d \in DOMAIN R, R[d].parent = n PROVE d \in Kids(R, n)
  <2>1. n \in Prefixes[d] /\ Prefixes[d] \cap DOMAIN R = ({n} \cup Prefixes[n]) \cap DOMAIN R
    BY <1>1, <1>2, ParentStep
  <2>2. \A y \in DOMAIN R : n \in Prefixes[y] => y \notin Prefixes[d]
    BY <2>1, <1>1, PrefixFacts
  <2>. QED
    BY <2>1, <2>2 DEF Kids
<1>3. ASSUME NEW d \in Kids(R, n) PROVE R[d].parent = n
  <2>1. d \in DOMAIN R /\ n \in Prefixes[d] /\ \A y \in DOMAIN R : n \in Prefixes[y] => y \notin Prefixes[d]
    BY DEF Kids
  <2>2. IsNearest(n, Above(R, d))
    BY <2>1, <1>1, PrefixFacts DEF IsNearest, Above
  <2>. QED
    BY <2>1, <2>2, <1>1, FindParent DEF Parented
<1>. QED
  BY <1>2, <1>3 DEF Children, Kids

\* The children that insert gives to a new entry are the entries right below it.
LEMMA NewChildrenAreKids ==
  ASSUME NEW R, IsTable(R), Parented(R), NEW n \in Name, n \notin DOMAIN R
  PROVE  {d \in DOMAIN R : n \in Prefixes[d] /\ R[d].parent = findParent(R, n)} = Kids(R, n)
<1>1. DOMAIN R \subseteq Name
  BY DEF IsTable
<1>2. PICK p : p = findParent(R, n)
  OBVIOUS
<1>3. /\ Above(R, n) = {} => p = NoName
      /\ Above(R, n) # {} => IsNearest(p, Above(R, n))
  BY <1>1, <1>2, FindParent
<1>4. ASSUME NEW d \in DOMAIN R, n \in Prefixes[d], R[d].parent = p, NEW y \in DOMAIN R, n \in Prefixes[y],
             y \in Prefixes[d]
      PROVE  FALSE
  <2>1. y \in Above(R, d)
    BY <1>4 DEF Above
  <2>2. IsNearest(p, Above(R, d))
    BY <2>1, <1>1, <1>4, FindParent DEF Parented
  <2>3. p \in DOMAIN R /\ (y = p \/ y \in Prefixes[p])
    BY <2>1, <2>2 DEF IsNearest, Above
  <2>4. n \in Prefixes[p] /\ p \in Name
    BY <2>3, <1>1, <1>4, PrefixFacts
  <2>5. p # NoName
    BY <2>4, PrefixFacts
  <2>6. p \in Prefixes[n]
    BY <2>5, <1>3 DEF IsNearest, Above
  <2>. QED
    BY <2>4, <2>6, PrefixFacts
<1>5. ASSUME NEW d \in Kids(R, n) PROVE R[d].parent = p
  <2>1. d \in DOMAIN R /\ d \in Name /\ n \in Prefixes[d] /\ \A y \in DOMAIN R : n \in Prefixes[y] => y \notin Prefixes[d]
    BY <1>1 DEF Kids
  <2>2. Above(R, d) = Above(R, n)
    <3>1. ASSUME NEW y \in Above(R, d) PROVE y \in Prefixes[n]
      <4>1. y \in DOMAIN R /\ y \in Prefixes[d] /\ y # n
        BY <3>1 DEF Above
      <4>2. n \notin Prefixes[y]
        BY <4>1, <2>1
      <4>. QED
        BY <4>1, <4>2, <2>1, PrefixFacts
    <3>. QED
      BY <3>1, <2>1, PrefixFacts DEF Above
  <2>3. findParent(R, d) = findParent(R, n)
    BY <2>2, SameAboveSameParent
  <2>. QED
    BY <2>1, <2>3, <1>2 DEF Parented
<1>. QED
  BY <1>2, <1>4, <1>5 DEF Kids

\* Among entries below n up to d there is a topmost one, and it is right below n.
LEMMA KidAbove ==
  ASSUME NEW R, IsTable(R), NEW n \in Name, NEW d \in DOMAIN R, n \in Prefixes[d]
  PROVE  \E y \in Kids(R, n) : y = d \/ y \in Prefixes[d]
<1>1. DOMAIN R \subseteq Name
  BY DEF IsTable
<1>. DEFINE A == {y \in DOMAIN R : n \in Prefixes[y] /\ (y = d \/ y \in Prefixes[d])}
            N == {Depth(y) : y \in A}
<1>2. \A y \in Name : Depth(y) \in Nat
  BY PrefixFacts, FS_CardinalityType DEF Depth
<1>3. N \in SUBSET Nat /\ N # {}
  BY <1>1, <1>2
<1>4. PICK k \in N : \A j \in N : k <= j
  <2>. HIDE DEF N
  <2>. QED
    BY <1>3, SmallestNat
<1>5. PICK y \in A : k = Depth(y)
  OBVIOUS
<1>6. ASSUME NEW z \in DOMAIN R, n \in Prefixes[z], z \in Prefixes[y] PROVE FALSE
  <2>1. z \in A
    BY <1>1, <1>5, <1>6, PrefixFacts
  <2>2. Depth(y) <= Depth(z)
    BY <2>1, <1>4, <1>5
  <2>3. Depth(z) < Depth(y) /\ Depth(z) \in Nat /\ Depth(y) \in Nat
    BY <1>1, <1>5, <1>6, PrefixIsShorter
  <2>. QED
    BY <2>2, <2>3
<1>. QED
  BY <1>5, <1>6 DEF Kids

\* The names below n that the offers leave open: nobody from n down to them gives the face.
Open(V, n, f) ==
  {d \in Offered(V) : /\ n \in Prefixes[d]
                      /\ \A x \in Offered(V) : n \in Prefixes[x] /\ (x = d \/ x \in Prefixes[d]) => ~Gives(V, x, f)}

\* traverseSubTree reaches the names that are open.
LEMMA ReachedIsOpen ==
  ASSUME NEW R, IsTame(R), NEW n \in Name, NEW f, NEW V, V = Offers(R)
  PROVE  Reached(R, Kids(R, n), f) = Open(V, n, f)
<1>1. IsTable(R) /\ Parented(R) /\ DOMAIN R \subseteq Name
  BY DEF IsTame, IsTable
<1>2. PICK K : K = Kids(R, n)
  OBVIOUS
<1>3. \A d \in DOMAIN R : Chain(R, d) = ({d} \cup Prefixes[d]) \cap DOMAIN R
  BY <1>1, ChainOf
<1>4. ASSUME NEW d \in DOMAIN R PROVE (Chain(R, d) \cap K # {} <=> n \in Prefixes[d])
  <2>1. ASSUME n \in Prefixes[d] PROVE Chain(R, d) \cap K # {}
    <3>1. PICK y \in Kids(R, n) : y = d \/ y \in Prefixes[d]
      BY <2>1, <1>1, KidAbove
    <3>. QED
      BY <3>1, <1>2, <1>3 DEF Kids
  <2>2. ASSUME NEW y \in Chain(R, d) \cap K PROVE n \in Prefixes[d]
    BY <2>2, <1>1, <1>2, <1>3, PrefixFacts DEF Kids
  <2>. QED
    BY <2>1, <2>2
<1>5. \A x \in DOMAIN R : ~hasCapture(R[x])
  BY DEF IsTame, hasCapture
<1>6. /\ Offered(V) = DOMAIN R
      /\ \A x \in DOMAIN R : hasChildInheritOnFaceId(R[x], f) <=> Gives(V, x, f)
  BY TameOffers
<1>7. Reached(R, K, f) =
        {d \in DOMAIN R :
          /\ Chain(R, d) \cap K # {}
          /\ \A x \in Chain(R, d) : Chain(R, x) \cap K # {} =>
               ~hasCapture(R[x]) /\ ~hasChildInheritOnFaceId(R[x], f)}
  BY DEF Reached
<1>8. ASSUME NEW d \in DOMAIN R
      PROVE  (d \in Reached(R, K, f) <=> d \in Open(V, n, f))
  <2>1. \A x \in Chain(R, d) : x \in DOMAIN R
    BY <1>3
  <2>2. d \in Reached(R, K, f) <=> /\ n \in Prefixes[d]
                                   /\ \A x \in Chain(R, d) : n \in Prefixes[x] => ~Gives(V, x, f)
    BY <2>1, <1>4, <1>5, <1>6, <1>7
  <2>. QED
    BY <2>2, <1>3, <1>6 DEF Open
<1>. QED
  BY <1>2, <1>6, <1>7, <1>8 DEF Open

----------------------------------------------------------------------------
(* The routes of the ancestors *)

\* A has, for the faces that somebody above n gives, the cost of the nearest of them.
AreAncestors(V, n, A) ==
  /\ DOMAIN A = {f \in Face : GiversOf(V, n, f) # {}}
  /\ \A f \in DOMAIN A : \E v \in V : IsGiver(V, n, f, v) /\ A[f] = v.cost

\* A lookup from the parent of a name upward visits everything above the name.
LEMMA AllVisible ==
  ASSUME NEW R, IsTame(R), NEW n \in Name
  PROVE  Visible(R, findParent(R, n)) = Above(R, n)
<1>1. IsTable(R) /\ Parented(R) /\ DOMAIN R \subseteq Name
  BY DEF IsTame, IsTable
<1>2. PICK p : p = findParent(R, n)
  OBVIOUS
<1>3. Chain(R, p) = Above(R, n)
  <2>1. CASE Above(R, n) = {}
    BY <2>1, <1>1, <1>2, FindParent, ChainOf
  <2>2. CASE Above(R, n) # {}
    <3>1. IsNearest(p, Above(R, n))
      BY <2>2, <1>1, <1>2, FindParent
    <3>2. p \in DOMAIN R /\ p \in Prefixes[n] /\ Above(R, n) \ {p} \subseteq Prefixes[p]
      BY <3>1 DEF IsNearest, Above
    <3>3. Chain(R, p) = ({p} \cup Prefixes[p]) \cap DOMAIN R
      BY <3>2, <1>1, ChainOf
    <3>4. \A x \in Prefixes[p] : x \in Prefixes[n]
      BY <3>2, PrefixFacts
    <3>. QED
      BY <3>2, <3>3, <3>4 DEF Above
  <2>. QED
    BY <2>1, <2>2
<1>4. \A x \in Above(R, n) : ~hasCapture(R[x])
  BY DEF IsTame, hasCapture, Above
<1>5. Visible(R, p) = {x \in Chain(R, p) : \A y \in Chain(R, p) \ {x} : x \in Chain(R, y) => ~hasCapture(R[y])}
  BY DEF Visible
<1>. QED
  BY <1>2, <1>3, <1>4, <1>5

\* getAncestorRoutes has for each face the cost of the nearest ancestor that gives it.
LEMMA AncestorsOf ==
  ASSUME NEW R, IsTame(R), NEW n \in Name, NEW V, V = Offers(R)
  PROVE  AreAncestors(V, n, getAncestorRoutes(R, findParent(R, n)))
<1>1. IsTable(R) /\ Parented(R) /\ DOMAIN R \subseteq Name
  BY DEF IsTame, IsTable
<1>2. PICK p : p = findParent(R, n)
  OBVIOUS
<1>3. Visible(R, p) = Above(R, n)
  BY <1>2, AllVisible
<1>. DEFINE giver(f) == {x \in Visible(R, p) : hasChildInheritOnFaceId(R[x], f)}
            nearest(f) == CHOOSE x \in giver(f) : \A y \in giver(f) : y \in Chain(R, x)
            first(f) == R[nearest(f)].routes[Min(InheritOn(R[nearest(f)], f))]
<1>4. getAncestorRoutes(R, p) = [f \in {g \in Face : giver(g) # {}} |-> first(f).cost]
  BY DEF getAncestorRoutes
<1>5. /\ Offered(V) = DOMAIN R
      /\ \A x \in DOMAIN R : \A f : (hasChildInheritOnFaceId(R[x], f) <=> Gives(V, x, f))
      /\ \A v \in V : v.name \in DOMAIN R
      /\ \A v \in V : v.inherit =>
           \A i \in InheritOn(R[v.name], v.face) : R[v.name].routes[i].cost = v.cost
  BY TameOffers
<1>6. ASSUME NEW f PROVE giver(f) = {v.name : v \in GiversOf(V, n, f)}
  <2>1. giver(f) = {x \in Above(R, n) : Gives(V, x, f)}
    BY <1>3, <1>5 DEF Above
  <2>. HIDE DEF giver
  <2>2. ASSUME NEW x \in giver(f) PROVE \E v \in GiversOf(V, n, f) : v.name = x
    BY <2>1 DEF Above, Gives, GiversOf
  <2>3. ASSUME NEW v \in GiversOf(V, n, f) PROVE v.name \in giver(f)
    BY <2>1, <1>5 DEF Above, Gives, GiversOf
  <2>. QED
    BY <2>2, <2>3
<1>7. \A f : (giver(f) # {} <=> GiversOf(V, n, f) # {})
  <2>. HIDE DEF giver
  <2>. QED
    BY <1>6
<1>8. ASSUME NEW f, GiversOf(V, n, f) # {}
      PROVE  \E v \in V : IsGiver(V, n, f, v) /\ first(f).cost = v.cost
  <2>1. PICK A : A = giver(f)
    OBVIOUS
  <2>2. A = {v.name : v \in GiversOf(V, n, f)} /\ A # {} /\ A \subseteq Above(R, n)
    BY <2>1, <1>3, <1>6, <1>7, <1>8
  <2>3. PICK q \in A : IsNearest(q, A)
    <3>1. A \in SUBSET (Prefixes[n] \cup {n})
      BY <2>2 DEF Above
    <3>. QED
      BY <3>1, <2>2, NearestExists
  <2>4. \A y \in A : Chain(R, y) = ({y} \cup Prefixes[y]) \cap DOMAIN R
    BY <2>2, <1>1, ChainOf DEF Above
  <2>5. \A y \in A : y \in Chain(R, q)
    BY <2>2, <2>3, <2>4 DEF IsNearest, Above
  <2>6. nearest(f) \in A /\ \A y \in A : y \in Chain(R, nearest(f))
    BY <2>1, <2>3, <2>5
  <2>7. PICK x : x = nearest(f) /\ x \in A /\ \A y \in A : y \in Chain(R, x)
    BY <2>6
  <2>8. PICK v \in GiversOf(V, n, f) : v.name = x
    BY <2>2, <2>7
  <2>9. \A w \in GiversOf(V, n, f) : w.name \in Chain(R, x)
    BY <2>2, <2>7
  <2>10. IsGiver(V, n, f, v)
    BY <2>4, <2>7, <2>8, <2>9 DEF IsGiver
  <2>11. v \in V /\ v.face = f /\ v.inherit /\ x \in DOMAIN R
    BY <2>8, <1>5 DEF GiversOf
  <2>12. Gives(V, x, f)
    BY <2>8, <2>11 DEF Gives
  <2>13. InheritOn(R[x], f) # {}
    BY <2>11, <2>12, <1>5 DEF hasChildInheritOnFaceId
  <2>14. R[x].routes \in Seq(Route)
    BY <2>11, <1>1, EntryTyped
  <2>15. Min(InheritOn(R[x], f)) \in InheritOn(R[x], f)
    BY <2>13, <2>14, OnFaceFacts, MinOf
  <2>16. R[x].routes[Min(InheritOn(R[x], f))].cost = v.cost
    BY <2>8, <2>11, <2>15, <1>5
  <2>. QED
    BY <2>7, <2>10, <2>11, <2>16
<1>. HIDE DEF first, giver
<1>9. PICK A : A = getAncestorRoutes(R, p)
  OBVIOUS
<1>10. DOMAIN A = {f \in Face : giver(f) # {}} /\ \A f \in DOMAIN A : A[f] = first(f).cost
  BY <1>4, <1>9
<1>11. DOMAIN A = {f \in Face : GiversOf(V, n, f) # {}}
  BY <1>7, <1>10
<1>12. \A f \in DOMAIN A : \E v \in V : IsGiver(V, n, f, v) /\ A[f] = v.cost
  BY <1>8, <1>10, <1>11
<1>. QED
  BY <1>2, <1>9, <1>11, <1>12 DEF AreAncestors

----------------------------------------------------------------------------
(* Nexthops that offers call for *)

\* V and W differ in the offer of n on h only.
Reoffered(V, W, n, h) ==
  /\ V \subseteq OfferSet /\ W \subseteq OfferSet
  /\ \A v \in OfferSet : ~(v.name = n /\ v.face = h) => (v \in V <=> v \in W)

\* What does not change then.
LEMMA ReofferedSame ==
  ASSUME NEW V, NEW W, NEW n \in Name, NEW h, Reoffered(V, W, n, h)
  PROVE  /\ Reoffered(W, V, n, h)
         /\ \A d : d # n => (d \in Offered(V) <=> d \in Offered(W))
         /\ \A d, f : ~(d = n /\ f = h) => (Owns(V, d, f) <=> Owns(W, d, f)) /\ (Gives(V, d, f) <=> Gives(W, d, f))
         /\ \A f : GiversOf(V, n, f) = GiversOf(W, n, f)
         /\ \A d, f : f # h \/ n \notin Prefixes[d] => GiversOf(V, d, f) = GiversOf(W, d, f)
         /\ \A f : Open(V, n, f) = Open(W, n, f)
         /\ \A A : AreAncestors(V, n, A) => AreAncestors(W, n, A)
<1>1. Reoffered(W, V, n, h)
  BY DEF Reoffered
<1>2. \A d : d # n => (d \in Offered(V) <=> d \in Offered(W))
  BY DEF Reoffered, Offered
<1>3. \A d, f : ~(d = n /\ f = h) => (Owns(V, d, f) <=> Owns(W, d, f)) /\ (Gives(V, d, f) <=> Gives(W, d, f))
  BY DEF Reoffered, Owns, Gives
<1>4. ASSUME NEW d, NEW f, f # h \/ n \notin Prefixes[d] PROVE GiversOf(V, d, f) = GiversOf(W, d, f)
  BY <1>4 DEF Reoffered, GiversOf
<1>5. \A f : GiversOf(V, n, f) = GiversOf(W, n, f)
  BY <1>4, PrefixFacts
<1>6. ASSUME NEW f PROVE Open(V, n, f) = Open(W, n, f)
  <2>1. n \notin Prefixes[n]
    BY PrefixFacts
  <2>2. \A x : n \in Prefixes[x] => (x \in Offered(V) <=> x \in Offered(W)) /\ (Gives(V, x, f) <=> Gives(W, x, f))
    BY <2>1, <1>2, <1>3
  <2>. QED
    BY <2>2 DEF Open
<1>7. ASSUME NEW A, AreAncestors(V, n, A) PROVE AreAncestors(W, n, A)
  <2>1. DOMAIN A = {f \in Face : GiversOf(W, n, f) # {}}
    BY <1>5, <1>7 DEF AreAncestors
  <2>2. ASSUME NEW f \in DOMAIN A PROVE \E v \in W : IsGiver(W, n, f, v) /\ A[f] = v.cost
    <3>1. PICK v \in V : IsGiver(V, n, f, v) /\ A[f] = v.cost
      BY <1>7 DEF AreAncestors
    <3>2. v \in GiversOf(W, n, f) /\ IsGiver(W, n, f, v)
      BY <3>1, <1>5 DEF IsGiver
    <3>. QED
      BY <3>1, <3>2 DEF GiversOf
  <2>. QED
    BY <2>1, <2>2 DEF AreAncestors
<1>. QED
  BY <1>1, <1>2, <1>3, <1>4, <1>5, <1>6, <1>7

\* Where the name, its own offer and the givers stay, the nexthop stays.
LEMMA HopSame ==
  ASSUME NEW V, NEW W, NEW d, NEW f, NEW k, Hop(V, d, f, k),
         d \in Offered(V) <=> d \in Offered(W),
         \A v : v.name = d /\ v.face = f => (v \in V <=> v \in W),
         GiversOf(V, d, f) = GiversOf(W, d, f)
  PROVE  Hop(W, d, f, k)
<1>1. Owns(V, d, f) <=> Owns(W, d, f)
  BY DEF Owns
<1>2. \A v : IsGiver(V, d, f, v) => IsGiver(W, d, f, v) /\ v \in W
  BY DEF IsGiver, GiversOf
<1>. QED
  BY <1>1, <1>2 DEF Hop

\* Names that are not below n, and other faces, see nothing of a change of n on h.
LEMMA HopAside ==
  ASSUME NEW V, NEW W, NEW n \in Name, NEW h, Reoffered(V, W, n, h),
         NEW d, NEW f, d # n, f # h \/ n \notin Prefixes[d]
  PROVE  /\ \A k : Hop(V, d, f, k) => Hop(W, d, f, k)
         /\ Inherits(W, d, f) => Inherits(V, d, f)
<1>1. /\ d \in Offered(V) <=> d \in Offered(W)
      /\ Owns(V, d, f) <=> Owns(W, d, f)
      /\ GiversOf(V, d, f) = GiversOf(W, d, f)
  BY ReofferedSame
<1>2. \A v : v.name = d /\ v.face = f => (v \in V <=> v \in W)
  BY DEF Reoffered
<1>. QED
  BY <1>1, <1>2, HopSame DEF Inherits

\* Neither do names below that are not open or have a route of their own.
LEMMA HopShielded ==
  ASSUME NEW V, NEW W, NEW n \in Name, NEW h, Reoffered(V, W, n, h),
         NEW d \in Name, n \in Prefixes[d], d \notin Open(V, n, h) \/ Owns(V, d, h)
  PROVE  /\ \A k : Hop(V, d, h, k) => Hop(W, d, h, k)
         /\ Inherits(W, d, h) => Inherits(V, d, h)
<1>1. d # n
  BY PrefixFacts
<1>2. /\ d \in Offered(V) <=> d \in Offered(W)
      /\ Owns(V, d, h) <=> Owns(W, d, h)
  BY <1>1, ReofferedSame
<1>3. \A v : v.name = d /\ v.face = h => (v \in V <=> v \in W)
  BY <1>1 DEF Reoffered
<1>4. CASE d \notin Offered(V)
  BY <1>2, <1>3, <1>4 DEF Hop, Inherits, Offered
<1>5. CASE Owns(V, d, h)
  BY <1>2, <1>3, <1>5 DEF Hop, Inherits, Owns, Offered
<1>6. CASE d \in Offered(V) /\ ~Owns(V, d, h)
  <2>1. PICK x \in Offered(V) : n \in Prefixes[x] /\ (x = d \/ x \in Prefixes[d]) /\ Gives(V, x, h)
    BY <1>6 DEF Open
  <2>2. PICK w \in V : w.name = x /\ w.face = h /\ w.inherit
    BY <2>1 DEF Gives
  <2>3. x \in Prefixes[d] /\ x \in Name /\ x # n
    BY <2>1, <2>2, <1>6, PrefixFacts DEF Owns
  <2>4. w \in W /\ w \in GiversOf(V, d, h) /\ w \in GiversOf(W, d, h)
    BY <2>2, <2>3 DEF Reoffered, GiversOf
  <2>5. ASSUME NEW v, IsGiver(V, d, h, v) PROVE IsGiver(W, d, h, v) /\ v \in W
    <3>1. v \in V /\ v.name \in Prefixes[d] /\ v.face = h /\ v.inherit /\ (x = v.name \/ x \in Prefixes[v.name])
      BY <2>2, <2>4, <2>5 DEF IsGiver, GiversOf
    <3>2. v.name \in Name /\ n \in Prefixes[v.name] /\ v.name # n
      BY <3>1, <2>1, PrefixFacts
    <3>3. v \in W /\ v \in GiversOf(W, d, h)
      BY <3>1, <3>2 DEF Reoffered, GiversOf
    <3>4. ASSUME NEW u \in GiversOf(W, d, h) PROVE u.name = v.name \/ u.name \in Prefixes[v.name]
      <4>1. CASE u.name = n
        BY <4>1, <3>2
      <4>2. CASE u.name # n
        <5>1. u \in GiversOf(V, d, h)
          BY <4>2, <3>4 DEF Reoffered, GiversOf
        <5>. QED
          BY <5>1, <2>5 DEF IsGiver
      <4>. QED
        BY <4>1, <4>2
    <3>. QED
      BY <3>3, <3>4 DEF IsGiver
  <2>6. GiversOf(V, d, h) # {} /\ GiversOf(W, d, h) # {}
    BY <2>4
  <2>7. \A k : Hop(V, d, h, k) => Hop(W, d, h, k)
    <3>. SUFFICES ASSUME NEW k, Hop(V, d, h, k) PROVE Hop(W, d, h, k)
      OBVIOUS
    <3>1. PICK v \in V : IsGiver(V, d, h, v) /\ k = v.cost
      BY <2>6, <1>6 DEF Hop, Owns
    <3>2. IsGiver(W, d, h, v) /\ v \in W
      BY <3>1, <2>5
    <3>. QED
      BY <3>1, <3>2, <1>2, <1>6 DEF Hop
  <2>. QED
    BY <2>6, <2>7, <1>6 DEF Inherits
<1>. QED
  BY <1>4, <1>5, <1>6

\* An open name without a route of its own inherits what n gives,
LEMMA HopFromName ==
  ASSUME NEW W, NEW n \in Name, NEW f, NEW d \in Name, d \in Open(W, n, f), ~Owns(W, d, f),
         NEW o \in W, o.name = n, o.face = f, o.inherit
  PROVE  Hop(W, d, f, o.cost)
<1>1. d \in Offered(W) /\ n \in Prefixes[d] /\ o \in GiversOf(W, d, f)
  BY DEF Open, GiversOf
<1>2. ASSUME NEW w \in GiversOf(W, d, f) PROVE w.name = n \/ w.name \in Prefixes[n]
  <2>1. w \in W /\ w.name \in Prefixes[d] /\ w.face = f /\ w.inherit
    BY <1>2 DEF GiversOf
  <2>2. n \notin Prefixes[w.name]
    BY <2>1 DEF Open, Gives, Offered
  <2>. QED
    BY <2>1, <2>2, <1>1, PrefixFacts
<1>3. IsGiver(W, d, f, o)
  BY <1>1, <1>2 DEF IsGiver
<1>. QED
  BY <1>1, <1>3 DEF Hop

\* and if n gives nothing, what the ancestors of n give.
LEMMA HopFromAncestors ==
  ASSUME NEW W, NEW n \in Name, NEW f \in Face, NEW d \in Name, d \in Open(W, n, f), ~Owns(W, d, f),
         ~Gives(W, n, f), NEW A, AreAncestors(W, n, A)
  PROVE  /\ f \in DOMAIN A => Hop(W, d, f, A[f])
         /\ f \notin DOMAIN A => Hop(W, d, f, NoCost) /\ ~Inherits(W, d, f)
<1>1. d \in Offered(W) /\ n \in Prefixes[d]
  BY DEF Open
<1>2. ASSUME NEW w \in GiversOf(W, d, f) PROVE w \in GiversOf(W, n, f)
  <2>1. w \in W /\ w.name \in Prefixes[d] /\ w.face = f /\ w.inherit
    BY <1>2 DEF GiversOf
  <2>2. n \notin Prefixes[w.name] /\ w.name # n
    BY <2>1 DEF Open, Gives, Offered
  <2>3. w.name \in Prefixes[n]
    BY <2>1, <2>2, <1>1, PrefixFacts
  <2>. QED
    BY <2>1, <2>3 DEF GiversOf
<1>3. ASSUME NEW w \in GiversOf(W, n, f) PROVE w \in GiversOf(W, d, f)
  BY <1>1, PrefixFacts DEF GiversOf
<1>4. GiversOf(W, d, f) = GiversOf(W, n, f)
  BY <1>2, <1>3
<1>5. ASSUME f \in DOMAIN A PROVE Hop(W, d, f, A[f])
  <2>1. PICK v \in W : IsGiver(W, n, f, v) /\ A[f] = v.cost
    BY <1>5 DEF AreAncestors
  <2>2. IsGiver(W, d, f, v)
    BY <2>1, <1>4 DEF IsGiver
  <2>. QED
    BY <2>1, <2>2, <1>1 DEF Hop
<1>6. ASSUME f \notin DOMAIN A PROVE Hop(W, d, f, NoCost) /\ ~Inherits(W, d, f)
  <2>1. GiversOf(W, d, f) = {}
    BY <1>4, <1>6 DEF AreAncestors
  <2>. QED
    BY <2>1 DEF Hop, Inherits
<1>. QED
  BY <1>5, <1>6

\* The same for the name itself.
LEMMA HopOfName ==
  ASSUME NEW W, NEW n \in Name, NEW f \in Face, n \in Offered(W), ~Owns(W, n, f), NEW A, AreAncestors(W, n, A)
  PROVE  /\ f \in DOMAIN A => Hop(W, n, f, A[f])
         /\ f \notin DOMAIN A => Hop(W, n, f, NoCost) /\ ~Inherits(W, n, f)
<1>1. ASSUME f \in DOMAIN A PROVE Hop(W, n, f, A[f])
  BY <1>1 DEF Hop, AreAncestors
<1>2. ASSUME f \notin DOMAIN A PROVE Hop(W, n, f, NoCost) /\ ~Inherits(W, n, f)
  BY <1>2 DEF Hop, Inherits, AreAncestors
<1>. QED
  BY <1>1, <1>2

----------------------------------------------------------------------------
(* What a change says about a name and a face *)

ValueOf(u) == IF u.action = "add" THEN u.cost ELSE NoCost

\* The nexthop that the change sets, and whether it marks the face as inherited: at most
\* one each.
FibAt(c, d, f) == IF <<d, f>> \in DOMAIN c.fib THEN {ValueOf(c.fib[<<d, f>>])} ELSE {}
MarkAt(c, d, f) == IF <<d, f>> \in DOMAIN c.inherited THEN {c.inherited[<<d, f>>]} ELSE {}

\* The later change counts.
Over(S, T) == IF T # {} THEN T ELSE S

\* A change and then another, by name and face.
LEMMA ThenAt ==
  ASSUME NEW a, NEW b, NEW d, NEW f
  PROVE  /\ FibAt(Then(a, b), d, f) = Over(FibAt(a, d, f), FibAt(b, d, f))
         /\ MarkAt(Then(a, b), d, f) = Over(MarkAt(a, d, f), MarkAt(b, d, f))
<1>1. PICK x : x = <<d, f>>
  OBVIOUS
<1>2. PICK c : c = Then(a, b)
  OBVIOUS
<1>3. c.fib = Override(a.fib, b.fib) /\ c.inherited = Override(a.inherited, b.inherited)
  BY <1>2 DEF Then
<1>4. ASSUME NEW g, NEW h, NEW k, k = Override(g, h)
      PROVE  /\ x \in DOMAIN k <=> x \in DOMAIN g \/ x \in DOMAIN h
             /\ x \in DOMAIN h => k[x] = h[x]
             /\ x \in DOMAIN g /\ x \notin DOMAIN h => k[x] = g[x]
  BY <1>4 DEF Override
<1>5. /\ x \in DOMAIN c.fib <=> x \in DOMAIN a.fib \/ x \in DOMAIN b.fib
      /\ x \in DOMAIN b.fib => c.fib[x] = b.fib[x]
      /\ x \in DOMAIN a.fib /\ x \notin DOMAIN b.fib => c.fib[x] = a.fib[x]
  BY <1>3, <1>4
<1>6. /\ x \in DOMAIN c.inherited <=> x \in DOMAIN a.inherited \/ x \in DOMAIN b.inherited
      /\ x \in DOMAIN b.inherited => c.inherited[x] = b.inherited[x]
      /\ x \in DOMAIN a.inherited /\ x \notin DOMAIN b.inherited => c.inherited[x] = a.inherited[x]
  BY <1>3, <1>4
<1>7. FibAt(c, d, f) = Over(FibAt(a, d, f), FibAt(b, d, f))
  BY <1>1, <1>5 DEF FibAt, Over
<1>8. MarkAt(c, d, f) = Over(MarkAt(a, d, f), MarkAt(b, d, f))
  BY <1>1, <1>6 DEF MarkAt, Over
<1>. QED
  BY <1>2, <1>7, <1>8

\* Three changes in a row.
InTurn(x, y, z, c, d, f) ==
  /\ FibAt(c, d, f) = Over(Over(FibAt(x, d, f), FibAt(y, d, f)), FibAt(z, d, f))
  /\ MarkAt(c, d, f) = Over(Over(MarkAt(x, d, f), MarkAt(y, d, f)), MarkAt(z, d, f))

\* The latest of three changes counts.
LEMMA ThenThenAt ==
  ASSUME NEW x, NEW y, NEW z, NEW c, c = Then(Then(x, y), z), NEW d, NEW f
  PROVE  InTurn(x, y, z, c, d, f)
<1>1. PICK a : a = Then(x, y)
  OBVIOUS
<1>2. /\ FibAt(a, d, f) = Over(FibAt(x, d, f), FibAt(y, d, f))
      /\ MarkAt(a, d, f) = Over(MarkAt(x, d, f), MarkAt(y, d, f))
  BY <1>1, ThenAt
<1>3. /\ FibAt(c, d, f) = Over(FibAt(a, d, f), FibAt(z, d, f))
      /\ MarkAt(c, d, f) = Over(MarkAt(a, d, f), MarkAt(z, d, f))
  BY <1>1, ThenAt
<1>. QED
  BY <1>2, <1>3 DEF InTurn

\* No change says nothing.
LEMMA NoChangeAt ==
  ASSUME NEW d, NEW f
  PROVE  FibAt(NoChange, d, f) = {} /\ MarkAt(NoChange, d, f) = {}
  BY DEF FibAt, MarkAt, NoChange, NoRoutes

\* One FIB update.
LEMMA FibOneAt ==
  ASSUME NEW n, NEW h, NEW u, NEW d, NEW f
  PROVE  /\ FibAt(Fib(n, h, u), d, f) = IF d = n /\ f = h THEN {ValueOf(u)} ELSE {}
         /\ MarkAt(Fib(n, h, u), d, f) = {}
<1>1. Fib(n, h, u).fib = [x \in {<<n, h>>} |-> u] /\ Fib(n, h, u).inherited = NoRoutes
  BY DEF Fib
<1>2. DOMAIN NoRoutes = {}
  BY DEF NoRoutes
<1>. QED
  BY <1>1, <1>2 DEF FibAt, MarkAt

\* Adding and removing.
LEMMA ValueOfUpdates ==
  /\ \A k : ValueOf(AddNextHop(k)) = k
  /\ ValueOf(RemoveNextHop) = NoCost
  BY DEF ValueOf, AddNextHop, RemoveNextHop

\* Inherited routes for a set of pairs.
LEMMA InheritAt ==
  ASSUME NEW P, NEW g, NEW d, NEW f
  PROVE  /\ FibAt(Inherit(P, g), d, f) = IF <<d, f>> \in P THEN {g[f]} ELSE {}
         /\ MarkAt(Inherit(P, g), d, f) = IF <<d, f>> \in P THEN {TRUE} ELSE {}
<1>1. /\ Inherit(P, g).fib = [x \in P |-> AddNextHop(g[x[2]])]
      /\ Inherit(P, g).inherited = [x \in P |-> TRUE]
  BY DEF Inherit
<1>2. <<d, f>> \in P => /\ Inherit(P, g).fib[<<d, f>>] = AddNextHop(g[f])
                        /\ Inherit(P, g).inherited[<<d, f>>] = TRUE
  BY <1>1
<1>3. DOMAIN Inherit(P, g).fib = P /\ DOMAIN Inherit(P, g).inherited = P
  BY <1>1
<1>. QED
  BY <1>2, <1>3, ValueOfUpdates DEF FibAt, MarkAt

\* And their end.
LEMMA DisinheritAt ==
  ASSUME NEW P, NEW d, NEW f
  PROVE  /\ FibAt(Disinherit(P), d, f) = IF <<d, f>> \in P THEN {NoCost} ELSE {}
         /\ MarkAt(Disinherit(P), d, f) = IF <<d, f>> \in P THEN {FALSE} ELSE {}
<1>1. /\ Disinherit(P).fib = [x \in P |-> RemoveNextHop]
      /\ Disinherit(P).inherited = [x \in P |-> FALSE]
  BY DEF Disinherit
<1>2. <<d, f>> \in P => Disinherit(P).fib[<<d, f>>] = RemoveNextHop /\ Disinherit(P).inherited[<<d, f>>] = FALSE
  BY <1>1
<1>3. DOMAIN Disinherit(P).fib = P /\ DOMAIN Disinherit(P).inherited = P
  BY <1>1
<1>. QED
  BY <1>2, <1>3, ValueOfUpdates DEF FibAt, MarkAt

\* A visit of the subtrees adds an inherited route to an open name without one of its
\* own, and removes one from an open name that has it marked.
GetsRoute(V, n, toAdd, d, f) == d \in Open(V, n, f) /\ f \in DOMAIN toAdd /\ ~Owns(V, d, f)
LosesRoute(R, V, n, toRemove, d, f) == d \in Open(V, n, f) /\ f \in DOMAIN toRemove /\ f \in R[d].inherited

\* What c says about d and f is what such a visit says, with g to add and h to remove.
Visits(R, V, n, g, h, c, d, f) ==
  /\ FibAt(c, d, f) = IF GetsRoute(V, n, g, d, f) THEN {g[f]}
                      ELSE IF LosesRoute(R, V, n, h, d, f) THEN {NoCost} ELSE {}
  /\ MarkAt(c, d, f) = IF GetsRoute(V, n, g, d, f) THEN {TRUE}
                       ELSE IF LosesRoute(R, V, n, h, d, f) THEN {FALSE} ELSE {}

\* modifyChildrensInheritedRoutes by name and face.
LEMMA ModifyAt ==
  ASSUME NEW R, IsTame(R), NEW n \in Name, NEW V, V = Offers(R), NEW g, NEW h, NEW d, NEW f,
         NEW c, c = modifyChildrensInheritedRoutes(R, Kids(R, n), g, h)
  PROVE  Visits(R, V, n, g, h, c, d, f)
<1>. DEFINE K == Kids(R, n)
            P == {x \in (DOMAIN R) \X (DOMAIN h) :
                     x[1] \in Reached(R, K, x[2]) /\ x[2] \in R[x[1]].inherited}
            Q == {x \in (DOMAIN R) \X (DOMAIN g) :
                     x[1] \in Reached(R, K, x[2]) /\ ~hasFaceId(R[x[1]], x[2])}
<1>1. c = Then(Disinherit(P), Inherit(Q, g))
  BY DEF modifyChildrensInheritedRoutes
<1>2. Reached(R, K, f) = Open(V, n, f)
  BY ReachedIsOpen
<1>3. /\ Offered(V) = DOMAIN R
      /\ \A x \in DOMAIN R : (hasFaceId(R[x], f) <=> Owns(V, x, f))
  BY TameOffers
<1>4. Open(V, n, f) \subseteq DOMAIN R
  BY <1>3 DEF Open
<1>. HIDE DEF K
<1>5. <<d, f>> \in P <=> LosesRoute(R, V, n, h, d, f)
  <2>0. PICK x : x = <<d, f>>
    OBVIOUS
  <2>1. x = <<d, f>> /\ x[1] = d /\ x[2] = f
    BY <2>0
  <2>2. x \in (DOMAIN R) \X (DOMAIN h) <=> d \in DOMAIN R /\ f \in DOMAIN h
    BY <2>1
  <2>3. x \in P <=> d \in DOMAIN R /\ f \in DOMAIN h /\ d \in Reached(R, K, f) /\ f \in R[d].inherited
    BY <2>1, <2>2
  <2>. QED
    BY <2>1, <2>3, <1>2, <1>4 DEF LosesRoute
<1>6. <<d, f>> \in Q <=> GetsRoute(V, n, g, d, f)
  <2>0. PICK x : x = <<d, f>>
    OBVIOUS
  <2>1. x = <<d, f>> /\ x[1] = d /\ x[2] = f
    BY <2>0
  <2>2. x \in (DOMAIN R) \X (DOMAIN g) <=> d \in DOMAIN R /\ f \in DOMAIN g
    BY <2>1
  <2>3. x \in Q <=> d \in DOMAIN R /\ f \in DOMAIN g /\ d \in Reached(R, K, f) /\ ~hasFaceId(R[d], f)
    BY <2>1, <2>2
  <2>. QED
    BY <2>1, <2>3, <1>2, <1>3, <1>4 DEF GetsRoute
<1>. HIDE DEF P, Q
<1>7. PICK a, b : a = Disinherit(P) /\ b = Inherit(Q, g)
  OBVIOUS
<1>8. /\ FibAt(a, d, f) = IF LosesRoute(R, V, n, h, d, f) THEN {NoCost} ELSE {}
      /\ MarkAt(a, d, f) = IF LosesRoute(R, V, n, h, d, f) THEN {FALSE} ELSE {}
  BY <1>5, <1>7, DisinheritAt
<1>9. /\ FibAt(b, d, f) = IF GetsRoute(V, n, g, d, f) THEN {g[f]} ELSE {}
      /\ MarkAt(b, d, f) = IF GetsRoute(V, n, g, d, f) THEN {TRUE} ELSE {}
  BY <1>6, <1>7, InheritAt
<1>10. /\ FibAt(c, d, f) = Over(FibAt(a, d, f), FibAt(b, d, f))
       /\ MarkAt(c, d, f) = Over(MarkAt(a, d, f), MarkAt(b, d, f))
  BY <1>1, <1>7, ThenAt
<1>. QED
  BY <1>8, <1>9, <1>10 DEF Over, Visits

----------------------------------------------------------------------------
(* What a change has to say *)

\* The nexthop stays, and nothing is inherited that was not.
Kept(V, W, d, f) ==
  /\ \A k : Hop(V, d, f, k) => Hop(W, d, f, k)
  /\ Inherits(W, d, f) => Inherits(V, d, f)

\* m_inheritedRoutes of n has the face when the edits I are made.
Marked(R, I, n, f) ==
  IF <<n, f>> \in DOMAIN I THEN I[<<n, f>>] ELSE n \in DOMAIN R /\ f \in R[n].inherited
MarksRight(R, V, I) == \A n \in Name, f \in Face : Inherits(V, n, f) => Marked(R, I, n, f)

\* The change is right about the name and the face when the offers become W: it sets the
\* nexthop they call for, or sets none and the nexthop stays right; and what is inherited
\* then is marked.  It is about n and what is open below it.
DeltaAt(R, V, W, n, c, d, f) ==
  /\ FibAt(c, d, f) # {} => d = n \/ d \in Open(V, n, f)
  /\ \A k \in FibAt(c, d, f) : Hop(W, d, f, k)
  /\ FibAt(c, d, f) = {} => \A k : Hop(V, d, f, k) => Hop(W, d, f, k)
  /\ Inherits(W, d, f) => \/ TRUE \in MarkAt(c, d, f)
                          \/ MarkAt(c, d, f) = {} /\ d \in DOMAIN R /\ f \in R[d].inherited

\* Without edits the marks are those of the table.
LEMMA MarksOfTable ==
  ASSUME NEW R, NEW V, MarksRight(R, V, NoRoutes), NEW d \in Name, NEW f \in Face, Inherits(V, d, f)
  PROVE  d \in DOMAIN R /\ f \in R[d].inherited
<1>1. DOMAIN NoRoutes = {}
  BY DEF NoRoutes
<1>. QED
  BY <1>1 DEF MarksRight, Marked

\* A change that says nothing about a name and a face that keep what they have.
LEMMA DeltaKept ==
  ASSUME NEW R, NEW V, MarksRight(R, V, NoRoutes), NEW W, NEW n, NEW c, NEW d \in Name, NEW f \in Face,
         FibAt(c, d, f) = {}, MarkAt(c, d, f) = {}, Kept(V, W, d, f)
  PROVE  DeltaAt(R, V, W, n, c, d, f)
<1>1. Inherits(W, d, f) => d \in DOMAIN R /\ f \in R[d].inherited
  BY MarksOfTable DEF Kept
<1>. QED
  BY <1>1 DEF DeltaAt, Kept

\* A change that sets the nexthop, and marks it if it is inherited.
LEMMA DeltaSet ==
  ASSUME NEW R, NEW V, NEW W, NEW n, NEW c, NEW d, NEW f, NEW k, FibAt(c, d, f) = {k}, Hop(W, d, f, k),
         MarkAt(c, d, f) = {TRUE} \/ ~Inherits(W, d, f), d = n \/ d \in Open(V, n, f)
  PROVE  DeltaAt(R, V, W, n, c, d, f)
  BY DEF DeltaAt

\* A nexthop of a name's own offer is not inherited.
LEMMA HopOwn ==
  ASSUME NEW W, NEW o \in W
  PROVE  Hop(W, o.name, o.face, o.cost) /\ ~Inherits(W, o.name, o.face)
  BY DEF Hop, Inherits, Owns

\* On its other faces the name keeps what it has as long as it has offers.
LEMMA KeptAtName ==
  ASSUME NEW V, NEW W, NEW n \in Name, NEW h, Reoffered(V, W, n, h), NEW f, f # h,
         n \in Offered(V) <=> n \in Offered(W)
  PROVE  Kept(V, W, n, f)
<1>1. /\ Owns(V, n, f) <=> Owns(W, n, f)
      /\ GiversOf(V, n, f) = GiversOf(W, n, f)
  BY ReofferedSame
<1>2. \A v : v.name = n /\ v.face = f => (v \in V <=> v \in W)
  BY DEF Reoffered
<1>. QED
  BY <1>1, <1>2, HopSame DEF Inherits, Kept

\* Other names keep what they have, unless they are open to what n gives on h.
LEMMA KeptUnlessOpen ==
  ASSUME NEW V, NEW W, NEW n \in Name, NEW h, Reoffered(V, W, n, h), NEW d \in Name, d # n, NEW f,
         ~(f = h /\ d \in Open(V, n, h) /\ ~Owns(V, d, h))
  PROVE  Kept(V, W, d, f)
<1>1. CASE f # h \/ n \notin Prefixes[d]
  BY <1>1, HopAside DEF Kept
<1>2. CASE f = h /\ n \in Prefixes[d]
  BY <1>2, HopShielded DEF Kept
<1>. QED
  BY <1>1, <1>2

\* Neither do other names notice an offer that gives nothing.
LEMMA KeptNotGiven ==
  ASSUME NEW V, NEW W, NEW n \in Name, NEW h, Reoffered(V, W, n, h), NEW d \in Name, d # n, NEW f,
         ~Gives(V, n, h), ~Gives(W, n, h)
  PROVE  Kept(V, W, d, f)
<1>1. /\ d \in Offered(V) <=> d \in Offered(W)
      /\ Owns(V, d, f) <=> Owns(W, d, f)
  BY ReofferedSame
<1>2. GiversOf(V, d, f) = GiversOf(W, d, f)
  BY DEF GiversOf, Gives, Reoffered
<1>3. \A v : v.name = d /\ v.face = f => (v \in V <=> v \in W)
  BY DEF Reoffered
<1>. QED
  BY <1>1, <1>2, <1>3, HopSame DEF Inherits, Kept

\* V is about n on h what W is: nothing changes.
LEMMA KeptSame ==
  ASSUME NEW V, NEW d, NEW f
  PROVE  Kept(V, V, d, f)
  BY DEF Kept

----------------------------------------------------------------------------
(* createFibUpdatesFor..., for one name and one face *)

\* V becomes W because route r is registered at n, its offer is o.
Registers(V, W, n, r, o) ==
  /\ Reoffered(V, W, n, r.face)
  /\ o \in W /\ o.name = n /\ o.face = r.face /\ o.cost = r.cost /\ o.inherit = r.inherit
  /\ \A v \in W : v.name = n /\ v.face = r.face => v = o

\* V becomes W because n has no route on h any more.
Unregisters(V, W, n, h) == Reoffered(V, W, n, h) /\ ~Owns(W, n, h)

\* A visit of the subtrees says nothing about the name itself.
LEMMA NotItsOwnChild ==
  ASSUME NEW V, NEW n \in Name, NEW f
  PROVE  n \notin Open(V, n, f)
  BY PrefixFacts DEF Open

\* A visit of the subtrees does not change the name itself.
LEMMA VisitNotOfName ==
  ASSUME NEW R, IsTame(R), NEW n \in Name, NEW g, NEW k, NEW f,
         NEW c, c = modifyChildrensInheritedRoutes(R, Kids(R, n), g, k)
  PROVE  FibAt(c, n, f) = {} /\ MarkAt(c, n, f) = {}
<1>1. PICK V : V = Offers(R)
  OBVIOUS
<1>2. n \notin Open(V, n, f)
  BY NotItsOwnChild
<1>3. ~GetsRoute(V, n, g, n, f) /\ ~LosesRoute(R, V, n, k, n, f)
  BY <1>2 DEF GetsRoute, LosesRoute
<1>4. Visits(R, V, n, g, k, c, n, f)
  BY <1>1, ModifyAt
<1>. QED
  BY <1>3, <1>4 DEF Visits

\* g has what the children are to get: what the name gives, and on other faces what its
\* ancestors give.
ToGive(V, n, r, A, g) ==
  /\ DOMAIN g \subseteq Face
  /\ r.inherit => r.face \in DOMAIN g /\ g[r.face] = r.cost
  /\ ~r.inherit => DOMAIN g = {} /\ ~Gives(V, n, r.face)
  /\ \A x \in DOMAIN g : x # r.face => x \in DOMAIN A /\ g[x] = A[x] /\ ~Gives(V, n, x)

\* A visit that adds what the name gives.
LEMMA DeltaGiven ==
  ASSUME NEW R, IsTame(R), NEW n \in Name, NEW V, V = Offers(R), MarksRight(R, V, NoRoutes),
         NEW W, NEW r, NEW o, Registers(V, W, n, r, o), NEW d \in Name, NEW f \in Face, d # n,
         NEW A, AreAncestors(V, n, A), NEW g, ToGive(V, n, r, A, g),
         NEW k, DOMAIN k = {}, NEW c, c = modifyChildrensInheritedRoutes(R, Kids(R, n), g, k)
  PROVE  DeltaAt(R, V, W, n, c, d, f)
<1>1. PICK h : h = r.face
  OBVIOUS
<1>2. /\ Reoffered(V, W, n, h) /\ o \in W /\ o.name = n /\ o.face = h /\ o.cost = r.cost /\ o.inherit = r.inherit
      /\ \A v \in W : v.name = n /\ v.face = h => v = o
  BY <1>1 DEF Registers
<1>3. ~LosesRoute(R, V, n, k, d, f)
  BY DEF LosesRoute
<1>4. /\ FibAt(c, d, f) = IF GetsRoute(V, n, g, d, f) THEN {g[f]} ELSE {}
      /\ MarkAt(c, d, f) = IF GetsRoute(V, n, g, d, f) THEN {TRUE} ELSE {}
  <2>1. Visits(R, V, n, g, k, c, d, f)
    BY ModifyAt
  <2>. QED
    BY <2>1, <1>3 DEF Visits
<1>5. /\ Open(V, n, f) = Open(W, n, f) /\ AreAncestors(W, n, A)
      /\ Owns(V, d, f) <=> Owns(W, d, f)
      /\ f # h => (Gives(V, n, f) <=> Gives(W, n, f))
  <2>1. Reoffered(V, W, n, h)
    BY <1>2
  <2>2. Open(V, n, f) = Open(W, n, f) /\ AreAncestors(W, n, A)
    BY <2>1, ReofferedSame
  <2>3. \A x, y : ~(x = n /\ y = h) => (Owns(V, x, y) <=> Owns(W, x, y)) /\ (Gives(V, x, y) <=> Gives(W, x, y))
    BY <2>1, ReofferedSame
  <2>. QED
    BY <2>2, <2>3
<1>6. CASE GetsRoute(V, n, g, d, f)
  <2>1. d \in Open(W, n, f) /\ f \in DOMAIN g /\ ~Owns(W, d, f)
    BY <1>5, <1>6 DEF GetsRoute
  <2>2. Hop(W, d, f, g[f])
    <3>1. CASE f = h
      <4>1. r.inherit /\ g[f] = o.cost
        BY <3>1, <2>1, <1>1, <1>2 DEF ToGive
      <4>. QED
        BY <3>1, <4>1, <2>1, <1>2, HopFromName
    <3>2. CASE f # h
      <4>1. f \in DOMAIN A /\ g[f] = A[f] /\ ~Gives(W, n, f)
        BY <3>2, <2>1, <1>1, <1>5 DEF ToGive
      <4>. QED
        BY <4>1, <2>1, <1>5, HopFromAncestors
    <3>. QED
      BY <3>1, <3>2
  <2>. QED
    BY <2>1, <2>2, <1>4, <1>5, <1>6, DeltaSet
<1>7. CASE ~GetsRoute(V, n, g, d, f)
  <2>1. Kept(V, W, d, f)
    <3>1. CASE r.inherit
      BY <3>1, <1>1, <1>2, <1>7, KeptUnlessOpen DEF GetsRoute, ToGive
    <3>2. CASE ~r.inherit
      <4>1. ~Gives(V, n, h) /\ ~Gives(W, n, h)
        BY <3>2, <1>1, <1>2 DEF Gives, ToGive
      <4>. QED
        BY <4>1, <1>2, KeptNotGiven
    <3>. QED
      BY <3>1, <3>2
  <2>. QED
    BY <2>1, <1>4, <1>7, DeltaKept
<1>. QED
  BY <1>6, <1>7

\* A change that says the same as another one.
LEMMA DeltaAlike ==
  ASSUME NEW R, NEW V, NEW W, NEW n, NEW a, NEW c, NEW d, NEW f, DeltaAt(R, V, W, n, a, d, f),
         FibAt(c, d, f) = FibAt(a, d, f), MarkAt(c, d, f) = MarkAt(a, d, f)
  PROVE  DeltaAt(R, V, W, n, c, d, f)
  BY DEF DeltaAt

\* Without updates for the name itself only the rest counts.
LEMMA OverNothing ==
  ASSUME NEW S
  PROVE  Over(S, {}) = S /\ Over({}, S) = S
  BY DEF Over

\* Pairs of one name.
LEMMA PairOf ==
  ASSUME NEW n, NEW F, NEW d, NEW f
  PROVE  <<d, f>> \in {<<n, x>> : x \in F} <=> d = n /\ f \in F
<1>1. ASSUME <<d, f>> \in {<<n, x>> : x \in F} PROVE d = n /\ f \in F
  <2>1. PICK x \in F : <<d, f>> = <<n, x>>
    BY <1>1
  <2>. QED
    BY <2>1
<1>. QED
  BY <1>1

\* A route at a name that had no entry.
LEMMA DeltaNewEntry ==
  ASSUME NEW R, IsTame(R), NEW n \in Name, n \notin DOMAIN R, NEW V, V = Offers(R), MarksRight(R, V, NoRoutes),
         NEW r \in Route, ~r.capture, NEW W, NEW o, Registers(V, W, n, r, o),
         NEW c, c = createFibUpdatesForNewRibEntry(R, n, r), NEW d \in Name, NEW f \in Face
  PROVE  DeltaAt(R, V, W, n, c, d, f)
<1>1. PICK p, A, K : /\ p = findParent(R, n) /\ A = getAncestorRoutes(R, p)
                     /\ K = {x \in DOMAIN R : n \in Prefixes[x] /\ R[x].parent = p}
  OBVIOUS
<1>2. K = Kids(R, n)
  BY <1>1, NewChildrenAreKids DEF IsTame
<1>3. AreAncestors(V, n, A)
  BY <1>1, AncestorsOf
<1>4. PICK h, P, g, s, a, m : /\ h = r.face
                              /\ P = {<<n, x>> : x \in DOMAIN A \ {h}}
                              /\ g = (IF ~r.inherit THEN NoRoutes ELSE Override(A, Self(r)))
                              /\ s = Inherit(P, A) /\ a = Fib(n, h, AddNextHop(r.cost))
                              /\ m = modifyChildrensInheritedRoutes(R, K, g, NoRoutes)
  OBVIOUS
<1>5. c = Then(Then(s, a), m)
  BY <1>1, <1>4 DEF createFibUpdatesForNewRibEntry
<1>6. /\ FibAt(c, d, f) = Over(Over(FibAt(s, d, f), FibAt(a, d, f)), FibAt(m, d, f))
      /\ MarkAt(c, d, f) = Over(Over(MarkAt(s, d, f), MarkAt(a, d, f)), MarkAt(m, d, f))
  BY <1>5, ThenThenAt DEF InTurn
<1>7. /\ FibAt(a, d, f) = IF d = n /\ f = h THEN {r.cost} ELSE {}
      /\ MarkAt(a, d, f) = {}
  BY <1>4, FibOneAt, ValueOfUpdates
<1>8. <<d, f>> \in P <=> d = n /\ f \in DOMAIN A \ {h}
  BY <1>4, PairOf
<1>9. /\ FibAt(s, d, f) = IF d = n /\ f \in DOMAIN A \ {h} THEN {A[f]} ELSE {}
      /\ MarkAt(s, d, f) = IF d = n /\ f \in DOMAIN A \ {h} THEN {TRUE} ELSE {}
  BY <1>4, <1>8, InheritAt
<1>10. DOMAIN A \subseteq Face /\ h \in Face
  BY <1>3, <1>4 DEF AreAncestors, Route
<1>11. /\ ~r.inherit => DOMAIN g = {}
       /\ r.inherit => /\ DOMAIN g = DOMAIN A \cup {h} /\ g[h] = r.cost
                       /\ \A x \in DOMAIN A : x # h => g[x] = A[x]
  BY <1>4 DEF Override, Self, NoRoutes
<1>12. n \notin Offered(V) /\ \A x : ~Gives(V, n, x)
  <2>1. n \notin Offered(V)
    BY TameOffers
  <2>. QED
    BY <2>1 DEF Gives, Offered
<1>13. DOMAIN NoRoutes = {}
  BY DEF NoRoutes
<1>14. CASE d # n
  <2>1. DeltaAt(R, V, W, n, m, d, f)
    <3>1. DOMAIN g \subseteq Face
      BY <1>10, <1>11
    <3>2. r.inherit => r.face \in DOMAIN g /\ g[r.face] = r.cost
      BY <1>4, <1>11
    <3>3. ~r.inherit => DOMAIN g = {} /\ ~Gives(V, n, r.face)
      BY <1>11, <1>12
    <3>4. \A x \in DOMAIN g : x # r.face => x \in DOMAIN A /\ g[x] = A[x] /\ ~Gives(V, n, x)
      BY <1>4, <1>11, <1>12
    <3>45. ToGive(V, n, r, A, g)
      BY <3>1, <3>2, <3>3, <3>4 DEF ToGive
    <3>5. PICK k : k = NoRoutes /\ DOMAIN k = {}
      BY <1>13
    <3>6. m = modifyChildrensInheritedRoutes(R, Kids(R, n), g, k)
      BY <3>5, <1>2, <1>4
    <3>. QED
      BY <3>45, <3>5, <3>6, <1>3, <1>14, DeltaGiven
  <2>2. FibAt(c, d, f) = FibAt(m, d, f) /\ MarkAt(c, d, f) = MarkAt(m, d, f)
    BY <1>6, <1>7, <1>9, <1>14, OverNothing
  <2>. QED
    BY <2>1, <2>2, DeltaAlike
<1>15. CASE d = n
  <2>1. FibAt(m, n, f) = {} /\ MarkAt(m, n, f) = {}
    BY <1>2, <1>4, VisitNotOfName
  <2>2. /\ FibAt(c, n, f) = Over(FibAt(s, n, f), FibAt(a, n, f))
        /\ MarkAt(c, n, f) = MarkAt(s, n, f)
    BY <2>1, <1>6, <1>7, <1>15, OverNothing
  <2>3. CASE f = h
    <3>1. Hop(W, n, h, r.cost) /\ ~Inherits(W, n, h)
      BY <1>4, HopOwn DEF Registers
    <3>2. FibAt(c, n, f) = {r.cost}
      BY <2>2, <2>3, <1>7, <1>15, OverNothing DEF Over
    <3>. QED
      BY <2>3, <3>1, <3>2, <1>15, DeltaSet
  <2>4. CASE f # h
    <3>1. FibAt(c, n, f) = FibAt(s, n, f)
      BY <2>2, <2>4, <1>7, <1>15, OverNothing
    <3>2. n \in Offered(W) /\ ~Owns(W, n, f)
      <4>1. n \in Offered(W)
        BY DEF Registers, Offered
      <4>2. ~Owns(V, n, f)
        BY <1>12 DEF Owns, Offered
      <4>. QED
        BY <4>1, <4>2, <2>4, <1>4, ReofferedSame DEF Registers
    <3>3. AreAncestors(W, n, A)
      BY <1>3, ReofferedSame DEF Registers
    <3>4. CASE f \in DOMAIN A
      <4>1. FibAt(c, n, f) = {A[f]} /\ MarkAt(c, n, f) = {TRUE}
        BY <3>1, <3>4, <2>2, <2>4, <1>9, <1>15
      <4>2. Hop(W, n, f, A[f])
        BY <3>2, <3>3, <3>4, HopOfName
      <4>. QED
        BY <4>1, <4>2, <1>15, DeltaSet
    <3>5. CASE f \notin DOMAIN A
      <4>1. FibAt(c, n, f) = {} /\ MarkAt(c, n, f) = {}
        BY <3>1, <3>5, <2>2, <1>9, <1>15
      <4>2. Hop(W, n, f, NoCost) /\ ~Inherits(W, n, f)
        BY <3>2, <3>3, <3>5, HopOfName
      <4>3. \A k : Hop(V, n, f, k) => k = NoCost
        BY <1>12 DEF Hop, Offered
      <4>. QED
        BY <4>1, <4>2, <4>3, <1>15 DEF DeltaAt
    <3>. QED
      BY <3>4, <3>5
  <2>. QED
    BY <2>3, <2>4
<1>. QED
  BY <1>14, <1>15

\* A route on a face that the name has no route on.
LEMMA DeltaNewRoute ==
  ASSUME NEW R, IsTame(R), NEW n \in DOMAIN R, NEW V, V = Offers(R), MarksRight(R, V, NoRoutes),
         NEW r \in Route, ~hasFaceId(R[n], r.face), NEW W, NEW o, Registers(V, W, n, r, o),
         NEW c, c = createFibUpdatesForNewRoute(R, n, R[n], r, FALSE), NEW d \in Name, NEW f \in Face
  PROVE  DeltaAt(R, V, W, n, c, d, f)
<1>1. PICK e : e = R[n]
  OBVIOUS
<1>2. OnFace(e, r.face) = {} /\ InheritOn(e, r.face) = {}
  BY <1>1 DEF hasFaceId, InheritOn
<1>3. \A I : I = {} => CostsOf(e, I) = {}
  BY DEF CostsOf
<1>4. PICK K, g, rem, m, a : /\ K = Children(R, n)
                             /\ g = (IF r.inherit THEN Self(r) ELSE NoRoutes)
                             /\ rem = removeInheritedRoutes(n, e, NoRoutes)
                             /\ m = modifyChildrensInheritedRoutes(R, K, g, NoRoutes)
                             /\ a = Fib(n, r.face, AddNextHop(r.cost))
  OBVIOUS
<1>5. c = Then(Then(rem, m), a)
  <2>1. /\ \A x \in CostsOf(e, InheritOn(e, r.face)) : r.cost <= x
        /\ \A x \in CostsOf(e, OnFace(e, r.face)) : r.cost <= x
    BY <1>2, <1>3
  <2>. QED
    BY <2>1, <1>1, <1>4 DEF createFibUpdatesForNewRoute
<1>6. n \in Name /\ K = Kids(R, n)
  <2>1. IsTable(R) /\ Parented(R) /\ n \in Name
    BY DEF IsTame, IsTable
  <2>. QED
    BY <2>1, <1>4, ChildrenAreKids
<1>7. PICK A : AreAncestors(V, n, A)
  BY <1>6, AncestorsOf
<1>8. PICK k : k = NoRoutes /\ DOMAIN k = {}
  BY DEF NoRoutes
<1>9. FibAt(rem, d, f) = {} /\ MarkAt(rem, d, f) = {}
  <2>1. PICK P : P = {<<n, x>> : x \in DOMAIN NoRoutes \cap e.inherited}
    OBVIOUS
  <2>2. <<d, f>> \notin P
    BY <2>1, <1>8
  <2>3. rem = Disinherit(P)
    BY <2>1, <1>4 DEF removeInheritedRoutes
  <2>. QED
    BY <2>2, <2>3, DisinheritAt
<1>10. /\ FibAt(a, d, f) = IF d = n /\ f = r.face THEN {r.cost} ELSE {}
       /\ MarkAt(a, d, f) = {}
  BY <1>4, FibOneAt, ValueOfUpdates
<1>11. /\ FibAt(c, d, f) = Over(FibAt(m, d, f), FibAt(a, d, f))
       /\ MarkAt(c, d, f) = MarkAt(m, d, f)
  <2>1. InTurn(rem, m, a, c, d, f)
    BY <1>5, ThenThenAt
  <2>. QED
    BY <2>1, <1>9, <1>10, OverNothing DEF InTurn
<1>12. ~Gives(V, n, r.face) /\ n \in Offered(V)
  <2>1. ~Owns(V, n, r.face) /\ n \in Offered(V)
    BY TameOffers
  <2>. QED
    BY <2>1 DEF Gives, Owns
<1>13. CASE d # n
  <2>1. ToGive(V, n, r, A, g)
    BY <1>4, <1>12 DEF ToGive, Self, NoRoutes, Route
  <2>2. m = modifyChildrensInheritedRoutes(R, Kids(R, n), g, k)
    BY <1>4, <1>6, <1>8
  <2>3. DeltaAt(R, V, W, n, m, d, f)
    BY <2>1, <2>2, <1>6, <1>7, <1>8, <1>13, DeltaGiven
  <2>4. FibAt(c, d, f) = FibAt(m, d, f)
    BY <1>10, <1>11, <1>13, OverNothing
  <2>. QED
    BY <2>3, <2>4, <1>11, DeltaAlike
<1>14. CASE d = n
  <2>1. FibAt(m, n, f) = {} /\ MarkAt(m, n, f) = {}
    BY <1>4, <1>6, VisitNotOfName
  <2>2. CASE f = r.face
    <3>1. Hop(W, n, f, r.cost) /\ ~Inherits(W, n, f)
      BY <2>2, HopOwn DEF Registers
    <3>2. FibAt(c, n, f) = {r.cost}
      BY <2>1, <2>2, <1>10, <1>11, <1>14, OverNothing
    <3>. QED
      BY <3>1, <3>2, <1>14, DeltaSet
  <2>3. CASE f # r.face
    <3>1. FibAt(c, n, f) = {} /\ MarkAt(c, n, f) = {}
      BY <2>1, <2>3, <1>10, <1>11, <1>14, OverNothing
    <3>2. n \in Offered(W) /\ Reoffered(V, W, n, r.face)
      BY DEF Registers, Offered
    <3>3. Kept(V, W, n, f)
      BY <2>3, <3>2, <1>6, <1>12, KeptAtName
    <3>. QED
      BY <3>1, <3>3, <1>6, <1>14, DeltaKept
  <2>. QED
    BY <2>2, <2>3
<1>. QED
  BY <1>13, <1>14

\* The name does not give h any more; g has what its ancestors give instead.
Withdraws(V, W, n, h, A, g) ==
  /\ Reoffered(V, W, n, h) /\ Gives(V, n, h) /\ ~Gives(W, n, h)
  /\ DOMAIN g \subseteq DOMAIN A /\ \A x \in DOMAIN g : g[x] = A[x]
  /\ h \in DOMAIN A => h \in DOMAIN g
  /\ \A d \in Open(V, n, h) : ~Owns(V, d, h)
  /\ \A x \in DOMAIN g : \A d \in Open(V, n, x) : x # h =>
       \A w \in V : w.name = n /\ w.face = x /\ w.inherit => w.cost = A[x]

\* A visit that takes back what the name gave.
LEMMA DeltaWithdrawn ==
  ASSUME NEW R, IsTame(R), NEW n \in Name, NEW V, V = Offers(R), MarksRight(R, V, NoRoutes),
         NEW W, NEW h \in Face, NEW A, AreAncestors(V, n, A), NEW g, Withdraws(V, W, n, h, A, g),
         NEW d \in Name, NEW f \in Face, d # n,
         NEW k, DOMAIN k = {h}, NEW c, c = modifyChildrensInheritedRoutes(R, Kids(R, n), g, k)
  PROVE  DeltaAt(R, V, W, n, c, d, f)
<1>1. Reoffered(V, W, n, h)
  BY DEF Withdraws
<1>2. Visits(R, V, n, g, k, c, d, f)
  BY ModifyAt
<1>3. Open(V, n, f) = Open(W, n, f) /\ AreAncestors(W, n, A)
  BY <1>1, ReofferedSame
<1>4. \A x, y : ~(x = n /\ y = h) => (Owns(V, x, y) <=> Owns(W, x, y)) /\ (Gives(V, x, y) <=> Gives(W, x, y))
  BY <1>1, ReofferedSame
<1>5. CASE GetsRoute(V, n, g, d, f)
  <2>1. d \in Open(V, n, f) /\ d \in Open(W, n, f) /\ f \in DOMAIN g /\ ~Owns(W, d, f)
    BY <1>3, <1>4, <1>5 DEF GetsRoute
  <2>2. f \in DOMAIN A /\ g[f] = A[f]
    BY <2>1 DEF Withdraws
  <2>3. Hop(W, d, f, A[f])
    <3>1. CASE ~Gives(W, n, f)
      BY <3>1, <2>1, <2>2, <1>3, HopFromAncestors
    <3>2. CASE Gives(W, n, f)
      <4>1. f # h
        BY <3>2 DEF Withdraws
      <4>2. PICK w \in W : w.name = n /\ w.face = f /\ w.inherit
        BY <3>2 DEF Gives
      <4>3. w \in V
        BY <4>1, <4>2, <1>1 DEF Reoffered
      <4>4. w.cost = A[f]
        BY <4>1, <4>2, <4>3, <2>1 DEF Withdraws
      <4>5. Hop(W, d, f, w.cost)
        BY <4>2, <2>1, HopFromName
      <4>. QED
        BY <4>4, <4>5
    <3>. QED
      BY <3>1, <3>2
  <2>4. FibAt(c, d, f) = {g[f]} /\ MarkAt(c, d, f) = {TRUE}
    BY <1>2, <1>5 DEF Visits
  <2>. QED
    BY <2>1, <2>2, <2>3, <2>4, DeltaSet
<1>6. CASE ~GetsRoute(V, n, g, d, f) /\ LosesRoute(R, V, n, k, d, f)
  <2>1. f = h /\ d \in Open(V, n, h) /\ d \in Open(W, n, h) /\ ~Owns(V, d, h) /\ ~Owns(W, d, h)
    BY <1>3, <1>4, <1>6 DEF LosesRoute, Withdraws
  <2>2. h \notin DOMAIN A
    BY <2>1, <1>6 DEF GetsRoute, Withdraws
  <2>3. Hop(W, d, h, NoCost) /\ ~Inherits(W, d, h)
    BY <2>1, <2>2, <1>3, HopFromAncestors DEF Withdraws
  <2>4. FibAt(c, d, f) = {NoCost}
    BY <1>2, <1>6 DEF Visits
  <2>. QED
    BY <2>1, <2>3, <2>4, DeltaSet
<1>7. CASE ~GetsRoute(V, n, g, d, f) /\ ~LosesRoute(R, V, n, k, d, f)
  <2>1. FibAt(c, d, f) = {} /\ MarkAt(c, d, f) = {}
    BY <1>2, <1>7 DEF Visits
  <2>2. ASSUME f = h, d \in Open(V, n, h), ~Owns(V, d, h) PROVE FALSE
    <3>1. PICK w \in V : w.name = n /\ w.face = h /\ w.inherit
      BY DEF Withdraws, Gives
    <3>2. w \in GiversOf(V, d, h) /\ d \in Offered(V)
      BY <2>2, <3>1 DEF GiversOf, Open
    <3>3. Inherits(V, d, h)
      BY <2>2, <3>2 DEF Inherits
    <3>4. h \in R[d].inherited
      BY <3>3, MarksOfTable
    <3>. QED
      BY <2>2, <3>4, <1>7 DEF LosesRoute
  <2>3. Kept(V, W, d, f)
    BY <2>2, <1>1, KeptUnlessOpen
  <2>. QED
    BY <2>1, <2>3, DeltaKept
<1>. QED
  BY <1>5, <1>6, <1>7

\* The route is the only one of the entry on its face.
IsOnlyRoute(e, r) ==
  /\ CostsOf(e, OnFace(e, r.face)) = {r.cost}
  /\ CostsOf(e, InheritOn(e, r.face)) = (IF r.inherit THEN {r.cost} ELSE {})
  /\ Min(CostsOf(e, OnFace(e, r.face))) = r.cost

\* The entry with a route in the place of its only one on the face.
LEMMA OnlyRouteReplaced ==
  ASSUME NEW R, IsTame(R), NEW n \in DOMAIN R, NEW i \in DOMAIN R[n].routes, NEW r \in Route,
         R[n].routes[i].face = r.face, NEW e, e = Replaced(R[n], i, r)
  PROVE  IsOnlyRoute(e, r) /\ e.parent = R[n].parent
<1>1. PICK a : a = R[n] /\ a \in Entry
  BY EntryTyped DEF IsTame
<1>2. \A j \in DOMAIN a.routes : a.routes[j].face = r.face => j = i
  BY <1>1 DEF IsTame
<1>3. PICK s : s = [a.routes EXCEPT ![i] = r]
  OBVIOUS
<1>4. e = [a EXCEPT !.routes = s]
  BY <1>1, <1>3 DEF Replaced
<1>5. e.routes = s /\ e.parent = a.parent
  BY <1>1, <1>4 DEF Entry
<1>6. DOMAIN s = DOMAIN a.routes /\ s[i] = r /\ \A j \in DOMAIN a.routes : j # i => s[j] = a.routes[j]
  BY <1>1, <1>3
<1>7. OnFace(e, r.face) = {i}
  BY <1>1, <1>2, <1>5, <1>6 DEF OnFace
<1>8. InheritOn(e, r.face) = IF r.inherit THEN {i} ELSE {}
  BY <1>5, <1>6, <1>7 DEF InheritOn
<1>9. CostsOf(e, {i}) = {r.cost} /\ CostsOf(e, {}) = {}
  BY <1>5, <1>6 DEF CostsOf
<1>10. Min({r.cost}) = r.cost
  <2>1. {r.cost} \in SUBSET Nat
    BY CostAssumption DEF Route
  <2>. QED
    BY <2>1, MinOf
<1>. QED
  BY <1>1, <1>5, <1>7, <1>8, <1>9, <1>10 DEF IsOnlyRoute

\* The only route of a name on a face is its offer there.
LEMMA OfferThere ==
  ASSUME NEW R, IsTame(R), NEW n \in DOMAIN R, NEW i \in DOMAIN R[n].routes, NEW V, V = Offers(R),
         NEW old, old = R[n].routes[i], NEW w, w = Offer(n, old)
  PROVE  /\ w \in V /\ w.name = n /\ w.face = old.face /\ w.cost = old.cost /\ w.inherit = old.inherit
         /\ \A v \in V : v.name = n /\ v.face = old.face => v = w
<1>1. w.name = n /\ w.face = old.face /\ w.cost = old.cost /\ w.inherit = old.inherit
  BY DEF Offer
<1>2. w \in V
  BY OfferOf DEF IsTame
<1>3. Single(V)
  BY TameOffers
<1>. QED
  BY <1>1, <1>2, <1>3 DEF Single

\* A route with the same cost and flags changes nothing.
LEMMA SameOffer ==
  ASSUME NEW R, IsTame(R), NEW n \in DOMAIN R, NEW i \in DOMAIN R[n].routes, NEW V, V = Offers(R),
         NEW old, old = R[n].routes[i], NEW r \in Route, r.face = old.face,
         r.cost = old.cost, r.inherit = old.inherit,
         NEW W, NEW o, Registers(V, W, n, r, o)
  PROVE  W = V
<1>1. PICK w : w = Offer(n, old)
  OBVIOUS
<1>2. /\ w \in V /\ w.name = n /\ w.face = old.face /\ w.cost = old.cost /\ w.inherit = old.inherit
      /\ \A v \in V : v.name = n /\ v.face = old.face => v = w
  BY <1>1, OfferThere
<1>3. /\ V \subseteq OfferSet /\ W \subseteq OfferSet /\ o \in W
      /\ \A v \in OfferSet : ~(v.name = n /\ v.face = r.face) => (v \in V <=> v \in W)
      /\ o.name = n /\ o.face = r.face /\ o.cost = r.cost /\ o.inherit = r.inherit
      /\ \A v \in W : v.name = n /\ v.face = r.face => v = o
  BY DEF Registers, Reoffered
<1>4. o = w
  BY <1>2, <1>3 DEF OfferSet
<1>5. ASSUME NEW v \in OfferSet PROVE v \in V <=> v \in W
  <2>1. CASE v.name = n /\ v.face = r.face
    BY <2>1, <1>2, <1>3, <1>4
  <2>2. CASE ~(v.name = n /\ v.face = r.face)
    BY <2>2, <1>3
  <2>. QED
    BY <2>1, <2>2
<1>. QED
  BY <1>3, <1>5

\* Another cost or other flags for the route of a name.
LEMMA DeltaUpdated ==
  ASSUME NEW R, IsTame(R), NEW n \in DOMAIN R, NEW i \in DOMAIN R[n].routes, NEW V, V = Offers(R),
         MarksRight(R, V, NoRoutes), NEW old, old = R[n].routes[i], ~old.capture,
         NEW r \in Route, r.face = old.face, ~r.capture, NEW W, NEW o, Registers(V, W, n, r, o),
         ~r.inherit => GiversOf(V, n, r.face) = {},
         old.inherit => \A x \in Open(V, n, r.face) : ~Owns(V, x, r.face),
         NEW e, e = Replaced(R[n], i, r),
         NEW c, c = createFibUpdatesForUpdatedRoute(R, n, e, r, old), NEW d \in Name, NEW f \in Face
  PROVE  DeltaAt(R, V, W, n, c, d, f)
<1>1. IsTable(R) /\ Parented(R) /\ n \in Name
  BY DEF IsTame, IsTable
<1>2. PICK h : h = r.face /\ h \in Face
  BY DEF Route
<1>3. old \in Route /\ old.inherit \in BOOLEAN /\ r.inherit \in BOOLEAN /\ old.capture = FALSE /\ r.capture = FALSE
  <2>1. old \in Route
    BY <1>1, EntryTyped, OnFaceFacts
  <2>. QED
    BY <2>1 DEF Route
<1>4. /\ Min(CostsOf(e, OnFace(e, h))) = r.cost
      /\ CostsOf(e, InheritOn(e, h)) = (IF r.inherit THEN {r.cost} ELSE {})
      /\ e.parent = findParent(R, n)
  <2>1. R[n].parent = findParent(R, n)
    BY <1>1 DEF Parented
  <2>2. R[n].routes[i].face = r.face
    OBVIOUS
  <2>3. IsOnlyRoute(e, r) /\ e.parent = R[n].parent
    BY <2>2, OnlyRouteReplaced
  <2>. QED
    BY <2>1, <2>3, <1>2 DEF IsOnlyRoute
<1>5. PICK A, K : A = getAncestorRoutes(R, e.parent) /\ K = Children(R, n)
  OBVIOUS
<1>6. AreAncestors(V, n, A) /\ K = Kids(R, n)
  BY <1>1, <1>4, <1>5, AncestorsOf, ChildrenAreKids
<1>7. PICK g, k, m1, m2, own, inh :
        /\ g = [x \in DOMAIN A \cap {h} |-> A[x]] /\ k = NoRoutes
        /\ m1 = modifyChildrensInheritedRoutes(R, K, Self(r), k)
        /\ m2 = modifyChildrensInheritedRoutes(R, K, g, Self(r))
        /\ own = (IF r.cost = old.cost THEN NoChange ELSE Fib(n, h, AddNextHop(r.cost)))
        /\ inh = (IF r.inherit THEN m1 ELSE IF old.inherit THEN m2 ELSE NoChange)
  OBVIOUS
<1>8. CASE r.inherit = old.inherit /\ r.cost = old.cost
  <2>1. c = NoChange
    BY <1>3, <1>8 DEF createFibUpdatesForUpdatedRoute
  <2>2. W = V
    BY <1>8, SameOffer
  <2>. QED
    BY <2>1, <2>2, NoChangeAt, KeptSame, DeltaKept
<1>9. CASE ~(r.inherit = old.inherit /\ r.cost = old.cost)
  <2>1. c = Then(Then(own, inh), NoChange)
    <3>1. r.cost \in Nat /\ old.cost \in Nat
      BY <1>3, CostAssumption DEF Route
    <3>2. \A x \in {r.cost} : r.cost <= x
      BY <3>1
    <3>3. r.inherit => ~old.inherit \/ (r.inherit = old.inherit /\ r.capture = old.capture)
      BY <1>3
    <3>4. r.cost <= r.cost
      BY <3>1
    <3>5. ~(r.inherit = old.inherit /\ r.capture = old.capture /\ r.cost = old.cost)
      BY <1>9
    <3>6. CASE r.inherit
      BY <3>1, <3>2, <3>3, <3>4, <3>5, <3>6, <1>2, <1>3, <1>4, <1>5, <1>7 DEF createFibUpdatesForUpdatedRoute
    <3>7. CASE ~r.inherit
      BY <3>1, <3>3, <3>4, <3>5, <3>7, <1>2, <1>3, <1>4, <1>5, <1>7 DEF createFibUpdatesForUpdatedRoute
    <3>. QED
      BY <3>6, <3>7
  <2>2. /\ FibAt(c, d, f) = Over(FibAt(own, d, f), FibAt(inh, d, f))
        /\ MarkAt(c, d, f) = Over(MarkAt(own, d, f), MarkAt(inh, d, f))
    <3>1. InTurn(own, inh, NoChange, c, d, f)
      BY <2>1, ThenThenAt
    <3>. QED
      BY <3>1, NoChangeAt, OverNothing DEF InTurn
  <2>3. /\ FibAt(own, d, f) = (IF r.cost # old.cost /\ d = n /\ f = h THEN {r.cost} ELSE {})
        /\ MarkAt(own, d, f) = {}
    BY <1>7, FibOneAt, ValueOfUpdates, NoChangeAt
  <2>4. DOMAIN k = {}
    BY <1>7 DEF NoRoutes
  <2>5. CASE d # n
    <3>1. DeltaAt(R, V, W, n, inh, d, f)
      <4>1. CASE r.inherit
        <5>1. ToGive(V, n, r, A, Self(r))
          BY <4>1 DEF ToGive, Self, Route
        <5>2. inh = m1 /\ m1 = modifyChildrensInheritedRoutes(R, Kids(R, n), Self(r), k)
          BY <4>1, <1>6, <1>7
        <5>. QED
          BY <5>1, <5>2, <2>4, <2>5, <1>1, <1>6, DeltaGiven
      <4>2. CASE ~r.inherit /\ old.inherit
        <5>1. h \notin DOMAIN A
          BY <4>2, <1>2, <1>6 DEF AreAncestors
        <5>2. DOMAIN g = {}
          BY <5>1, <1>7
        <5>3. Gives(V, n, h)
          <6>1. PICK w : w = Offer(n, old)
            OBVIOUS
          <6>2. w \in V /\ w.name = n /\ w.face = h /\ w.inherit
            BY <6>1, <4>2, <1>2, OfferThere
          <6>. QED
            BY <6>2 DEF Gives
        <5>4. Reoffered(V, W, n, h) /\ ~Gives(W, n, h)
          BY <4>2, <1>2 DEF Registers, Gives
        <5>5. Withdraws(V, W, n, h, A, g)
          BY <5>1, <5>2, <5>3, <5>4, <4>2, <1>2 DEF Withdraws
        <5>6. DOMAIN Self(r) = {h}
          BY <1>2 DEF Self
        <5>7. inh = modifyChildrensInheritedRoutes(R, Kids(R, n), g, Self(r))
          BY <4>2, <1>6, <1>7
        <5>. QED
          BY <5>5, <5>6, <5>7, <2>5, <1>1, <1>2, <1>6, DeltaWithdrawn
      <4>3. CASE ~r.inherit /\ ~old.inherit
        <5>1. ~Gives(V, n, h)
          <6>1. PICK w : w = Offer(n, old)
            OBVIOUS
          <6>2. ~w.inherit /\ \A v \in V : v.name = n /\ v.face = h => v = w
            BY <6>1, <4>3, <1>2, OfferThere
          <6>. QED
            BY <6>2 DEF Gives
        <5>2. Reoffered(V, W, n, h) /\ ~Gives(W, n, h)
          BY <4>3, <1>2 DEF Registers, Gives
        <5>3. Kept(V, W, d, f)
          BY <5>1, <5>2, <2>5, <1>1, KeptNotGiven
        <5>4. FibAt(inh, d, f) = {} /\ MarkAt(inh, d, f) = {}
          BY <4>3, <1>7, NoChangeAt
        <5>. QED
          BY <5>3, <5>4, DeltaKept
      <4>. QED
        BY <4>1, <4>2, <4>3
    <3>2. FibAt(c, d, f) = FibAt(inh, d, f) /\ MarkAt(c, d, f) = MarkAt(inh, d, f)
      BY <2>2, <2>3, <2>5, OverNothing
    <3>. QED
      BY <3>1, <3>2, DeltaAlike
  <2>6. CASE d = n
    <3>1. FibAt(inh, n, f) = {} /\ MarkAt(inh, n, f) = {}
      <4>1. FibAt(m1, n, f) = {} /\ MarkAt(m1, n, f) = {}
        BY <1>1, <1>6, <1>7, VisitNotOfName
      <4>2. FibAt(m2, n, f) = {} /\ MarkAt(m2, n, f) = {}
        BY <1>1, <1>6, <1>7, VisitNotOfName
      <4>. QED
        BY <4>1, <4>2, <1>7, NoChangeAt
    <3>2. FibAt(c, n, f) = FibAt(own, n, f) /\ MarkAt(c, n, f) = {}
      BY <3>1, <2>2, <2>3, <2>6, OverNothing
    <3>3. Hop(W, n, h, r.cost) /\ ~Inherits(W, n, h)
      BY <1>2, HopOwn DEF Registers
    <3>4. CASE f = h /\ r.cost # old.cost
      <4>1. FibAt(c, n, f) = {r.cost}
        BY <3>2, <3>4, <2>3, <2>6
      <4>. QED
        BY <4>1, <3>3, <3>4, <2>6, DeltaSet
    <3>5. CASE f = h /\ r.cost = old.cost
      <4>1. FibAt(c, n, f) = {} /\ MarkAt(c, n, f) = {}
        BY <3>2, <3>5, <2>3, <2>6
      <4>2. PICK w : w = Offer(n, old)
        OBVIOUS
      <4>3. w \in V /\ w.name = n /\ w.face = h /\ w.cost = r.cost /\ \A v \in V : v.name = n /\ v.face = h => v = w
        BY <4>2, <3>5, <1>2, OfferThere
      <4>4. \A x : Hop(V, n, h, x) => x = r.cost
        BY <4>3 DEF Hop, Owns, Offered
      <4>. QED
        BY <4>1, <4>4, <3>3, <3>5, <2>6 DEF DeltaAt
    <3>6. CASE f # h
      <4>1. FibAt(c, n, f) = {} /\ MarkAt(c, n, f) = {}
        BY <3>2, <3>6, <2>3, <2>6
      <4>2. n \in Offered(W) /\ Reoffered(V, W, n, h)
        BY <1>2 DEF Registers, Offered
      <4>3. n \in Offered(V)
        BY TameOffers
      <4>4. Kept(V, W, n, f)
        BY <4>2, <4>3, <3>6, <1>1, KeptAtName
      <4>. QED
        BY <4>1, <4>4, <1>1, <2>6, DeltaKept
    <3>. QED
      BY <3>4, <3>5, <3>6
  <2>. QED
    BY <2>5, <2>6
<1>. QED
  BY <1>8, <1>9

\* The only route on its face has no second one behind it.
LEMMA NoSecond ==
  ASSUME NEW R, IsTame(R), NEW n \in DOMAIN R, NEW r, findRoute(R[n], r) # {}
  PROVE  \E i \in DOMAIN R[n].routes :
           /\ i = Min(findRoute(R[n], r)) /\ OnFace(R[n], r.face) = {i} /\ SecondLowest(R[n], r.face) = {}
           /\ R[n].routes[i].face = r.face /\ R[n].routes[i].origin = r.origin
<1>1. PICK e : e = R[n] /\ e \in Entry
  BY EntryTyped DEF IsTame
<1>2. PICK i : i = Min(findRoute(e, r)) /\ i \in DOMAIN e.routes /\ i \in findRoute(e, r)
  BY <1>1, FoundThere
<1>3. e.routes[i].face = r.face /\ e.routes[i].origin = r.origin
  BY <1>2 DEF findRoute, OnFace
<1>4. \A j \in DOMAIN e.routes : e.routes[j].face = r.face => j = i
  BY <1>1, <1>2, <1>3 DEF IsTame
<1>5. OnFace(e, r.face) = {i}
  BY <1>2, <1>3, <1>4 DEF OnFace
<1>6. SecondLowest(e, r.face) = {}
  <2>1. i \in Nat /\ e.routes[i].cost \in Nat
    BY <1>1, <1>2, OnFaceFacts, CostAssumption DEF Entry
  <2>2. {j \in {i} : \/ e.routes[j].cost < e.routes[i].cost
                     \/ (e.routes[j].cost = e.routes[i].cost /\ j < i)} = {}
    BY <2>1
  <2>3. Cardinality({}) # 1
    BY FS_EmptySet
  <2>. QED
    BY <2>2, <2>3, <1>5 DEF SecondLowest
<1>. QED
  BY <1>1, <1>2, <1>3, <1>5, <1>6

\* An entry without one of its routes.
LEMMA WithoutIs ==
  ASSUME NEW e \in Entry, NEW i \in DOMAIN e.routes, ~e.routes[i].capture, NEW a, a = Without(e, i)
  PROVE  a.parent = e.parent /\ a.nCapture = e.nCapture /\ (a.routes = <<>> <=> Len(e.routes) = 1)
<1>1. e.routes \in Seq(Route)
  BY DEF Entry
<1>2. Len(e.routes) \in Nat /\ DOMAIN e.routes = 1..Len(e.routes)
  BY <1>1
<1>3. PICK s : s = [j \in 1..(Len(e.routes) - 1) |-> IF j < i THEN e.routes[j] ELSE e.routes[j + 1]]
  OBVIOUS
<1>4. a = [[e EXCEPT !.routes = s] EXCEPT !.nCapture = e.nCapture]
  BY <1>3 DEF Without
<1>5. a = [routes |-> s, inherited |-> e.inherited, nCapture |-> e.nCapture, parent |-> e.parent]
  BY <1>4 DEF Entry
<1>6. a.routes = s
  BY <1>5
<1>7. ASSUME Len(e.routes) = 1 PROVE s = <<>>
  <2>1. DOMAIN s = {}
    BY <1>3, <1>7
  <2>2. s \in Seq(Route)
    BY <1>6, WithoutTyped DEF Entry
  <2>3. Len(s) = 0
    BY <2>1, <2>2
  <2>. QED
    BY <2>2, <2>3
<1>8. ASSUME s = <<>> PROVE Len(e.routes) = 1
  BY <1>6, <1>8, WithoutTyped
<1>. QED
  BY <1>5, <1>6, <1>7, <1>8

\* n with k routes, one of them on h, has offers left unless that is the only one.
OthersStay(V, W, n, h, k) ==
  /\ n \in Offered(W) <=> k # 1
  /\ k = 1 => \A f : f # h => ~Owns(V, n, f)

\* A name keeps an offer unless its only route goes.
LEMMA OfferStays ==
  ASSUME NEW R, IsTame(R), NEW n \in DOMAIN R, NEW i \in DOMAIN R[n].routes, NEW V, V = Offers(R),
         NEW h, OnFace(R[n], h) = {i}, NEW W, Unregisters(V, W, n, h)
  PROVE  OthersStay(V, W, n, h, Len(R[n].routes))
<1>1. R[n].routes \in Seq(Route)
  BY EntryTyped DEF IsTame
<1>2. PICK s : s = R[n].routes
  OBVIOUS
<1>3. s \in Seq(Route) /\ Len(s) \in Nat /\ DOMAIN s = 1..Len(s) /\ i \in DOMAIN s
  BY <1>1, <1>2
<1>4. /\ \A v \in V : v.name = n => \E j \in DOMAIN s : v.face = s[j].face
      /\ \A j \in DOMAIN s : \E v \in V : v.name = n /\ v.face = s[j].face
      /\ V \subseteq OfferSet
  <2>1. /\ \A v \in V : \E m \in DOMAIN R : \E j \in DOMAIN R[m].routes : v = Offer(m, R[m].routes[j])
        /\ \A m \in DOMAIN R : \A j \in DOMAIN R[m].routes : Offer(m, R[m].routes[j]) \in V
        /\ V \subseteq OfferSet
    BY OfferOf DEF IsTame
  <2>2. ASSUME NEW v \in V, v.name = n PROVE \E j \in DOMAIN s : v.face = s[j].face
    BY <2>1, <2>2, <1>2 DEF Offer
  <2>3. ASSUME NEW j \in DOMAIN s PROVE \E v \in V : v.name = n /\ v.face = s[j].face
    BY <2>1, <2>3, <1>2 DEF Offer
  <2>. QED
    BY <2>1, <2>2, <2>3
<1>5. \A j \in DOMAIN s : s[j].face = h <=> j = i
  BY <1>2 DEF OnFace
<1>6. ASSUME Len(s) # 1 PROVE n \in Offered(W)
  <2>1. PICK j \in DOMAIN s : j # i
    <3>1. CASE i = 1
      <4>1. 2 \in DOMAIN s
        BY <3>1, <1>3, <1>6
      <4>. QED
        BY <3>1, <4>1
    <3>2. CASE i # 1
      <4>1. 1 \in DOMAIN s
        BY <1>3
      <4>. QED
        BY <3>2, <4>1
    <3>. QED
      BY <3>1, <3>2
  <2>2. PICK v \in V : v.name = n /\ v.face = s[j].face
    BY <1>4
  <2>3. v \in W
    BY <2>1, <2>2, <1>4, <1>5 DEF Unregisters, Reoffered
  <2>. QED
    BY <2>2, <2>3 DEF Offered
<1>7. ASSUME Len(s) = 1 PROVE n \notin Offered(W) /\ \A f : f # h => ~Owns(V, n, f)
  <2>1. \A j \in DOMAIN s : j = i
    BY <1>3, <1>7
  <2>2. \A v \in V : v.name = n => v.face = h
    BY <2>1, <1>3, <1>4, <1>5
  <2>3. \A v \in W : v.name # n
    BY <2>2 DEF Unregisters, Reoffered, Owns
  <2>. QED
    BY <2>2, <2>3 DEF Offered, Owns
<1>. QED
  BY <1>2, <1>6, <1>7 DEF OthersStay

\* computeUpdatesForUnregistration for the only route of a name on a face.
Unblocked(e, A, h) == IF Len(e.routes) = 1 THEN {} ELSE DOMAIN A \cap {h}
LastOnes(n, e) ==
  IF Len(e.routes) = 1 THEN [fib |-> [x \in {n} \X e.inherited |-> RemoveNextHop], inherited |-> NoRoutes]
  ELSE NoChange
ErasedVisit(R, n, old, A) ==
  modifyChildrensInheritedRoutes(R, Children(R, n), IF old.inherit THEN A ELSE NoRoutes,
                                 IF old.inherit THEN Self(old) ELSE NoRoutes)
ErasedChange(R, n, e, old, A) ==
  Then(Then(Then(Then(Then(Fib(n, old.face, RemoveNextHop), NoChange), ErasedVisit(R, n, old, A)),
                 Inherit({<<n, f>> : f \in Unblocked(e, A, old.face)}, A)), NoChange), LastOnes(n, e))

\* That is what it computes.
LEMMA ErasedForm ==
  ASSUME NEW R, IsTame(R), NEW n \in DOMAIN R, NEW r, NEW e, e = R[n],
         NEW i \in DOMAIN e.routes, i = Min(findRoute(e, r)), findRoute(e, r) # {}, SecondLowest(e, r.face) = {},
         NEW old, old = e.routes[i], ~old.capture, NEW A, A = getAncestorRoutes(R, e.parent)
  PROVE  computeUpdatesForUnregistration(R, n, r) = ErasedChange(R, n, e, old, A)
<1>1. e \in Entry /\ ~hasCapture(e)
  BY EntryTyped DEF IsTame, hasCapture
<1>2. PICK t : t = Without(e, i)
  OBVIOUS
<1>3. t.parent = e.parent /\ t.nCapture = e.nCapture /\ (t.routes = <<>> <=> Len(e.routes) = 1)
  BY <1>1, <1>2, WithoutIs
<1>4. ~hasCapture(t)
  BY <1>1, <1>3 DEF hasCapture
<1>5. PICK x, l : x = createFibUpdatesForErasedRoute(R, n, t, old, FALSE) /\ l = LastOnes(n, e)
  OBVIOUS
<1>6. x = Then(Then(Then(Fib(n, old.face, RemoveNextHop), NoChange), ErasedVisit(R, n, old, A)),
               Inherit({<<n, f>> : f \in Unblocked(e, A, old.face)}, A))
  BY <1>3, <1>4, <1>5 DEF createFibUpdatesForErasedRoute, ErasedVisit, Unblocked
<1>7. computeUpdatesForUnregistration(R, n, r) = Then(Then(x, NoChange), l)
  BY <1>1, <1>2, <1>4, <1>5 DEF computeUpdatesForUnregistration, LastOnes
<1>. QED
  BY <1>5, <1>6, <1>7 DEF ErasedChange

\* A route that goes.
LEMMA DeltaErased ==
  ASSUME NEW R, IsTame(R), NEW n \in DOMAIN R, NEW V, V = Offers(R), MarksRight(R, V, NoRoutes),
         NEW r, findRoute(R[n], r) # {}, NEW W, Unregisters(V, W, n, r.face), r.face \in Face,
         \A x \in DOMAIN R[n].routes : ~R[n].routes[x].capture,
         NEW A, AreAncestors(V, n, A), A = getAncestorRoutes(R, findParent(R, n)),
         Gives(V, n, r.face) => Withdraws(V, W, n, r.face, A, A),
         NEW c, c = computeUpdatesForUnregistration(R, n, r), NEW d \in Name, NEW f \in Face
  PROVE  DeltaAt(R, V, W, n, c, d, f)
<1>1. IsTable(R) /\ Parented(R) /\ n \in Name
  BY DEF IsTame, IsTable
<1>2. PICK h : h = r.face /\ h \in Face
  OBVIOUS
<1>3. PICK e : e = R[n] /\ e \in Entry /\ e.parent = findParent(R, n)
  BY <1>1, EntryTyped DEF Parented
<1>4. PICK i \in DOMAIN e.routes : /\ i = Min(findRoute(e, r)) /\ OnFace(e, h) = {i} /\ SecondLowest(e, h) = {}
                                   /\ e.routes[i].face = h
  BY <1>2, <1>3, NoSecond
<1>5. PICK old : old = e.routes[i] /\ ~old.capture /\ old.face = h
  BY <1>3, <1>4
<1>6. PICK K, g, k, m, u, l, s, q, P :
         /\ K = Children(R, n)
         /\ g = (IF old.inherit THEN A ELSE NoRoutes)
         /\ k = (IF old.inherit THEN Self(old) ELSE NoRoutes)
         /\ m = modifyChildrensInheritedRoutes(R, K, g, k)
         /\ u = Unblocked(e, A, h) /\ l = LastOnes(n, e)
         /\ s = Fib(n, h, RemoveNextHop) /\ P = {<<n, x>> : x \in u} /\ q = Inherit(P, A)
  OBVIOUS
<1>7. c = Then(Then(Then(Then(Then(s, NoChange), m), q), NoChange), l)
  <2>1. c = ErasedChange(R, n, e, old, A)
    BY <1>2, <1>3, <1>4, <1>5, ErasedForm
  <2>2. m = ErasedVisit(R, n, old, A)
    BY <1>6 DEF ErasedVisit
  <2>. QED
    BY <2>1, <2>2, <1>5, <1>6 DEF ErasedChange
<1>8. PICK a, b : a = Then(Then(s, NoChange), m) /\ b = Then(Then(a, q), NoChange)
  OBVIOUS
<1>9. K = Kids(R, n)
  BY <1>1, <1>6, ChildrenAreKids
<1>10. /\ FibAt(s, d, f) = (IF d = n /\ f = h THEN {NoCost} ELSE {}) /\ MarkAt(s, d, f) = {}
  BY <1>6, FibOneAt, ValueOfUpdates
<1>11. /\ FibAt(q, d, f) = (IF d = n /\ f \in u THEN {A[f]} ELSE {})
       /\ MarkAt(q, d, f) = (IF d = n /\ f \in u THEN {TRUE} ELSE {})
  <2>1. <<d, f>> \in P <=> d = n /\ f \in u
    BY <1>6, PairOf
  <2>. QED
    BY <2>1, <1>6, InheritAt
<1>12. /\ FibAt(l, d, f) = (IF d = n /\ Len(e.routes) = 1 /\ f \in e.inherited THEN {NoCost} ELSE {})
       /\ MarkAt(l, d, f) = {}
  <2>1. CASE Len(e.routes) = 1
    <3>1. PICK x : x = <<d, f>>
      OBVIOUS
    <3>2. l.fib = [y \in {n} \X e.inherited |-> RemoveNextHop] /\ l.inherited = NoRoutes
      BY <2>1, <1>6 DEF LastOnes
    <3>3. x \in {n} \X e.inherited <=> d = n /\ f \in e.inherited
      BY <3>1
    <3>4. /\ x \in DOMAIN l.fib <=> d = n /\ f \in e.inherited
          /\ x \in DOMAIN l.fib => l.fib[x] = RemoveNextHop
      BY <3>2, <3>3
    <3>5. x \notin DOMAIN l.inherited
      BY <3>2 DEF NoRoutes
    <3>. QED
      BY <2>1, <3>1, <3>4, <3>5, ValueOfUpdates DEF FibAt, MarkAt
  <2>2. CASE Len(e.routes) # 1
    BY <2>2, <1>6, NoChangeAt DEF LastOnes
  <2>. QED
    BY <2>1, <2>2
<1>13. /\ FibAt(c, d, f) = Over(Over(Over(FibAt(s, d, f), FibAt(m, d, f)), FibAt(q, d, f)), FibAt(l, d, f))
       /\ MarkAt(c, d, f) = Over(Over(Over(MarkAt(s, d, f), MarkAt(m, d, f)), MarkAt(q, d, f)), MarkAt(l, d, f))
  <2>1. InTurn(s, NoChange, m, a, d, f)
    BY <1>8, ThenThenAt
  <2>2. InTurn(a, q, NoChange, b, d, f)
    BY <1>8, ThenThenAt
  <2>3. /\ FibAt(c, d, f) = Over(FibAt(b, d, f), FibAt(l, d, f))
        /\ MarkAt(c, d, f) = Over(MarkAt(b, d, f), MarkAt(l, d, f))
    BY <1>7, <1>8, ThenAt
  <2>4. /\ FibAt(a, d, f) = Over(FibAt(s, d, f), FibAt(m, d, f))
        /\ MarkAt(a, d, f) = Over(MarkAt(s, d, f), MarkAt(m, d, f))
    BY <2>1, NoChangeAt, OverNothing DEF InTurn
  <2>5. /\ FibAt(b, d, f) = Over(FibAt(a, d, f), FibAt(q, d, f))
        /\ MarkAt(b, d, f) = Over(MarkAt(a, d, f), MarkAt(q, d, f))
    BY <2>2, NoChangeAt, OverNothing DEF InTurn
  <2>. QED
    BY <2>3, <2>4, <2>5
<1>14. PICK w : w = Offer(n, old)
  OBVIOUS
<1>15. w \in V /\ w.inherit = old.inherit /\ \A v \in V : v.name = n /\ v.face = h => v = w
  BY <1>3, <1>4, <1>5, <1>14, OfferThere
<1>16. w.name = n /\ w.face = h
  BY <1>5, <1>14 DEF Offer
<1>17. Reoffered(V, W, n, h) /\ ~Owns(W, n, h) /\ ~Gives(W, n, h) /\ AreAncestors(W, n, A)
  <2>1. Reoffered(V, W, n, h) /\ ~Owns(W, n, h)
    BY <1>2 DEF Unregisters
  <2>. QED
    BY <2>1, <1>1, ReofferedSame DEF Gives, Owns
<1>18. CASE d # n
  <2>1. FibAt(c, d, f) = FibAt(m, d, f) /\ MarkAt(c, d, f) = MarkAt(m, d, f)
    BY <1>10, <1>11, <1>12, <1>13, <1>18, OverNothing
  <2>2. DeltaAt(R, V, W, n, m, d, f)
    <3>1. CASE old.inherit
      <4>1. Gives(V, n, h)
        BY <3>1, <1>15, <1>16 DEF Gives
      <4>2. Withdraws(V, W, n, h, A, A)
        BY <4>1, <1>2
      <4>3. DOMAIN Self(old) = {h}
        BY <1>5 DEF Self
      <4>4. m = modifyChildrensInheritedRoutes(R, Kids(R, n), A, Self(old))
        BY <3>1, <1>6, <1>9
      <4>. QED
        BY <4>2, <4>3, <4>4, <1>1, <1>2, <1>18, DeltaWithdrawn
    <3>2. CASE ~old.inherit
      <4>1. ~Gives(V, n, h)
        BY <3>2, <1>15 DEF Gives
      <4>2. Kept(V, W, d, f)
        BY <4>1, <1>1, <1>17, <1>18, KeptNotGiven
      <4>3. DOMAIN g = {} /\ DOMAIN k = {}
        BY <3>2, <1>6 DEF NoRoutes
      <4>4. Visits(R, V, n, g, k, m, d, f)
        BY <1>1, <1>6, <1>9, ModifyAt
      <4>5. FibAt(m, d, f) = {} /\ MarkAt(m, d, f) = {}
        BY <4>3, <4>4 DEF Visits, GetsRoute, LosesRoute
      <4>. QED
        BY <4>2, <4>5, DeltaKept
    <3>. QED
      BY <3>1, <3>2
  <2>. QED
    BY <2>1, <2>2, DeltaAlike
<1>19. CASE d = n
  <2>1. FibAt(m, n, f) = {} /\ MarkAt(m, n, f) = {}
    BY <1>1, <1>6, <1>9, VisitNotOfName
  <2>2. /\ n \in Offered(W) <=> Len(e.routes) # 1
        /\ Len(e.routes) = 1 => \A x : x # h => ~Owns(V, n, x)
    <3>1. i \in DOMAIN R[n].routes /\ OnFace(R[n], h) = {i} /\ Unregisters(V, W, n, h)
      BY <1>2, <1>3, <1>4
    <3>2. OthersStay(V, W, n, h, Len(R[n].routes))
      BY <3>1, OfferStays
    <3>. QED
      BY <3>2, <1>3 DEF OthersStay
  <2>3. /\ FibAt(c, n, f) = Over(Over(FibAt(s, n, f), FibAt(q, n, f)), FibAt(l, n, f))
        /\ MarkAt(c, n, f) = MarkAt(q, n, f)
    <3>1. MarkAt(s, n, f) = {} /\ MarkAt(l, n, f) = {}
      BY <1>10, <1>12, <1>19
    <3>2. /\ FibAt(c, n, f) = Over(Over(Over(FibAt(s, n, f), {}), FibAt(q, n, f)), FibAt(l, n, f))
          /\ MarkAt(c, n, f) = Over(Over(Over({}, {}), MarkAt(q, n, f)), {})
      BY <2>1, <3>1, <1>13, <1>19
    <3>. QED
      BY <3>2, OverNothing
  <2>4. CASE Len(e.routes) = 1
    <3>1. u = {}
      BY <2>4, <1>6 DEF Unblocked
    <3>2. /\ FibAt(s, n, f) = (IF f = h THEN {NoCost} ELSE {})
          /\ FibAt(q, n, f) = {} /\ MarkAt(q, n, f) = {}
          /\ FibAt(l, n, f) = (IF f \in e.inherited THEN {NoCost} ELSE {})
      BY <3>1, <2>4, <1>10, <1>11, <1>12, <1>19
    <3>3. FibAt(c, n, f) = (IF f = h \/ f \in e.inherited THEN {NoCost} ELSE {})
      BY <3>2, <2>3, OverNothing DEF Over
    <3>4. n \notin Offered(W)
      BY <2>2, <2>4
    <3>5. Hop(W, n, f, NoCost) /\ ~Inherits(W, n, f)
      BY <3>4 DEF Hop, Inherits
    <3>6. CASE f = h \/ f \in e.inherited
      BY <3>3, <3>5, <3>6, <1>19, DeltaSet
    <3>7. CASE ~(f = h \/ f \in e.inherited)
      <4>1. ~Owns(V, n, f) /\ n \in Offered(V)
        BY <3>7, <2>2, <2>4, <1>15, <1>16 DEF Offered
      <4>2. ~Inherits(V, n, f)
        BY <3>7, <1>1, <1>3, MarksOfTable
      <4>3. GiversOf(V, n, f) = {}
        BY <4>1, <4>2 DEF Inherits
      <4>4. \A x : Hop(V, n, f, x) => x = NoCost
        BY <4>1, <4>3 DEF Hop, Owns, IsGiver
      <4>. QED
        BY <4>4, <3>3, <3>5, <3>7, <1>19 DEF DeltaAt
    <3>. QED
      BY <3>6, <3>7
  <2>5. CASE Len(e.routes) # 1
    <3>1. u = DOMAIN A \cap {h}
      BY <2>5, <1>6 DEF Unblocked
    <3>2. /\ FibAt(s, n, f) = (IF f = h THEN {NoCost} ELSE {})
          /\ FibAt(l, n, f) = {}
      BY <2>5, <1>10, <1>12, <1>19
    <3>3. n \in Offered(W) /\ n \in Offered(V)
      BY <2>2, <2>5, <1>15, <1>16 DEF Offered
    <3>4. CASE f = h /\ h \in DOMAIN A
      <4>1. FibAt(q, n, f) = {A[f]} /\ MarkAt(q, n, f) = {TRUE}
        BY <3>1, <3>4, <1>11, <1>19
      <4>2. FibAt(c, n, f) = {A[f]} /\ MarkAt(c, n, f) = {TRUE}
        BY <4>1, <3>2, <2>3, OverNothing DEF Over
      <4>3. Hop(W, n, f, A[f])
        BY <3>3, <3>4, <1>1, <1>17, HopOfName
      <4>. QED
        BY <4>2, <4>3, <1>19, DeltaSet
    <3>5. CASE f = h /\ h \notin DOMAIN A
      <4>1. FibAt(q, n, f) = {} /\ MarkAt(q, n, f) = {}
        BY <3>1, <3>5, <1>11, <1>19
      <4>2. FibAt(c, n, f) = {NoCost}
        BY <4>1, <3>2, <3>5, <2>3, OverNothing
      <4>3. Hop(W, n, f, NoCost) /\ ~Inherits(W, n, f)
        BY <3>3, <3>5, <1>1, <1>17, HopOfName
      <4>. QED
        BY <4>2, <4>3, <1>19, DeltaSet
    <3>6. CASE f # h
      <4>1. FibAt(q, n, f) = {} /\ MarkAt(q, n, f) = {}
        BY <3>1, <3>6, <1>11, <1>19
      <4>2. FibAt(c, n, f) = {} /\ MarkAt(c, n, f) = {}
        BY <4>1, <3>2, <3>6, <2>3, OverNothing
      <4>3. Kept(V, W, n, f)
        BY <3>3, <3>6, <1>1, <1>17, KeptAtName
      <4>. QED
        BY <4>2, <4>3, <1>1, <1>19, DeltaKept
    <3>. QED
      BY <3>4, <3>5, <3>6
  <2>. QED
    BY <2>4, <2>5
<1>. QED
  BY <1>18, <1>19

----------------------------------------------------------------------------
(* A tame update *)

\* What a registration and a removal make of the offers.
LEMMA AfterUpdate ==
  ASSUME NEW V, V \subseteq OfferSet, NEW b \in Update, NEW W, W = OffersAfter(V, b)
  PROVE  /\ b.action = "register" => Registers(V, W, b.name, b.route, Offer(b.name, b.route))
         /\ b.action # "register" => Unregisters(V, W, b.name, b.route.face)
<1>1. PICK n, r, o : n = b.name /\ r = b.route /\ o = Offer(n, r)
  OBVIOUS
<1>2. n \in Name /\ r \in Route
  BY <1>1 DEF Update
<1>3. /\ o \in OfferSet /\ o.name = n /\ o.face = r.face /\ o.cost = r.cost /\ o.inherit = r.inherit
  BY <1>1, <1>2 DEF Offer, OfferSet, Route
<1>4. CASE b.action = "register"
  <2>1. W = NotOf(V, n, r.face) \cup {o}
    BY <1>1, <1>4 DEF OffersAfter
  <2>. QED
    BY <2>1, <1>1, <1>3, <1>4 DEF NotOf, Registers, Reoffered
<1>5. CASE b.action # "register"
  <2>1. W = NotOf(V, n, r.face)
    BY <1>1, <1>5 DEF OffersAfter
  <2>. QED
    BY <2>1, <1>1, <1>5 DEF NotOf, Unregisters, Reoffered, Owns
<1>. QED
  BY <1>4, <1>5

\* Tame requests for a name and one below it.
LEMMA TamePair ==
  ASSUME Tame, NEW p \in Requests, NEW q \in Requests, p.route.face = q.route.face,
         p.name \in Prefixes[q.name], p.route.inherit
  PROVE  q.route.inherit /\ (p.route.cost = q.route.cost \/ GivesNoOther(q))
  BY DEF Tame

\* Tame requests for a name: who gives a face from above gives it on.
LEMMA TameAbove ==
  ASSUME Tame, NEW V, AllRequested(V), NEW n \in Name, NEW r, Requested(n, r), ~r.inherit
  PROVE  GiversOf(V, n, r.face) = {}
<1>. SUFFICES ASSUME NEW v \in GiversOf(V, n, r.face) PROVE FALSE
  OBVIOUS
<1>1. v \in V /\ v.name \in Prefixes[n] /\ v.face = r.face /\ v.inherit
  BY DEF GiversOf
<1>2. PICK p \in Requests : p.name = v.name /\ p.route.face = v.face /\ p.route.inherit = v.inherit
  BY <1>1 DEF AllRequested
<1>3. PICK q \in Requests : q.name = n /\ q.route.face = r.face /\ q.route.inherit = r.inherit
  BY DEF Requested
<1>. QED
  BY <1>1, <1>2, <1>3 DEF Tame

\* A name below that is open has no route on the face.
LEMMA TameBelow ==
  ASSUME Tame, NEW V, AllRequested(V), NEW n \in Name, NEW h, Gives(V, n, h), NEW x \in Open(V, n, h)
  PROVE  ~Owns(V, x, h)
<1>. SUFFICES ASSUME Owns(V, x, h) PROVE FALSE
  OBVIOUS
<1>1. PICK v \in V : v.name = n /\ v.face = h /\ v.inherit
  BY DEF Gives
<1>2. PICK w \in V : w.name = x /\ w.face = h
  BY DEF Owns
<1>3. PICK p \in Requests : p.name = v.name /\ p.route.face = v.face /\ p.route.inherit = v.inherit
  BY DEF AllRequested
<1>4. PICK q \in Requests : q.name = w.name /\ q.route.face = w.face /\ q.route.inherit = w.inherit
  BY DEF AllRequested
<1>5. n \in Prefixes[x] /\ ~Gives(V, x, h)
  BY DEF Open
<1>6. p.route.face = q.route.face /\ p.name \in Prefixes[q.name] /\ p.route.inherit
  BY <1>1, <1>2, <1>3, <1>4, <1>5
<1>7. w.inherit
  BY <1>4, <1>6, TamePair
<1>. QED
  BY <1>2, <1>5, <1>7 DEF Gives

\* What is taken back from a name that gives on two faces is worth what it gives.
LEMMA TameWithdraws ==
  ASSUME Tame, NEW V, AllRequested(V), NEW n \in Name, NEW h \in Face, NEW W, Unregisters(V, W, n, h),
         Gives(V, n, h), NEW A, AreAncestors(V, n, A)
  PROVE  Withdraws(V, W, n, h, A, A)
<1>1. Reoffered(V, W, n, h) /\ ~Gives(W, n, h)
  BY DEF Unregisters, Gives, Owns
<1>2. \A d \in Open(V, n, h) : ~Owns(V, d, h)
  BY TameBelow
<1>3. ASSUME NEW x \in DOMAIN A, NEW d \in Open(V, n, x), x # h,
             NEW w \in V, w.name = n, w.face = x, w.inherit
      PROVE  w.cost = A[x]
  <2>1. PICK v \in V : IsGiver(V, n, x, v) /\ A[x] = v.cost
    BY DEF AreAncestors
  <2>2. v.name \in Prefixes[n] /\ v.face = x /\ v.inherit
    BY <2>1 DEF IsGiver, GiversOf
  <2>3. PICK p \in Requests : /\ p.name = v.name /\ p.route.face = v.face
                              /\ p.route.cost = v.cost /\ p.route.inherit = v.inherit
    BY DEF AllRequested
  <2>4. PICK q \in Requests : /\ q.name = w.name /\ q.route.face = w.face
                              /\ q.route.cost = w.cost /\ q.route.inherit = w.inherit
    BY DEF AllRequested
  <2>5. PICK u \in V : u.name = n /\ u.face = h /\ u.inherit
    BY DEF Gives
  <2>6. PICK s \in Requests : s.name = u.name /\ s.route.face = u.face /\ s.route.inherit = u.inherit
    BY DEF AllRequested
  <2>7. PICK y \in V : y.name = d /\ n \in Prefixes[d]
    BY DEF Open, Offered
  <2>8. PICK t \in Requests : t.name = y.name
    BY DEF AllRequested
  <2>9. p.route.cost = q.route.cost \/ GivesNoOther(q)
    <3>1. p.route.face = q.route.face /\ p.name \in Prefixes[q.name] /\ p.route.inherit
      BY <2>2, <2>3, <2>4, <1>3
    <3>. QED
      BY <3>1, TamePair
  <2>10. p.route.cost = q.route.cost
    BY <2>4, <2>5, <2>6, <2>7, <2>8, <2>9, <1>3 DEF GivesNoOther
  <2>. QED
    BY <2>1, <2>3, <2>4, <2>10
<1>. QED
  BY <1>1, <1>2, <1>3 DEF Withdraws

\* Routes of tame requests capture nothing.
LEMMA TameRoute ==
  ASSUME Tame, NEW n, NEW r, Requested(n, r)
  PROVE  ~r.capture
  BY DEF Tame, Requested

\* A route of a name on the face is found.
LEMMA TameFound ==
  ASSUME Tame, NEW R, IsTame(R), NEW n \in DOMAIN R, NEW r, Requested(n, r), findRoute(R[n], r) = {}
  PROVE  ~hasFaceId(R[n], r.face)
<1>. SUFFICES ASSUME NEW i \in OnFace(R[n], r.face) PROVE FALSE
  BY DEF hasFaceId
<1>1. i \in DOMAIN R[n].routes /\ R[n].routes[i].face = r.face
  BY DEF OnFace
<1>2. Requested(n, R[n].routes[i])
  BY <1>1 DEF IsTame
<1>3. R[n].routes[i].origin = r.origin
  BY <1>1, <1>2 DEF Requested, Tame
<1>. QED
  BY <1>1, <1>3 DEF findRoute

\* The change that computeUpdates yields, for a table.
ChangeOf(R, b) ==
  IF b.action = "register" THEN computeUpdatesForRegistration(R, b.name, b.route)
  ELSE computeUpdatesForUnregistration(R, b.name, b.route)

\* The incremental computation of computeUpdatesForRegistration and -Unregistration is
\* right: for a tame update of a tame table, at every name and face there is a FIB update
\* with the nexthop that the routes will call for, or none is needed; and the same for
\* the marks of inherited routes.  (What the walk over the children computes is compared
\* with the routes of all ancestors, without following the walk.)
THEOREM ChangeIsRight ==
  ASSUME Tame, NEW R, IsTame(R), NEW V, V = Offers(R), MarksRight(R, V, NoRoutes),
         NEW b \in Update, Requested(b.name, b.route), NEW W, W = OffersAfter(V, b),
         NEW c, c = ChangeOf(R, b), NEW d \in Name, NEW f \in Face
  PROVE  DeltaAt(R, V, W, b.name, c, d, f)
<1>1. PICK n, r : n = b.name /\ r = b.route
  OBVIOUS
<1>2. n \in Name /\ r \in Route /\ r.face \in Face /\ Requested(n, r) /\ r.capture = FALSE
  <2>1. n \in Name /\ r \in Route /\ Requested(n, r)
    BY <1>1 DEF Update
  <2>2. ~r.capture
    BY <2>1, TameRoute
  <2>. QED
    BY <2>1, <2>2 DEF Route
<1>3. V \subseteq OfferSet /\ AllRequested(V) /\ Offered(V) = DOMAIN R
  BY TameOffers
<1>4. IsTable(R) /\ Parented(R)
  BY DEF IsTame
<1>5. ASSUME b.action = "register" PROVE DeltaAt(R, V, W, n, c, d, f)
  <2>1. PICK o : Registers(V, W, n, r, o)
    BY <1>1, <1>3, <1>5, AfterUpdate
  <2>2. c = computeUpdatesForRegistration(R, n, r)
    BY <1>1, <1>5 DEF ChangeOf
  <2>3. CASE n \notin DOMAIN R
    <3>1. c = createFibUpdatesForNewRibEntry(R, n, r)
      BY <2>2, <2>3 DEF computeUpdatesForRegistration
    <3>. QED
      BY <3>1, <2>1, <2>3, <1>2, DeltaNewEntry
  <2>4. CASE n \in DOMAIN R /\ findRoute(R[n], r) = {}
    <3>1. c = createFibUpdatesForNewRoute(R, n, R[n], r, FALSE)
      BY <2>2, <2>4, <1>2 DEF computeUpdatesForRegistration
    <3>2. ~hasFaceId(R[n], r.face)
      BY <2>4, <1>2, TameFound
    <3>. QED
      BY <3>1, <3>2, <2>1, <2>4, <1>2, DeltaNewRoute
  <2>5. CASE n \in DOMAIN R /\ findRoute(R[n], r) # {}
    <3>1. PICK i \in DOMAIN R[n].routes : i = Min(findRoute(R[n], r)) /\ R[n].routes[i].face = r.face
      BY <2>5, NoSecond
    <3>2. PICK old, e : old = R[n].routes[i] /\ e = Replaced(R[n], i, r)
      OBVIOUS
    <3>3. c = createFibUpdatesForUpdatedRoute(R, n, e, r, old)
      BY <2>2, <2>5, <3>1, <3>2 DEF computeUpdatesForRegistration, Replaced
    <3>4. ~old.capture
      <4>1. Requested(n, old)
        BY <2>5, <3>1, <3>2 DEF IsTame
      <4>. QED
        BY <4>1, TameRoute
    <3>5. ~r.inherit => GiversOf(V, n, r.face) = {}
      BY <1>2, <1>3, TameAbove
    <3>6. ASSUME old.inherit PROVE \A x \in Open(V, n, r.face) : ~Owns(V, x, r.face)
      <4>1. PICK w : w = Offer(n, old)
        OBVIOUS
      <4>2. w \in V /\ w.name = n /\ w.face = r.face /\ w.inherit
        BY <4>1, <2>5, <3>1, <3>2, <3>6, OfferThere
      <4>3. Gives(V, n, r.face)
        BY <4>2 DEF Gives
      <4>. QED
        BY <4>3, <1>2, <1>3, TameBelow
    <3>. QED
      BY <3>1, <3>2, <3>3, <3>4, <3>5, <3>6, <2>1, <2>5, <1>2, DeltaUpdated
  <2>. QED
    BY <2>3, <2>4, <2>5
<1>6. ASSUME b.action # "register" PROVE DeltaAt(R, V, W, n, c, d, f)
  <2>1. Unregisters(V, W, n, r.face)
    BY <1>1, <1>3, <1>6, AfterUpdate
  <2>2. c = computeUpdatesForUnregistration(R, n, r)
    BY <1>1, <1>6 DEF ChangeOf
  <2>3. CASE n \notin DOMAIN R \/ findRoute(R[n], r) = {}
    <3>1. c = NoChange
      BY <2>2, <2>3 DEF computeUpdatesForUnregistration
    <3>2. ~Owns(V, n, r.face)
      <4>1. CASE n \notin DOMAIN R
        BY <4>1, <1>3 DEF Owns, Offered
      <4>2. CASE n \in DOMAIN R
        <5>1. ~hasFaceId(R[n], r.face)
          BY <4>2, <2>3, <1>2, TameFound
        <5>. QED
          BY <5>1, <4>2, TameOffers
      <4>. QED
        BY <4>1, <4>2
    <3>3. W = V
      BY <3>2, <1>1, <1>6 DEF OffersAfter, NotOf, Owns
    <3>. QED
      BY <3>1, <3>3, NoChangeAt, KeptSame, DeltaKept
  <2>4. CASE n \in DOMAIN R /\ findRoute(R[n], r) # {}
    <3>1. PICK A : A = getAncestorRoutes(R, findParent(R, n)) /\ AreAncestors(V, n, A)
      BY <1>2, AncestorsOf
    <3>2. Gives(V, n, r.face) => Withdraws(V, W, n, r.face, A, A)
      BY <2>1, <3>1, <1>2, <1>3, TameWithdraws
    <3>3. \A x \in DOMAIN R[n].routes : ~R[n].routes[x].capture
      BY <2>4, TameRoute DEF IsTame
    <3>. QED
      BY <3>1, <3>2, <3>3, <2>1, <2>2, <2>4, <1>2, DeltaErased
  <2>. QED
    BY <2>3, <2>4
<1>7. DeltaAt(R, V, W, n, c, d, f)
  BY <1>5, <1>6
<1>. QED
  BY <1>1, <1>7

----------------------------------------------------------------------------
(* Tables after a tame update *)

TameEntry(n, e) ==
  /\ e.nCapture = 0
  /\ \A i, j \in DOMAIN e.routes : e.routes[i].face = e.routes[j].face => i = j
  /\ \A i \in DOMAIN e.routes : Requested(n, e.routes[i])

\* The other entries keep routes and marks, the one of n its marks.
Touched(R, T, n) ==
  /\ DOMAIN T \ {n} = DOMAIN R \ {n}
  /\ \A m \in DOMAIN R \ {n} : /\ T[m].routes = R[m].routes /\ T[m].nCapture = R[m].nCapture
                               /\ T[m].inherited = R[m].inherited
  /\ n \in DOMAIN T /\ n \in DOMAIN R => T[n].inherited = R[n].inherited

\* A tame table with one entry changed.
LEMMA TouchedTame ==
  ASSUME NEW R, IsTame(R), NEW T, IsTable(T), Parented(T), NEW n, Touched(R, T, n),
         n \in DOMAIN T => TameEntry(n, T[n])
  PROVE  IsTame(T)
<1>1. ASSUME NEW m \in DOMAIN T PROVE TameEntry(m, T[m])
  <2>1. CASE m = n
    BY <2>1
  <2>2. CASE m # n
    <3>1. m \in DOMAIN R /\ T[m].routes = R[m].routes /\ T[m].nCapture = R[m].nCapture
      BY <2>2 DEF Touched
    <3>2. TameEntry(m, R[m])
      BY <3>1 DEF IsTame, TameEntry
    <3>. QED
      BY <3>1, <3>2 DEF TameEntry
  <2>. QED
    BY <2>1, <2>2
<1>. QED
  BY <1>1 DEF IsTame, TameEntry

\* An entry is changed in the table.
LEMMA EditedTouched ==
  ASSUME NEW R, NEW n \in DOMAIN R, NEW d, d.inherited = R[n].inherited, NEW T, Edited(R, n, d, T)
  PROVE  Touched(R, T, n) /\ DOMAIN T = DOMAIN R /\ T[n] = d
<1>1. DOMAIN T = DOMAIN R /\ T[n] = d /\ \A m \in DOMAIN R : m # n => T[m] = R[m]
  BY DEF Edited
<1>. QED
  BY <1>1 DEF Touched

\* insert makes a tame entry.
LEMMA InsertTame ==
  ASSUME Tame, NEW R, IsTame(R), NEW n \in Name, NEW r \in Route, Requested(n, r),
         NEW T, T = insert(R, n, r)
  PROVE  Touched(R, T, n) /\ n \in DOMAIN T /\ TameEntry(n, T[n])
<1>0. IsTable(R) /\ Parented(R) /\ ~r.capture
  BY TameRoute DEF IsTame
<1>1. CASE n \in DOMAIN R /\ findRoute(R[n], r) = {}
  <2>1. PICK e : e = R[n] /\ e \in Entry
    BY <1>0, <1>1, EntryTyped
  <2>2. e.routes \in Seq(Route) /\ e.nCapture = 0 /\ TameEntry(n, e)
    BY <1>1, <2>1 DEF Entry, IsTame, TameEntry
  <2>3. PICK s : s = Append(e.routes, r)
    OBVIOUS
  <2>4. PICK k \in Nat : k = Len(e.routes)
    BY <2>2
  <2>5. DOMAIN s = 1..(k + 1) /\ s[k + 1] = r /\ DOMAIN e.routes = 1..k /\ \A i \in 1..k : s[i] = e.routes[i]
    BY <2>2, <2>3, <2>4
  <2>6. PICK d : d = [e EXCEPT !.routes = s, !.nCapture = e.nCapture]
    OBVIOUS
  <2>7. d = [routes |-> s, inherited |-> e.inherited, nCapture |-> e.nCapture, parent |-> e.parent]
    BY <2>1, <2>6 DEF Entry
  <2>8. Edited(R, n, d, T)
    <3>1. T = [R EXCEPT ![n].routes = Append(@, r), ![n].nCapture = @]
      BY <1>0, <1>1 DEF insert
    <3>. QED
      BY <3>1, <1>1, <2>1, <2>3, <2>6 DEF Edited
  <2>9. \A i \in 1..k : e.routes[i].face # r.face
    <3>1. ~hasFaceId(e, r.face)
      BY <1>1, <2>1, TameFound
    <3>. QED
      BY <3>1, <2>5 DEF hasFaceId, OnFace
  <2>10. TameEntry(n, d)
    <3>1. d.routes = s /\ d.nCapture = 0
      BY <2>2, <2>7
    <3>2. \A i \in 1..(k + 1) : i \in 1..k \/ i = k + 1
      BY <2>4
    <3>3. \A i, j \in DOMAIN s : s[i].face = s[j].face => i = j
      BY <3>2, <2>2, <2>5, <2>9 DEF TameEntry
    <3>4. \A i \in DOMAIN s : Requested(n, s[i])
      BY <3>2, <2>2, <2>5 DEF TameEntry
    <3>. QED
      BY <3>1, <3>3, <3>4 DEF TameEntry
  <2>. QED
    BY <2>1, <2>7, <2>8, <2>10, <1>1, EditedTouched
<1>2. CASE n \in DOMAIN R /\ findRoute(R[n], r) # {}
  <2>1. PICK e : e = R[n] /\ e \in Entry
    BY <1>0, <1>2, EntryTyped
  <2>2. e.routes \in Seq(Route) /\ e.nCapture = 0 /\ TameEntry(n, e)
    BY <1>2, <2>1 DEF Entry, IsTame, TameEntry
  <2>3. PICK i \in DOMAIN e.routes : i = Min(findRoute(e, r)) /\ e.routes[i].face = r.face
    BY <1>2, <2>1, NoSecond
  <2>4. PICK s : s = [e.routes EXCEPT ![i] = r]
    OBVIOUS
  <2>5. DOMAIN s = DOMAIN e.routes /\ s[i] = r /\ \A j \in DOMAIN e.routes : j # i => s[j] = e.routes[j]
    BY <2>2, <2>4
  <2>6. PICK d : d = [e EXCEPT !.routes = s]
    OBVIOUS
  <2>7. d = [routes |-> s, inherited |-> e.inherited, nCapture |-> e.nCapture, parent |-> e.parent]
    BY <2>1, <2>6 DEF Entry
  <2>8. Edited(R, n, d, T)
    <3>1. T = [R EXCEPT ![n].routes[Min(findRoute(R[n], r))] = r]
      BY <1>2 DEF insert
    <3>. QED
      BY <3>1, <1>2, <2>1, <2>3, <2>4, <2>6 DEF Edited
  <2>9. TameEntry(n, d)
    BY <2>2, <2>3, <2>5, <2>7 DEF TameEntry
  <2>. QED
    BY <2>1, <2>7, <2>8, <2>9, <1>2, EditedTouched
<1>3. CASE n \notin DOMAIN R
  <2>1. PICK p : p = findParent(R, n)
    OBVIOUS
  <2>2. PICK d : d = [routes |-> <<r>>, inherited |-> {}, nCapture |-> 0, parent |-> p]
    OBVIOUS
  <2>3. T = [m \in DOMAIN R \cup {n} |->
               IF m = n THEN d
               ELSE IF n \in Prefixes[m] /\ R[m].parent = p THEN [R[m] EXCEPT !.parent = n]
               ELSE R[m]]
    BY <1>0, <1>3, <2>1, <2>2 DEF insert
  <2>4. n \in DOMAIN T /\ T[n] = d /\ DOMAIN T \ {n} = DOMAIN R \ {n}
    BY <1>3, <2>3
  <2>5. ASSUME NEW m \in DOMAIN R \ {n}
        PROVE  T[m].routes = R[m].routes /\ T[m].nCapture = R[m].nCapture /\ T[m].inherited = R[m].inherited
    <3>1. R[m] \in Entry
      BY <1>0, EntryTyped
    <3>2. T[m] = [R[m] EXCEPT !.parent = n] \/ T[m] = R[m]
      BY <2>3
    <3>. QED
      BY <3>1, <3>2 DEF Entry
  <2>6. TameEntry(n, d)
    BY <2>2 DEF TameEntry
  <2>. QED
    BY <2>4, <2>5, <2>6, <1>3 DEF Touched
<1>. QED
  BY <1>1, <1>2, <1>3

\* erase leaves a tame entry, or none, and nothing on the face.
LEMMA EraseTame ==
  ASSUME Tame, NEW R, IsTame(R), NEW n \in Name, NEW r \in Route, Requested(n, r),
         NEW T, T = erase(R, n, r)
  PROVE  /\ Touched(R, T, n) /\ (n \in DOMAIN T => TameEntry(n, T[n]))
         /\ \A s \in RoutesAt(T, n) : s.face # r.face
<1>0. IsTable(R) /\ Parented(R)
  BY DEF IsTame
<1>1. CASE n \notin DOMAIN R \/ findRoute(R[n], r) = {}
  <2>1. T = R
    BY <1>1 DEF erase
  <2>2. n \in DOMAIN R => ~hasFaceId(R[n], r.face)
    BY <1>1, TameFound
  <2>. QED
    BY <2>1, <2>2 DEF Touched, IsTame, TameEntry, RoutesAt, hasFaceId, OnFace
<1>2. CASE n \in DOMAIN R /\ findRoute(R[n], r) # {} /\ Len(R[n].routes) = 1
  <2>1. T = [m \in DOMAIN R \ {n} |-> IF R[m].parent = n THEN [R[m] EXCEPT !.parent = R[n].parent] ELSE R[m]]
    BY <1>2 DEF erase, eraseEntry
  <2>2. n \notin DOMAIN T /\ DOMAIN T \ {n} = DOMAIN R \ {n}
    BY <2>1
  <2>3. ASSUME NEW m \in DOMAIN R \ {n}
        PROVE  T[m].routes = R[m].routes /\ T[m].nCapture = R[m].nCapture /\ T[m].inherited = R[m].inherited
    <3>1. R[m] \in Entry
      BY <1>0, EntryTyped
    <3>2. T[m] = [R[m] EXCEPT !.parent = R[n].parent] \/ T[m] = R[m]
      BY <2>1
    <3>. QED
      BY <3>1, <3>2 DEF Entry
  <2>. QED
    BY <2>2, <2>3 DEF Touched, RoutesAt
<1>3. CASE n \in DOMAIN R /\ findRoute(R[n], r) # {} /\ Len(R[n].routes) # 1
  <2>1. PICK e : e = R[n] /\ e \in Entry
    BY <1>0, <1>3, EntryTyped
  <2>2. e.routes \in Seq(Route) /\ e.nCapture = 0 /\ TameEntry(n, e)
    BY <1>3, <2>1 DEF Entry, IsTame, TameEntry
  <2>3. PICK i \in DOMAIN e.routes : i = Min(findRoute(e, r)) /\ e.routes[i].face = r.face
    BY <1>3, <2>1, NoSecond
  <2>4. ~e.routes[i].capture
    BY <2>2, TameRoute DEF TameEntry
  <2>5. PICK s : s = [j \in 1..(Len(e.routes) - 1) |-> IF j < i THEN e.routes[j] ELSE e.routes[j + 1]]
    OBVIOUS
  <2>6. PICK k \in Nat : k = Len(e.routes) /\ DOMAIN e.routes = 1..k
    BY <2>2
  <2>7. DOMAIN s = 1..(k - 1) /\ \A j \in 1..(k - 1) : s[j] = e.routes[IF j < i THEN j ELSE j + 1]
    BY <2>5, <2>6
  <2>8. PICK d : d = Without(e, i)
    OBVIOUS
  <2>9. d = [routes |-> s, inherited |-> e.inherited, nCapture |-> e.nCapture, parent |-> e.parent]
    <3>1. d = [[e EXCEPT !.routes = s] EXCEPT !.nCapture = e.nCapture]
      BY <2>4, <2>5, <2>8 DEF Without
    <3>. QED
      BY <3>1, <2>1 DEF Entry
  <2>10. Edited(R, n, d, T)
    BY <1>3, <2>1, <2>3, <2>8 DEF erase, Edited
  <2>11. \A j \in DOMAIN s : \E x \in DOMAIN e.routes : s[j] = e.routes[x] /\ x # i /\ x = IF j < i THEN j ELSE j + 1
    BY <2>3, <2>6, <2>7
  <2>12. TameEntry(n, d)
    <3>1. d.routes = s /\ d.nCapture = 0
      BY <2>2, <2>9
    <3>2. ASSUME NEW j \in DOMAIN s, NEW l \in DOMAIN s, s[j].face = s[l].face PROVE j = l
      <4>1. PICK x \in DOMAIN e.routes : s[j] = e.routes[x] /\ x = IF j < i THEN j ELSE j + 1
        BY <2>11
      <4>2. PICK y \in DOMAIN e.routes : s[l] = e.routes[y] /\ y = IF l < i THEN l ELSE l + 1
        BY <2>11
      <4>3. x = y
        BY <4>1, <4>2, <3>2, <2>2 DEF TameEntry
      <4>4. j \in Int /\ l \in Int /\ i \in Int
        BY <2>3, <2>6, <2>7
      <4>. QED
        BY <4>1, <4>2, <4>3, <4>4
    <3>3. \A j \in DOMAIN s : Requested(n, s[j])
      BY <2>2, <2>11 DEF TameEntry
    <3>. QED
      BY <3>1, <3>2, <3>3 DEF TameEntry
  <2>13. \A j \in DOMAIN s : s[j].face # r.face
    BY <2>2, <2>3, <2>11 DEF TameEntry
  <2>14. Touched(R, T, n) /\ DOMAIN T = DOMAIN R /\ T[n] = d
    BY <2>1, <2>9, <2>10, <1>3, EditedTouched
  <2>15. \A x \in RoutesAt(T, n) : x.face # r.face
    BY <2>9, <2>13, <2>14, <1>3 DEF RoutesAt
  <2>. QED
    BY <2>12, <2>14, <2>15
<1>. QED
  BY <1>1, <1>2, <1>3

\* The table when the update b is applied, before the marks are.
TableAfter(R, b) ==
  IF b.action = "register" THEN insert(R, b.name, b.route) ELSE erase(R, b.name, b.route)

\* Only the routes of a name and a face are edited.
LEMMA EditedOffers ==
  ASSUME NEW R, IsTable(R), NEW T, IsTable(T), NEW n, NEW r, Edits(R, T, n, r)
  PROVE  /\ \A v \in Offers(R) : ~(v.name = n /\ v.face = r.face) => v \in Offers(T)
         /\ \A v \in Offers(T) : ~(v.name = n /\ v.face = r.face) => v \in Offers(R)
<1>1. ASSUME NEW m \in Name, NEW s \in Route PROVE Offer(m, s).name = m /\ Offer(m, s).face = s.face
  BY DEF Offer
<1>2. ASSUME NEW v \in Offers(R), ~(v.name = n /\ v.face = r.face) PROVE v \in Offers(T)
  <2>1. PICK m \in Name : \E s \in RoutesAt(R, m) : v = Offer(m, s)
    BY DEF Offers
  <2>2. PICK s \in RoutesAt(R, m) : v = Offer(m, s)
    BY <2>1
  <2>3. s \in Route
    BY <2>2, RoutesTyped
  <2>4. s \in RoutesAt(T, m)
    BY <2>2, <2>3, <1>1, <1>2 DEF Edits
  <2>. QED
    BY <2>2, <2>4 DEF Offers
<1>3. ASSUME NEW v \in Offers(T), ~(v.name = n /\ v.face = r.face) PROVE v \in Offers(R)
  <2>1. PICK m \in Name : \E s \in RoutesAt(T, m) : v = Offer(m, s)
    BY DEF Offers
  <2>2. PICK s \in RoutesAt(T, m) : v = Offer(m, s)
    BY <2>1
  <2>3. s \in Route
    BY <2>2, RoutesTyped
  <2>4. s \in RoutesAt(R, m)
    BY <2>2, <2>3, <1>1, <1>3 DEF Edits
  <2>. QED
    BY <2>2, <2>4 DEF Offers
<1>. QED
  BY <1>2, <1>3

\* insert and erase make of the offers what the update asks for.
LEMMA TameAfter ==
  ASSUME Tame, NEW R, IsTame(R), NEW b \in Update, Requested(b.name, b.route), NEW T, T = TableAfter(R, b)
  PROVE  IsTame(T) /\ Offers(T) = OffersAfter(Offers(R), b) /\ Touched(R, T, b.name)
<1>1. PICK n, r : n = b.name /\ r = b.route
  OBVIOUS
<1>2. n \in Name /\ r \in Route /\ Requested(n, r) /\ IsTable(R) /\ Parented(R)
  BY <1>1 DEF Update, IsTame
<1>3. PICK V, W : V = Offers(R) /\ W = Offers(T)
  OBVIOUS
<1>4. CASE b.action = "register"
  <2>1. T = insert(R, n, r)
    BY <1>1, <1>4 DEF TableAfter
  <2>2. IsTable(T) /\ Parented(T)
    BY <1>2, <2>1, InsertKeeps
  <2>3. Touched(R, T, n) /\ n \in DOMAIN T /\ TameEntry(n, T[n])
    BY <1>2, <2>1, InsertTame
  <2>4. IsTame(T)
    BY <2>2, <2>3, TouchedTame
  <2>5. Edits(R, T, n, r) /\ r \in RoutesAt(T, n)
    BY <1>2, <2>1, InsertRoutes
  <2>6. PICK o : o = Offer(n, r)
    OBVIOUS
  <2>7. o \in W /\ o.name = n /\ o.face = r.face
    BY <1>2, <1>3, <2>5, <2>6 DEF Offers, Offer
  <2>8. Single(W)
    BY <1>3, <2>4, TameOffers
  <2>9. /\ \A v \in V : ~(v.name = n /\ v.face = r.face) => v \in W
        /\ \A v \in W : ~(v.name = n /\ v.face = r.face) => v \in V
    BY <1>2, <1>3, <2>2, <2>5, EditedOffers
  <2>10. W = NotOf(V, n, r.face) \cup {o}
    BY <2>7, <2>8, <2>9 DEF NotOf, Single
  <2>11. W = OffersAfter(V, b)
    BY <2>10, <2>6, <1>1, <1>4 DEF OffersAfter
  <2>. QED
    BY <1>1, <1>3, <2>3, <2>4, <2>11
<1>5. CASE b.action # "register"
  <2>1. T = erase(R, n, r)
    BY <1>1, <1>5 DEF TableAfter
  <2>2. IsTable(T) /\ Parented(T)
    BY <1>2, <2>1, EraseKeeps
  <2>3. Touched(R, T, n) /\ (n \in DOMAIN T => TameEntry(n, T[n])) /\ \A s \in RoutesAt(T, n) : s.face # r.face
    BY <1>2, <2>1, EraseTame
  <2>4. IsTame(T)
    BY <2>2, <2>3, TouchedTame
  <2>5. Edits(R, T, n, r)
    BY <1>2, <2>1, EraseRoutes
  <2>6. ASSUME NEW v \in W PROVE ~(v.name = n /\ v.face = r.face)
    <3>1. PICK m \in Name : \E s \in RoutesAt(T, m) : v = Offer(m, s)
      BY <1>3 DEF Offers
    <3>2. PICK s \in RoutesAt(T, m) : v = Offer(m, s)
      BY <3>1
    <3>3. v.name = m /\ v.face = s.face
      BY <3>2 DEF Offer
    <3>. QED
      BY <3>2, <3>3, <2>3
  <2>9. /\ \A v \in V : ~(v.name = n /\ v.face = r.face) => v \in W
        /\ \A v \in W : ~(v.name = n /\ v.face = r.face) => v \in V
    BY <1>2, <1>3, <2>2, <2>5, EditedOffers
  <2>10. W = NotOf(V, n, r.face)
    BY <2>6, <2>9 DEF NotOf
  <2>11. W = OffersAfter(V, b)
    BY <2>10, <1>1, <1>5 DEF OffersAfter
  <2>. QED
    BY <1>1, <1>3, <2>3, <2>4, <2>11
<1>. QED
  BY <1>4, <1>5

\* The same offers at the names.
LEMMA SameOffers ==
  ASSUME NEW R, NEW T, \A m \in Name : RoutesAt(T, m) = RoutesAt(R, m)
  PROVE  Offers(T) = Offers(R)
  BY DEF Offers

\* modifyInheritedRoutes makes the marks that the changes ask for.
LEMMA ModifiedTame ==
  ASSUME NEW T, IsTame(T), NEW I, NEW U, U = modifyInheritedRoutes(T, I)
  PROVE  /\ IsTame(U) /\ Offers(U) = Offers(T)
         /\ \A m \in DOMAIN T : \A f \in Face :
              f \in U[m].inherited <=> IF <<m, f>> \in DOMAIN I THEN I[<<m, f>>] ELSE f \in T[m].inherited
         /\ DOMAIN U = DOMAIN T
<1>. DEFINE inh(m) == {f \in Face : IF <<m, f>> \in DOMAIN I THEN I[<<m, f>>] ELSE f \in T[m].inherited}
            new(m) == [T[m] EXCEPT !.inherited = inh(m)]
<1>1. U = [m \in DOMAIN T |-> new(m)]
  BY DEF modifyInheritedRoutes
<1>2. IsTable(T) /\ Parented(T)
  BY DEF IsTame
<1>3. ASSUME NEW m \in DOMAIN T
      PROVE  new(m).routes = T[m].routes /\ new(m).nCapture = T[m].nCapture /\ new(m).inherited = inh(m)
  <2>1. T[m] \in Entry
    BY <1>2, EntryTyped
  <2>. HIDE DEF inh
  <2>. QED
    BY <2>1 DEF Entry
<1>4. DOMAIN U = DOMAIN T /\ \A m \in DOMAIN T : U[m] = new(m)
  <2>. HIDE DEF new
  <2>. QED
    BY <1>1
<1>5. \A m \in DOMAIN T : U[m].routes = T[m].routes /\ U[m].nCapture = T[m].nCapture /\ U[m].inherited = inh(m)
  <2>. HIDE DEF new, inh
  <2>. QED
    BY <1>3, <1>4
<1>6. IsTable(U) /\ Parented(U)
  BY <1>2, ModifyInheritedKeeps
<1>7. IsTame(U)
  <2>. HIDE DEF inh
  <2>. QED
    BY <1>4, <1>5, <1>6 DEF IsTame
<1>8. Offers(U) = Offers(T)
  <2>1. \A m \in Name : RoutesAt(U, m) = RoutesAt(T, m)
    BY <1>2, ModifyInheritedRoutes
  <2>. QED
    BY <2>1, SameOffers
<1>9. \A m \in DOMAIN T : \A f \in Face :
        f \in U[m].inherited <=> IF <<m, f>> \in DOMAIN I THEN I[<<m, f>>] ELSE f \in T[m].inherited
  BY <1>5
<1>. QED
  BY <1>4, <1>7, <1>8, <1>9

\* The end of a batch: the table is what the update asks for, and the marks are right.
LEMMA AppliedTame ==
  ASSUME Tame, NEW R, IsTame(R), NEW b \in Update, Requested(b.name, b.route), NEW I,
         MarksRight(R, OffersAfter(Offers(R), b), I),
         NEW U, U = modifyInheritedRoutes(TableAfter(R, b), I)
  PROVE  IsTame(U) /\ Offers(U) = OffersAfter(Offers(R), b) /\ MarksRight(U, Offers(U), NoRoutes)
<1>1. PICK T : T = TableAfter(R, b)
  OBVIOUS
<1>2. IsTame(T) /\ Offers(T) = OffersAfter(Offers(R), b) /\ Touched(R, T, b.name)
  BY <1>1, TameAfter
<1>3. /\ IsTame(U) /\ Offers(U) = Offers(T) /\ DOMAIN U = DOMAIN T
      /\ \A m \in DOMAIN T : \A f \in Face :
           f \in U[m].inherited <=> IF <<m, f>> \in DOMAIN I THEN I[<<m, f>>] ELSE f \in T[m].inherited
  BY <1>1, <1>2, ModifiedTame
<1>4. PICK W : W = Offers(U)
  OBVIOUS
<1>5. ASSUME NEW m \in Name, NEW f \in Face, Inherits(W, m, f) PROVE Marked(U, NoRoutes, m, f)
  <2>1. Marked(R, I, m, f)
    BY <1>2, <1>3, <1>4, <1>5 DEF MarksRight
  <2>2. Offered(W) = DOMAIN U
    BY <1>3, <1>4, TameOffers
  <2>3. m \in DOMAIN T
    BY <2>2, <1>3, <1>5 DEF Inherits
  <2>4. m \in DOMAIN R => T[m].inherited = R[m].inherited
    BY <2>3, <1>2 DEF Touched
  <2>5. f \in U[m].inherited
    BY <2>1, <2>3, <2>4, <1>3 DEF Marked
  <2>6. <<m, f>> \notin DOMAIN NoRoutes
    BY DEF NoRoutes
  <2>. QED
    BY <2>3, <2>5, <2>6, <1>3 DEF Marked
<1>6. MarksRight(U, W, NoRoutes)
  BY <1>5 DEF MarksRight
<1>. QED
  BY <1>2, <1>3, <1>4, <1>6

\* The table when the event of a route is over.
Unexpiring(R, n, i) == [R EXCEPT ![n].routes[i].expires = FALSE]

\* It offers the same, and keeps the marks.
LEMMA ExpiredTame ==
  ASSUME NEW R, IsTame(R), NEW n \in DOMAIN R, NEW i \in DOMAIN R[n].routes, NEW T, T = Unexpiring(R, n, i)
  PROVE  IsTame(T) /\ Offers(T) = Offers(R) /\ \A V, I : MarksRight(R, V, I) => MarksRight(T, V, I)
<1>0. IsTable(R) /\ Parented(R)
  BY DEF IsTame
<1>1. PICK e : e = R[n] /\ e \in Entry
  BY <1>0, EntryTyped
<1>2. PICK x : x = e.routes[i]
  OBVIOUS
<1>3. x \in Route /\ e.routes \in Seq(Route)
  BY <1>1, <1>2, OnFaceFacts DEF Entry
<1>4. PICK r : r = [x EXCEPT !.expires = FALSE]
  OBVIOUS
<1>5. r \in Route /\ r.face = x.face /\ r.origin = x.origin /\ r.cost = x.cost /\ r.inherit = x.inherit
      /\ r.capture = x.capture
  BY <1>3, <1>4 DEF Route
<1>6. PICK s : s = [e.routes EXCEPT ![i] = r]
  OBVIOUS
<1>7. DOMAIN s = DOMAIN e.routes /\ s[i] = r /\ \A j \in DOMAIN e.routes : j # i => s[j] = e.routes[j]
  BY <1>1, <1>3, <1>6
<1>8. PICK d : d = [e EXCEPT !.routes = s]
  OBVIOUS
<1>9. d = [routes |-> s, inherited |-> e.inherited, nCapture |-> e.nCapture, parent |-> e.parent]
  BY <1>1, <1>8 DEF Entry
<1>10. Edited(R, n, d, T)
  BY <1>1, <1>2, <1>4, <1>6, <1>8 DEF Unexpiring, Edited
<1>11. Touched(R, T, n) /\ DOMAIN T = DOMAIN R /\ T[n] = d
  BY <1>1, <1>9, <1>10, EditedTouched
<1>12. \A j \in DOMAIN s : /\ s[j].face = e.routes[j].face /\ s[j].cost = e.routes[j].cost
                           /\ s[j].inherit = e.routes[j].inherit /\ s[j].origin = e.routes[j].origin
                           /\ s[j].capture = e.routes[j].capture
  BY <1>2, <1>5, <1>7
<1>13. TameEntry(n, d)
  <2>1. TameEntry(n, e)
    BY <1>1 DEF IsTame, TameEntry
  <2>2. \A j \in DOMAIN s : Requested(n, s[j])
    BY <2>1, <1>7, <1>12 DEF TameEntry, Requested
  <2>. QED
    BY <2>1, <2>2, <1>7, <1>9, <1>12 DEF TameEntry
<1>14. IsTable(T) /\ Parented(T)
  BY <1>0, ExpirationKeeps DEF Unexpiring
<1>15. IsTame(T)
  BY <1>11, <1>13, <1>14, TouchedTame
<1>16. \A m \in DOMAIN R : /\ DOMAIN T[m].routes = DOMAIN R[m].routes
                           /\ \A j \in DOMAIN R[m].routes : Offer(m, T[m].routes[j]) = Offer(m, R[m].routes[j])
  <2>1. ASSUME NEW m \in DOMAIN R, m # n PROVE T[m].routes = R[m].routes
    BY <2>1, <1>11 DEF Touched
  <2>2. T[n].routes = s
    BY <1>9, <1>11
  <2>. QED
    BY <2>1, <2>2, <1>1, <1>7, <1>12 DEF Offer
<1>17. Offers(T) = Offers(R)
  <2>1. /\ \A v \in Offers(R) : \E m \in DOMAIN R : \E j \in DOMAIN R[m].routes : v = Offer(m, R[m].routes[j])
        /\ \A m \in DOMAIN R : \A j \in DOMAIN R[m].routes : Offer(m, R[m].routes[j]) \in Offers(R)
    BY <1>0, OfferOf
  <2>2. /\ \A v \in Offers(T) : \E m \in DOMAIN T : \E j \in DOMAIN T[m].routes : v = Offer(m, T[m].routes[j])
        /\ \A m \in DOMAIN T : \A j \in DOMAIN T[m].routes : Offer(m, T[m].routes[j]) \in Offers(T)
    BY <1>14, OfferOf
  <2>3. ASSUME NEW v \in Offers(R) PROVE v \in Offers(T)
    <3>1. PICK m \in DOMAIN R : \E j \in DOMAIN R[m].routes : v = Offer(m, R[m].routes[j])
      BY <2>1
    <3>2. PICK j \in DOMAIN R[m].routes : v = Offer(m, R[m].routes[j])
      BY <3>1
    <3>. QED
      BY <3>2, <2>2, <1>11, <1>16
  <2>4. ASSUME NEW v \in Offers(T) PROVE v \in Offers(R)
    <3>1. PICK m \in DOMAIN R : \E j \in DOMAIN T[m].routes : v = Offer(m, T[m].routes[j])
      BY <2>2, <1>11
    <3>2. PICK j \in DOMAIN T[m].routes : v = Offer(m, T[m].routes[j])
      BY <3>1
    <3>. QED
      BY <3>2, <2>1, <1>16
  <2>. QED
    BY <2>3, <2>4
<1>18. ASSUME NEW V, NEW I, MarksRight(R, V, I) PROVE MarksRight(T, V, I)
  <2>1. \A m \in DOMAIN R : T[m].inherited = R[m].inherited
    BY <1>11 DEF Touched
  <2>. QED
    BY <2>1, <1>11, <1>18 DEF MarksRight, Marked
<1>. QED
  BY <1>15, <1>17, <1>18

----------------------------------------------------------------------------
(* The FIB on its way *)

\* g has the nexthops that the offers V call for, on the faces F.
FibIs(V, F, g) == \A n \in Name, f \in F : Hop(V, n, f, g[<<n, f>>])

\* With the updates P, g will have the nexthops that W calls for.
OnTheWay(W, P, F, g) ==
  /\ \A u \in P : u.face \in F => Hop(W, u.name, u.face, ValueOf(u))
  /\ \A n \in Name, f \in F : Hop(W, n, f, g[<<n, f>>]) \/ \E u \in P : u.name = n /\ u.face = f

\* The update u is executed in g, if its face exists.
Executed(u, F, g, h) ==
  \A n \in Name, f \in Face :
    h[<<n, f>>] = IF n = u.name /\ f = u.face /\ f \in F THEN ValueOf(u) ELSE g[<<n, f>>]

\* An update of P is executed, and may be executed again.
LEMMA WayExecuted ==
  ASSUME NEW W, NEW P, NEW F \in SUBSET Face, NEW g, OnTheWay(W, P, F, g),
         NEW u \in P, u.name \in Name, NEW h, Executed(u, F, g, h)
  PROVE  OnTheWay(W, P, F, h) /\ OnTheWay(W, P \ {u}, F, h)
<1>1. ASSUME NEW n \in Name, NEW f \in F, ~Hop(W, n, f, h[<<n, f>>])
      PROVE  \E v \in P \ {u} : v.name = n /\ v.face = f
  <2>1. ~(n = u.name /\ f = u.face)
    BY <1>1 DEF OnTheWay, Executed
  <2>2. h[<<n, f>>] = g[<<n, f>>]
    BY <2>1 DEF Executed
  <2>. QED
    BY <1>1, <2>1, <2>2 DEF OnTheWay
<1>. QED
  BY <1>1 DEF OnTheWay

\* The face of an update is gone.
LEMMA WayUnneeded ==
  ASSUME NEW W, NEW P, NEW F, NEW g, OnTheWay(W, P, F, g), NEW u, u.face \notin F
  PROVE  OnTheWay(W, P \ {u}, F, g)
  BY DEF OnTheWay

\* Nothing is left to do.
LEMMA WayDone ==
  ASSUME NEW W, NEW F, NEW g, OnTheWay(W, {}, F, g)
  PROVE  FibIs(W, F, g)
  BY DEF OnTheWay, FibIs

\* Fewer faces count, and there the FIB is as before.
LEMMA WayFewerFaces ==
  ASSUME NEW F, NEW G \in SUBSET F, NEW g, NEW h, \A n \in Name, f \in G : h[<<n, f>>] = g[<<n, f>>]
  PROVE  /\ \A W, P : OnTheWay(W, P, F, g) => OnTheWay(W, P, G, h)
         /\ \A V : FibIs(V, F, g) => FibIs(V, G, h)
  BY DEF OnTheWay, FibIs

\* The faces that an update is not about keep what they have.
LEMMA ExecutedAside ==
  ASSUME NEW F \in SUBSET Face, NEW g, NEW h, NEW u, Executed(u, F, g, h), u.face \notin F
  PROVE  \A n \in Name, f \in F : h[<<n, f>>] = g[<<n, f>>]
  BY DEF Executed

\* What the updates of a change for some faces are.
LEMMA UpdateOf ==
  ASSUME NEW c, IsChange(c), NEW F
  PROVE  /\ \A u \in UpdatesFor(c, F) : /\ u.name \in Name /\ u.face \in F /\ u.face \in Face
                                        /\ FibAt(c, u.name, u.face) = {ValueOf(u)}
         /\ \A n \in Name, f \in F : FibAt(c, n, f) # {} => \E u \in UpdatesFor(c, F) : u.name = n /\ u.face = f
         /\ \A u, v \in UpdatesFor(c, F) : u.name = v.name /\ u.face = v.face => u = v
<1>. DEFINE up(x) == [name |-> x[1], face |-> x[2], action |-> c.fib[x].action, cost |-> c.fib[x].cost]
<1>1. \A x \in DOMAIN c.fib : /\ x \in Name \X Face /\ x = <<x[1], x[2]>> /\ up(x).name = x[1] /\ up(x).face = x[2]
                              /\ up(x).action = c.fib[x].action /\ up(x).cost = c.fib[x].cost
  BY DEF IsChange, IsFib
<1>2. UpdatesFor(c, F) = {up(x) : x \in {y \in DOMAIN c.fib : y[2] \in F}}
  BY DEF UpdatesFor
<1>. HIDE DEF up
<1>3. \A x \in DOMAIN c.fib : FibAt(c, x[1], x[2]) = {ValueOf(up(x))}
  BY <1>1 DEF FibAt, ValueOf
<1>4. ASSUME NEW u \in UpdatesFor(c, F)
      PROVE  /\ u.name \in Name /\ u.face \in F /\ u.face \in Face
             /\ FibAt(c, u.name, u.face) = {ValueOf(u)}
  <2>1. PICK x \in DOMAIN c.fib : x[2] \in F /\ u = up(x)
    BY <1>2
  <2>. QED
    BY <2>1, <1>1, <1>3
<1>5. ASSUME NEW n \in Name, NEW f \in F, FibAt(c, n, f) # {}
      PROVE  \E u \in UpdatesFor(c, F) : u.name = n /\ u.face = f
  <2>1. PICK x : x = <<n, f>>
    OBVIOUS
  <2>2. x \in DOMAIN c.fib /\ x[1] = n /\ x[2] = f
    BY <2>1, <1>5 DEF FibAt
  <2>3. up(x) \in UpdatesFor(c, F)
    BY <2>2, <1>2
  <2>. QED
    BY <2>2, <2>3, <1>1
<1>6. ASSUME NEW u \in UpdatesFor(c, F), NEW v \in UpdatesFor(c, F), u.name = v.name, u.face = v.face
      PROVE  u = v
  <2>1. PICK x \in DOMAIN c.fib : u = up(x)
    BY <1>2
  <2>2. PICK y \in DOMAIN c.fib : v = up(y)
    BY <1>2
  <2>3. x = y
    BY <2>1, <2>2, <1>1, <1>6
  <2>. QED
    BY <2>1, <2>2, <2>3
<1>. QED
  BY <1>4, <1>5, <1>6

\* The change leads from the nexthops of V to those of W.
Leads(R, V, W, n, c) == \A d \in Name, f \in Face : DeltaAt(R, V, W, n, c, d, f)

\* The start of a batch: with its updates, the FIB will be what W calls for.
LEMMA WayStarts ==
  ASSUME NEW R, NEW V, NEW W, NEW n, NEW c, IsChange(c), Leads(R, V, W, n, c),
         NEW F \in SUBSET Face, NEW g, FibIs(V, F, g), NEW h,
         NEW B, B = UpdatesFor(c, {h}) \/ (B = {} /\ h \notin F),
         NEW O, O = UpdatesFor(c, Face \ {h})
  PROVE  OnTheWay(W, B \cup O, F, g)
<1>1. ASSUME NEW u \in B \cup O, u.face \in F PROVE Hop(W, u.name, u.face, ValueOf(u))
  <2>1. PICK G : u \in UpdatesFor(c, G)
    BY <1>1
  <2>2. u.name \in Name /\ u.face \in Face /\ FibAt(c, u.name, u.face) = {ValueOf(u)}
    BY <2>1, UpdateOf
  <2>3. DeltaAt(R, V, W, n, c, u.name, u.face)
    BY <2>2 DEF Leads
  <2>. QED
    BY <2>2, <2>3 DEF DeltaAt
<1>2. ASSUME NEW m \in Name, NEW f \in F, ~Hop(W, m, f, g[<<m, f>>])
      PROVE  \E u \in B \cup O : u.name = m /\ u.face = f
  <2>1. DeltaAt(R, V, W, n, c, m, f) /\ Hop(V, m, f, g[<<m, f>>])
    BY DEF Leads, FibIs
  <2>2. FibAt(c, m, f) # {}
    BY <1>2, <2>1 DEF DeltaAt
  <2>3. CASE f = h
    <3>1. B = UpdatesFor(c, {h})
      BY <2>3
    <3>. QED
      BY <3>1, <2>2, <2>3, UpdateOf
  <2>4. CASE f # h
    <3>1. f \in Face \ {h}
      BY <2>4
    <3>. QED
      BY <3>1, <2>2, UpdateOf
  <2>. QED
    BY <2>3, <2>4
<1>. QED
  BY <1>1, <1>2 DEF OnTheWay

\* The marks of the change are right for W.
LEMMA MarksLead ==
  ASSUME NEW R, NEW V, NEW W, NEW n, NEW c, Leads(R, V, W, n, c)
  PROVE  MarksRight(R, W, c.inherited)
<1>. SUFFICES ASSUME NEW d \in Name, NEW f \in Face, Inherits(W, d, f) PROVE Marked(R, c.inherited, d, f)
  BY DEF MarksRight
<1>1. \/ TRUE \in MarkAt(c, d, f)
      \/ MarkAt(c, d, f) = {} /\ d \in DOMAIN R /\ f \in R[d].inherited
  BY DEF Leads, DeltaAt
<1>. QED
  BY <1>1 DEF MarkAt, Marked

\* A face that may be destroyed has one update at most: nothing is requested below.
LEMMA OneUpdate ==
  ASSUME Tame, NEW R, NEW V, AllRequested(V), NEW W, NEW n, NEW c, IsChange(c), Leads(R, V, W, n, c),
         NEW r, Requested(n, r), r.face \in Breakable
  PROVE  \A u, v \in UpdatesFor(c, {r.face}) : u = v
<1>1. PICK p \in Requests : p.name = n /\ p.route.face = r.face
  BY DEF Requested
<1>2. Open(V, n, r.face) = {}
  <2>. SUFFICES ASSUME NEW d \in Open(V, n, r.face) PROVE FALSE
    OBVIOUS
  <2>1. PICK y \in V : y.name = d /\ n \in Prefixes[d]
    BY DEF Open, Offered
  <2>2. PICK q \in Requests : q.name = y.name
    BY DEF AllRequested
  <2>. QED
    BY <2>1, <2>2, <1>1 DEF Tame
<1>3. ASSUME NEW u \in UpdatesFor(c, {r.face}) PROVE u.name = n /\ u.face = r.face
  <2>1. u.name \in Name /\ u.face \in Face /\ u.face = r.face /\ FibAt(c, u.name, u.face) = {ValueOf(u)}
    BY UpdateOf
  <2>2. DeltaAt(R, V, W, n, c, u.name, u.face)
    BY <2>1 DEF Leads
  <2>. QED
    BY <2>1, <2>2, <1>2 DEF DeltaAt
<1>. QED
  BY <1>3, UpdateOf

----------------------------------------------------------------------------
(* The invariant: the FIB follows the RIB *)

\* No command is sent as another one than the update asks for.  (onUpdateError sends a
\* removal again as an addition: what this supposes is that no removal times out.)
AsAsked(w) == \A k \in DOMAIN w : \A c \in w[k] : c.op = c.update.action
Faithful == AsAsked(wire)

\* A command that timed out has been sent again: one for the same update is behind it.
Followed(w) ==
  \A k \in DOMAIN w : \A c \in w[k] :
    c.live \/ \E j \in DOMAIN w : j > k /\ \E d \in w[j] : d.live /\ d.update = c.update

\* What waits was requested; a face is removed that does not exist.
TameUpdate(u, F) == Requested(u.name, u.route) /\ (u.action = "remove face" => u.route.face \notin F)
QueueTame(q, F) == \A i \in DOMAIN q : TameUpdate(q[i], F)

Pending == batchUpdates \cup otherUpdates

\* Half-way through a batch: each nexthop is on its way to what the offers call for when
\* the batch is done, or is there.  Until the batch's own face is done, the others have
\* what the table calls for; and if that face can go, its command is the only one.
MatchBatch(b) ==
  /\ Carries(wire, Awaited, b)
  /\ Requested(b.name, b.route) /\ batchFace = b.route.face
  /\ batchUpdates # {} => FibIs(Offers(rib), faces \ {batchFace}, fib)
  /\ batchFace \in Breakable => \A u, v \in batchUpdates : u = v
  /\ MarksRight(rib, OffersAfter(Offers(rib), b), inheritUpdates)
  /\ OnTheWay(OffersAfter(Offers(rib), b), Pending, faces, fib)

Matching ==
  /\ FacesOrder /\ Face \ Breakable \subseteq faces
  /\ IsTame(rib) /\ QueueTame(queue, faces) /\ Followed(wire)
  /\ MarksRight(rib, Offers(rib), NoRoutes)
  /\ ~inProgress => NoneAwaited(wire) /\ FibIs(Offers(rib), faces, fib)
  /\ inProgress => \E b \in Update : MatchBatch(b)

MatchInv == fault = "none" => Matching

----------------------------------------------------------------------------
(* The FIB follows the RIB: commands *)

\* What Taken(cmd) keeps of the wire.
LEMMA TakenKeeps ==
  ASSUME wire \in Seq(SUBSET Command), NEW cmd \in Ready, NEW v, v = Taken(cmd)
  PROVE  \E s \in {0, 1} :
           /\ \A k \in DOMAIN v : k \in Int /\ k + s >= 1 /\ k + s \in DOMAIN wire /\ v[k] \subseteq wire[k + s]
           /\ \A j \in DOMAIN wire : j > 1 => j \in Int /\ j - s \in DOMAIN v /\ v[j - s] = wire[j]
<1>1. wire # <<>> /\ cmd \in Head(wire)
  BY DEF Ready
<1>2. /\ Head(wire) \in SUBSET Command /\ Tail(wire) \in Seq(SUBSET Command)
      /\ Head(wire) = wire[1] /\ DOMAIN wire = 1..Len(wire)
      /\ Len(Tail(wire)) = Len(wire) - 1 /\ Len(wire) \in Nat /\ Len(wire) >= 1
      /\ \A i \in 1..Len(Tail(wire)) : Tail(wire)[i] = wire[i + 1]
  BY <1>1
<1>3. CASE Head(wire) = {cmd}
  <2>1. v = Tail(wire) /\ DOMAIN v = 1..(Len(wire) - 1)
    BY <1>3, <1>2 DEF Taken
  <2>2. \A k \in DOMAIN v : k \in Int /\ k + 1 >= 1 /\ k + 1 \in DOMAIN wire /\ v[k] \subseteq wire[k + 1]
    BY <1>2, <2>1
  <2>3. ASSUME NEW j \in DOMAIN wire, j > 1 PROVE j \in Int /\ j - 1 \in DOMAIN v /\ v[j - 1] = wire[j]
    <3>1. j \in Int /\ j - 1 \in DOMAIN v /\ (j - 1) + 1 = j
      BY <1>2, <2>1, <2>3
    <3>2. v[j - 1] = wire[(j - 1) + 1]
      BY <3>1, <2>1, <1>2
    <3>. QED
      BY <3>1, <3>2
  <2>. QED
    BY <2>2, <2>3
<1>4. CASE Head(wire) # {cmd}
  <2>1. PICK G : G = Head(wire) \ {cmd}
    OBVIOUS
  <2>2. v = <<G>> \o Tail(wire)
    BY <1>4, <2>1 DEF Taken
  <2>3. G \in SUBSET Command /\ <<G>> \in Seq(SUBSET Command) /\ Len(<<G>>) = 1 /\ <<G>>[1] = G
    BY <1>2, <2>1
  <2>4. /\ v \in Seq(SUBSET Command) /\ Len(v) = 1 + Len(Tail(wire))
        /\ \A i \in 1..(1 + Len(Tail(wire))) : v[i] = IF i <= 1 THEN <<G>>[i] ELSE Tail(wire)[i - 1]
    BY <1>2, <2>2, <2>3, ConcatProperties
  <2>5. DOMAIN v = 1..Len(wire) /\ v[1] = G
    BY <2>4, <2>3, <1>2
  <2>6. ASSUME NEW k \in DOMAIN v, k # 1 PROVE v[k] = wire[k]
    <3>1. v[k] = Tail(wire)[k - 1]
      BY <2>6, <2>4, <2>5, <1>2
    <3>2. Tail(wire)[k - 1] = wire[(k - 1) + 1]
      BY <2>6, <2>5, <1>2
    <3>3. (k - 1) + 1 = k
      BY <2>5
    <3>. QED
      BY <3>1, <3>2, <3>3
  <2>7. \A k \in DOMAIN v : k \in Int /\ k + 0 >= 1 /\ k + 0 \in DOMAIN wire /\ v[k] \subseteq wire[k + 0]
    BY <1>2, <2>1, <2>5, <2>6
  <2>8. \A j \in DOMAIN wire : j > 1 => j \in Int /\ j - 0 \in DOMAIN v /\ v[j - 0] = wire[j]
    BY <1>2, <2>5, <2>6
  <2>. QED
    BY <2>7, <2>8
<1>. QED
  BY <1>3, <1>4

\* What is behind a command stays behind it.
LEMMA FollowedTaken ==
  ASSUME wire \in Seq(SUBSET Command), Followed(wire), NEW cmd \in Ready, NEW v, v = Taken(cmd)
  PROVE  Followed(v)
<1>1. PICK s \in {0, 1} :
         /\ \A k \in DOMAIN v : k \in Int /\ k + s >= 1 /\ k + s \in DOMAIN wire /\ v[k] \subseteq wire[k + s]
         /\ \A j \in DOMAIN wire : j > 1 => j \in Int /\ j - s \in DOMAIN v /\ v[j - s] = wire[j]
  BY TakenKeeps
<1>. SUFFICES ASSUME NEW k \in DOMAIN v, NEW c \in v[k], ~c.live
              PROVE  \E j \in DOMAIN v : j > k /\ \E d \in v[j] : d.live /\ d.update = c.update
  BY DEF Followed
<1>2. k \in Int /\ k + s >= 1 /\ k + s \in DOMAIN wire /\ c \in wire[k + s]
  BY <1>1
<1>3. PICK j \in DOMAIN wire : j > k + s /\ \E d \in wire[j] : d.live /\ d.update = c.update
  BY <1>2 DEF Followed
<1>4. j \in Int
  BY <1>3
<1>5. j > 1 /\ j - s > k
  BY <1>2, <1>3, <1>4
<1>. QED
  BY <1>1, <1>3, <1>5

\* A group behind the others.
LEMMA FollowedSent ==
  ASSUME NEW w \in Seq(SUBSET Command), Followed(w), NEW U \in SUBSET FibUpdate, NEW b \in Update,
         NEW v, v = Append(w, Commands(U, b))
  PROVE  Followed(v)
<1>1. PICK G : G = Commands(U, b)
  OBVIOUS
<1>2. \A c \in G : c.live
  BY <1>1 DEF Commands
<1>3. /\ Len(w) \in Nat /\ DOMAIN w = 1..Len(w) /\ DOMAIN v = 1..(Len(w) + 1)
      /\ v[Len(w) + 1] = G /\ \A i \in 1..Len(w) : v[i] = w[i]
  BY <1>1
<1>. SUFFICES ASSUME NEW k \in DOMAIN v, NEW c \in v[k], ~c.live
              PROVE  \E j \in DOMAIN v : j > k /\ \E d \in v[j] : d.live /\ d.update = c.update
  BY DEF Followed
<1>4. k \in DOMAIN w /\ c \in w[k]
  BY <1>2, <1>3
<1>5. PICK j \in DOMAIN w : j > k /\ \E d \in w[j] : d.live /\ d.update = c.update
  BY <1>4 DEF Followed
<1>. QED
  BY <1>3, <1>5

\* A command that timed out is followed by the one that is sent again.
LEMMA FollowedResent ==
  ASSUME wire \in Seq(SUBSET Command), Followed(wire), NEW k \in DOMAIN wire, NEW cmd \in wire[k],
         NEW d, d.update = cmd.update, d.live, NEW v, v = Append(Abandoned(k, cmd), {d})
  PROVE  Followed(v)
<1>1. PICK w : w = Abandoned(k, cmd) /\ w \in Seq(SUBSET Command)
  BY AbandonedKeeps
<1>2. cmd \in Command
  BY AbandonedKeeps
<1>3. PICK x : x = [cmd EXCEPT !.live = FALSE]
  OBVIOUS
<1>4. x.update = cmd.update /\ ~x.live
  BY <1>2, <1>3 DEF Command
<1>5. /\ DOMAIN w = DOMAIN wire /\ w[k] = (wire[k] \ {cmd}) \cup {x}
      /\ \A i \in DOMAIN wire \ {k} : w[i] = wire[i]
  BY <1>1, <1>3 DEF Abandoned
<1>6. PICK m : m = Len(w) + 1
  OBVIOUS
<1>7. /\ DOMAIN w \subseteq Nat /\ m \in Nat /\ m \in DOMAIN v /\ v[m] = {d}
      /\ \A i \in DOMAIN w : i \in DOMAIN v /\ i < m /\ v[i] = w[i]
      /\ \A i \in DOMAIN v : i \in DOMAIN w \/ i = m
  <2>1. v = Append(w, {d})
    BY <1>1
  <2>2. /\ Len(w) \in Nat /\ DOMAIN w = 1..Len(w) /\ DOMAIN v = 1..(Len(w) + 1)
        /\ v[Len(w) + 1] = {d} /\ \A i \in 1..Len(w) : v[i] = w[i]
    BY <2>1, <1>1
  <2>. QED
    BY <2>2, <1>6
<1>. SUFFICES ASSUME NEW i \in DOMAIN v, NEW c \in v[i], ~c.live
              PROVE  \E j \in DOMAIN v : j > i /\ \E e \in v[j] : e.live /\ e.update = c.update
  BY DEF Followed
<1>8. i \in DOMAIN w /\ c \in w[i]
  BY <1>7
<1>9. CASE c.update = cmd.update
  BY <1>7, <1>8, <1>9
<1>10. CASE c.update # cmd.update
  <2>1. c \in wire[i]
    BY <1>4, <1>5, <1>8, <1>10
  <2>2. PICK j \in DOMAIN wire : j > i /\ \E e \in wire[j] : e.live /\ e.update = c.update
    BY <2>1, <1>5, <1>8 DEF Followed
  <2>3. PICK e \in wire[j] : e.live /\ e.update = c.update
    BY <2>2
  <2>4. e \in w[j]
    BY <2>3, <1>5, <1>10
  <2>. QED
    BY <2>2, <2>3, <2>4, <1>5, <1>7
<1>. QED
  BY <1>9, <1>10

\* Every command is for an update that is awaited.
LEMMA FollowedAwaited ==
  ASSUME NEW w, Followed(w), NEW k \in DOMAIN w, NEW c \in w[k]
  PROVE  ~NoneAwaited(w) /\ \A U, b : Carries(w, U, b) => c.update \in U
<1>1. PICK j \in DOMAIN w : \E d \in w[j] : d.live /\ d.update = c.update
  BY DEF Followed
<1>. QED
  BY <1>1 DEF NoneAwaited, Carries

\* A command does what its update says.
LEMMA ExecutedFaithfully ==
  ASSUME RibInv, NEW cmd \in Command, cmd.op = cmd.update.action, ExecuteInFib(cmd)
  PROVE  Executed(cmd.update, faces, fib, fib') /\ cmd.update \in FibUpdate /\ cmd.update.name \in Name
<1>1. PICK u : u = cmd.update
  OBVIOUS
<1>2. u \in FibUpdate /\ u.name \in Name /\ u.face \in Face
  BY <1>1 DEF Command, FibUpdate
<1>3. PICK x : x = <<u.name, u.face>>
  OBVIOUS
<1>4. fib' = IF u.face \notin faces THEN fib ELSE [fib EXCEPT ![x] = ValueOf(u)]
  BY <1>1, <1>3 DEF ExecuteInFib, ValueOf
<1>5. DOMAIN fib = Name \X Face
  BY DEF RibInv, ForwarderInv
<1>6. ASSUME NEW n \in Name, NEW f \in Face
      PROVE  fib'[<<n, f>>] = IF n = u.name /\ f = u.face /\ f \in faces THEN ValueOf(u) ELSE fib[<<n, f>>]
  <2>1. <<n, f>> = x <=> n = u.name /\ f = u.face
    BY <1>3
  <2>2. <<n, f>> \in DOMAIN fib /\ x \in DOMAIN fib
    BY <1>2, <1>3, <1>5
  <2>. QED
    BY <2>1, <2>2, <1>4
<1>. QED
  BY <1>1, <1>2, <1>6 DEF Executed

----------------------------------------------------------------------------
(* The FIB follows the RIB: requests and faces *)

\* What stays of a table when its offers and marks do.
SameToFib(R, T) ==
  IsTame(T) /\ Offers(T) = Offers(R) /\ \A V, I : MarksRight(R, V, I) => MarksRight(T, V, I)

\* Steps that leave the batch alone.
LEMMA MatchAlone ==
  ASSUME Matching, UNCHANGED <<inProgress, batchFace, batchUpdates, otherUpdates, inheritUpdates, wire>>,
         NEW T, T = rib', SameToFib(rib, T), FacesOrder',
         faces' \subseteq faces, Face \ Breakable \subseteq faces', QueueTame(queue', faces'),
         \A n \in Name, f \in faces' : fib'[<<n, f>>] = fib[<<n, f>>]
  PROVE  Matching'
<1>1. PICK V, F, g : V = Offers(rib) /\ F = faces' /\ g = fib'
  OBVIOUS
<1>2. Offers(T) = V /\ IsTame(T) /\ \A W, I : MarksRight(rib, W, I) => MarksRight(T, W, I)
  BY <1>1 DEF SameToFib
<1>3. /\ \A W, P : OnTheWay(W, P, faces, fib) => OnTheWay(W, P, F, g)
      /\ \A W : FibIs(W, faces, fib) => FibIs(W, F, g)
  BY <1>1, WayFewerFaces
<1>4. \A W : FibIs(W, faces \ {batchFace}, fib) => FibIs(W, F \ {batchFace}, g)
  BY <1>1 DEF FibIs
<1>5. ASSUME NEW b \in Update, MatchBatch(b) PROVE MatchBatch(b)'
  <2>1. Carries(wire', Awaited', b)
    BY <1>5 DEF MatchBatch, Awaited
  <2>2. Requested(b.name, b.route) /\ batchFace' = b.route.face
    BY <1>5 DEF MatchBatch
  <2>3. batchUpdates' # {} => FibIs(V, F \ {batchFace'}, g)
    BY <1>1, <1>4, <1>5 DEF MatchBatch
  <2>4. batchFace' \in Breakable => \A u, v \in batchUpdates' : u = v
    BY <1>5 DEF MatchBatch
  <2>5. MarksRight(T, OffersAfter(V, b), inheritUpdates')
    BY <1>1, <1>2, <1>5 DEF MatchBatch
  <2>6. Pending' = Pending
    BY DEF Pending
  <2>7. OnTheWay(OffersAfter(V, b), Pending', F, g)
    BY <2>6, <1>1, <1>3, <1>5 DEF MatchBatch
  <2>. QED
    BY <2>1, <2>2, <2>3, <2>4, <2>5, <2>7, <1>1, <1>2 DEF MatchBatch
<1>6. MarksRight(T, V, NoRoutes) /\ Followed(wire')
  BY <1>1, <1>2 DEF Matching
<1>7. ~inProgress' => NoneAwaited(wire') /\ FibIs(V, F, g)
  BY <1>1, <1>3 DEF Matching
<1>8. inProgress' => \E b \in Update : MatchBatch(b)'
  BY <1>5 DEF Matching
<1>. QED
  BY <1>1, <1>2, <1>6, <1>7, <1>8 DEF Matching

\* One more update in the queue.
LEMMA QueueTameOne ==
  ASSUME NEW q \in Seq(Update), NEW F, QueueTame(q, F), NEW u \in Update, TameUpdate(u, F)
  PROVE  QueueTame(Append(q, u), F)
<1>1. PICK v : v = Append(q, u)
  OBVIOUS
<1>2. /\ Len(q) \in Nat /\ DOMAIN q = 1..Len(q) /\ DOMAIN v = 1..(Len(q) + 1)
      /\ v[Len(q) + 1] = u /\ \A i \in 1..Len(q) : v[i] = q[i]
  BY <1>1, AppendProperties
<1>3. ASSUME NEW i \in DOMAIN v PROVE v[i] = u \/ (i \in DOMAIN q /\ v[i] = q[i])
  <2>1. i \in 1..Len(q) \/ i = Len(q) + 1
    BY <1>2
  <2>. QED
    BY <2>1, <1>2
<1>. QED
  BY <1>1, <1>3 DEF QueueTame

\* The same table.
LEMMA SameTable ==
  ASSUME NEW R, IsTame(R)
  PROVE  SameToFib(R, R)
  BY DEF SameToFib

\* Requests only wait, and so does the end of a registration.
LEMMA RequestMatch ==
  ASSUME RibInv, Matching, NEW q \in Requests, RegisterEntry(q) \/ UnregisterEntry(q) \/ RegistrationExpires(q)
  PROVE  Matching'
<1>1. UNCHANGED <<rib, inProgress, batchFace, batchUpdates, otherUpdates, inheritUpdates, wire, fib,
                  faces, notices, snapshot>>
  BY DEF RegisterEntry, UnregisterEntry, RegistrationExpires, faceVars
<1>2. PICK a \in {"register", "unregister"} : addUpdateToQueue(a, q.name, q.route)
  BY DEF RegisterEntry, UnregisterEntry, RegistrationExpires
<1>3. PICK u : u = [action |-> a, name |-> q.name, route |-> q.route]
  OBVIOUS
<1>4. u.action # "remove face" /\ u.name = q.name /\ u.route = q.route /\ queue' = Append(queue, u)
  BY <1>2, <1>3 DEF addUpdateToQueue
<1>5. TameUpdate(u, faces) /\ u \in Update
  BY <1>3, <1>4, RequestTyped DEF TameUpdate, Requested
<1>6. QueueTame(queue', faces')
  BY <1>1, <1>4, <1>5, QueueTameOne DEF RibInv, Matching
<1>7. SameToFib(rib, rib') /\ FacesOrder'
  BY <1>1, SameTable DEF Matching, FacesOrder
<1>. QED
  BY <1>1, <1>6, <1>7, MatchAlone DEF Matching

\* So does the end of a route, and the FIB needs no update for the event.
LEMMA ExpirationMatch ==
  ASSUME RibInv, Matching, NEW n \in DOMAIN rib, NEW i \in DOMAIN rib[n].routes, RouteExpiration(n, i)
  PROVE  Matching'
<1>1. UNCHANGED <<inProgress, batchFace, batchUpdates, otherUpdates, inheritUpdates, wire, fib,
                  faces, notices, snapshot>>
  BY DEF RouteExpiration, faceVars
<1>2. PICK u : u = [action |-> "unregister", name |-> n, route |-> rib[n].routes[i]]
  OBVIOUS
<1>3. u.action # "remove face" /\ u.name = n /\ u.route = rib[n].routes[i] /\ queue' = Append(queue, u)
  BY <1>2 DEF RouteExpiration, addUpdateToQueue
<1>4. TameUpdate(u, faces) /\ u \in Update
  <2>1. n \in Name /\ rib[n].routes[i] \in Route
    BY EntryTyped, OnFaceFacts DEF RibInv, TableInv
  <2>. QED
    BY <2>1, <1>2, <1>3 DEF Matching, IsTame, Update, TameUpdate
<1>5. QueueTame(queue', faces')
  BY <1>1, <1>3, <1>4, QueueTameOne DEF RibInv, Matching
<1>6. PICK T : T = rib'
  OBVIOUS
<1>7. T = Unexpiring(rib, n, i)
  BY <1>6 DEF RouteExpiration, Unexpiring
<1>8. SameToFib(rib, T)
  BY <1>7, ExpiredTame DEF Matching, SameToFib
<1>9. FacesOrder'
  BY <1>1 DEF Matching, FacesOrder
<1>. QED
  BY <1>1, <1>5, <1>6, <1>8, <1>9, MatchAlone DEF Matching

\* The removal of the routes of faces that are gone waits too.
LEMMA RemoveFacesMatch ==
  ASSUME RibInv, Matching, NEW F,
         \/ BeginRemoveFace(F)
         \/ F \in snapshot /\ BeginRemoveFailedFaces(F)
  PROVE  Matching'
<1>1. UNCHANGED <<rib, inProgress, batchFace, batchUpdates, otherUpdates, inheritUpdates, wire, fib, faces>>
  BY DEF BeginRemoveFace, BeginRemoveFailedFaces
<1>2. notices' \subseteq notices /\ snapshot' \subseteq snapshot
  BY DEF BeginRemoveFace, BeginRemoveFailedFaces
<1>3. PICK G : enqueueRemoveFace(G) /\ G \cap faces = {}
  <2>1. CASE BeginRemoveFace(F)
    BY <2>1 DEF BeginRemoveFace, Matching, FacesOrder
  <2>2. CASE F \in snapshot /\ BeginRemoveFailedFaces(F)
    BY <2>2 DEF BeginRemoveFailedFaces, Matching, FacesOrder
  <2>. QED
    BY <2>1, <2>2
<1>4. PICK t \in Seq(Update) :
           /\ queue' = queue \o t
           /\ \A j \in DOMAIN t : t[j].route.face \in G /\ t[j].route \in RoutesAt(rib, t[j].name)
  BY <1>3, EnqueuedForFaces
<1>5. ASSUME NEW j \in DOMAIN t PROVE TameUpdate(t[j], faces)
  <2>1. PICK m, r : m = t[j].name /\ r = t[j].route
    OBVIOUS
  <2>2. r \in RoutesAt(rib, m) /\ r.face \in G
    BY <1>4, <2>1
  <2>3. PICK i \in DOMAIN rib[m].routes : m \in DOMAIN rib /\ r = rib[m].routes[i]
    BY <2>2 DEF RoutesAt
  <2>4. Requested(m, r)
    BY <2>3 DEF Matching, IsTame
  <2>. QED
    BY <2>1, <2>2, <2>4, <1>3 DEF TameUpdate
<1>6. QueueTame(queue', faces')
  <2>1. PICK v, q : v = queue \o t /\ q = queue
    OBVIOUS
  <2>2. q \in Seq(Update) /\ QueueTame(q, faces)
    BY <2>1 DEF RibInv, Matching
  <2>3. /\ Len(q) \in Nat /\ Len(t) \in Nat /\ DOMAIN q = 1..Len(q) /\ DOMAIN t = 1..Len(t)
        /\ DOMAIN v = 1..(Len(q) + Len(t))
        /\ \A i \in 1..Len(q) : v[i] = q[i]
        /\ \A i \in (Len(q) + 1)..(Len(q) + Len(t)) : i - Len(q) \in DOMAIN t /\ v[i] = t[i - Len(q)]
    BY <2>1, <2>2
  <2>4. \A i \in DOMAIN v : (i \in DOMAIN q /\ v[i] = q[i]) \/ \E j \in DOMAIN t : v[i] = t[j]
    BY <2>3
  <2>5. QueueTame(v, faces)
    BY <2>2, <2>4, <1>5 DEF QueueTame
  <2>. QED
    BY <2>1, <2>5, <1>1, <1>4
<1>7. SameToFib(rib, rib') /\ FacesOrder'
  BY <1>1, <1>2, SameTable DEF Matching, FacesOrder
<1>. QED
  BY <1>1, <1>6, <1>7, MatchAlone DEF Matching

\* A face that is destroyed takes its nexthops with it.
LEMMA ForwarderMatch ==
  ASSUME Tame, RibInv, Matching, NEW f,
         FaceDestroyed(f) \/ FaceCreated(f) \/ NoticeLost(f) \/ FetchActiveFaces
  PROVE  Matching'
<1>1. UNCHANGED <<rib, queue, inProgress, batchFace, batchUpdates, otherUpdates, inheritUpdates, wire>>
  BY DEF FaceDestroyed, FaceCreated, NoticeLost, FetchActiveFaces, ribVars
<1>2. ~FaceCreated(f)
  BY DEF Tame, FaceCreated
<1>3. faces' \subseteq faces /\ Face \ Breakable \subseteq faces' /\ faces \subseteq Face
  BY <1>2 DEF FaceDestroyed, NoticeLost, FetchActiveFaces, Matching, RibInv, ForwarderInv
<1>4. FacesOrder'
  BY <1>2 DEF FaceDestroyed, NoticeLost, FetchActiveFaces, Matching, FacesOrder
<1>5. \A n \in Name, h \in faces' : fib'[<<n, h>>] = fib[<<n, h>>]
  <2>1. CASE fib' = fib
    BY <2>1
  <2>2. CASE FaceDestroyed(f)
    <3>1. fib' = [nf \in Name \X Face |-> IF nf[2] = f THEN NoCost ELSE fib[nf]] /\ f \notin faces'
      BY <2>2 DEF FaceDestroyed
    <3>2. ASSUME NEW n \in Name, NEW h \in faces' PROVE fib'[<<n, h>>] = fib[<<n, h>>]
      <4>1. <<n, h>> \in Name \X Face /\ <<n, h>>[2] = h /\ h # f
        BY <3>1, <1>3
      <4>. QED
        BY <4>1, <3>1
    <3>. QED
      BY <3>2
  <2>. QED
    BY <2>1, <2>2, <1>2 DEF NoticeLost, FetchActiveFaces
<1>6. QueueTame(queue', faces')
  BY <1>1, <1>3 DEF Matching, QueueTame, TameUpdate
<1>7. SameToFib(rib, rib')
  BY <1>1, SameTable DEF Matching
<1>. QED
  BY <1>1, <1>3, <1>4, <1>5, <1>6, <1>7, MatchAlone

\* A step of something else.
LEMMA StutterMatch ==
  ASSUME Matching, UNCHANGED vars
  PROVE  Matching'
<1>1. UNCHANGED <<rib, queue, inProgress, batchFace, batchUpdates, otherUpdates, inheritUpdates, wire, fib,
                  faces, notices, snapshot>>
  BY DEF vars, ribVars, faceVars
<1>2. SameToFib(rib, rib') /\ FacesOrder' /\ QueueTame(queue', faces')
  BY <1>1, SameTable DEF Matching, FacesOrder
<1>. QED
  BY <1>1, <1>2, MatchAlone DEF Matching

----------------------------------------------------------------------------
(* The FIB follows the RIB: batches *)

\* What the table calls for when batch b is done.
Aim(b) == OffersAfter(Offers(rib), b)

\* onFibUpdateSuccess: the table has what the update asks for, and the marks are right.
LEMMA ApplyMatch ==
  ASSUME Tame, IsTame(rib), NEW b \in Update, Requested(b.name, b.route), NEW I, MarksRight(rib, Aim(b), I),
         applyBatch(b, I), fault' = "none", NEW T, T = rib'
  PROVE  IsTame(T) /\ Offers(T) = Aim(b) /\ MarksRight(T, Offers(T), NoRoutes) /\ inProgress' = FALSE
<1>1. PICK R : /\ R = TableAfter(rib, b)
               /\ rib' = modifyInheritedRoutes(R, I)
  BY DEF applyBatch, TableAfter
<1>2. T = modifyInheritedRoutes(TableAfter(rib, b), I)
  BY <1>1
<1>3. MarksRight(rib, OffersAfter(Offers(rib), b), I)
  BY DEF Aim
<1>. QED
  BY <1>2, <1>3, AppliedTame DEF Aim, applyBatch

\* sendUpdatesForNonBatchFaceId, with or without anything to send.
LEMMA OthersMatch ==
  ASSUME Tame, IsTame(rib), MarksRight(rib, Offers(rib), NoRoutes),
         FacesOrder', Face \ Breakable \subseteq faces', QueueTame(queue', faces'),
         NEW rest \in Seq(SUBSET Command), NoneAwaited(rest), Followed(rest),
         NEW others \in SUBSET FibUpdate, NEW b \in Update, Requested(b.name, b.route),
         NEW I, MarksRight(rib, Aim(b), I), sendOthers(rest, others, b, I), fault' = "none",
         batchUpdates' = {}, otherUpdates' = others, inheritUpdates' = I, batchFace' = b.route.face,
         OnTheWay(Aim(b), others, faces', fib')
  PROVE  Matching'
<1>1. CASE others # {}
  <2>1. wire' = Append(rest, Commands(others, b)) /\ rib' = rib /\ inProgress' = TRUE
    BY <1>1 DEF sendOthers
  <2>2. Carries(wire', others, b) /\ Followed(wire')
    BY <2>1, CarriesSent, FollowedSent
  <2>3. Awaited' = others /\ Pending' = others
    BY DEF Awaited, Pending
  <2>4. MatchBatch(b)'
    <3>1. Carries(wire', Awaited', b)
      BY <2>2, <2>3
    <3>2. OnTheWay(OffersAfter(Offers(rib'), b), Pending', faces', fib')
      BY <2>1, <2>3 DEF Aim
    <3>3. MarksRight(rib', OffersAfter(Offers(rib'), b), inheritUpdates')
      BY <2>1 DEF Aim
    <3>. QED
      BY <3>1, <3>2, <3>3 DEF MatchBatch
  <2>5. IsTame(rib') /\ MarksRight(rib', Offers(rib'), NoRoutes)
    BY <2>1
  <2>. QED
    BY <2>1, <2>2, <2>4, <2>5 DEF Matching
<1>2. CASE others = {}
  <2>1. wire' = rest /\ applyBatch(b, I)
    BY <1>2 DEF sendOthers
  <2>2. PICK T : T = rib'
    OBVIOUS
  <2>3. IsTame(T) /\ Offers(T) = Aim(b) /\ MarksRight(T, Offers(T), NoRoutes) /\ inProgress' = FALSE
    BY <2>1, <2>2, ApplyMatch
  <2>4. FibIs(Offers(T), faces', fib')
    BY <2>3, <1>2, WayDone
  <2>5. NoneAwaited(wire') /\ Followed(wire')
    BY <2>1
  <2>. QED
    BY <2>2, <2>3, <2>4, <2>5 DEF Matching
<1>. QED
  BY <1>1, <1>2

\* computeUpdates leads from the nexthops of the table to those it will call for.
LEMMA ComputedLeads ==
  ASSUME Tame, Matching, NEW b \in Update, Requested(b.name, b.route), NEW c, c = computeUpdates(b)
  PROVE  Leads(rib, Offers(rib), Aim(b), b.name, c) /\ AllRequested(Offers(rib))
<1>1. PICK V, W : V = Offers(rib) /\ W = OffersAfter(V, b)
  OBVIOUS
<1>2. c = ChangeOf(rib, b)
  BY DEF computeUpdates, ChangeOf
<1>3. IsTame(rib) /\ MarksRight(rib, V, NoRoutes)
  BY <1>1 DEF Matching
<1>4. \A d \in Name, f \in Face : DeltaAt(rib, V, W, b.name, c, d, f)
  BY <1>1, <1>2, <1>3, ChangeIsRight
<1>5. AllRequested(V)
  BY <1>1, <1>3, TameOffers
<1>. QED
  BY <1>1, <1>4, <1>5 DEF Leads, Aim

\* The start of a batch.
LEMMA SendBatchMatch ==
  ASSUME Tame, RibInv, Matching, SendBatchFromQueue, fault' = "none"
  PROVE  Matching'
<1>1. ~inProgress /\ queue # <<>> /\ queue \in Seq(Update) /\ TableInv /\ wire \in Seq(SUBSET Command)
      /\ faces \subseteq Face
  BY DEF SendBatchFromQueue, RibInv, ForwarderInv
<1>2. PICK b : b = Head(queue) /\ b \in Update
  BY <1>1
<1>3. ~DereferencesNull(b)
  BY <1>2 DEF SendBatchFromQueue
<1>4. PICK c : c = computeUpdates(b) /\ IsChange(c)
  BY <1>1, <1>2, <1>3, ComputeTyped
<1>5. PICK h : h = b.route.face
  OBVIOUS
<1>6. /\ batchUpdates' = IF b.action = "remove face" THEN {} ELSE UpdatesFor(c, {h})
      /\ otherUpdates' = UpdatesFor(c, Face \ {h})
      /\ inheritUpdates' = c.inherited
      /\ batchFace' = h
  BY <1>2, <1>4, <1>5 DEF SendBatchFromQueue
<1>7. queue' = Tail(queue) /\ UNCHANGED <<fib, faces, notices, snapshot>>
  BY DEF SendBatchFromQueue, faceVars
<1>8. PICK B, O, I : B = batchUpdates' /\ O = otherUpdates' /\ I = inheritUpdates'
  OBVIOUS
<1>9. B \in SUBSET FibUpdate /\ O \in SUBSET FibUpdate
  BY <1>4, <1>6, <1>8, UpdatesForTyped
<1>10. \/ /\ B # {} /\ wire' = Append(wire, Commands(B, b)) /\ inProgress' = TRUE /\ rib' = rib
       \/ B = {} /\ sendOthers(wire, O, b, I)
  BY <1>2, <1>8 DEF SendBatchFromQueue
<1>11. TameUpdate(b, faces) /\ QueueTame(queue', faces')
  <2>1. PICK v : v = Tail(queue)
    OBVIOUS
  <2>2. /\ Len(queue) \in Nat /\ Len(queue) >= 1 /\ DOMAIN queue = 1..Len(queue) /\ b = queue[1]
        /\ DOMAIN v = 1..(Len(queue) - 1)
        /\ \A i \in 1..(Len(queue) - 1) : v[i] = queue[i + 1]
    BY <1>1, <1>2, <2>1
  <2>3. \A i \in DOMAIN v : \E j \in DOMAIN queue : v[i] = queue[j]
    BY <2>2
  <2>4. 1 \in DOMAIN queue /\ QueueTame(queue, faces)
    BY <2>2 DEF Matching
  <2>5. QueueTame(v, faces)
    BY <2>3, <2>4 DEF QueueTame
  <2>6. TameUpdate(b, faces)
    BY <2>2, <2>4 DEF QueueTame
  <2>. QED
    BY <2>1, <2>5, <2>6, <1>7
<1>12. Requested(b.name, b.route) /\ (b.action = "remove face" => h \notin faces)
  BY <1>5, <1>11 DEF TameUpdate
<1>13. PICK V, W : V = Offers(rib) /\ W = Aim(b)
  OBVIOUS
<1>14. Leads(rib, V, W, b.name, c) /\ AllRequested(V)
  BY <1>2, <1>4, <1>12, <1>13, ComputedLeads
<1>15. IsTame(rib) /\ MarksRight(rib, V, NoRoutes) /\ NoneAwaited(wire) /\ Followed(wire) /\ FibIs(V, faces, fib)
  BY <1>1, <1>13 DEF Matching
<1>16. B = UpdatesFor(c, {h}) \/ (B = {} /\ h \notin faces)
  BY <1>6, <1>8, <1>12
<1>17. OnTheWay(W, B \cup O, faces, fib)
  BY <1>1, <1>4, <1>6, <1>8, <1>14, <1>15, <1>16, WayStarts
<1>18. MarksRight(rib, W, I)
  BY <1>6, <1>8, <1>14, MarksLead
<1>19. FacesOrder' /\ Face \ Breakable \subseteq faces'
  BY <1>7 DEF Matching, FacesOrder
<1>20. CASE B # {} /\ wire' = Append(wire, Commands(B, b)) /\ inProgress' = TRUE /\ rib' = rib
  <2>1. Carries(wire', B, b) /\ Followed(wire')
    BY <1>20, <1>1, <1>2, <1>9, <1>15, CarriesSent, FollowedSent
  <2>2. Awaited' = B /\ Pending' = B \cup O
    BY <1>8, <1>20 DEF Awaited, Pending
  <2>3. ASSUME h \in Breakable PROVE \A u, v \in B : u = v
    <3>1. PICK r, n : r = b.route /\ n = b.name
      OBVIOUS
    <3>2. Requested(n, r) /\ r.face \in Breakable
      BY <3>1, <2>3, <1>5, <1>12
    <3>3. Leads(rib, V, W, n, c) /\ AllRequested(V) /\ IsChange(c)
      BY <3>1, <1>4, <1>14
    <3>4. \A u, v \in UpdatesFor(c, {r.face}) : u = v
      BY <3>2, <3>3, OneUpdate
    <3>5. B = UpdatesFor(c, {r.face})
      BY <3>1, <1>5, <1>16, <1>20
    <3>. QED
      BY <3>4, <3>5
  <2>4. FibIs(V, faces \ {h}, fib)
    BY <1>15 DEF FibIs
  <2>5. MatchBatch(b)'
    <3>1. Carries(wire', Awaited', b)
      BY <2>1, <2>2
    <3>2. OnTheWay(OffersAfter(Offers(rib'), b), Pending', faces', fib')
      BY <2>2, <1>7, <1>13, <1>17, <1>20 DEF Aim
    <3>3. MarksRight(rib', OffersAfter(Offers(rib'), b), inheritUpdates')
      BY <1>8, <1>13, <1>18, <1>20 DEF Aim
    <3>4. FibIs(Offers(rib'), faces' \ {batchFace'}, fib')
      BY <2>4, <1>6, <1>7, <1>13, <1>20
    <3>5. batchFace' \in Breakable => \A u, v \in batchUpdates' : u = v
      BY <2>3, <1>6, <1>8
    <3>. QED
      BY <3>1, <3>2, <3>3, <3>4, <3>5, <1>5, <1>6, <1>12 DEF MatchBatch
  <2>6. IsTame(rib') /\ MarksRight(rib', Offers(rib'), NoRoutes)
    BY <1>13, <1>15, <1>20
  <2>. QED
    BY <2>1, <2>5, <2>6, <1>2, <1>11, <1>19, <1>20 DEF Matching
<1>21. CASE B = {} /\ sendOthers(wire, O, b, I)
  <2>1. OnTheWay(Aim(b), O, faces', fib')
    <3>1. B \cup O = O
      BY <1>21
    <3>. QED
      BY <3>1, <1>7, <1>13, <1>17
  <2>2. batchUpdates' = {} /\ otherUpdates' = O /\ inheritUpdates' = I /\ batchFace' = b.route.face
    BY <1>5, <1>6, <1>8, <1>21
  <2>. QED
    BY <2>1, <2>2, <1>1, <1>2, <1>9, <1>11, <1>12, <1>13, <1>15, <1>18, <1>19, <1>21, OthersMatch
<1>. QED
  BY <1>10, <1>20, <1>21

----------------------------------------------------------------------------
(* The FIB follows the RIB: answers *)

\* The batch goes on.
LEMMA MatchGoesOn ==
  ASSUME Matching, inProgress, NEW b \in Update, MatchBatch(b),
         UNCHANGED <<rib, queue, inProgress, faces, notices, snapshot, batchFace, inheritUpdates>>,
         Carries(wire', Awaited', b), Followed(wire'), batchUpdates' \subseteq batchUpdates,
         NEW P, P = Pending', OnTheWay(Aim(b), P, faces, fib'),
         batchUpdates' # {} => \A n \in Name, f \in faces \ {batchFace} : fib'[<<n, f>>] = fib[<<n, f>>]
  PROVE  Matching'
<1>1. batchUpdates' # {} => FibIs(Offers(rib'), faces' \ {batchFace'}, fib')
  BY DEF MatchBatch, FibIs
<1>2. batchFace' \in Breakable => \A u, v \in batchUpdates' : u = v
  BY DEF MatchBatch
<1>3. /\ MarksRight(rib', OffersAfter(Offers(rib'), b), inheritUpdates')
      /\ Requested(b.name, b.route) /\ batchFace' = b.route.face
  BY DEF MatchBatch
<1>4. OnTheWay(OffersAfter(Offers(rib'), b), Pending', faces', fib')
  BY DEF Aim
<1>5. MatchBatch(b)'
  BY <1>1, <1>2, <1>3, <1>4 DEF MatchBatch
<1>6. FacesOrder' /\ Face \ Breakable \subseteq faces' /\ IsTame(rib') /\ QueueTame(queue', faces')
      /\ MarksRight(rib', Offers(rib'), NoRoutes)
  BY DEF Matching, FacesOrder
<1>. QED
  BY <1>5, <1>6 DEF Matching

\* A command that is executed while a batch is in progress.
LEMMA ExecutedInBatch ==
  ASSUME RibInv, NEW b \in Update, MatchBatch(b), NEW u \in Awaited, u.name \in Name,
         NEW h, Executed(u, faces, fib, h)
  PROVE  /\ u \in Pending
         /\ OnTheWay(Aim(b), Pending, faces, h) /\ OnTheWay(Aim(b), Pending \ {u}, faces, h)
         /\ batchUpdates # {} => \A n \in Name, f \in faces \ {batchFace} : h[<<n, f>>] = fib[<<n, f>>]
<1>1. PICK P, W : P = Pending /\ W = Aim(b)
  OBVIOUS
<1>2. u \in P /\ OnTheWay(W, P, faces, fib) /\ faces \in SUBSET Face
  BY <1>1 DEF Awaited, Pending, Aim, MatchBatch, RibInv, ForwarderInv
<1>3. OnTheWay(W, P, faces, h) /\ OnTheWay(W, P \ {u}, faces, h)
  BY <1>2, WayExecuted
<1>4. batchUpdates # {} => u.face = batchFace
  BY DEF RibInv, BatchInv, Awaited
<1>5. ASSUME batchUpdates # {}, NEW n \in Name, NEW f \in faces \ {batchFace} PROVE h[<<n, f>>] = fib[<<n, f>>]
  BY <1>2, <1>4, <1>5 DEF Executed
<1>. QED
  BY <1>1, <1>2, <1>3, <1>5

\* Some command is on the wire: a batch is in progress, and the command is for one of the
\* updates it waits for.
LEMMA OnWireAwaited ==
  ASSUME Matching, NEW k \in DOMAIN wire, NEW cmd \in wire[k]
  PROVE  inProgress /\ cmd.update \in Awaited
<1>1. ~NoneAwaited(wire) /\ \A U, b : Carries(wire, U, b) => cmd.update \in U
  BY FollowedAwaited DEF Matching
<1>2. inProgress
  BY <1>1 DEF Matching
<1>3. PICK b \in Update : MatchBatch(b)
  BY <1>2 DEF Matching
<1>. QED
  BY <1>1, <1>2, <1>3 DEF MatchBatch

\* A command that is executed late does what the one behind it will do again.
LEMMA LateMatch ==
  ASSUME RibInv, Matching, Faithful, NEW cmd \in Ready, ExecuteLate(cmd)
  PROVE  Matching'
<1>1. /\ wire' = Taken(cmd) /\ ExecuteInFib(cmd)
      /\ UNCHANGED <<rib, queue, inProgress, batchFace, batchUpdates, otherUpdates, inheritUpdates,
                     faces, notices, snapshot>>
  BY DEF ExecuteLate, ribVars, faceVars
<1>2. wire \in Seq(SUBSET Command)
  BY DEF RibInv
<1>3. 1 \in DOMAIN wire /\ cmd \in wire[1] /\ cmd \in Command
  BY <1>2, TakenIsPart, TakenOff
<1>4. cmd.op = cmd.update.action
  BY <1>3 DEF Faithful, AsAsked
<1>5. PICK u, h : u = cmd.update /\ h = fib'
  OBVIOUS
<1>6. Executed(u, faces, fib, h) /\ u.name \in Name
  BY <1>1, <1>3, <1>4, <1>5, ExecutedFaithfully
<1>7. inProgress /\ u \in Awaited
  BY <1>3, <1>5, OnWireAwaited
<1>8. PICK b \in Update : MatchBatch(b)
  BY <1>7 DEF Matching
<1>9. PICK v : v = wire'
  OBVIOUS
<1>10. \A U : Carries(wire, U, b) => Carries(v, U, b)
  BY <1>1, <1>2, <1>9, CarriesLate
<1>11. Followed(v)
  BY <1>1, <1>2, <1>9, FollowedTaken DEF Matching
<1>12. Awaited' = Awaited /\ Pending' = Pending
  BY <1>1 DEF Awaited, Pending
<1>13. Carries(wire', Awaited', b) /\ Followed(wire')
  BY <1>8, <1>9, <1>10, <1>11, <1>12 DEF MatchBatch
<1>14. /\ OnTheWay(Aim(b), Pending', faces, h)
       /\ batchUpdates # {} => \A n \in Name, f \in faces \ {batchFace} : h[<<n, f>>] = fib[<<n, f>>]
  BY <1>6, <1>7, <1>8, <1>12, ExecutedInBatch
<1>. QED
  BY <1>1, <1>5, <1>7, <1>8, <1>13, <1>14, MatchGoesOn

\* An answer that counts: the command leaves the wire, and its update the batch.
LEMMA AnswerMatch ==
  ASSUME RibInv, Matching, NEW cmd \in Ready, cmd.live, NEW rest, rest = Taken(cmd)
  PROVE  /\ inProgress /\ rest \in Seq(SUBSET Command) /\ Followed(rest) /\ cmd \in Command
         /\ \E k \in DOMAIN wire : cmd \in wire[k]
         /\ cmd.for \in Update /\ MatchBatch(cmd.for)
         /\ cmd.update \in Awaited /\ Carries(rest, Awaited \ {cmd.update}, cmd.for)
<1>1. wire \in Seq(SUBSET Command)
  BY DEF RibInv
<1>2. 1 \in DOMAIN wire /\ cmd \in wire[1]
  BY <1>1, TakenIsPart
<1>3. inProgress
  BY <1>2, OnWireAwaited
<1>4. PICK b \in Update : MatchBatch(b)
  BY <1>3 DEF Matching
<1>5. PICK U : U = Awaited
  OBVIOUS
<1>6. Carries(wire, U, b)
  BY <1>4, <1>5 DEF MatchBatch
<1>7. cmd.update \in U /\ cmd.for = b /\ Carries(rest, U \ {cmd.update}, b)
  BY <1>1, <1>6, CarriesTaken
<1>8. rest \in Seq(SUBSET Command) /\ cmd \in Command
  BY <1>1, TakenOff
<1>9. Followed(rest)
  BY <1>1, FollowedTaken DEF Matching
<1>. QED
  BY <1>2, <1>3, <1>4, <1>5, <1>7, <1>8, <1>9

\* An answer for another face.
LEMMA OtherMatch ==
  ASSUME Tame, RibInv, Matching, NEW cmd \in Ready, cmd.live, cmd.update.face # batchFace, OtherUpdateDone(cmd),
         UNCHANGED <<faces, notices, snapshot>>, fault' = "none",
         NEW P, P = Pending \ {cmd.update}, OnTheWay(Aim(cmd.for), P, faces, fib')
  PROVE  Matching'
<1>1. PICK rest, b, I, u : rest = Taken(cmd) /\ b = cmd.for /\ I = inheritUpdates /\ u = cmd.update
  OBVIOUS
<1>2. /\ inProgress /\ rest \in Seq(SUBSET Command) /\ Followed(rest) /\ b \in Update /\ MatchBatch(b)
      /\ u \in Awaited /\ Carries(rest, Awaited \ {u}, b)
  BY <1>1, AnswerMatch
<1>3. batchUpdates = {} /\ Awaited = otherUpdates
  BY <1>1, <1>2 DEF RibInv, BatchInv, Awaited
<1>4. PICK O : O = otherUpdates \ {u}
  OBVIOUS
<1>5. P = O
  BY <1>1, <1>3, <1>4 DEF Pending
<1>6. /\ otherUpdates' = O /\ wire' = rest /\ batchUpdates' = {} /\ inheritUpdates' = I
      /\ UNCHANGED <<queue, batchFace>>
      /\ O = {} => applyBatch(b, I)
      /\ O # {} => UNCHANGED <<rib, inProgress>>
  BY <1>1, <1>3, <1>4 DEF OtherUpdateDone
<1>7. Carries(rest, O, b) /\ O \in SUBSET FibUpdate
  BY <1>2, <1>3, <1>4 DEF RibInv, BatchInv
<1>8. Requested(b.name, b.route) /\ MarksRight(rib, Aim(b), I) /\ batchFace' = b.route.face
  BY <1>1, <1>2, <1>6 DEF MatchBatch, Aim
<1>9. OnTheWay(Aim(b), O, faces, fib')
  BY <1>1, <1>5
<1>10. CASE O = {}
  <2>1. NoneAwaited(rest)
    BY <1>7, <1>10, CarriesNothing
  <2>2. sendOthers(rest, O, b, I)
    BY <1>6, <1>10 DEF sendOthers
  <2>3. FacesOrder' /\ Face \ Breakable \subseteq faces' /\ QueueTame(queue', faces')
    BY <1>6 DEF Matching, FacesOrder
  <2>4. IsTame(rib) /\ MarksRight(rib, Offers(rib), NoRoutes)
    BY DEF Matching
  <2>5. OnTheWay(Aim(b), O, faces', fib')
    BY <1>9
  <2>. QED
    BY <1>2, <1>6, <1>7, <1>8, <2>1, <2>2, <2>3, <2>4, <2>5, OthersMatch
<1>11. CASE O # {}
  <2>1. Awaited' = O /\ Pending' = O
    BY <1>6 DEF Awaited, Pending
  <2>2. Carries(wire', Awaited', b) /\ Followed(wire')
    BY <1>2, <1>6, <1>7, <2>1
  <2>3. OnTheWay(Aim(b), Pending', faces, fib')
    BY <1>9, <2>1
  <2>4. UNCHANGED <<rib, inProgress, inheritUpdates>> /\ batchUpdates' = {}
    BY <1>1, <1>6, <1>11
  <2>. QED
    BY <1>2, <1>6, <2>2, <2>3, <2>4, MatchGoesOn
<1>. QED
  BY <1>10, <1>11

\* An update is executed and its answer counts.
LEMMA SuccessMatch ==
  ASSUME Tame, RibInv, Matching, Faithful, NEW cmd \in Ready, OnUpdateSuccess(cmd), fault' = "none"
  PROVE  Matching'
<1>1. cmd.live /\ ExecuteInFib(cmd) /\ UNCHANGED <<faces, notices, snapshot>>
  BY DEF OnUpdateSuccess, faceVars
<1>2. PICK rest, b, I, O, u, h : /\ rest = Taken(cmd) /\ b = cmd.for /\ I = inheritUpdates
                                 /\ O = otherUpdates /\ u = cmd.update /\ h = fib'
  OBVIOUS
<1>3. /\ inProgress /\ rest \in Seq(SUBSET Command) /\ Followed(rest) /\ cmd \in Command
      /\ \E k \in DOMAIN wire : cmd \in wire[k]
      /\ b \in Update /\ MatchBatch(b)
      /\ u \in Awaited /\ Carries(rest, Awaited \ {u}, b)
  BY <1>1, <1>2, AnswerMatch
<1>4. cmd.op = cmd.update.action
  BY <1>3 DEF Faithful, AsAsked
<1>5. Executed(u, faces, fib, h) /\ u.name \in Name
  BY <1>1, <1>2, <1>3, <1>4, ExecutedFaithfully
<1>6. /\ u \in Pending
      /\ OnTheWay(Aim(b), Pending \ {u}, faces, h)
      /\ batchUpdates # {} => \A n \in Name, f \in faces \ {batchFace} : h[<<n, f>>] = fib[<<n, f>>]
  <2>1. b \in Update /\ MatchBatch(b) /\ u \in Awaited
    BY <1>3
  <2>. QED
    BY <2>1, <1>5, ExecutedInBatch
<1>7. CASE u.face # batchFace
  <2>1. OtherUpdateDone(cmd)
    BY <1>2, <1>7 DEF OnUpdateSuccess
  <2>. QED
    BY <1>1, <1>2, <1>6, <1>7, <2>1, OtherMatch
<1>8. CASE u.face = batchFace
  <2>1. batchUpdates # {} /\ Awaited = batchUpdates /\ u \notin otherUpdates
    BY <1>3, <1>8 DEF RibInv, BatchInv, Awaited
  <2>2. PICK B : B = batchUpdates \ {u}
    OBVIOUS
  <2>3. /\ batchUpdates' = B /\ otherUpdates' = O /\ inheritUpdates' = I /\ UNCHANGED <<queue, batchFace>>
        /\ B = {} => sendOthers(rest, O, b, I)
        /\ B # {} => wire' = rest /\ UNCHANGED <<rib, inProgress>>
    BY <1>2, <1>8, <2>2 DEF OnUpdateSuccess
  <2>4. Carries(rest, B, b) /\ Pending \ {u} = B \cup O
    BY <1>2, <1>3, <2>1, <2>2 DEF Pending
  <2>5. CASE B = {}
    <3>1. NoneAwaited(rest)
      BY <2>4, <2>5, CarriesNothing
    <3>2. FacesOrder' /\ Face \ Breakable \subseteq faces' /\ QueueTame(queue', faces')
      BY <1>1, <2>3 DEF Matching, FacesOrder
    <3>3. IsTame(rib) /\ MarksRight(rib, Offers(rib), NoRoutes)
      BY DEF Matching
    <3>4. Requested(b.name, b.route) /\ MarksRight(rib, Aim(b), I) /\ batchFace' = b.route.face
      BY <1>2, <1>3, <2>3 DEF MatchBatch, Aim
    <3>5. O \in SUBSET FibUpdate
      BY <1>2 DEF RibInv, BatchInv
    <3>6. OnTheWay(Aim(b), O, faces', fib')
      <4>1. Pending \ {u} = O
        BY <2>4, <2>5
      <4>. QED
        BY <4>1, <1>1, <1>2, <1>6
    <3>. QED
      BY <1>3, <2>3, <2>5, <3>1, <3>2, <3>3, <3>4, <3>5, <3>6, OthersMatch
  <2>6. CASE B # {}
    <3>1. Awaited' = B /\ Pending' = B \cup O
      BY <2>3, <2>6 DEF Awaited, Pending
    <3>2. Carries(wire', Awaited', b) /\ Followed(wire')
      BY <1>3, <2>3, <2>4, <2>6, <3>1
    <3>3. OnTheWay(Aim(b), Pending', faces, fib')
      BY <1>2, <1>6, <2>4, <3>1
    <3>4. UNCHANGED <<rib, inProgress, inheritUpdates>> /\ batchUpdates' \subseteq batchUpdates
      BY <1>2, <2>2, <2>3, <2>6
    <3>5. \A n \in Name, f \in faces \ {batchFace} : fib'[<<n, f>>] = fib[<<n, f>>]
      BY <1>2, <1>6, <2>1
    <3>. QED
      BY <1>1, <1>3, <2>3, <3>2, <3>3, <3>4, <3>5, MatchGoesOn
  <2>. QED
    BY <2>5, <2>6
<1>. QED
  BY <1>7, <1>8

\* 410 for another face counts as done.  For the batch's face the batch ends: nothing of
\* it was executed, the table is as it was.
LEMMA FaceNotFoundMatch ==
  ASSUME Tame, RibInv, Matching, NEW cmd \in Ready, OnFaceNotFound(cmd), fault' = "none"
  PROVE  Matching'
<1>1. cmd.live /\ cmd.update.face \notin faces /\ UNCHANGED <<fib, faces, notices, snapshot>>
  BY DEF OnFaceNotFound, Refused, faceVars
<1>2. PICK rest, b, u : rest = Taken(cmd) /\ b = cmd.for /\ u = cmd.update
  OBVIOUS
<1>3. /\ inProgress /\ Followed(rest) /\ cmd \in Command /\ b \in Update /\ MatchBatch(b)
      /\ u \in Awaited /\ Carries(rest, Awaited \ {u}, b)
  BY <1>1, <1>2, AnswerMatch
<1>4. CASE u.face # batchFace
  <2>1. OtherUpdateDone(cmd)
    BY <1>2, <1>4 DEF OnFaceNotFound
  <2>2. OnTheWay(Aim(b), Pending, faces, fib)
    BY <1>3 DEF MatchBatch, Aim
  <2>3. PICK P : P = Pending
    OBVIOUS
  <2>4. OnTheWay(Aim(b), P \ {u}, faces, fib)
    BY <1>1, <1>2, <2>2, <2>3, WayUnneeded
  <2>5. OnTheWay(Aim(cmd.for), Pending \ {cmd.update}, faces, fib')
    BY <1>1, <1>2, <2>3, <2>4
  <2>. QED
    BY <1>1, <1>2, <1>4, <2>1, <2>5, OtherMatch
<1>5. CASE u.face = batchFace
  <2>1. batchUpdates # {} /\ Awaited = batchUpdates
    BY <1>3, <1>5 DEF RibInv, BatchInv, Awaited
  <2>2. batchFace \in Face \ faces
    BY <1>1, <1>2, <1>3, <1>5 DEF Command, FibUpdate
  <2>3. \A v, w \in batchUpdates : v = w
    BY <1>3, <2>2 DEF Matching, MatchBatch
  <2>4. batchUpdates \ {u} = {}
    BY <1>3, <2>1, <2>3
  <2>5. NoneAwaited(rest)
    BY <1>3, <2>1, <2>4, CarriesNothing
  <2>6. inProgress' = FALSE /\ wire' = rest /\ UNCHANGED <<rib, queue>>
    BY <1>2, <1>5 DEF OnFaceNotFound
  <2>7. FibIs(Offers(rib), faces, fib)
    <3>1. faces \ {batchFace} = faces
      BY <2>2
    <3>. QED
      BY <3>1, <1>3, <2>1 DEF MatchBatch
  <2>8. FibIs(Offers(rib'), faces', fib') /\ NoneAwaited(wire') /\ Followed(wire')
    BY <1>1, <1>3, <2>5, <2>6, <2>7
  <2>9. FacesOrder' /\ Face \ Breakable \subseteq faces' /\ IsTame(rib') /\ QueueTame(queue', faces')
        /\ MarksRight(rib', Offers(rib'), NoRoutes)
    BY <1>1, <2>6 DEF Matching, FacesOrder
  <2>. QED
    BY <2>6, <2>8, <2>9 DEF Matching
<1>. QED
  BY <1>4, <1>5

\* A timeout: the command is sent again.
LEMMA TimeoutMatch ==
  ASSUME RibInv, Matching, NEW k \in DOMAIN wire, NEW cmd \in wire[k], OnTimeout(k, cmd), fault' = "none"
  PROVE  Matching'
<1>1. /\ cmd.live /\ cmd.tries < MaxTimeouts
      /\ UNCHANGED <<rib, queue, inProgress, batchFace, batchUpdates, otherUpdates, inheritUpdates, fib,
                     faces, notices, snapshot>>
  BY DEF OnTimeout, ribVars, faceVars
<1>2. wire \in Seq(SUBSET Command)
  BY DEF RibInv
<1>3. inProgress
  BY OnWireAwaited
<1>4. PICK b \in Update : MatchBatch(b)
  BY <1>3 DEF Matching
<1>5. PICK U : U = Awaited /\ Carries(wire, U, b)
  BY <1>4 DEF MatchBatch
<1>6. PICK d : d = [cmd EXCEPT !.op = "add", !.tries = @ + 1]
  OBVIOUS
<1>7. PICK v : v = wire'
  OBVIOUS
<1>8. v = Append(Abandoned(k, cmd), {d})
  BY <1>1, <1>6, <1>7 DEF OnTimeout, Abandoned
<1>9. cmd \in Command
  BY <1>2, AbandonedKeeps
<1>10. d.update = cmd.update /\ d.for = cmd.for /\ d.live
  <2>1. PICK t : t = cmd.tries + 1
    OBVIOUS
  <2>2. d = [cmd EXCEPT !.op = "add", !.tries = t]
    BY <1>6, <1>9, <2>1 DEF Command
  <2>3. d = [update |-> cmd.update, op |-> "add", for |-> cmd.for, tries |-> t, live |-> cmd.live]
    BY <1>9, <2>2 DEF Command
  <2>. QED
    BY <2>3, <1>1
<1>11. Carries(v, U, b)
  BY <1>1, <1>2, <1>5, <1>8, <1>10, CarriesResent
<1>12. Followed(v)
  BY <1>2, <1>8, <1>10, FollowedResent DEF Matching
<1>13. Awaited' = U /\ Pending' = Pending
  BY <1>1, <1>5 DEF Awaited, Pending
<1>14. Carries(wire', Awaited', b) /\ Followed(wire')
  BY <1>7, <1>11, <1>12, <1>13
<1>15. OnTheWay(Aim(b), Pending', faces, fib')
  BY <1>1, <1>4, <1>13 DEF MatchBatch, Aim
<1>. QED
  BY <1>1, <1>3, <1>4, <1>14, <1>15, MatchGoesOn

\* Before anything is requested.
LEMMA MatchInit == Tame /\ Init => Matching
<1>. SUFFICES ASSUME Tame, Init PROVE Matching
  OBVIOUS
<1>1. /\ rib = [n \in {} |-> NoName] /\ queue = <<>> /\ inProgress = FALSE /\ wire = <<>>
      /\ notices = {} /\ snapshot = {} /\ faces = Face \ NewFace /\ fib = [nf \in Name \X Face |-> NoCost]
  BY DEF Init
<1>2. DOMAIN rib = {} /\ DOMAIN queue = {} /\ DOMAIN wire = {}
  BY <1>1
<1>3. Offers(rib) = {}
  BY <1>2 DEF Offers, RoutesAt
<1>4. FibIs(Offers(rib), faces, fib)
  <2>. SUFFICES ASSUME NEW n \in Name, NEW f \in faces PROVE Hop({}, n, f, fib[<<n, f>>])
    BY <1>3 DEF FibIs
  <2>1. fib[<<n, f>>] = NoCost
    BY <1>1
  <2>. QED
    BY <2>1 DEF Hop, Offered
<1>5. MarksRight(rib, Offers(rib), NoRoutes)
  BY <1>3 DEF MarksRight, Inherits, Offered
<1>6. IsTame(rib)
  <2>1. IsTable(rib) /\ Parented(rib)
    BY InvInit DEF RibInv, TableInv
  <2>. QED
    BY <1>2, <2>1 DEF IsTame
<1>7. FacesOrder /\ QueueTame(queue, faces) /\ Followed(wire) /\ NoneAwaited(wire)
  BY <1>1, <1>2 DEF FacesOrder, QueueTame, Followed, NoneAwaited
<1>8. Face \ Breakable \subseteq faces
  BY <1>1 DEF Tame
<1>. QED
  BY <1>1, <1>4, <1>5, <1>6, <1>7, <1>8 DEF Matching

----------------------------------------------------------------------------
(* The FIB follows the RIB: the theorem *)

\* The least of one cost.
LEMMA LeastOfOne ==
  ASSUME NEW k \in Cost
  PROVE  Min({k}) = k
  BY CostAssumption DEF Min

\* The ancestors that give, as the definition of the nexthops has them.
LEMMA GiversAreOffers ==
  ASSUME Tame, IsTame(rib), NEW V, V = Offers(rib), NEW n \in Name, NEW f
  PROVE  Givers(n, f) = {v.name : v \in GiversOf(V, n, f)}
<1>1. /\ Offered(V) = DOMAIN rib /\ \A v \in V : v.name \in DOMAIN rib
      /\ \A m \in DOMAIN rib : (hasChildInheritOnFaceId(rib[m], f) <=> Gives(V, m, f))
  BY TameOffers
<1>2. ASSUME NEW y \in DOMAIN rib PROVE ~Captures(y)
  <2>1. ASSUME NEW i \in DOMAIN rib[y].routes PROVE ~rib[y].routes[i].capture
    <3>1. Requested(y, rib[y].routes[i])
      BY DEF IsTame
    <3>. QED
      BY <3>1, TameRoute
  <2>. QED
    BY <2>1 DEF Captures
<1>3. ASSUME NEW x \in Givers(n, f) PROVE x \in {v.name : v \in GiversOf(V, n, f)}
  <2>1. x \in Prefixes[n] /\ x \in DOMAIN rib /\ hasChildInheritOnFaceId(rib[x], f)
    BY DEF Givers
  <2>2. PICK v \in V : v.name = x /\ v.face = f /\ v.inherit
    BY <2>1, <1>1 DEF Gives
  <2>. QED
    BY <2>1, <2>2 DEF GiversOf
<1>4. ASSUME NEW v \in GiversOf(V, n, f) PROVE v.name \in Givers(n, f)
  <2>1. v \in V /\ v.name \in Prefixes[n] /\ v.face = f /\ v.inherit /\ v.name \in DOMAIN rib
    BY <1>1 DEF GiversOf
  <2>2. hasChildInheritOnFaceId(rib[v.name], f)
    BY <2>1, <1>1 DEF Gives
  <2>. QED
    BY <2>1, <2>2, <1>2 DEF Givers
<1>. QED
  BY <1>3, <1>4

\* What the offers call for is the nexthop that the routes of the table call for.
LEMMA HopIsNextHop ==
  ASSUME Tame, IsTame(rib), NEW n \in Name, NEW f, NEW k, Hop(Offers(rib), n, f, k)
  PROVE  k = NextHopOf(n, f)
<1>1. PICK V : V = Offers(rib)
  OBVIOUS
<1>2. /\ V \subseteq OfferSet /\ Offered(V) = DOMAIN rib
      /\ \A m \in DOMAIN rib : \A g : (hasFaceId(rib[m], g) <=> Owns(V, m, g))
      /\ \A v \in V : /\ v.name \in DOMAIN rib
                      /\ CostsOf(rib[v.name], OnFace(rib[v.name], v.face)) = {v.cost}
                      /\ v.inherit => CostsOf(rib[v.name], InheritOn(rib[v.name], v.face)) = {v.cost}
  BY <1>1, TameOffers
<1>3. Hop(V, n, f, k)
  BY <1>1
<1>4. \A v \in V : v.cost \in Cost
  BY <1>2 DEF OfferSet
<1>5. CASE n \notin DOMAIN rib
  <2>1. k = NoCost
    BY <1>2, <1>3, <1>5 DEF Hop
  <2>. QED
    BY <2>1, <1>5 DEF NextHopOf
<1>6. CASE n \in DOMAIN rib /\ hasFaceId(rib[n], f)
  <2>1. PICK v \in V : v.name = n /\ v.face = f /\ k = v.cost
    BY <1>2, <1>3, <1>6 DEF Hop
  <2>2. CostsOf(rib[n], OnFace(rib[n], f)) = {k} /\ k \in Cost
    BY <2>1, <1>2, <1>4
  <2>3. Min({k}) = k
    BY <2>2, LeastOfOne
  <2>. QED
    BY <2>2, <2>3, <1>6 DEF NextHopOf
<1>7. CASE n \in DOMAIN rib /\ ~hasFaceId(rib[n], f)
  <2>1. PICK G : G = Givers(n, f)
    OBVIOUS
  <2>2. G = {v.name : v \in GiversOf(V, n, f)}
    BY <2>1, <1>1, GiversAreOffers
  <2>3. n \in Offered(V) /\ ~Owns(V, n, f)
    BY <1>2, <1>7
  <2>4. CASE G = {}
    <3>1. GiversOf(V, n, f) = {}
      BY <2>2, <2>4
    <3>2. k = NoCost
      BY <3>1, <2>3, <1>3 DEF Hop, IsGiver, Owns
    <3>. QED
      BY <3>2, <2>1, <2>4, <1>7 DEF NextHopOf
  <2>5. CASE G # {}
    <3>1. PICK v \in V : IsGiver(V, n, f, v) /\ k = v.cost
      BY <2>2, <2>3, <2>5, <1>3 DEF Hop, Owns
    <3>2. v \in GiversOf(V, n, f) /\ \A w \in GiversOf(V, n, f) : w.name = v.name \/ w.name \in Prefixes[v.name]
      BY <3>1 DEF IsGiver
    <3>3. v.name \in G /\ G \ {v.name} \subseteq Prefixes[v.name]
      BY <3>2, <2>2
    <3>4. G \subseteq Name
      BY <2>1, RibNamesAssumption DEF Givers
    <3>5. PICK x : x = CHOOSE g \in G : G \ {g} \subseteq Prefixes[g]
      OBVIOUS
    <3>6. x \in G /\ G \ {x} \subseteq Prefixes[x]
      BY <3>3, <3>5
    <3>7. x = v.name
      BY <3>3, <3>4, <3>6, RibNamesAssumption
    <3>8. CostsOf(rib[x], InheritOn(rib[x], f)) = {k} /\ k \in Cost
      BY <3>1, <3>2, <3>7, <1>2, <1>4 DEF GiversOf
    <3>9. Min({k}) = k
      BY <3>8, LeastOfOne
    <3>10. NextHopOf(n, f) = Min(CostsOf(rib[x], InheritOn(rib[x], f)))
      BY <3>5, <2>1, <2>5, <1>7 DEF NextHopOf
    <3>. QED
      BY <3>8, <3>9, <3>10
  <2>. QED
    BY <2>4, <2>5
<1>. QED
  BY <1>5, <1>6, <1>7

\* When nothing is due, the FIB is what the routes call for.
LEMMA MatchingMatches == Tame /\ MatchInv => FibMatchesRib
<1>. SUFFICES ASSUME Tame, MatchInv, Quiet, NEW n \in Name, NEW f \in faces PROVE fib[<<n, f>>] = NextHopOf(n, f)
  BY DEF FibMatchesRib
<1>1. Matching /\ ~inProgress
  BY DEF Quiet, MatchInv
<1>2. FibIs(Offers(rib), faces, fib) /\ IsTame(rib)
  BY <1>1 DEF Matching
<1>3. Hop(Offers(rib), n, f, fib[<<n, f>>])
  BY <1>2 DEF FibIs
<1>. QED
  BY <1>2, <1>3, HopIsNextHop

\* Every step keeps the FIB on its way to what the RIB calls for: the requests, the
\* batches and their answers, the timeouts and the faces.
THEOREM MatchInvariance == Tame /\ Spec /\ []Faithful => []MatchInv
<1>1. Tame /\ Init => MatchInv
  BY MatchInit DEF MatchInv
<1>2. Tame /\ RibInv /\ MatchInv /\ Faithful /\ [Next]_vars => MatchInv'
  <2>. SUFFICES ASSUME Tame, RibInv, MatchInv, Faithful, [Next]_vars, fault' = "none" PROVE Matching'
    BY DEF MatchInv
  <2>1. ASSUME NEW q \in Requests, RegisterEntry(q) \/ UnregisterEntry(q) \/ RegistrationExpires(q)
        PROVE  Matching'
    <3>1. Matching
      BY <2>1 DEF MatchInv, RegisterEntry, UnregisterEntry, RegistrationExpires
    <3>. QED
      BY <2>1, <3>1, RequestMatch
  <2>2. ASSUME NEW n \in DOMAIN rib, NEW i \in DOMAIN rib[n].routes, RouteExpiration(n, i) PROVE Matching'
    <3>1. Matching
      BY <2>2 DEF MatchInv, RouteExpiration
    <3>. QED
      BY <2>2, <3>1, ExpirationMatch
  <2>3. CASE SendBatchFromQueue
    <3>1. Matching
      BY <2>3 DEF MatchInv, SendBatchFromQueue
    <3>. QED
      BY <2>3, <3>1, SendBatchMatch
  <2>4. CASE NullRoute
    BY <2>4 DEF NullRoute
  <2>5. ASSUME NEW cmd \in Ready, ExecuteLate(cmd) \/ OnUpdateSuccess(cmd) \/ OnFaceNotFound(cmd)
        PROVE  Matching'
    <3>1. Matching
      BY <2>5 DEF MatchInv, ExecuteLate, OnUpdateSuccess, OnFaceNotFound, Rest
    <3>. QED
      BY <2>5, <3>1, LateMatch, SuccessMatch, FaceNotFoundMatch
  <2>6. ASSUME NEW k \in DOMAIN wire, NEW cmd \in wire[k], OnTimeout(k, cmd) PROVE Matching'
    <3>1. Matching
      BY <2>6 DEF MatchInv, OnTimeout, Rest
    <3>. QED
      BY <2>6, <3>1, TimeoutMatch
  <2>7. ASSUME NEW f \in Face, BeginRemoveFace(f) PROVE Matching'
    <3>1. Matching
      BY <2>7 DEF MatchInv, BeginRemoveFace
    <3>. QED
      BY <2>7, <3>1, RemoveFacesMatch
  <2>8. ASSUME NEW f \in Face, FaceDestroyed(f) \/ FaceCreated(f) \/ NoticeLost(f) PROVE Matching'
    <3>1. Matching
      BY <2>8 DEF MatchInv, FaceDestroyed, FaceCreated, NoticeLost
    <3>. QED
      BY <2>8, <3>1, ForwarderMatch
  <2>9. ASSUME NEW active \in snapshot, BeginRemoveFailedFaces(active) PROVE Matching'
    <3>1. Matching
      BY <2>9 DEF MatchInv, BeginRemoveFailedFaces
    <3>. QED
      BY <2>9, <3>1, RemoveFacesMatch
  <2>10. CASE FetchActiveFaces
    <3>1. Matching
      BY <2>10 DEF MatchInv, FetchActiveFaces
    <3>. QED
      BY <2>10, <3>1, ForwarderMatch
  <2>11. CASE UNCHANGED vars
    <3>1. Matching
      BY <2>11 DEF MatchInv, vars
    <3>. QED
      BY <2>11, <3>1, StutterMatch
  <2>. QED
    BY <2>1, <2>2, <2>3, <2>4, <2>5, <2>6, <2>7, <2>8, <2>9, <2>10, <2>11 DEF Next
<1>3. Tame /\ [Next]_vars => Tame'
  BY DEF Tame, GivesNoOther
<1>. QED
  BY <1>1, <1>2, <1>3, RibInvariance, PTL DEF Spec

\* The FIB follows the RIB: when nothing is due, each face that exists has the nexthops,
\* with the costs, that the routes of the RIB call for (FibMatchesRib), after any number
\* of registrations, removals, expirations and destroyed faces in any order, with late
\* and repeated commands, 410s and batches that fail in between.  Suppositions on what
\* is requested (Tame): no route captures; one route per name and face; below a route
\* that is inherited, routes on its face are inherited too, and cost as much or are at a
\* name that gives on no other face; nothing is below a route on a face that can go; no
\* face is created.  And no removal times out (Faithful).  Each of them is needed: the
\* configurations capture_erased, second_origin, shadowed_nexthop, erased_nexthop,
\* failed_nexthop, stale_faces and timeout_retry, in this order, violate FibMatchesRib.
THEOREM FibFollowsRib ==
  Tame /\ Spec /\ []Faithful => []FibMatchesRib
<1>1. Tame /\ MatchInv => FibMatchesRib
  BY MatchingMatches
<1>2. Tame /\ [Next]_vars => Tame'
  BY DEF Tame, GivesNoOther
<1>. QED
  BY <1>1, <1>2, MatchInvariance, PTL DEF Spec

\* What is sent is what the updates ask for.
LEMMA AskedSent ==
  ASSUME NEW w \in Seq(SUBSET Command), AsAsked(w), NEW U \in SUBSET FibUpdate, NEW b \in Update,
         NEW v, v = Append(w, Commands(U, b))
  PROVE  AsAsked(v)
<1>1. PICK G : G = Commands(U, b)
  OBVIOUS
<1>2. \A c \in G : c.op = c.update.action
  BY <1>1 DEF Commands
<1>3. /\ Len(w) \in Nat /\ DOMAIN w = 1..Len(w) /\ DOMAIN v = 1..(Len(w) + 1)
      /\ v[Len(w) + 1] = G /\ \A i \in 1..Len(w) : v[i] = w[i]
  BY <1>1
<1>4. ASSUME NEW i \in DOMAIN v PROVE v[i] = G \/ (i \in DOMAIN w /\ v[i] = w[i])
  <2>1. i \in 1..Len(w) \/ i = Len(w) + 1
    BY <1>3
  <2>. QED
    BY <2>1, <1>3
<1>. QED
  BY <1>2, <1>4 DEF AsAsked

\* The rest of the wire.
LEMMA AskedTaken ==
  ASSUME wire \in Seq(SUBSET Command), AsAsked(wire), NEW cmd \in Ready, NEW v, v = Taken(cmd)
  PROVE  AsAsked(v)
<1>1. PICK s \in {0, 1} : \A k \in DOMAIN v : k + s \in DOMAIN wire /\ v[k] \subseteq wire[k + s]
  BY TakenIsPart
<1>. QED
  BY <1>1 DEF AsAsked

\* sendUpdatesForNonBatchFaceId sends what is asked, if anything.
LEMMA AskedOthers ==
  ASSUME NEW rest \in Seq(SUBSET Command), AsAsked(rest), NEW others \in SUBSET FibUpdate, NEW b \in Update,
         NEW I, sendOthers(rest, others, b, I)
  PROVE  AsAsked(wire')
<1>1. PICK v : v = wire'
  OBVIOUS
<1>2. v = rest \/ v = Append(rest, Commands(others, b))
  BY <1>1 DEF sendOthers
<1>. QED
  BY <1>1, <1>2, AskedSent

\* Without timeouts commands are what their updates ask for.
LEMMA FaithfulStep ==
  ASSUME MaxTimeouts = 0, RibInv, Faithful, [Next]_vars
  PROVE  Faithful'
<1>1. wire \in Seq(SUBSET Command) /\ AsAsked(wire) /\ queue \in Seq(Update)
      /\ batchUpdates \in SUBSET FibUpdate /\ otherUpdates \in SUBSET FibUpdate
  BY DEF RibInv, BatchInv, Faithful
<1>2. ASSUME wire' = wire PROVE AsAsked(wire')
  BY <1>1, <1>2
<1>3. ASSUME NEW q \in Requests, RegisterEntry(q) \/ UnregisterEntry(q) \/ RegistrationExpires(q)
      PROVE  AsAsked(wire')
  BY <1>2, <1>3 DEF RegisterEntry, UnregisterEntry, RegistrationExpires
<1>4. ASSUME NEW n \in DOMAIN rib, NEW i \in DOMAIN rib[n].routes, RouteExpiration(n, i) PROVE AsAsked(wire')
  BY <1>2, <1>4 DEF RouteExpiration
<1>5. CASE SendBatchFromQueue
  <2>0. queue # <<>>
    BY <1>5 DEF SendBatchFromQueue
  <2>1. PICK b : b = Head(queue) /\ b \in Update
    BY <1>1, <2>0
  <2>2. PICK B, O, I : B = batchUpdates' /\ O = otherUpdates' /\ I = inheritUpdates'
    OBVIOUS
  <2>3. RibInv'
    BY <1>5, SendBatchStep
  <2>4. B \in SUBSET FibUpdate /\ O \in SUBSET FibUpdate
    BY <2>2, <2>3 DEF RibInv, BatchInv
  <2>5. wire' = Append(wire, Commands(B, b)) \/ sendOthers(wire, O, b, I)
    BY <1>5, <2>1, <2>2 DEF SendBatchFromQueue
  <2>6. ASSUME wire' = Append(wire, Commands(B, b)) PROVE AsAsked(wire')
    <3>1. PICK v : v = Append(wire, Commands(B, b))
      OBVIOUS
    <3>2. AsAsked(v)
      BY <1>1, <2>1, <2>4, <3>1, AskedSent
    <3>. QED
      BY <2>6, <3>1, <3>2
  <2>7. ASSUME sendOthers(wire, O, b, I) PROVE AsAsked(wire')
    BY <1>1, <2>1, <2>4, <2>7, AskedOthers
  <2>. QED
    BY <2>5, <2>6, <2>7 DEF Faithful
<1>6. ASSUME NEW cmd \in Ready, ExecuteLate(cmd) \/ OnUpdateSuccess(cmd) \/ OnFaceNotFound(cmd)
      PROVE  AsAsked(wire')
  <2>1. PICK rest, b, I, O : rest = Taken(cmd) /\ b = cmd.for /\ I = inheritUpdates /\ O = otherUpdates
    OBVIOUS
  <2>2. AsAsked(rest) /\ rest \in Seq(SUBSET Command) /\ cmd \in Command
    BY <1>1, <2>1, AskedTaken, TakenOff
  <2>3. b \in Update /\ O \in SUBSET FibUpdate
    BY <1>1, <2>1, <2>2 DEF Command
  <2>4. wire' = rest \/ sendOthers(rest, O, b, I)
    BY <1>6, <2>1 DEF ExecuteLate, OnUpdateSuccess, OnFaceNotFound, OtherUpdateDone
  <2>. QED
    BY <2>2, <2>3, <2>4, AskedOthers
<1>7. ASSUME NEW k \in DOMAIN wire, NEW cmd \in wire[k], OnTimeout(k, cmd) PROVE AsAsked(wire')
  BY <1>7 DEF OnTimeout
<1>8. ASSUME NEW f \in Face, BeginRemoveFace(f) \/ FaceDestroyed(f) \/ FaceCreated(f) \/ NoticeLost(f)
      PROVE  AsAsked(wire')
  BY <1>2, <1>8 DEF BeginRemoveFace, FaceDestroyed, FaceCreated, NoticeLost
<1>9. ASSUME NEW active \in snapshot, BeginRemoveFailedFaces(active) PROVE AsAsked(wire')
  BY <1>2, <1>9 DEF BeginRemoveFailedFaces
<1>10. CASE NullRoute
  BY <1>2, <1>10 DEF NullRoute, Faithful
<1>11. CASE FetchActiveFaces
  BY <1>2, <1>11 DEF FetchActiveFaces, Faithful
<1>12. CASE UNCHANGED vars
  BY <1>2, <1>12 DEF vars, Faithful
<1>. QED
  BY <1>3, <1>4, <1>5, <1>6, <1>7, <1>8, <1>9, <1>10, <1>11, <1>12 DEF Next, Faithful

\* Where no command times out, the suppositions on the requests suffice.
THEOREM FibFollowsWithoutTimeouts ==
  Tame /\ MaxTimeouts = 0 /\ Spec => []FibMatchesRib
<1>1. Init => Faithful
  <2>. SUFFICES ASSUME Init PROVE DOMAIN wire = {}
    BY DEF Faithful, AsAsked
  <2>. QED
    BY DEF Init
<1>2. MaxTimeouts = 0 /\ RibInv /\ Faithful /\ [Next]_vars => Faithful'
  BY FaithfulStep
<1>3. MaxTimeouts = 0 /\ [Next]_vars => (MaxTimeouts = 0)'
  OBVIOUS
<1>. QED
  BY <1>1, <1>2, <1>3, FibFollowsRib, RibInvariance, PTL DEF Spec

----------------------------------------------------------------------------
(* Routes that last, although batches fail *)

\* A batch that fails is about a face that is gone, so not about a route that lasts; and
\* with the command that was refused its last answer is in.
LEMMA FailedOrder ==
  ASSUME RibInv, OrderInv, Matching, NEW cmd \in Ready, OnFaceNotFound(cmd)
  PROVE  OrderInv'
<1>1. cmd.live /\ cmd.update.face \notin faces /\ UNCHANGED <<faces, notices, snapshot, lasting>>
  BY DEF OnFaceNotFound, Refused, faceVars
<1>2. CASE cmd.update.face # batchFace
  <2>1. OtherUpdateDone(cmd)
    BY <1>2 DEF OnFaceNotFound
  <2>. QED
    BY <1>1, <1>2, <2>1, OtherOrder
<1>3. CASE cmd.update.face = batchFace
  <2>1. PICK rest, b, u : rest = Taken(cmd) /\ b = cmd.for /\ u = cmd.update
    OBVIOUS
  <2>2. MatchBatch(b) /\ u \in Awaited /\ Carries(rest, Awaited \ {u}, b) /\ cmd \in Command
    BY <1>1, <2>1, AnswerMatch
  <2>3. InBatch(b)
    BY <1>1, <2>1, AnswerTaken
  <2>4. batchUpdates # {} /\ Awaited = batchUpdates
    BY <1>3, <2>1, <2>2 DEF RibInv, BatchInv, Awaited
  <2>5. batchFace \in Face \ faces
    BY <1>1, <1>3, <2>2 DEF Command, FibUpdate
  <2>6. \A v, w \in batchUpdates : v = w
    BY <2>2, <2>5 DEF Matching, MatchBatch
  <2>7. NoneAwaited(rest)
    <3>1. Awaited \ {u} = {}
      BY <2>2, <2>4, <2>6
    <3>. QED
      BY <3>1, <2>2, CarriesNothing
  <2>8. inProgress' = FALSE /\ wire' = rest /\ UNCHANGED <<rib, queue>>
    BY <1>3, <2>1 DEF OnFaceNotFound
  <2>9. ASSUME NEW x \in lasting PROVE KeptAtRest(x)
    <3>1. x.face \in faces
      BY DEF OrderInv, LastingOrder
    <3>2. IdOf(b).face = batchFace
      BY <2>2 DEF IdOf, MatchBatch
    <3>3. IdOf(b) # x
      BY <3>1, <3>2, <2>5
    <3>4. KeptFor(queue, x, b)
      BY <2>3 DEF InBatch
    <3>. QED
      BY <3>3, <3>4 DEF KeptFor, Ends, KeptAtRest
  <2>10. AtRest'
    <3>1. NoneAwaited(wire')
      BY <2>7, <2>8
    <3>2. \A x \in lasting' : KeptAtRest(x)'
      BY <1>1, <2>8, <2>9 DEF KeptAtRest, InRib
    <3>. QED
      BY <3>1, <3>2 DEF AtRest
  <2>11. FacesOrder' /\ LastingOrder' /\ RoutesExpire' /\ QueueExpires'
    BY <1>1, <2>8 DEF OrderInv, FacesOrder, LastingOrder, Expiring, RoutesExpire, QueueExpires, MayExpire
  <2>. QED
    BY <2>8, <2>10, <2>11 DEF OrderInv
<1>. QED
  BY <1>2, <1>3

\* LastingStays without its supposition that no batch fails: faces may be destroyed before
\* the commands for them are executed (onUpdateError with 410 for the batch's face).  What
\* is supposed of the requests instead (Tame) makes such a batch have a single command
\* for its face; with several, an answer that is late ends another batch
\* (failed_lasting).
THEOREM LastingStaysThroughFailures ==
  Steady /\ Tame /\ Spec /\ []Faithful => []LastingRouteStays
<1>1. Init => OrderInv
  BY OrderInit
<1>2. Steady /\ RibInv /\ MatchInv /\ OrderInv /\ [Next]_vars => OrderInv'
  <2>. SUFFICES ASSUME Steady, RibInv, MatchInv, OrderInv, [Next]_vars PROVE OrderInv'
    OBVIOUS
  <2>1. ASSUME NEW q \in Requests, RegisterEntry(q) \/ UnregisterEntry(q) \/ RegistrationExpires(q)
        PROVE  OrderInv'
    BY <2>1, RequestOrder, RegistrationExpiresOrder
  <2>2. ASSUME NEW n \in DOMAIN rib, NEW i \in DOMAIN rib[n].routes, RouteExpiration(n, i) PROVE OrderInv'
    BY <2>2, ExpirationOrder
  <2>3. CASE SendBatchFromQueue
    BY <2>3, SendBatchOrder
  <2>4. CASE NullRoute \/ UNCHANGED vars
    BY <2>4, AloneOrder
  <2>5. ASSUME NEW cmd \in Ready, ExecuteLate(cmd) \/ OnUpdateSuccess(cmd) PROVE OrderInv'
    BY <2>5, LateOrder, SuccessOrder
  <2>6. ASSUME NEW cmd \in Ready, OnFaceNotFound(cmd) PROVE OrderInv'
    <3>1. Matching
      BY <2>6 DEF MatchInv, OnFaceNotFound, Rest
    <3>. QED
      BY <2>6, <3>1, FailedOrder
  <2>7. ASSUME NEW k \in DOMAIN wire, NEW cmd \in wire[k], OnTimeout(k, cmd) PROVE OrderInv'
    BY <2>7, TimeoutOrder
  <2>8. ASSUME NEW f \in Face, BeginRemoveFace(f) PROVE OrderInv'
    BY <2>8, RemoveFacesOrder
  <2>9. ASSUME NEW f \in Face, FaceDestroyed(f) \/ FaceCreated(f) \/ NoticeLost(f) PROVE OrderInv'
    BY <2>9, ForwarderOrder
  <2>10. ASSUME NEW active \in snapshot, BeginRemoveFailedFaces(active) PROVE OrderInv'
    BY <2>10, RemoveFacesOrder
  <2>11. CASE FetchActiveFaces
    BY <2>11, ForwarderOrder
  <2>. QED
    BY <2>1, <2>2, <2>3, <2>4, <2>5, <2>6, <2>7, <2>8, <2>9, <2>10, <2>11 DEF Next
<1>3. OrderInv => LastingRouteStays
  BY OrderKeepsRoutes
<1>4. Steady /\ [Next]_vars => Steady'
  BY DEF Steady, RouteId
<1>. QED
  BY <1>1, <1>2, <1>3, <1>4, MatchInvariance, RibInvariance, PTL DEF Spec
=============================================================================
