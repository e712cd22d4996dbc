---------------------------- MODULE FibUpdater ----------------------------
(***************************************************************************)
(* The RIB's table (daemon/rib/rib.cpp, rib-entry.cpp) and the computation *)
(* of the FIB updates that a change of it calls for                        *)
(* (daemon/rib/fib-updater.cpp), as operators on a table R.  R maps the    *)
(* names that have an entry to records: the routes in list order, the      *)
(* faces of the inherited routes (the code looks at nothing else of them), *)
(* the counter of routes with the capture flag, and the parent pointer.    *)
(*                                                                         *)
(* A change has, by name and face, a FIB update and whether the route is   *)
(* inherited from now on.  addFibUpdate replaces an update of the same     *)
(* name and face, and the inherited lists are edited in the order of the   *)
(* updates, so only the last one of a name and face counts: Then(a, b).    *)
(***************************************************************************)
EXTENDS Integers, Sequences, FiniteSets, FiniteSetsExt

CONSTANTS
  Name,       \* name prefixes
  Prefixes,   \* the proper prefixes of a name that are in Name
  NoName,     \* no parent
  Face,
  Origin,
  Cost

ASSUME RibNamesAssumption ==
  /\ NoName \notin Name
  /\ Prefixes \in [Name -> SUBSET Name]
  /\ \A n \in Name : /\ IsFiniteSet(Prefixes[n]) /\ n \notin Prefixes[n]
                     /\ \A m \in Prefixes[n] : Prefixes[m] \subseteq Prefixes[n]
  /\ \A n \in Name : \A k, m \in Prefixes[n] : k = m \/ k \in Prefixes[m] \/ m \in Prefixes[k]

ASSUME CostAssumption == Cost \subseteq Nat

Route == [face : Face, origin : Origin, cost : Cost,
          inherit : BOOLEAN, capture : BOOLEAN, expires : BOOLEAN]

----------------------------------------------------------------------------
(* RibEntry *)

\* m_nRoutesWithCaptureSet is unsigned: below zero it wraps to a large value.
hasCapture(e) == e.nCapture # 0

OnFace(e, f) == {i \in DOMAIN e.routes : e.routes[i].face = f}
InheritOn(e, f) == {i \in OnFace(e, f) : e.routes[i].inherit}
hasFaceId(e, f) == OnFace(e, f) # {}
hasChildInheritOnFaceId(e, f) == InheritOn(e, f) # {}

\* Routes are the same when face and origin are.
findRoute(e, r) == {i \in OnFace(e, r.face) : e.routes[i].origin = r.origin}

CostsOf(e, I) == {e.routes[i].cost : i \in I}

\* The route in second place by cost, equal costs in list order.
SecondLowest(e, f) ==
  {i \in OnFace(e, f) :
     Cardinality({j \in OnFace(e, f) : \/ e.routes[j].cost < e.routes[i].cost
                                       \/ e.routes[j].cost = e.routes[i].cost /\ j < i}) = 1}

\* The entry after eraseRoute of the route at i.
Without(e, i) ==
  [e EXCEPT !.routes = [j \in 1..(Len(e.routes) - 1) |->
                          IF j < i THEN e.routes[j] ELSE e.routes[j + 1]],
            !.nCapture = IF e.routes[i].capture THEN @ - 1 ELSE @]

----------------------------------------------------------------------------
(* The tree of entries *)

\* An entry and its ancestors, along the parent pointers.
Chain(R, n) ==
  LET up[x \in DOMAIN R \cup {NoName}] ==
        IF x = NoName THEN {} ELSE {x} \cup up[R[x].parent]
  IN up[n]

Children(R, n) == {c \in DOMAIN R : R[c].parent = n}

findParent(R, n) ==
  LET above == Prefixes[n] \cap DOMAIN R
  IN IF above = {} THEN NoName
     ELSE CHOOSE p \in above : above \ {p} \subseteq Prefixes[p]

\* Entries a lookup from p upward visits: it ends after an entry with capture.
Visible(R, p) ==
  {x \in Chain(R, p) :
     \A y \in Chain(R, p) \ {x} : x \in Chain(R, y) => ~hasCapture(R[y])}

\* A set of routes ordered by face keeps the first one inserted: the nearest
\* ancestor's, and of its routes the first in the list.
getAncestorRoutes(R, p) ==
  LET giver(f) == {x \in Visible(R, p) : hasChildInheritOnFaceId(R[x], f)}
      nearest(f) == CHOOSE x \in giver(f) : \A y \in giver(f) : y \in Chain(R, x)
      first(f) == R[nearest(f)].routes[Min(InheritOn(R[nearest(f)], f))]
  IN [f \in {g \in Face : giver(g) # {}} |-> first(f).cost]

----------------------------------------------------------------------------
(* Changes; a RouteSet is a function from its faces to costs *)

AddNextHop(c) == [action |-> "add", cost |-> c]
RemoveNextHop == [action |-> "remove", cost |-> 0]

\* The function f, but g where g is defined.
Override(f, g) == [x \in DOMAIN f \cup DOMAIN g |-> IF x \in DOMAIN g THEN g[x] ELSE f[x]]

Then(a, b) == [fib |-> Override(a.fib, b.fib),
               inherited |-> Override(a.inherited, b.inherited)]

NoRoutes == [f \in {} |-> 0]
NoChange == [fib |-> NoRoutes, inherited |-> NoRoutes]
Fib(n, f, u) == [fib |-> [x \in {<<n, f>>} |-> u], inherited |-> NoRoutes]

\* Inherited routes for the pairs of name and face in P, and the end of them.
Inherit(P, routes) == [fib |-> [x \in P |-> AddNextHop(routes[x[2]])],
                       inherited |-> [x \in P |-> TRUE]]
Disinherit(P) == [fib |-> [x \in P |-> RemoveNextHop], inherited |-> [x \in P |-> FALSE]]

\* "if the namespace has an entry for that faceId", the ancestor's is not added.
addInheritedRoutes(n, e, routes) ==
  Inherit({<<n, f>> : f \in {g \in DOMAIN routes : ~hasFaceId(e, g)}}, routes)
removeInheritedRoutes(n, e, routes) == Disinherit({<<n, f>> : f \in DOMAIN routes \cap e.inherited})

\* Mutant of Reached: child inheritance on the face is not looked at.
ReachedThroughInherit(R, K, f) ==
  {d \in DOMAIN R :
     /\ Chain(R, d) \cap K # {}
     /\ \A x \in Chain(R, d) : Chain(R, x) \cap K # {} => ~hasCapture(R[x])}

\* The entries of the subtrees of K that traverseSubTree visits with a route of
\* face f still in its sets: capture ends the visit, child inheritance on the
\* face drops the route for the entry and all below it.
Reached(R, K, f) ==
  {d \in DOMAIN R :
     /\ Chain(R, d) \cap K # {}
     /\ \A x \in Chain(R, d) : Chain(R, x) \cap K # {} =>
          ~hasCapture(R[x]) /\ ~hasChildInheritOnFaceId(R[x], f)}

\* Within one visit the removals come first.
modifyChildrensInheritedRoutes(R, K, toAdd, toRemove) ==
  Then(Disinherit({x \in (DOMAIN R) \X (DOMAIN toRemove) :
                     x[1] \in Reached(R, K, x[2]) /\ x[2] \in R[x[1]].inherited}),
       Inherit({x \in (DOMAIN R) \X (DOMAIN toAdd) :
                     x[1] \in Reached(R, K, x[2]) /\ ~hasFaceId(R[x[1]], x[2])}, toAdd))

----------------------------------------------------------------------------
(* createFibUpdatesFor... ; e is the entry's copy the code works with *)

Self(r) == [f \in {r.face} |-> r.cost]

createFibUpdatesForNewRibEntry(R, n, r) ==
  LET p == findParent(R, n)
      K == {d \in DOMAIN R : n \in Prefixes[d] /\ R[d].parent = p}
      ancestors == getAncestorRoutes(R, p)
      self == Then(IF r.capture THEN NoChange
                   ELSE Inherit({<<n, f>> : f \in DOMAIN ancestors \ {r.face}}, ancestors),
                   Fib(n, r.face, AddNextHop(r.cost)))
      toAdd == IF ~r.inherit THEN NoRoutes
               ELSE IF r.capture THEN Self(r) ELSE Override(ancestors, Self(r))
      toRemove == IF r.capture THEN ancestors ELSE NoRoutes
  IN Then(self, modifyChildrensInheritedRoutes(R, K, toAdd, toRemove))

createFibUpdatesForNewRoute(R, n, e, r, captureWasTurnedOn) ==
  LET isBest(I) == \A c \in CostsOf(e, I) : r.cost <= c
      toAdd == IF r.inherit /\ isBest(InheritOn(e, r.face)) THEN Self(r) ELSE NoRoutes
      toRemove == IF captureWasTurnedOn THEN getAncestorRoutes(R, e.parent) ELSE NoRoutes
      own == IF isBest(OnFace(e, r.face)) THEN Fib(n, r.face, AddNextHop(r.cost)) ELSE NoChange
  IN Then(Then(removeInheritedRoutes(n, e, toRemove),
               modifyChildrensInheritedRoutes(R, Children(R, n), toAdd, toRemove)), own)

\* Line 481 dereferences prevRoute, which may be null.
PrevRouteIsNull(e, r, old) ==
  LET lowest == Min(CostsOf(e, OnFace(e, r.face)))
  IN r.cost > lowest /\ old.cost < lowest /\ ~hasChildInheritOnFaceId(e, r.face)

createFibUpdatesForUpdatedRoute(R, n, e, r, old) ==
  LET f == r.face
      lowest == Min(CostsOf(e, OnFace(e, f)))
      prev == CostsOf(e, InheritOn(e, f))
      sameFlags == r.inherit = old.inherit /\ r.capture = old.capture
      down(toAdd, toRemove) == modifyChildrensInheritedRoutes(R, Children(R, n), toAdd, toRemove)
      ancestors == getAncestorRoutes(R, e.parent)
      own == IF r.cost = old.cost THEN NoChange
             ELSE IF r.cost <= lowest THEN Fib(n, f, AddNextHop(r.cost))
             ELSE IF old.cost < lowest THEN Fib(n, f, AddNextHop(Min(prev)))
             ELSE NoChange
      restored == IF prev # {} THEN [g \in {f} |-> Min(prev)]
                  ELSE [g \in DOMAIN ancestors \cap {f} |-> ancestors[g]]
      inheritance ==
        IF r.inherit /\ (~old.inherit \/ sameFlags) /\ \A c \in prev : r.cost <= c
        THEN down(Self(r), NoRoutes)
        ELSE IF old.inherit /\ ~r.inherit THEN down(restored, Self(r))
        ELSE NoChange
      capture ==
        IF r.capture /\ ~old.capture
        THEN Then(removeInheritedRoutes(n, e, ancestors), down(NoRoutes, ancestors))
        ELSE IF old.capture /\ ~r.capture
        THEN Then(addInheritedRoutes(n, e, ancestors), down(ancestors, NoRoutes))
        ELSE NoChange
  IN IF sameFlags /\ r.cost = old.cost THEN NoChange
     ELSE Then(Then(own, inheritance), capture)

createFibUpdatesForErasedRoute(R, n, e, r, captureWasTurnedOff) ==
  LET ancestors == getAncestorRoutes(R, e.parent)
      stays == e.routes # <<>>
      restored == IF captureWasTurnedOff /\ stays THEN ancestors ELSE NoRoutes
      toAdd == IF r.capture THEN restored
               ELSE IF r.inherit /\ ~hasCapture(e) THEN ancestors ELSE NoRoutes
      toRemove == IF r.inherit THEN Self(r) ELSE NoRoutes
      self == IF r.capture THEN addInheritedRoutes(n, e, restored) ELSE NoChange
      unblocked == IF hasCapture(e) \/ ~stays THEN {} ELSE DOMAIN ancestors \cap {r.face}
  IN Then(Then(Then(Fib(n, r.face, RemoveNextHop), self),
               modifyChildrensInheritedRoutes(R, Children(R, n), toAdd, toRemove)),
          Inherit({<<n, f>> : f \in unblocked}, ancestors))

computeUpdatesForRegistration(R, n, r) ==
  IF n \notin DOMAIN R THEN createFibUpdatesForNewRibEntry(R, n, r)
  ELSE IF findRoute(R[n], r) = {}
  THEN createFibUpdatesForNewRoute(R, n, R[n], r, r.capture /\ ~hasCapture(R[n]))
  ELSE LET i == Min(findRoute(R[n], r))
       IN createFibUpdatesForUpdatedRoute(R, n, [R[n] EXCEPT !.routes[i] = r], r, R[n].routes[i])

computeUpdatesForUnregistration(R, n, r) ==
  IF n \notin DOMAIN R \/ findRoute(R[n], r) = {} THEN NoChange
  ELSE LET e == R[n]
           i == Min(findRoute(e, r))
           temp == Without(e, i)
           erased == createFibUpdatesForErasedRoute(R, n, temp, e.routes[i],
                                                    hasCapture(e) /\ ~hasCapture(temp))
           next == IF SecondLowest(e, r.face) = {} THEN NoChange
                   ELSE createFibUpdatesForNewRoute(R, n, temp,
                          e.routes[CHOOSE j \in SecondLowest(e, r.face) : TRUE], FALSE)
           last == IF Len(e.routes) = 1
                   THEN [fib |-> [x \in {n} \X e.inherited |-> RemoveNextHop],
                         inherited |-> NoRoutes]
                   ELSE NoChange
       IN Then(Then(erased, next), last)

----------------------------------------------------------------------------
(* Rib::insert, erase, modifyInheritedRoutes *)

\* Mutant of insert: the children of a new entry keep their parent.
InsertAsLeaf(R, n, r) ==
  IF n \in DOMAIN R
  THEN IF findRoute(R[n], r) = {}
       THEN [R EXCEPT ![n].routes = Append(@, r),
                      ![n].nCapture = IF r.capture THEN @ + 1 ELSE @]
       ELSE [R EXCEPT ![n].routes[Min(findRoute(R[n], r))] = r]
  ELSE [m \in DOMAIN R \cup {n} |->
          IF m = n THEN [routes |-> <<r>>, inherited |-> {},
                         nCapture |-> IF r.capture THEN 1 ELSE 0, parent |-> findParent(R, n)]
          ELSE R[m]]

insert(R, n, r) ==
  IF n \in DOMAIN R
  THEN IF findRoute(R[n], r) = {}
       THEN [R EXCEPT ![n].routes = Append(@, r),
                      ![n].nCapture = IF r.capture THEN @ + 1 ELSE @]
       ELSE [R EXCEPT ![n].routes[Min(findRoute(R[n], r))] = r]
  ELSE LET p == findParent(R, n)
       IN [m \in DOMAIN R \cup {n} |->
             IF m = n THEN [routes |-> <<r>>, inherited |-> {},
                            nCapture |-> IF r.capture THEN 1 ELSE 0, parent |-> p]
             ELSE IF n \in Prefixes[m] /\ R[m].parent = p THEN [R[m] EXCEPT !.parent = n]
             ELSE R[m]]

eraseEntry(R, n) ==
  [m \in DOMAIN R \ {n} |->
     IF R[m].parent = n THEN [R[m] EXCEPT !.parent = R[n].parent] ELSE R[m]]

\* Mutant of erase: an entry without routes is kept.
EraseRouteOnly(R, n, r) ==
  IF n \notin DOMAIN R \/ findRoute(R[n], r) = {} THEN R
  ELSE [R EXCEPT ![n] = Without(R[n], Min(findRoute(R[n], r)))]

erase(R, n, r) ==
  IF n \notin DOMAIN R \/ findRoute(R[n], r) = {} THEN R
  ELSE IF Len(R[n].routes) = 1 THEN eraseEntry(R, n)
  ELSE [R EXCEPT ![n] = Without(R[n], Min(findRoute(R[n], r)))]

modifyInheritedRoutes(R, updates) ==
  [m \in DOMAIN R |->
     [R[m] EXCEPT !.inherited =
        {f \in Face : IF <<m, f>> \in DOMAIN updates THEN updates[<<m, f>>]
                      ELSE f \in R[m].inherited}]]
=============================================================================
