-------------------------------- MODULE Rib --------------------------------
(***************************************************************************)
(* The RIB thread of an NFD node and the FIB it keeps up to date: requests *)
(* to add and remove routes (daemon/mgmt/rib-manager.cpp), the queue of    *)
(* RIB updates (daemon/rib/rib.cpp), the FibUpdater that sends the FIB     *)
(* updates of one RIB update at a time as commands and waits for their     *)
(* answers (daemon/rib/fib-updater.cpp), and the FIB manager that executes *)
(* them in the forwarder's thread (daemon/mgmt/fib-manager.cpp).  Faces    *)
(* come and go meanwhile.                                                  *)
(*                                                                         *)
(* Commands travel on an internal face in order: wire is a sequence of     *)
(* groups, one per sendUpdates, and any command of the first group may be  *)
(* next.  A command that timed out is still executed, its answer ignored.  *)
(* Execution and answer are one step: nothing the RIB thread does between  *)
(* them depends on the answer.                                             *)
(*                                                                         *)
(* sendBatchFromQueue, which ends every handler, is a step of its own: the *)
(* RIB thread takes no other while it is due, but the other thread may.    *)
(***************************************************************************)
EXTENDS FibUpdater

CONSTANTS
  Requests,      \* routes that may be requested: [name, route]
  NewFace,       \* faces that do not exist yet
  Breakable,     \* faces that may be destroyed
  NoFace,        \* m_batchFaceId before the first batch
  NoCost,        \* no nexthop in the FIB
  Undo,          \* may routes be unregistered?
  Fetching,      \* is the face dataset fetched from time to time?
  MaxRequests,   \* bound: requests of applications and operators
  MaxQueue,      \* bound: requests are held back while this many updates wait
  MaxTimeouts    \* MAX_NUM_TIMEOUTS

ASSUME RibAssumption ==
  /\ Requests \subseteq [name : Name, route : Route]
  /\ NewFace \subseteq Face /\ Breakable \subseteq Face \ NewFace
  /\ NoFace \notin Face
  /\ NoCost \notin Cost
  /\ Undo \in BOOLEAN /\ Fetching \in BOOLEAN
  /\ MaxRequests \in Nat /\ MaxQueue \in Nat /\ MaxTimeouts \in Nat

VARIABLES
  rib,            \* m_rib
  queue,          \* m_updateBatches
  inProgress,     \* m_isUpdateInProgress
  batchFace,      \* m_batchFaceId
  batchUpdates,   \* m_updatesForBatchFaceId
  otherUpdates,   \* m_updatesForNonBatchFaceId
  inheritUpdates, \* m_inheritedRoutes
  wire,           \* commands on their way to the FIB manager
  fib,            \* the FIB: the cost of a nexthop
  faces,          \* the faces that exist
  notices,        \* faces whose destruction the RIB thread has not heard of
  snapshot,       \* face datasets that were fetched and not yet used
  failed,         \* history: updates reported as failed and not requested again
  lasting,        \* history: routes registered without expiration, and not undone
  fault,          \* what ended the process
  requests,       \* how many there have been
  fired           \* registrations whose expiration fired before they were applied

ribVars == <<rib, queue, inProgress, batchFace, batchUpdates, otherUpdates, inheritUpdates>>
faceVars == <<faces, notices, snapshot>>
vars == <<ribVars, wire, fib, faceVars, failed, lasting, fault, requests, fired>>

Update == [action : {"register", "unregister", "remove face"}, name : Name, route : Route]
FibUpdate == [name : Name, face : Face, action : {"add", "remove"}, cost : Cost \cup {0}]
Command == [update : FibUpdate, op : {"add", "remove"}, for : Update,
            tries : 0..MaxTimeouts, live : BOOLEAN]
IsEntry(e) ==
  /\ e.routes \in Seq(Route) \ {<<>>}
  /\ e.inherited \subseteq Face
  /\ e.nCapture \in Int
  /\ e.parent \in Name \cup {NoName}

\* Types; an entry of the RIB has a route.
TypeOK ==
  /\ DOMAIN rib \subseteq Name /\ \A n \in DOMAIN rib : IsEntry(rib[n])
  /\ queue \in Seq(Update)
  /\ inProgress \in BOOLEAN
  /\ batchFace \in Face \cup {NoFace}
  /\ batchUpdates \subseteq FibUpdate /\ otherUpdates \subseteq FibUpdate
  /\ DOMAIN inheritUpdates \subseteq Name \X Face
  /\ \A x \in DOMAIN inheritUpdates : inheritUpdates[x] \in BOOLEAN
  /\ wire \in Seq(SUBSET Command)
  /\ fib \in [Name \X Face -> Cost \cup {0, NoCost}]
  /\ faces \subseteq Face /\ notices \subseteq Face /\ snapshot \subseteq SUBSET Face
  /\ failed \subseteq Update /\ lasting \subseteq [name : Name, face : Face, origin : Origin]
  /\ fault \in {"none", "null route", "no entry", "timeouts"}
  /\ requests \in 0..MaxRequests
  /\ fired \subseteq Requests

Init ==
  /\ rib = [n \in {} |-> NoName]
  /\ queue = <<>>
  /\ inProgress = FALSE
  /\ batchFace = NoFace
  /\ batchUpdates = {} /\ otherUpdates = {} /\ inheritUpdates = NoRoutes
  /\ wire = <<>>
  /\ fib = [nf \in Name \X Face |-> NoCost]
  /\ faces = Face \ NewFace
  /\ notices = {} /\ snapshot = {}
  /\ failed = {} /\ lasting = {} /\ fault = "none"
  /\ requests = 0 /\ fired = {}

----------------------------------------------------------------------------
(* The RIB thread is between two handlers. *)
Rest == fault = "none" /\ (inProgress \/ queue = <<>>)

addUpdateToQueue(action, n, r) ==
  queue' = Append(queue, [action |-> action, name |-> n, route |-> r])

RouteId(q) == [name |-> q.name, face |-> q.route.face, origin |-> q.route.origin]

\* registerEntry, beginAddRoute: the answer to the requester does not wait, and the
\* expiration event is scheduled here, not when the route enters the table.
RegisterEntry(q) ==
  /\ Rest /\ requests < MaxRequests /\ Len(queue) < MaxQueue
  /\ addUpdateToQueue("register", q.name, q.route)
  /\ failed' = failed \ {[action |-> "register", name |-> q.name, route |-> q.route]}
  /\ lasting' = IF q.route.expires \/ q.route.face \notin faces THEN lasting \ {RouteId(q)}
                ELSE lasting \cup {RouteId(q)}
  /\ requests' = requests + 1
  /\ fired' = fired \ {q}
  /\ UNCHANGED <<rib, inProgress, batchFace, batchUpdates, otherUpdates, inheritUpdates,
                 wire, fib, faceVars, fault>>

\* unregisterEntry, beginRemoveRoute.  A registration with an expiration period of
\* zero does the same.
UnregisterEntry(q) ==
  /\ Undo
  /\ Rest /\ requests < MaxRequests /\ Len(queue) < MaxQueue
  /\ addUpdateToQueue("unregister", q.name, q.route)
  /\ lasting' = lasting \ {RouteId(q)}
  /\ requests' = requests + 1
  /\ UNCHANGED <<rib, inProgress, batchFace, batchUpdates, otherUpdates, inheritUpdates,
                 wire, fib, faceVars, failed, fault, fired>>

\* The registration of q has begun and was not applied: it waits in the queue, its
\* commands are out, or it failed, which does not cancel its event.
Unapplied(q) ==
  \E b \in {[action |-> "register", name |-> q.name, route |-> q.route]} :
    \/ b \in failed
    \/ \E k \in DOMAIN queue : queue[k] = b
    \/ \E k \in DOMAIN wire : \E cmd \in wire[k] : cmd.live /\ cmd.for = b

\* onRouteExpiration for a registration that is still pending.  (Equal registrations
\* that overlap share one event.)
RegistrationExpires(q) ==
  /\ Rest
  /\ q.route.expires /\ q \notin fired /\ Unapplied(q)
  /\ addUpdateToQueue("unregister", q.name, q.route)
  /\ fired' = fired \cup {q}
  /\ UNCHANGED <<rib, inProgress, batchFace, batchUpdates, otherUpdates, inheritUpdates,
                 wire, fib, faceVars, failed, lasting, fault, requests>>

\* onRouteExpiration for a route in the table; an event fires once.
RouteExpiration(n, i) ==
  /\ Rest
  /\ rib[n].routes[i].expires
  /\ LET q == [name |-> n, route |-> rib[n].routes[i]] IN q \notin fired /\ ~Unapplied(q)
  /\ addUpdateToQueue("unregister", n, rib[n].routes[i])
  /\ rib' = [rib EXCEPT ![n].routes[i].expires = FALSE]
  /\ UNCHANGED <<inProgress, batchFace, batchUpdates, otherUpdates, inheritUpdates,
                 wire, fib, faceVars, failed, lasting, fault, requests, fired>>

\* Mutant of RoutesOn: the face of a route is not looked at.
RoutesOfEntriesOn(F) ==
  UNION {{[action |-> "remove face", name |-> n, route |-> rib[n].routes[i]] :
            i \in DOMAIN rib[n].routes} : n \in {m \in DOMAIN rib : \E f \in F : hasFaceId(rib[m], f)}}

\* One update per route on a face of F, entry by entry.
RoutesOn(F) ==
  UNION {{[action |-> "remove face", name |-> n, route |-> rib[n].routes[i]] :
            i \in {j \in DOMAIN rib[n].routes : rib[n].routes[j].face \in F}} : n \in DOMAIN rib}

enqueueRemoveFace(F) ==
  \E order \in [1..Cardinality(RoutesOn(F)) -> RoutesOn(F)] :
    /\ {order[k] : k \in DOMAIN order} = RoutesOn(F)
    /\ queue' = queue \o order

\* onNotification, beginRemoveFace
BeginRemoveFace(f) ==
  /\ Rest /\ f \in notices
  /\ enqueueRemoveFace({f})
  /\ notices' = notices \ {f}
  /\ UNCHANGED <<rib, inProgress, batchFace, batchUpdates, otherUpdates, inheritUpdates,
                 wire, fib, faces, snapshot, failed, lasting, fault, requests, fired>>

\* Mutant of BeginRemoveFailedFaces: the test of the active faces is the wrong way round.
BeginRemoveActiveFaces(active) ==
  /\ Rest /\ active \in snapshot
  /\ enqueueRemoveFace(active)
  /\ snapshot' = snapshot \ {active}
  /\ UNCHANGED <<rib, inProgress, batchFace, batchUpdates, otherUpdates, inheritUpdates,
                 wire, fib, faces, notices, failed, lasting, fault, requests, fired>>

\* removeInvalidFaces, beginRemoveFailedFaces
BeginRemoveFailedFaces(active) ==
  /\ Rest /\ active \in snapshot
  /\ enqueueRemoveFace(Face \ active)
  /\ snapshot' = snapshot \ {active}
  /\ UNCHANGED <<rib, inProgress, batchFace, batchUpdates, otherUpdates, inheritUpdates,
                 wire, fib, faces, notices, failed, lasting, fault, requests, fired>>

----------------------------------------------------------------------------
(* The FIB updater and the end of a batch *)

Commands(updates, b) ==
  {[update |-> u, op |-> u.action, for |-> b, tries |-> 0, live |-> TRUE] : u \in updates}

\* onFibUpdateSuccess.  modifyInheritedRoutes asserts that the entries exist.
applyBatch(b, inherited) ==
  /\ \E R \in {IF b.action = "register" THEN insert(rib, b.name, b.route)
               ELSE erase(rib, b.name, b.route)} :
       IF \A x \in DOMAIN inherited : x[1] \in DOMAIN R
       THEN /\ rib' = modifyInheritedRoutes(R, inherited)
            /\ fault' = fault
       ELSE /\ rib' = R
            /\ fault' = "no entry"
  /\ inProgress' = FALSE

\* Mutant of sendOthers: onSuccess is not called when there is nothing to send.
SendOthersOnly(rest, others, b, inherited) ==
  /\ wire' = IF others # {} THEN Append(rest, Commands(others, b)) ELSE rest
  /\ UNCHANGED <<rib, fault>>
  /\ inProgress' = TRUE

\* sendUpdatesForNonBatchFaceId
sendOthers(rest, others, b, inherited) ==
  IF others # {}
  THEN /\ wire' = Append(rest, Commands(others, b))
       /\ UNCHANGED <<rib, fault>>
       /\ inProgress' = TRUE
  ELSE /\ wire' = rest
       /\ applyBatch(b, inherited)

computeUpdates(b) ==
  IF b.action = "register" THEN computeUpdatesForRegistration(rib, b.name, b.route)
  ELSE computeUpdatesForUnregistration(rib, b.name, b.route)

\* The updates of a change for a set of faces, as the lists hold them.
UpdatesFor(c, F) ==
  {[name |-> x[1], face |-> x[2], action |-> c.fib[x].action, cost |-> c.fib[x].cost] :
     x \in {y \in DOMAIN c.fib : y[2] \in F}}

DereferencesNull(b) ==
  /\ b.action = "register"
  /\ b.name \in DOMAIN rib
  /\ LET e == rib[b.name]
         I == findRoute(e, b.route)
     IN I # {} /\ PrevRouteIsNull([e EXCEPT !.routes[Min(I)] = b.route], b.route, e.routes[Min(I)])

SendBatchFromQueue ==
  /\ fault = "none" /\ ~inProgress /\ queue # <<>>
  /\ \E b \in {Head(queue)} :
       /\ ~DereferencesNull(b)
       /\ \E c \in {computeUpdates(b)} :
            \* a destroyed face needs no updates
            /\ batchUpdates' = IF b.action = "remove face" THEN {} ELSE UpdatesFor(c, {b.route.face})
            /\ otherUpdates' = UpdatesFor(c, Face \ {b.route.face})
            /\ inheritUpdates' = c.inherited
       /\ batchFace' = b.route.face
       /\ \/ /\ batchUpdates' # {}
             /\ wire' = Append(wire, Commands(batchUpdates', b))
             /\ inProgress' = TRUE
             /\ UNCHANGED <<rib, fault>>
          \/ /\ batchUpdates' = {}
             /\ sendOthers(wire, otherUpdates', b, inheritUpdates')
  /\ queue' = Tail(queue)
  /\ UNCHANGED <<fib, faceVars, failed, lasting, requests, fired>>

NullRoute ==
  /\ fault = "none" /\ ~inProgress /\ queue # <<>>
  /\ DereferencesNull(Head(queue))
  /\ fault' = "null route"
  /\ UNCHANGED <<ribVars, wire, fib, faceVars, failed, lasting, requests, fired>>

\* The commands that may be next, and the wire without one of them.
Ready == IF wire = <<>> THEN {} ELSE Head(wire)
Taken(cmd) == IF Head(wire) = {cmd} THEN Tail(wire)
              ELSE <<Head(wire) \ {cmd}>> \o Tail(wire)

\* addNextHop refuses a face that is gone, removeNextHop ignores it.
Refused(cmd) == cmd.op = "add" /\ cmd.update.face \notin faces
ExecuteInFib(cmd) ==
  fib' = IF cmd.update.face \notin faces THEN fib
         ELSE [fib EXCEPT ![<<cmd.update.name, cmd.update.face>>] =
                 IF cmd.op = "add" THEN cmd.update.cost ELSE NoCost]

\* A command whose answer nobody waits for.
ExecuteLate(cmd) ==
  /\ Rest /\ cmd \in Ready /\ ~cmd.live
  /\ ExecuteInFib(cmd)
  /\ wire' = Taken(cmd)
  /\ UNCHANGED <<ribVars, faceVars, failed, lasting, fault, requests, fired>>

\* The end of onUpdateSuccess, also reached by 410 for another face: the lists and
\* the batch's face are the updater's, the callbacks those of the command's batch.
OtherUpdateDone(cmd) ==
  /\ otherUpdates' = otherUpdates \ {cmd.update}
  /\ wire' = Taken(cmd)
  /\ IF otherUpdates' = {} THEN applyBatch(cmd.for, inheritUpdates)
     ELSE UNCHANGED <<rib, fault, inProgress>>
  /\ UNCHANGED <<queue, batchFace, batchUpdates, inheritUpdates>>

OnUpdateSuccess(cmd) ==
  /\ Rest /\ cmd \in Ready /\ cmd.live /\ ~Refused(cmd)
  /\ ExecuteInFib(cmd)
  /\ \/ /\ cmd.update.face = batchFace
        /\ batchUpdates' = batchUpdates \ {cmd.update}
        /\ IF batchUpdates' = {}
           THEN sendOthers(Taken(cmd), otherUpdates, cmd.for, inheritUpdates)
           ELSE wire' = Taken(cmd) /\ UNCHANGED <<rib, fault, inProgress>>
        /\ UNCHANGED <<queue, batchFace, otherUpdates, inheritUpdates>>
     \/ /\ cmd.update.face # batchFace
        /\ OtherUpdateDone(cmd)
  /\ UNCHANGED <<faceVars, failed, lasting, requests, fired>>

\* onUpdateError with code 410, onFibUpdateFailure
OnFaceNotFound(cmd) ==
  /\ Rest /\ cmd \in Ready /\ cmd.live /\ Refused(cmd)
  /\ \/ /\ cmd.update.face = batchFace
        /\ inProgress' = FALSE
        /\ failed' = failed \cup {cmd.for}
        /\ wire' = Taken(cmd)
        /\ UNCHANGED <<rib, queue, batchFace, batchUpdates, otherUpdates, inheritUpdates, fault>>
     \/ /\ cmd.update.face # batchFace
        /\ OtherUpdateDone(cmd)
        /\ UNCHANGED failed
  /\ UNCHANGED <<fib, faceVars, lasting, requests, fired>>

\* Mutant of OnTimeout: the command is not sent again.
OnTimeoutGiveUp(k, cmd) ==
  /\ Rest /\ cmd.live
  /\ MaxTimeouts > 0
  /\ wire' = [wire EXCEPT ![k] = (@ \ {cmd}) \cup {[cmd EXCEPT !.live = FALSE]}]
  /\ UNCHANGED <<ribVars, fib, faceVars, failed, lasting, fault, requests, fired>>

\* onUpdateError with ERROR_TIMEOUT: sent again by sendAddNextHopUpdate, whatever
\* the command was, at most MaxTimeouts times.
OnTimeout(k, cmd) ==
  /\ Rest /\ cmd.live
  /\ MaxTimeouts > 0
  /\ IF cmd.tries < MaxTimeouts
     THEN /\ wire' = Append([wire EXCEPT ![k] = (@ \ {cmd}) \cup {[cmd EXCEPT !.live = FALSE]}],
                            {[cmd EXCEPT !.op = "add", !.tries = @ + 1]})
          /\ UNCHANGED fault
     ELSE /\ fault' = "timeouts"
          /\ UNCHANGED wire
  /\ UNCHANGED <<ribVars, fib, faceVars, failed, lasting, requests, fired>>

----------------------------------------------------------------------------
(* The forwarder's thread *)

\* The FIB loses the nexthops of the face, subscribers get a notification.
FaceDestroyed(f) ==
  /\ f \in faces \cap Breakable
  /\ faces' = faces \ {f}
  /\ fib' = [nf \in Name \X Face |-> IF nf[2] = f THEN NoCost ELSE fib[nf]]
  /\ notices' = notices \cup {f}
  /\ lasting' = {x \in lasting : x.face # f}
  /\ UNCHANGED <<ribVars, wire, snapshot, failed, fault, requests, fired>>

FaceCreated(f) ==
  /\ f \in NewFace \ faces
  /\ faces' = faces \cup {f}
  /\ UNCHANGED <<ribVars, wire, fib, notices, snapshot, failed, lasting, fault, requests, fired>>

\* A notification that does not reach the RIB thread.
NoticeLost(f) ==
  /\ f \in notices
  /\ Fetching
  /\ notices' = notices \ {f}
  /\ UNCHANGED <<ribVars, wire, fib, faces, snapshot, failed, lasting, fault, requests, fired>>

\* fetchActiveFaces: the dataset is the set of faces at this moment.  A fetch begins 5
\* minutes after the last dataset came, or 1 second after an update failed, when an
\* earlier one may still be under way: both datasets are used then, in either order.
\* What a dataset queued is done before the next fetch begins.
FetchActiveFaces ==
  /\ Fetching /\ (snapshot = {} \/ failed # {})
  /\ \A i \in DOMAIN queue : queue[i].action # "remove face"
  /\ snapshot' = snapshot \cup {faces}
  /\ UNCHANGED <<ribVars, wire, fib, faces, notices, failed, lasting, fault, requests, fired>>

Next ==
  \/ \E q \in Requests : RegisterEntry(q) \/ UnregisterEntry(q) \/ RegistrationExpires(q)
  \/ \E n \in DOMAIN rib : \E i \in DOMAIN rib[n].routes : RouteExpiration(n, i)
  \/ SendBatchFromQueue
  \/ NullRoute
  \/ \E cmd \in Ready : ExecuteLate(cmd) \/ OnUpdateSuccess(cmd) \/ OnFaceNotFound(cmd)
  \/ \E k \in DOMAIN wire : \E cmd \in wire[k] : OnTimeout(k, cmd)
  \/ \E f \in Face : BeginRemoveFace(f) \/ FaceDestroyed(f) \/ FaceCreated(f) \/ NoticeLost(f)
  \/ \E active \in snapshot : BeginRemoveFailedFaces(active)
  \/ FetchActiveFaces

Spec == Init /\ [][Next]_vars

\* Both threads work on: posted tasks and commands are executed, and the dataset
\* is fetched again and again.
LiveSpec ==
  /\ Spec
  /\ WF_vars(SendBatchFromQueue \/ NullRoute)
  /\ WF_vars(\E cmd \in Ready : ExecuteLate(cmd) \/ OnUpdateSuccess(cmd) \/ OnFaceNotFound(cmd))
  /\ WF_vars(\E f \in Face : BeginRemoveFace(f))
  /\ WF_vars(\E active \in snapshot : BeginRemoveFailedFaces(active))
  /\ WF_vars(FetchActiveFaces)

----------------------------------------------------------------------------
(* Properties *)

\* Nothing is due: no update, no command, no news about faces.
Quiet == fault = "none" /\ ~inProgress /\ queue = <<>> /\ wire = <<>> /\ notices = {}

\* The nexthop that the routes of the RIB call for at n on f: the cheapest route
\* of n itself; else the cheapest inheritable route of the nearest ancestor that
\* has one, unless n or a nearer ancestor captures.
Captures(n) == \E i \in DOMAIN rib[n].routes : rib[n].routes[i].capture
Givers(n, f) == {x \in Prefixes[n] \cap DOMAIN rib :
                   /\ hasChildInheritOnFaceId(rib[x], f)
                   /\ \A y \in (Prefixes[n] \cup {n}) \cap DOMAIN rib :
                        x \in Prefixes[y] => ~Captures(y)}
NextHopOf(n, f) ==
  IF n \notin DOMAIN rib THEN NoCost
  ELSE IF hasFaceId(rib[n], f) THEN Min(CostsOf(rib[n], OnFace(rib[n], f)))
  ELSE IF Givers(n, f) = {} THEN NoCost
  ELSE LET x == CHOOSE g \in Givers(n, f) : Givers(n, f) \ {g} \subseteq Prefixes[g]
       IN Min(CostsOf(rib[x], InheritOn(rib[x], f)))

\* When nothing is due, the FIB is what the routes of the RIB call for: the
\* incremental computation of FibUpdater agrees with the definition above, after any
\* sequence of registrations, expirations and removals of requests as module
\* RibOrderProofs supposes them (one origin, no captures, ...).
FibMatchesRib ==
  Quiet => \A n \in Name, f \in faces : fib[<<n, f>>] = NextHopOf(n, f)

\* The parent pointers, which insert and eraseEntry repair piecemeal, always lead
\* to the nearest ancestor that has an entry.
ParentIsNearest == \A n \in DOMAIN rib : rib[n].parent = findParent(rib, n)

RoutesAt(R, n) == IF n \in DOMAIN R THEN {R[n].routes[i] : i \in DOMAIN R[n].routes} ELSE {}

\* rib.hpp: when the FIB update fails, "the RIB will not be updated": an update that
\* was reported as failed does not put its route into the RIB later.
FailedNotApplied ==
  [][\A b \in failed : b.action = "register" /\ b.route \in RoutesAt(rib, b.name)'
                         => b.route \in RoutesAt(rib, b.name)]_vars

\* rib-entry.hpp: m_nRoutesWithCaptureSet is "the number of routes on this namespace
\* with the capture flag set", also after routes were updated.
CaptureCounted ==
  \A n \in DOMAIN rib :
    rib[n].nCapture = Cardinality({i \in DOMAIN rib[n].routes : rib[n].routes[i].capture})

\* nfdc-route: without an expiration period a route stays active "until the nexthop
\* face is destroyed": expirations of other routes, the removal of destroyed faces, by
\* notification and by dataset, and the erasure of entries above and below it do not
\* take it away, in whatever order they are queued.  Where requests for one route
\* disagree on expiration (renew_race), or a dataset is older than the face
\* (stale_faces), the code does take it away.
LastingRouteStays ==
  Quiet => \A x \in lasting : \E r \in RoutesAt(rib, x.name) : r.face = x.face /\ r.origin = x.origin

\* The null pointer of getRouteWithLowestCostAndChildInheritByFaceId is not used.
NoNullRoute == fault # "null route"

\* The RIB never waits for nothing: while an update is in progress, each FIB update it
\* still needs has a command on the way whose answer counts, also when the answers of
\* a batch that failed earlier come in between, or commands are sent again.
InProgressIsAnswered ==
  inProgress /\ fault = "none" =>
    /\ batchUpdates \cup otherUpdates # {}
    /\ \A u \in IF batchUpdates # {} THEN batchUpdates ELSE otherUpdates :
         \E k \in DOMAIN wire : \E cmd \in wire[k] : cmd.live /\ cmd.update = u

\* The queue always drains: no sequence of answers, 410s of several commands of one
\* batch included, leaves m_isUpdateInProgress set for good.
UpdatesEnd == []<>(fault # "none" \/ (~inProgress /\ queue = <<>>))

\* Routes of a destroyed face leave the RIB, although the notification may be lost or
\* may find the route still in progress.  (A face that does not exist yet may come.)
DeadRoutesLeave ==
  \A f \in Face :
    (f \notin faces) ~> (fault # "none" \/ f \in faces \/ \A n \in DOMAIN rib : ~hasFaceId(rib[n], f))
=============================================================================
