---------------------------- MODULE Readvertise ----------------------------
(***************************************************************************)
(* Readvertise (daemon/rib/readvertise): routes of the RIB are advertised  *)
(* to a gateway or to NLSR by RIB commands, under the prefix the policy    *)
(* chooses, for as long as some route of the RIB needs the prefix.         *)
(*                                                                         *)
(* Commands are answered later: by the gateway, or by a timeout, which     *)
(* does not tell whether the command was executed.  Nothing keeps two      *)
(* commands for one prefix from being under way at once.  Callbacks and    *)
(* the index of routes hold iterators into m_rrs, and an iterator whose    *)
(* element has been erased is undefined to use: fault, after which the     *)
(* model stops.                                                            *)
(*                                                                         *)
(* A ReadvertisedRoute is identified by its place in rr, in the order they *)
(* were made; it is an element of m_rrs while it is in live.  Signers and  *)
(* the length of the retry delay are left out, and assertions do not stop  *)
(* the program (NDEBUG is set unless it is built for debugging).           *)
(***************************************************************************)
EXTENDS Integers, Sequences, FiniteSets

CONSTANTS
  Route,         \* routes that come and go
  EntryOf,       \* the name of a route's RIB entry
  ToGateway,     \* names that are prefixes of the destination's command prefix
  Prefix,        \* prefixes that are advertised
  Policy,        \* handleNewRoute: the prefix a route is advertised as
  NoPrefix,      \* nullopt
  NoRr,          \* a route that is not in m_routeToRr
  MaxChanges,    \* bound: routes added and removed
  MaxFlying      \* bound: commands of one kind under way for one ReadvertisedRoute

ASSUME RouteAssumption ==
  /\ Policy \in [Route -> Prefix \cup {NoPrefix}] /\ NoPrefix \notin Prefix
  /\ EntryOf \in [Route -> {EntryOf[r] : r \in Route}]

ASSUME BoundAssumption ==
  /\ MaxChanges \in Nat /\ MaxFlying \in Nat \ {0}
  /\ NoRr \notin Nat

VARIABLES
  routes,       \* routes in the RIB
  available,    \* m_isAvailable of the destination
  rr,           \* every ReadvertisedRoute made so far
  live,         \* m_rrs
  index,        \* m_routeToRr
  flying,       \* how many commands of a kind are under way for a ReadvertisedRoute
  gateway,      \* prefixes registered at the destination
  overlapped,   \* history: prefixes for which a command was sent or given up while
                \* another was under way
  fault,        \* was an iterator used whose element is gone?
  changes       \* routes added and removed so far

tableVars == <<rr, live, index>>
vars == <<routes, available, tableVars, flying, gateway, overlapped, fault, changes>>

Kind == {"advertise", "withdraw"}
Id == 1..MaxChanges
ReadvertisedRoute == [prefix : Prefix, nRibRoutes : Nat, retryEvt : Kind \cup {"none"}]

\* Types.
TypeOK ==
  /\ routes \subseteq Route
  /\ available \in BOOLEAN
  /\ rr \in Seq(ReadvertisedRoute) /\ Len(rr) <= MaxChanges
  /\ live \subseteq 1..Len(rr)
  /\ index \in [Route -> 1..Len(rr) \cup {NoRr}]
  /\ flying \in [Kind \X Id -> 0..MaxFlying]
  /\ gateway \subseteq Prefix
  /\ overlapped \subseteq Prefix
  /\ fault \in BOOLEAN
  /\ changes \in 0..MaxChanges

Init ==
  /\ routes = {} /\ available = FALSE
  /\ rr = <<>> /\ live = {} /\ index = [r \in Route |-> NoRr]
  /\ flying = [c \in Kind \X Id |-> 0]
  /\ gateway = {} /\ overlapped = {}
  /\ fault = FALSE
  /\ changes = 0

----------------------------------------------------------------------------
(* Commands *)

UnderWay(i) == \E k \in Kind : flying[<<k, i>>] > 0

\* m_destination->advertise and withdraw, for the ReadvertisedRoutes in A and in W.
Send(A, W) ==
  LET sent == ({"advertise"} \X A) \cup ({"withdraw"} \X W)
  IN /\ \A c \in sent : flying[c] < MaxFlying
     /\ flying' = [c \in Kind \X Id |-> IF c \in sent THEN flying[c] + 1 ELSE flying[c]]

\* A command is sent for S, and E is erased, while a command is under way.
Overlaps(S, E) ==
  LET both == {i \in S : UnderWay(i)} \cup {i \in E : \E k \in Kind : flying'[<<k, i>>] > 0}
  IN overlapped' = overlapped \cup {rr[i].prefix : i \in both}

\* advertise, withdraw: nothing is sent while the destination is not available.
IfAvailable(S, isAvailable) == IF isAvailable THEN S ELSE {}

----------------------------------------------------------------------------
(* Routes come: Rib::insert with its signals *)

Alone(r) == \A s \in routes \ {r} : EntryOf[s] # EntryOf[r]

\* afterInsertEntry: does the destination become available with r?
Comes(r) == ~available /\ EntryOf[r] \in ToGateway /\ Alone(r)

\* Mutant of Again: nothing is advertised when the destination becomes available.
AgainNone(r) == {}

\* afterDestinationAvailable
Again(r) == IF Comes(r) THEN live ELSE {}

Known(p) == {i \in live : rr[i].prefix = p}

Added(r) ==
  /\ ~fault /\ changes < MaxChanges
  /\ r \notin routes
  /\ routes' = routes \cup {r}
  /\ changes' = changes + 1
  /\ available' = (available \/ Comes(r))
  /\ UNCHANGED <<gateway, fault>>

\* Mutant of Advertised: a route the policy leaves out is taken for one to advertise.
AdvertisedAny(r) == TRUE

Advertised(r) == Policy[r] # NoPrefix

\* "not-readvertising"
AddUnadvertised(r) ==
  /\ Added(r)
  /\ ~Advertised(r)
  /\ Send(Again(r), {}) /\ Overlaps(Again(r), {})
  /\ UNCHANGED tableVars

\* nRibRoutes++ > 0: the prefix is advertised already.
Needing(i) == IF rr[i].nRibRoutes = 0 THEN {i} ELSE {}

\* Mutant of Counted: a prefix that is known has its first route again.
CountedFirst(i) == 1

Counted(i) == rr[i].nRibRoutes + 1

AddKnown(r) ==
  /\ Added(r)
  /\ \E i \in Known(Policy[r]) :
       LET S == Again(r) \cup IfAvailable(Needing(i), available')
       IN /\ rr' = [rr EXCEPT ![i].nRibRoutes = Counted(i)]
          /\ index' = [index EXCEPT ![r] = i]
          /\ Send(S, {}) /\ Overlaps(S, {})
          /\ UNCHANGED live

AddNew(r) ==
  /\ Added(r)
  /\ Advertised(r) /\ Known(Policy[r]) = {}
  /\ LET i == Len(rr) + 1
     IN /\ rr' = Append(rr, [prefix |-> Policy[r], nRibRoutes |-> 1, retryEvt |-> "none"])
        /\ live' = live \cup {i}
        /\ index' = [index EXCEPT ![r] = i]
        /\ Send(Again(r) \cup IfAvailable({i}, available'), {})
        /\ Overlaps(Again(r), {})

----------------------------------------------------------------------------
(* Routes go: Rib::erase with its signals *)

\* afterEraseEntry: does the destination become unavailable with r?  Another entry
\* that leads there does not count.
Goes(r) == available /\ EntryOf[r] \in ToGateway /\ Alone(r)

Removed(r) ==
  /\ ~fault /\ changes < MaxChanges
  /\ r \in routes
  /\ routes' = routes \ {r}
  /\ changes' = changes + 1
  /\ available' = (available /\ ~Goes(r))
  /\ UNCHANGED gateway

\* afterDestinationUnavailable stops retrying and refreshing.
Cancelled(R) == [i \in DOMAIN R |-> [R[i] EXCEPT !.retryEvt = "none"]]

\* What is left of the table L with the ReadvertisedRoutes R: those without routes
\* are erased, "assume withdraw has completed".
Left(r, L, R) == IF Goes(r) THEN {i \in L : R[i].nRibRoutes > 0} ELSE L

RemoveUnadvertised(r) ==
  /\ Removed(r)
  /\ index[r] = NoRr
  /\ live' = Left(r, live, rr)
  /\ rr' = IF Goes(r) THEN Cancelled(rr) ELSE rr
  /\ UNCHANGED <<index, flying, fault>>
  /\ Overlaps({}, live \ live')

\* Mutant of StillNeeded: the count is compared before it is reduced.
StillNeededLate(i) == rr[i].nRibRoutes > 0

StillNeeded(i) == rr[i].nRibRoutes > 1

\* "needed-by", or withdraw
RemoveAdvertised(r) ==
  LET i == index[r]
      fewer == [rr EXCEPT ![i].nRibRoutes = @ - 1]
      last == IF StillNeeded(i) THEN {} ELSE {i}
  IN /\ Removed(r)
     /\ i \in live
     /\ index' = [index EXCEPT ![r] = NoRr]
     /\ rr' = IF Goes(r) THEN Cancelled(fewer) ELSE fewer
     /\ live' = Left(r, IF available THEN live ELSE live \ last, fewer)
     /\ Send({}, IfAvailable(last, available))
     /\ Overlaps(IfAvailable(last, available), live \ live')
     /\ UNCHANGED fault

----------------------------------------------------------------------------
(* Answers and timers *)

Answered(k, i) ==
  /\ ~fault
  /\ flying[<<k, i>>] > 0
  /\ flying' = [flying EXCEPT ![<<k, i>>] = @ - 1]
  /\ UNCHANGED <<routes, available, index, overlapped, changes>>

\* rib/register or rib/unregister has been executed: registerEntry and unregisterEntry
\* of the gateway's RIB manager answer first and update its tables after.  (NLSR, the
\* other destination, is not part of the repository.)
Executed(k, i) ==
  gateway' = IF k = "advertise" THEN gateway \cup {rr[i].prefix} ELSE gateway \ {rr[i].prefix}

\* Mutant of Rescheduled: a failed withdrawal is not tried again.
RescheduledUnlessWithdraw(k, i) ==
  rr' = [rr EXCEPT ![i].retryEvt = IF k = "withdraw" THEN "none" ELSE k]

\* retryEvt is assigned, which cancels what it was before.
Rescheduled(k, i) == rr' = [rr EXCEPT ![i].retryEvt = k]

\* The success callback: the next refresh, or the end.
Succeeds(k, i) ==
  /\ Answered(k, i)
  /\ Executed(k, i)
  /\ i \in live
  /\ IF k = "advertise" THEN Rescheduled(k, i) /\ UNCHANGED live
     ELSE live' = live \ {i} /\ rr' = [rr EXCEPT ![i].retryEvt = "none"]
  /\ UNCHANGED fault

\* The failure callback, for a refusal, a Nack or a timeout.
Fails(k, i) ==
  /\ Answered(k, i)
  /\ Executed(k, i) \/ UNCHANGED gateway
  /\ i \in live
  /\ Rescheduled(k, i)
  /\ UNCHANGED <<live, fault>>

Timer(i) ==
  LET k == rr[i].retryEvt
      last == IF k = "withdraw" THEN {i} ELSE {}
  IN /\ ~fault
     /\ i \in live /\ k # "none"
     /\ rr' = [rr EXCEPT ![i].retryEvt = "none"]
     /\ Send(IfAvailable({i} \ last, available), IfAvailable(last, available))
     /\ live' = IF available THEN live ELSE live \ last
     /\ Overlaps(IfAvailable({i}, available), live \ live')
     /\ UNCHANGED <<routes, available, index, gateway, fault, changes>>

\* A callback, or beforeRemoveRoute, uses an iterator whose element is gone.
Stale ==
  /\ ~fault
  /\ \/ \E k \in Kind : \E i \in 1..Len(rr) \ live : flying[<<k, i>>] > 0
     \/ \E r \in routes : index[r] # NoRr /\ index[r] \notin live
  /\ fault' = TRUE
  /\ UNCHANGED <<routes, available, tableVars, flying, gateway, overlapped, changes>>

Next ==
  \/ \E r \in Route : AddUnadvertised(r) \/ AddKnown(r) \/ AddNew(r)
  \/ \E r \in Route : RemoveUnadvertised(r) \/ RemoveAdvertised(r)
  \/ \E i \in 1..Len(rr) : Timer(i) \/ \E k \in Kind : Succeeds(k, i) \/ Fails(k, i)
  \/ Stale

Spec == Init /\ [][Next]_vars

\* The timer of a prefix fires, its commands are answered, at the latest by the timeout,
\* and do not fail for ever.
LiveSpec ==
  /\ Spec
  /\ \A p \in Prefix :
       /\ WF_vars(\E i \in Known(p) : Timer(i))
       /\ \A k \in Kind : /\ WF_vars(\E i \in Known(p) : Succeeds(k, i) \/ Fails(k, i))
                          /\ SF_vars(\E i \in Known(p) : Succeeds(k, i))

----------------------------------------------------------------------------
(* Properties *)

Needed(p) == \E r \in routes : Policy[r] = p

\* beforeRemoveRoute: when a route goes, its prefix is withdrawn, or forgotten while the
\* destination is away, if it was the last route of the RIB that points to the
\* ReadvertisedRoute; if another one does, nothing is sent and the ReadvertisedRoute
\* stays, also when the destination goes with the route.  (A retry that is still
\* scheduled may withdraw it all the same: WithdrawsUnneeded.)
Gone(r, i) ==
  LET sent == flying'[<<"withdraw", i>>] - flying[<<"withdraw", i>>]
  IN IF \E s \in routes' : index[s] = i THEN sent = 0 /\ i \in live'
     ELSE IF available THEN sent = 1 ELSE sent = 0 /\ i \notin live'
LastRouteWithdraws ==
  [][\A r \in routes \ routes' : \A i \in live : index[r] = i => Gone(r, i)]_vars

\* As long as no two commands of a prefix have been under way at once, every iterator
\* kept for it is valid, its ReadvertisedRoute is there as long as a route needs it, and
\* what is under way or scheduled next is what the routes want.
SafeWithoutOverlap ==
  ~fault => \A p \in Prefix \ overlapped :
    /\ \A r \in routes : Policy[r] = p => index[r] \in Known(p)
    /\ \A i \in 1..Len(rr) : rr[i].prefix = p =>
         /\ UnderWay(i) => i \in live
         /\ flying[<<"advertise", i>>] > 0 => Needed(p)
         /\ flying[<<"withdraw", i>>] > 0 => ~Needed(p)
         /\ ~UnderWay(i) /\ i \in live /\ available =>
              rr[i].retryEvt = IF Needed(p) THEN "advertise" ELSE "withdraw"

\* A prefix that routes need is registered at an available destination in the end and
\* stays so, whatever failed, timed out or went away before, unless commands overlapped.
NeededIsAdvertised ==
  \A p \in Prefix :
    <>[](Needed(p) /\ available /\ p \notin overlapped /\ ~fault) => <>[](p \in gateway)

\* A withdrawal that has begun takes effect in the end.
UnneededIsWithdrawn ==
  \A p \in Prefix :
    (~Needed(p) /\ Known(p) # {} /\ available)
      ~> (p \notin gateway \/ Needed(p) \/ ~available \/ p \in overlapped \/ fault)

\* The assertion in withdraw, readvertise.cpp:179: only what no route needs is withdrawn.
WithdrawsUnneeded ==
  [][\A i \in Id : flying'[<<"withdraw", i>>] > flying[<<"withdraw", i>>]
                     => rr'[i].nRibRoutes = 0]_vars
=============================================================================
