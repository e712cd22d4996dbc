--------------------------- MODULE KiteForwarder ---------------------------
(***************************************************************************)
(* One NFD node that runs the KITE forwarding strategy: the forwarding     *)
(* pipelines (daemon/fw/forwarder.cpp), the PIT entry they work on         *)
(* (daemon/table/pit-entry.cpp), KiteStrategy with the Nack processing it  *)
(* inherits (daemon/fw/kite-strategy.cpp, process-nack-traits.cpp), the    *)
(* measurements it keeps per mobile producer, and the self-learned routes  *)
(* the RIB thread installs and removes on its behalf                       *)
(* (daemon/mgmt/rib-manager.cpp, slAnnounce and slRenew).                  *)
(*                                                                         *)
(* Time is abstracted to its order: a record is unexpired until an Expire  *)
(* action says otherwise, a PIT entry's timer is "running" (set to the     *)
(* expiry of the last in-record) or "now" (set to zero and waiting for the *)
(* event loop).  The neighbours are the environment: they send any         *)
(* Interest, Data or Nack the constants allow, at any time.                *)
(***************************************************************************)
EXTENDS Naturals, Sequences, FiniteSets

CONSTANTS
  Face,            \* faces of the node
  LocalFace,       \* faces of local scope (applications)
  P2pFace,         \* faces of link type point-to-point
  AdHocFace,       \* faces of link type ad hoc; the rest are multi-access
  BreakableFace,   \* faces that may be destroyed
  Key,             \* what the PIT tells apart: a name with its selectors
  Name,            \* Interest names
  NameOf,          \* the name of a key
  FreshKey,        \* the keys whose Interests carry MustBeFresh
  Mp,              \* prefixes of mobile producers, in the KITE namespace
  Rv, Root,        \* the rendezvous prefix and the empty prefix
  NoPrefix,        \* "no KiteInterestStatus", "not an Ack"
  PrefixOf,        \* the prefix in Mp \cup {Rv} that a key's name is under
  RootIsKite,      \* is KITE the effective strategy at the empty prefix too?
  StaticFib,       \* nexthops configured by hand, per prefix
  Sender,          \* the faces on which Interests for a key arrive
  Pkt,             \* Data packets, by name
  Satisfies,       \* the keys a Data packet matches
  Origin,          \* the faces behind which a Data packet may be found
  Announces,       \* the producer prefix of a KITE Ack, NoPrefix otherwise
  Nonce,
  HopLimited,      \* TRUE: an Interest may arrive whose hop limit is used up
  CsEnabled,       \* does the Content Store admit Data?
  Stale,           \* a weak_ptr whose PIT entry is gone
  MeasurementsExpire,
  Hints,           \* may Interests carry a KITE forwarding hint, may they not
  MaxInterests,    \* bound: Interests the environment sends, per key
  MaxRibTasks,     \* bound: Nacks and Acks are held back while this many tasks wait
  MaxValidations   \* bound: validations of one announcement at the same time

Prefix == Mp \cup {Rv, Root}

ASSUME FacesAssumption ==
  /\ LocalFace \subseteq Face
  /\ P2pFace \subseteq Face
  /\ AdHocFace \subseteq Face \ P2pFace
  /\ BreakableFace \subseteq Face

ASSUME NamesAssumption ==
  /\ NameOf \in [Key -> Name]
  /\ FreshKey \subseteq Key
  /\ PrefixOf \in [Key -> Mp \cup {Rv}]
  /\ Rv \notin Mp /\ Root \notin Mp /\ Rv # Root
  /\ NoPrefix \notin Prefix
  /\ StaticFib \in [Prefix -> SUBSET Face]
  /\ Sender \in [Key -> SUBSET Face]
  /\ Stale \notin Key

ASSUME PacketsAssumption ==
  /\ Satisfies \in [Pkt -> SUBSET Key]
  /\ Origin \in [Pkt -> SUBSET Face]
  /\ Announces \in [Pkt -> Mp \cup {NoPrefix}]
  \* an Ack answers trace Interests, whose names are under the RV's prefix
  /\ \A d \in Pkt : Announces[d] # NoPrefix =>
                      \A k \in Satisfies[d] : PrefixOf[k] = Rv

ASSUME BoundsAssumption ==
  /\ {RootIsKite, HopLimited, CsEnabled, MeasurementsExpire} \subseteq BOOLEAN
  /\ Hints \subseteq BOOLEAN
  /\ MaxInterests \in [Key -> Nat]
  /\ MaxRibTasks \in Nat
  /\ MaxValidations \in Nat

VARIABLES
  up,          \* the faces that exist
  pit,         \* partial function from keys to PIT entries
  cs,          \* Data in the Content Store
  evicted,     \* history: Data that was there and has gone
  dnl,         \* Dead Nonce List: names with a nonce
  mpInfo,      \* measurements: prefixes to KiteMobileProducerInfo (partial)
  routes,      \* prefix-announcement routes, as far as the FIB has them
  ribTasks,    \* tasks posted to the RIB thread, oldest first
  validating,  \* announcements under validation, with their number
  fault,       \* what stopped the process, "none" while it runs
  budget       \* Interests the environment may still send

vars == <<up, pit, cs, evicted, dnl, mpInfo, routes, ribTasks, validating, fault, budget>>

-----------------------------------------------------------------------------
(* State                                                                    *)

\* A function from part of S to T.
IsPartialFn(fn, S, T) == DOMAIN fn \subseteq S /\ fn \in [DOMAIN fn -> T]

\* KiteInterestStatus of an in-record: retrasmissionStage, "none" when absent.
Stage == {"none", "straight", "rv"}

InRecord == [nonce : Nonce, old : BOOLEAN, stage : Stage]

\* mp is the mpName of the KiteInterestStatus.  await is history: an Interest
\* was sent on this face and neither Nack nor Data has come back since.
OutRecord == [nonce : Nonce, nacked : BOOLEAN,
              mp : Prefix \cup {NoPrefix}, await : BOOLEAN]

\* nonce and hopZero are those of the Interest that created the entry.
IsEntry(e) ==
  /\ e = [in |-> e.in, out |-> e.out, nonce |-> e.nonce, hopZero |-> e.hopZero,
          satisfied |-> e.satisfied, timer |-> e.timer]
  /\ IsPartialFn(e.in, Face, InRecord)
  /\ IsPartialFn(e.out, Face, OutRecord)
  /\ e.nonce \in Nonce
  /\ e.hopZero \in BOOLEAN
  /\ e.satisfied \in BOOLEAN
  /\ e.timer \in {"running", "now"}

\* KiteMobileProducerInfo: a name's weak_ptr is the key of the live entry it
\* points to, or Stale.
IsMobileProducerInfo(i) ==
  /\ i = [faceIds |-> i.faceIds, pitEntrys |-> i.pitEntrys]
  /\ i.faceIds \subseteq Face
  /\ IsPartialFn(i.pitEntrys, Name, Key \cup {Stale})

IsPit(t) ==
  /\ DOMAIN t \subseteq Key /\ t = [k \in DOMAIN t |-> t[k]]
  /\ \A k \in DOMAIN t : IsEntry(t[k])

IsMeasurements(t) ==
  /\ DOMAIN t \subseteq Prefix /\ t = [q \in DOMAIN t |-> t[q]]
  /\ \A q \in DOMAIN t : IsMobileProducerInfo(t[q])

Task == [op : {"slAnnounce", "slRenew"}, prefix : Prefix, faces : SUBSET Face]

\* Every variable has the shape the code gives it; in particular the measurements
\* of KITE are filed by Interest name, not by PIT entry.
TypeOK ==
  /\ up \subseteq Face
  /\ IsPit(pit)
  /\ cs \subseteq Pkt /\ evicted \subseteq Pkt
  /\ dnl \subseteq Name \X Nonce
  /\ IsMeasurements(mpInfo)
  /\ routes \subseteq Mp \X Face
  /\ ribTasks \in Seq(Task)
  /\ validating \in [Mp \X Face -> Nat]
  /\ fault \in {"none", "nullOutRecord", "nullMeasurement"}
  /\ budget \in [Key -> Nat]

EmptyFn == [x \in {} |-> x]

Init ==
  /\ up = Face
  /\ pit = EmptyFn
  /\ cs = {} /\ evicted = {}
  /\ dnl = {}
  /\ mpInfo = EmptyFn
  /\ routes = {}
  /\ ribTasks = << >>
  /\ validating = [r \in Mp \X Face |-> 0]
  /\ fault = "none"
  /\ budget = MaxInterests

-----------------------------------------------------------------------------
(* Tables and PIT entry                                                     *)

Put(fn, x, v) == [y \in DOMAIN fn \cup {x} |-> IF y = x THEN v ELSE fn[y]]
Without(fn, S) == [y \in DOMAIN fn \ S |-> fn[y]]

\* A FIB entry exists while it has nexthops; a destroyed face is none.
NextHops(p) == (StaticFib[p] \cup {f \in Face : <<p, f>> \in routes}) \cap up

findLongestPrefixMatch(p) == IF NextHops(p) # {} THEN p ELSE Root

\* Names of this model are not under /localhost or /localhop, so scope never
\* forbids a nexthop.
isNextHopEligible(f, g) == g # f \/ g \in AdHocFace

Eligible(f, p) ==
  {g \in NextHops(findLongestPrefixMatch(p)) : isNextHopEligible(f, g)}

NewEntry(z, hopZero) ==
  [in |-> EmptyFn, out |-> EmptyFn, nonce |-> z, hopZero |-> hopZero,
   satisfied |-> FALSE, timer |-> "running"]

\* Pit::insert: the entry of a key, created when there is none.
PitInsert(k, z, hopZero) ==
  IF k \in DOMAIN pit THEN pit[k] ELSE NewEntry(z, hopZero)

\* A renewed in-record keeps its KiteInterestStatus.
insertOrUpdateInRecord(e, f, z) ==
  [e EXCEPT !.in = Put(e.in, f,
     [nonce |-> z, old |-> FALSE,
      stage |-> IF f \in DOMAIN e.in THEN e.in[f].stage ELSE "none"])]

\* A renewed out-record keeps the Nack it has received and its status: a p
\* other than NoPrefix is the mpName of a status set after the Interest is sent.
RenewedOutRecord(e, g, z, p) ==
  [nonce |-> z, await |-> TRUE,
   nacked |-> g \in DOMAIN e.out /\ e.out[g].nacked,
   mp |-> IF p # NoPrefix THEN p
          ELSE IF g \in DOMAIN e.out THEN e.out[g].mp ELSE NoPrefix]

\* onOutgoingInterest drops an Interest whose hop limit is used up on a face
\* that is not local.
Sendable(G, hopZero) == IF hopZero THEN G \cap LocalFace ELSE G

sendInterest(e, G, z, hopZero, p) ==
  LET sent == Sendable(G, hopZero)
  IN [e EXCEPT !.out = [g \in DOMAIN e.out \cup sent |->
        IF g \in sent THEN RenewedOutRecord(e, g, z, p) ELSE e.out[g]]]

\* onOutgoingNack: only a point-to-point face gets the Nack, and only then is
\* its in-record erased.
sendNack(e, F) == [e EXCEPT !.in = Without(e.in, F \cap P2pFace)]

setExpiryTimer(e, t) == [e EXCEPT !.timer = t]

findDuplicateNonce(k, f, z) ==
  /\ k \in DOMAIN pit
  /\ LET e == pit[k]
         inSame == f \in DOMAIN e.in /\ e.in[f].nonce = z
     IN /\ \/ \E g \in DOMAIN e.in : e.in[g].nonce = z
           \/ \E g \in DOMAIN e.out : e.out[g].nonce = z
        \* a retransmission on a point-to-point face is not a loop
        /\ ~(f \in P2pFace /\ inSame)

IsLoop(k, f, z) == <<NameOf[k], z>> \in dnl \/ findDuplicateNonce(k, f, z)

\* Data here has no FreshnessPeriod: it is stale for MustBeFresh at once.
CsHas(k) == k \notin FreshKey /\ \E d \in cs : k \in Satisfies[d]

CsHit(k) == CsHas(k) /\ (k \in DOMAIN pit => DOMAIN pit[k].in = {})

\* Mutant of needDnl: a satisfied entry never needs the Dead Nonce List.
NeedDnlUnsatisfiedOnly(k, satisfied) == ~satisfied

needDnl(k, satisfied) == ~satisfied \/ k \in FreshKey

\* eraseMeasurement, for the names N[q] of the prefixes q
eraseMeasurement(info, N) ==
  [q \in DOMAIN info |->
     [info[q] EXCEPT !.pitEntrys = Without(info[q].pitEntrys, N[q])]]

-----------------------------------------------------------------------------
(* Interests                                                                *)

\* An Interest whose hop limit is 0 on arrival is dropped at once and is not an
\* input here; hopZero says that decrementing it has used it up.
Arrives(k, f, hopZero) ==
  /\ fault = "none"
  /\ budget[k] > 0
  /\ f \in up \cap Sender[k]
  /\ hopZero => HopLimited
  /\ budget' = [budget EXCEPT ![k] = @ - 1]

\* onInterestLoop: the Interest is dropped; a point-to-point neighbour gets a
\* Nack that passes by the PIT.
InterestLoop(k, f, z) ==
  /\ Arrives(k, f, FALSE)
  /\ IsLoop(k, f, z)
  /\ UNCHANGED <<up, pit, cs, evicted, dnl, mpInfo, routes, ribTasks, validating, fault>>

ContentStoreHit(k, f, z, hopZero) ==
  /\ Arrives(k, f, hopZero)
  /\ ~IsLoop(k, f, z)
  /\ CsHit(k)
  /\ pit' = Put(pit, k,
       setExpiryTimer([PitInsert(k, z, hopZero) EXCEPT !.satisfied = TRUE], "now"))
  /\ UNCHANGED <<up, cs, evicted, dnl, mpInfo, routes, ribTasks, validating, fault>>

\* The entry the strategy is given: in-record inserted, timer set to the last
\* expiry.
Accepted(k, f, z, hopZero) ==
  setExpiryTimer(insertOrUpdateInRecord(PitInsert(k, z, hopZero), f, z), "running")

Misses(k, f, z, hint, hopZero) ==
  /\ Arrives(k, f, hopZero)
  /\ IF PrefixOf[k] \in Mp THEN hint \in Hints ELSE ~hint
  /\ ~IsLoop(k, f, z)
  /\ ~CsHit(k)

\* The measurements entry of the empty prefix belongs to another strategy.
MeasurementIsNull(q) == q = Root /\ ~RootIsKite

\* Mutant of RecordPending: pitEntrys filed by PIT entry, not by Interest name.
RecordPendingByEntry(q, k) ==
  LET info == IF q \in DOMAIN mpInfo THEN mpInfo[q]
              ELSE [faceIds |-> {}, pitEntrys |-> EmptyFn]
  IN Put(mpInfo, q, [info EXCEPT !.pitEntrys = Put(info.pitEntrys, k, k)])

\* pitEntrys.insert leaves a name that is already there as it is.
RecordPending(q, k) ==
  LET info == IF q \in DOMAIN mpInfo THEN mpInfo[q]
              ELSE [faceIds |-> {}, pitEntrys |-> EmptyFn]
      nm == NameOf[k]
  IN Put(mpInfo, q,
         IF nm \in DOMAIN info.pitEntrys THEN info
         ELSE [info EXCEPT !.pitEntrys = Put(info.pitEntrys, nm, k)])

\* KITE hint, and the name itself leads to a nexthop: forward straight to the
\* mobile producer and remember the pending Interest.
ForwardStraight(k, f, z, hopZero) ==
  LET q == findLongestPrefixMatch(PrefixOf[k])
      G == Eligible(f, PrefixOf[k])
      e == Accepted(k, f, z, hopZero)
  IN /\ Misses(k, f, z, TRUE, hopZero)
     /\ G # {}
     /\ Sendable(G, hopZero) = G
     /\ ~MeasurementIsNull(q)
     /\ pit' = Put(pit, k, [sendInterest(e, G, z, hopZero, q)
                              EXCEPT !.in[f].stage = "straight"])
     /\ mpInfo' = RecordPending(q, k)
     /\ UNCHANGED <<up, cs, evicted, dnl, routes, ribTasks, validating, fault>>

\* The two dereferences on that path that can meet a nullptr.
ForwardStraightFault(k, f, z, hopZero) ==
  LET q == findLongestPrefixMatch(PrefixOf[k])
      G == Eligible(f, PrefixOf[k])
  IN /\ Misses(k, f, z, TRUE, hopZero)
     /\ G # {}
     /\ \/ Sendable(G, hopZero) # G /\ fault' = "nullOutRecord"
        \/ Sendable(G, hopZero) = G /\ MeasurementIsNull(q) /\ fault' = "nullMeasurement"
     /\ UNCHANGED <<up, pit, cs, evicted, dnl, mpInfo, routes, ribTasks, validating>>

\* KITE hint, no nexthop by name: forward towards the rendezvous server.
ForwardToRv(k, f, z, hopZero) ==
  LET G == Eligible(f, Rv)
      e == Accepted(k, f, z, hopZero)
  IN /\ Misses(k, f, z, TRUE, hopZero)
     /\ Eligible(f, PrefixOf[k]) = {}
     /\ G # {}
     /\ pit' = Put(pit, k, sendInterest(e, G, z, hopZero, NoPrefix))
     /\ UNCHANGED <<up, cs, evicted, dnl, mpInfo, routes, ribTasks, validating, fault>>

\* No KITE hint: multicast to every eligible nexthop.
ForwardPlain(k, f, z, hopZero) ==
  LET G == Eligible(f, PrefixOf[k])
      e == Accepted(k, f, z, hopZero)
  IN /\ Misses(k, f, z, FALSE, hopZero)
     /\ G # {}
     /\ pit' = Put(pit, k, sendInterest(e, G, z, hopZero, NoPrefix))
     /\ UNCHANGED <<up, cs, evicted, dnl, mpInfo, routes, ribTasks, validating, fault>>

\* No nexthop at all: Nack the sender, rejectPendingInterest.
RejectInterest(k, f, z, hint, hopZero) ==
  /\ Misses(k, f, z, hint, hopZero)
  /\ Eligible(f, PrefixOf[k]) = {}
  /\ hint => Eligible(f, Rv) = {}
  /\ pit' = Put(pit, k,
       setExpiryTimer(sendNack(Accepted(k, f, z, hopZero), {f}), "now"))
  /\ UNCHANGED <<up, cs, evicted, dnl, mpInfo, routes, ribTasks, validating, fault>>

-----------------------------------------------------------------------------
(* Data                                                                     *)

findAllDataMatches(d) == DOMAIN pit \cap Satisfies[d]

\* What onIncomingData leaves of a matched entry.  With a single match
\* sendDataToAll erases the in-records it answers; with several, all go.
SatisfiedEntry(e, f, single) ==
  [in |-> IF single
          THEN Without(e.in, {g \in DOMAIN e.in :
                 ~e.in[g].old /\ (g # f \/ g \in AdHocFace)})
          ELSE EmptyFn,
   out |-> Without(e.out, {f}),
   nonce |-> e.nonce, hopZero |-> e.hopZero, satisfied |-> TRUE, timer |-> "now"]

\* Dead Nonce List insert, for the out-record of the ingress face
DeadNoncesOfData(M, f) ==
  {<<NameOf[k], pit[k].out[f].nonce>> :
     k \in {k \in M : needDnl(k, TRUE) /\ f \in DOMAIN pit[k].out}}

DataArrives(d, f) ==
  /\ fault = "none"
  /\ f \in up \cap Origin[d]
  /\ findAllDataMatches(d) # {}
  /\ cs' = IF CsEnabled THEN cs \cup {d} ELSE cs
  /\ evicted' = evicted \ cs'
  /\ dnl' = dnl \cup DeadNoncesOfData(findAllDataMatches(d), f)

\* Application Data: beforeSatisfyInterest forgets the pending Interest, by
\* the mpName in the out-record of the ingress face.
IncomingData(d, f) ==
  LET M == findAllDataMatches(d)
      forgotten == [q \in Prefix |->
        {NameOf[k] : k \in {k \in M : f \in DOMAIN pit[k].out /\ pit[k].out[f].mp = q}}]
  IN /\ DataArrives(d, f)
     /\ Announces[d] = NoPrefix
     /\ pit' = [k \in DOMAIN pit |->
          IF k \in M THEN SatisfiedEntry(pit[k], f, M = {k}) ELSE pit[k]]
     /\ mpInfo' = eraseMeasurement(mpInfo, forgotten)
     /\ UNCHANGED <<up, routes, ribTasks, validating, fault, budget>>

\* The faces registPrefix announces on: downstreams of the trace Interests.
AckFaces(M) ==
  {g \in Face \ LocalFace :
     \E k \in M : g \in DOMAIN pit[k].in /\ ~pit[k].in[g].old}

\* Mutant of NewMpFaces: the test on faceIds inverted.
KnownMpFaces(p, M) ==
  IF p \in DOMAIN mpInfo THEN AckFaces(M) \cap mpInfo[p].faceIds ELSE {}

\* Of these, the ones the mobile producer is not yet known to be behind.
NewMpFaces(p, M) ==
  IF p \in DOMAIN mpInfo THEN AckFaces(M) \ mpInfo[p].faceIds ELSE {}

\* Keys whose weak_ptr under p still locks.
Recorded(p) ==
  IF p \in DOMAIN mpInfo
  THEN {mpInfo[p].pitEntrys[nm] : nm \in DOMAIN mpInfo[p].pitEntrys} \cap DOMAIN pit
  ELSE {}

\* A KITE Ack: registPrefix posts the announcement and sends every recorded
\* Interest, as the PIT entry first saw it, to the producer's new face.
IncomingAck(d, f) ==
  LET M == findAllDataMatches(d)
      p == Announces[d]
      G == NewMpFaces(p, M)
  IN /\ DataArrives(d, f)
     /\ p # NoPrefix
     /\ Len(ribTasks) < MaxRibTasks
     /\ pit' = [k \in DOMAIN pit |->
          IF k \in M THEN SatisfiedEntry(pit[k], f, M = {k})
          ELSE IF k \in Recorded(p)
          THEN sendInterest(pit[k], G, pit[k].nonce, pit[k].hopZero, NoPrefix)
          ELSE pit[k]]
     /\ mpInfo' = [q \in DOMAIN mpInfo |->
          IF q = p THEN [mpInfo[p] EXCEPT !.faceIds = @ \cup AckFaces(M)]
          ELSE mpInfo[q]]
     /\ ribTasks' = IF AckFaces(M) = {} THEN ribTasks
                    ELSE Append(ribTasks, [op |-> "slAnnounce", prefix |-> p,
                                           faces |-> AckFaces(M)])
     /\ UNCHANGED <<up, routes, validating, fault, budget>>

-----------------------------------------------------------------------------
(* Nacks                                                                    *)

\* onIncomingNack takes a Nack only from a point-to-point face with an
\* out-record of the same nonce, and stores it there.
NackArrives(k, f) ==
  /\ fault = "none"
  /\ f \in up \cap P2pFace
  /\ k \in DOMAIN pit
  /\ f \in DOMAIN pit[k].out
  /\ Len(ribTasks) < MaxRibTasks

NackedEntry(k, f) ==
  [pit[k] EXCEPT !.out[f].nacked = TRUE, !.out[f].await = FALSE]

NotNacked(e) == {g \in DOMAIN e.out : ~e.out[g].nacked}

\* removePrefix: a Nack to an Interest that went straight to the mobile
\* producer withdraws the route it was sent by.
RemovePrefix(q, f) ==
  ribTasks' = IF q = NoPrefix THEN ribTasks
              ELSE Append(ribTasks, [op |-> "slRenew", prefix |-> q, faces |-> {f}])

InfoWithoutFace(q, f) ==
  [r \in DOMAIN mpInfo |->
     IF r = q THEN [mpInfo[r] EXCEPT !.faceIds = @ \ {f}] ELSE mpInfo[r]]

\* Mutant of AfterNack: the timer is left alone.
AfterNackKeepTimer(k, e, fresh) == pit' = [pit EXCEPT ![k] = e]

\* The end of onIncomingNack: unless hasPendingOutRecords, the timer is set to
\* zero.  Whether an out-record has expired is left open, except for the ones
\* just sent on the faces in fresh, which have not.
AfterNack(k, e, fresh) ==
  \/ NotNacked(e) # {} /\ pit' = [pit EXCEPT ![k] = e]
  \/ NotNacked(e) \cap fresh = {} /\ pit' = [pit EXCEPT ![k] = setExpiryTimer(e, "now")]

\* dealNack: nexthops towards the rendezvous server this entry does not use yet
RvHops(e) ==
  NextHops(findLongestPrefixMatch(Rv)) \ (DOMAIN e.in \cup DOMAIN e.out)

\* dealNack with success, on the in-record of d
RetryViaRv(e, d) ==
  sendInterest([e EXCEPT !.in[d].stage = "rv"], RvHops(e), e.nonce, e.hopZero, NoPrefix)

\* Mutant of CanRetry: the stage tested is the wrong one.
CanRetryInRvStage(e, d) == e.in[d].stage = "rv" /\ RvHops(e) # {}

CanRetry(e, d) == e.in[d].stage = "straight" /\ RvHops(e) # {}

\* dealNack without success moves the stage of D's in-records all the same.
NackDownstreams(e, D) ==
  sendNack([e EXCEPT !.in = [d \in DOMAIN e.in |->
              IF d \in D /\ e.in[d].stage = "straight"
              THEN [e.in[d] EXCEPT !.stage = "rv"] ELSE e.in[d]]], D)

\* The downstreams processNack turns to: all of them when every upstream has
\* Nacked, the one face that is up- and downstream when it alone has not.
NackTo(e) ==
  IF NotNacked(e) = {} THEN DOMAIN e.in
  ELSE {d \in DOMAIN e.in : NotNacked(e) = {d}}

\* Other upstreams are still to answer.
NackWait(k, f) ==
  LET e == NackedEntry(k, f)
      q == pit[k].out[f].mp
  IN /\ NackArrives(k, f)
     /\ NotNacked(e) # {} /\ NackTo(e) = {}
     /\ RemovePrefix(q, f)
     /\ mpInfo' = InfoWithoutFace(q, f)
     /\ AfterNack(k, e, {})
     /\ UNCHANGED <<up, cs, evicted, dnl, routes, validating, fault, budget>>

\* Upstreams exhausted: one downstream still has the rendezvous server to try.
\* The code takes the first such in-record of the list, whose order is left open.
NackRetry(k, f) ==
  LET e == NackedEntry(k, f)
      q == pit[k].out[f].mp
  IN /\ NackArrives(k, f)
     /\ \E d \in NackTo(e) : CanRetry(e, d) /\ AfterNack(k, RetryViaRv(e, d), RvHops(e))
     /\ RemovePrefix(q, f)
     /\ mpInfo' = InfoWithoutFace(q, f)
     /\ UNCHANGED <<up, cs, evicted, dnl, routes, validating, fault, budget>>

\* Upstreams exhausted, nothing left to try: Nack the downstreams and forget the
\* pending Interest by the status of one out-record: the bidirectional face's,
\* or the front one of the list, whose order is left open.
NackReturn(k, f) ==
  LET e == NackedEntry(k, f)
      q == pit[k].out[f].mp
  IN /\ NackArrives(k, f)
     /\ NotNacked(e) # {} => NackTo(e) # {}
     /\ \A d \in NackTo(e) : ~CanRetry(e, d)
     /\ RemovePrefix(q, f)
     /\ \E g \in IF NotNacked(e) = {} THEN DOMAIN e.out ELSE NotNacked(e) :
          mpInfo' = eraseMeasurement(InfoWithoutFace(q, f),
                      [r \in Prefix |-> IF r = e.out[g].mp THEN {NameOf[k]} ELSE {}])
     /\ AfterNack(k, NackDownstreams(e, NackTo(e)), {})
     /\ UNCHANGED <<up, cs, evicted, dnl, routes, validating, fault, budget>>

-----------------------------------------------------------------------------
(* Timers and faces                                                         *)

\* Mutant of Due: a timer set to zero is lost.
DueWhenExpired(e) == e.timer = "running" /\ \A g \in DOMAIN e.in : e.in[g].old

\* The timer was last set to the expiry of the last in-record: when it fires
\* the in-records still there have expired.
Due(e) == e.timer = "now" \/ (e.timer = "running" /\ \A g \in DOMAIN e.in : e.in[g].old)

\* onInterestFinalize: Dead Nonce List insert, PIT delete.  Every weak_ptr to
\* the entry is stale from here on.
InterestFinalize(k) ==
  /\ fault = "none"
  /\ k \in DOMAIN pit
  /\ Due(pit[k])
  /\ dnl' = IF needDnl(k, pit[k].satisfied)
            THEN dnl \cup {<<NameOf[k], pit[k].out[g].nonce>> : g \in DOMAIN pit[k].out}
            ELSE dnl
  /\ pit' = Without(pit, {k})
  /\ mpInfo' = [q \in DOMAIN mpInfo |->
       [mpInfo[q] EXCEPT !.pitEntrys =
          [nm \in DOMAIN mpInfo[q].pitEntrys |->
             IF mpInfo[q].pitEntrys[nm] = k THEN Stale ELSE mpInfo[q].pitEntrys[nm]]]]
  /\ UNCHANGED <<up, cs, evicted, routes, ribTasks, validating, fault, budget>>

ExpireInRecord(k, f) ==
  /\ fault = "none"
  /\ k \in DOMAIN pit
  /\ f \in DOMAIN pit[k].in
  /\ ~pit[k].in[f].old
  /\ pit' = [pit EXCEPT ![k].in[f].old = TRUE]
  /\ UNCHANGED <<up, cs, evicted, dnl, mpInfo, routes, ribTasks, validating, fault, budget>>

\* Measurements::cleanup
ExpireMeasurement(p) ==
  /\ fault = "none"
  /\ MeasurementsExpire
  /\ p \in DOMAIN mpInfo
  /\ mpInfo' = Without(mpInfo, {p})
  /\ UNCHANGED <<up, pit, cs, evicted, dnl, routes, ribTasks, validating, fault, budget>>

\* A face is destroyed: cleanupOnFaceRemoval takes its nexthops and its PIT
\* records away.  (Routes to it stay in the RIB until the notification, as module
\* Rib has it; routes are what the FIB has of them, which is what forwarding sees.)
FaceRemoved(f) ==
  /\ fault = "none"
  /\ f \in up \cap BreakableFace
  /\ up' = up \ {f}
  /\ routes' = {r \in routes : r[2] # f}
  /\ pit' = [k \in DOMAIN pit |-> [pit[k] EXCEPT !.in = Without(pit[k].in, {f}),
                                                !.out = Without(pit[k].out, {f})]]
  /\ UNCHANGED <<cs, evicted, dnl, mpInfo, ribTasks, validating, fault, budget>>

\* Data leaves the Content Store: evicted because of the limit, which is that of
\* the whole store and may be reached by any other Data, or erased by management.
CsEvict(d) ==
  /\ fault = "none"
  /\ d \in cs
  /\ cs' = cs \ {d}
  /\ evicted' = evicted \cup {d}
  /\ UNCHANGED <<up, pit, dnl, mpInfo, routes, ribTasks, validating, fault, budget>>

-----------------------------------------------------------------------------
(* The RIB thread                                                           *)

\* slAnnounce hands the announcement to the validator.
RunSlAnnounce ==
  /\ fault = "none"
  /\ ribTasks # << >>
  /\ Head(ribTasks).op = "slAnnounce"
  /\ \A f \in Head(ribTasks).faces :
       validating[<<Head(ribTasks).prefix, f>>] < MaxValidations
  /\ validating' = [r \in Mp \X Face |->
       IF r[1] = Head(ribTasks).prefix /\ r[2] \in Head(ribTasks).faces
       THEN validating[r] + 1 ELSE validating[r]]
  /\ ribTasks' = Tail(ribTasks)
  /\ UNCHANGED <<up, pit, cs, evicted, dnl, mpInfo, routes, fault, budget>>

\* Mutant of RunSlRenew: the route is renewed with its old lifetime.
RunSlRenewKeepRoute ==
  /\ fault = "none"
  /\ ribTasks # << >>
  /\ Head(ribTasks).op = "slRenew"
  /\ ribTasks' = Tail(ribTasks)
  /\ UNCHANGED <<up, pit, cs, evicted, dnl, mpInfo, routes, validating, fault, budget>>

\* slRenew with lifetime 0 on a route that came from an announcement lets it
\* expire at once; any other route is left alone (NOT_FOUND).
RunSlRenew ==
  /\ fault = "none"
  /\ ribTasks # << >>
  /\ Head(ribTasks).op = "slRenew"
  /\ routes' = routes \ {<<Head(ribTasks).prefix, f>> : f \in Head(ribTasks).faces}
  /\ ribTasks' = Tail(ribTasks)
  /\ UNCHANGED <<up, pit, cs, evicted, dnl, mpInfo, validating, fault, budget>>

\* Mutant of AnnouncementValidated: no check that the face is still there.
AnnouncementValidatedBlindly(p, f, valid) ==
  /\ fault = "none"
  /\ validating[<<p, f>>] > 0
  /\ validating' = [validating EXCEPT ![<<p, f>>] = @ - 1]
  /\ routes' = IF valid THEN routes \cup {<<p, f>>} ELSE routes
  /\ UNCHANGED <<up, pit, cs, evicted, dnl, mpInfo, ribTasks, fault, budget>>

\* The validator answers; a route to a destroyed face is refused by the FIB.
AnnouncementValidated(p, f, valid) ==
  /\ fault = "none"
  /\ validating[<<p, f>>] > 0
  /\ validating' = [validating EXCEPT ![<<p, f>>] = @ - 1]
  /\ routes' = IF valid /\ f \in up THEN routes \cup {<<p, f>>} ELSE routes
  /\ UNCHANGED <<up, pit, cs, evicted, dnl, mpInfo, ribTasks, fault, budget>>

RouteExpires(p, f) ==
  /\ fault = "none"
  /\ <<p, f>> \in routes
  /\ routes' = routes \ {<<p, f>>}
  /\ UNCHANGED <<up, pit, cs, evicted, dnl, mpInfo, ribTasks, validating, fault, budget>>

-----------------------------------------------------------------------------
ReceiveInterest ==
  \E k \in Key, f \in Face, z \in Nonce :
    \/ InterestLoop(k, f, z)
    \/ \E hopZero \in BOOLEAN :
         \/ ContentStoreHit(k, f, z, hopZero)
         \/ ForwardStraight(k, f, z, hopZero)
         \/ ForwardStraightFault(k, f, z, hopZero)
         \/ ForwardToRv(k, f, z, hopZero)
         \/ ForwardPlain(k, f, z, hopZero)
         \/ \E hint \in BOOLEAN : RejectInterest(k, f, z, hint, hopZero)

ReceiveData == \E d \in Pkt, f \in Face : IncomingData(d, f) \/ IncomingAck(d, f)

ReceiveNack ==
  \E k \in Key, f \in Face : NackWait(k, f) \/ NackRetry(k, f) \/ NackReturn(k, f)

Timers ==
  \/ \E k \in Key : \/ InterestFinalize(k)
                    \/ \E f \in Face : ExpireInRecord(k, f)
  \/ \E p \in Prefix : ExpireMeasurement(p)
  \/ \E f \in Face : FaceRemoved(f)
  \/ \E d \in Pkt : CsEvict(d)

RibThread ==
  \/ RunSlAnnounce
  \/ RunSlRenew
  \/ \E p \in Mp, f \in Face :
       \/ \E valid \in BOOLEAN : AnnouncementValidated(p, f, valid)
       \/ RouteExpires(p, f)

Next == ReceiveInterest \/ ReceiveData \/ ReceiveNack \/ Timers \/ RibThread

Spec == Init /\ [][Next]_vars

-----------------------------------------------------------------------------
(* Properties                                                               *)

\* Nobody waits for nothing: while the timer of a PIT entry is still to run, at
\* least one upstream owes an answer to the Interest last sent to it.  (Face
\* removal and used-up hop limits leave entries that only time out.)
PendingHasUpstream ==
  up = Face /\ ~HopLimited =>
    \A k \in DOMAIN pit : pit[k].timer = "running" =>
      \E g \in DOMAIN pit[k].out : pit[k].out[g].await

\* Why it holds: an out-record without a Nack still awaits its answer, so the
\* test of hasPendingOutRecords, which reads Nacks, is about answers.
UnansweredAwaits(e) == \A g \in DOMAIN e.out : ~e.out[g].nacked => e.out[g].await

PendingInv ==
  /\ \A k \in DOMAIN pit : UnansweredAwaits(pit[k])
  /\ ~HopLimited => \A k \in DOMAIN pit : ~pit[k].hopZero
  /\ PendingHasUpstream

\* Data that answers the Interest of k has been in the Content Store and is not now.
AnswerEvicted(k) == k \notin FreshKey /\ \E d \in evicted : k \in Satisfies[d]

\* Loop detection outlives the PIT entry: when Data or the timer takes an
\* out-record away, the nonce it last sent will be caught if it comes back, by
\* the Dead Nonce List or by Data in the Content Store.  Nothing but an eviction
\* loses it: needDnl trusts the Content Store for an entry that is satisfied, also
\* when a later Interest has revived the entry and the Data has gone meanwhile.
LastNonceCaught ==
  [][\A k \in DOMAIN pit : \A g \in DOMAIN pit[k].out :
       /\ CsEnabled /\ up' = up
       /\ k \in DOMAIN pit' => g \notin DOMAIN pit'[k].out
       => \/ <<NameOf[k], pit[k].out[g].nonce>> \in dnl'
          \/ CsHas(k)'
          \/ pit[k].satisfied /\ AnswerEvicted(k)]_vars

\* The answer to a Nack is never to Nack a downstream in stage STRAIGHT_FORWARD
\* as long as a nexthop towards the rendezvous server is unused (README,
\* test_search_route.sh: the RV is "the next trying").
RvBeforeNack ==
  [][\A k \in DOMAIN pit \cap DOMAIN pit' : \A d \in DOMAIN pit[k].in :
        /\ budget' = budget /\ up' = up
        /\ ~pit'[k].satisfied
        /\ d \notin DOMAIN pit'[k].in
        /\ pit[k].in[d].stage = "straight"
        => RvHops(pit[k]) = {}]_vars

\* In this step a task op for prefix p and face f is posted to the RIB thread.
Posted(op, p, f) ==
  /\ Len(ribTasks') > Len(ribTasks)
  /\ LET t == ribTasks'[Len(ribTasks')] IN t.op = op /\ t.prefix = p /\ f \in t.faces

\* A consumer still waits for an Interest that went straight to producer p.
AwaitsProducer(k, p) ==
  /\ k \in DOMAIN pit
  /\ ~pit[k].satisfied
  /\ \E c \in DOMAIN pit[k].in : ~pit[k].in[c].old /\ pit[k].in[c].stage = "straight"
  /\ \E g \in DOMAIN pit[k].out : pit[k].out[g].mp = p

\* When a mobile producer shows up behind a face it was not known to be behind,
\* every Interest a consumer waits for that the name's slot in pitEntrys still
\* leads to is sent there, with the nonce the PIT entry first saw.
RetransmitToNewMp ==
  [][\A p \in Mp, f \in Face, k \in Key :
        /\ Posted("slAnnounce", p, f)
        /\ AwaitsProducer(k, p)
        /\ ~pit[k].hopZero
        /\ p \in DOMAIN mpInfo /\ f \notin mpInfo[p].faceIds
        /\ NameOf[k] \in DOMAIN mpInfo[p].pitEntrys
        /\ mpInfo[p].pitEntrys[NameOf[k]] = k
        => /\ f \in DOMAIN pit'[k].out
           /\ pit'[k].out[f].await
           /\ pit'[k].out[f].nonce = pit[k].nonce]_vars

\* A destroyed face is nowhere referred to: not by a PIT record, not by a route,
\* even when its announcement is validated after it is gone.
NoDanglingFace ==
  /\ \A k \in DOMAIN pit : DOMAIN pit[k].in \cup DOMAIN pit[k].out \subseteq up
  /\ \A r \in routes : r[2] \in up

\* The process is not stopped by the dereference of a nullptr.
NoNullDereference == fault = "none"

-----------------------------------------------------------------------------
(* Liveness                                                                 *)

\* Timers fire, the RIB thread works through its queue, the validator answers.
Fairness ==
  /\ \A k \in Key : /\ WF_vars(InterestFinalize(k))
                    /\ \A f \in Face : WF_vars(ExpireInRecord(k, f))
  /\ WF_vars(RunSlAnnounce) /\ WF_vars(RunSlRenew)
  /\ \A p \in Mp, f \in Face :
       WF_vars(\E valid \in BOOLEAN : AnnouncementValidated(p, f, valid))

LiveSpec == Spec /\ Fairness

\* Once Interests stop coming every PIT entry is finalized, whatever Data and
\* Nacks still arrive.
PitDrains == <>[](DOMAIN pit = {})

Withdrawn(p, f) ==
  \E i \in 1 .. Len(ribTasks) :
    ribTasks[i].op = "slRenew" /\ ribTasks[i].prefix = p /\ f \in ribTasks[i].faces

\* A Nack to a straight Interest deletes the route it was sent by (README,
\* test_kite_nack.sh).
NackDeletesRoute ==
  \A p \in Mp, f \in Face : Withdrawn(p, f) ~> <<p, f>> \notin routes

-----------------------------------------------------------------------------
(* What documents say and the code does not do                              *)

\* README, test_kite_nack.sh: the Nack "will cause RV's NFD delete one route".
\* With no trace Interest pending or to come, nothing can announce the route
\* again after the Nack, so it should stay deleted.
NackDeletesRouteForGood ==
  \A p \in Mp, f \in Face :
    /\ Withdrawn(p, f)
    /\ \A k \in Key : PrefixOf[k] = Rv => budget[k] = 0 /\ k \notin DOMAIN pit
    ~> [](<<p, f>> \notin routes)

\* pit-out-record.hpp: a Nack stored in an out-record "means the last outgoing
\* Interest has been NACKed".
NackIsOfLastInterest ==
  \A k \in DOMAIN pit : \A g \in DOMAIN pit[k].out :
    pit[k].out[g].nacked => ~pit[k].out[g].await

\* dead-nonce-list.hpp: "When a Nonce is erased (dead) from a PIT entry, the
\* Nonce and the Interest Name are added to the Dead Nonce List".  Stated for
\* nonces that were forwarded, in entries no Data has answered.
ErasedNonceIsListed ==
  [][\A k \in DOMAIN pit : ~pit[k].satisfied =>
       \A g \in DOMAIN pit[k].out :
         LET z == pit[k].out[g].nonce
         IN \/ <<NameOf[k], z>> \in dnl'
            \/ k \in DOMAIN pit' /\ pit'[k].satisfied
            \/ k \in DOMAIN pit' /\ \E h \in DOMAIN pit'[k].out : pit'[k].out[h].nonce = z
            \/ k \in DOMAIN pit' /\ \E h \in DOMAIN pit'[k].in : pit'[k].in[h].nonce = z]_vars

\* README, test_kite_retransmission.sh: after MP2 has registered "it will
\* receive an interest sent by ndnpeek previously".
NewMpGetsPendingInterests ==
  [][\A p \in Mp, f \in Face, k \in Key :
        Posted("slAnnounce", p, f) /\ AwaitsProducer(k, p) => f \in DOMAIN pit'[k].out]_vars

\* dead-nonce-list.hpp again, for an Interest that timed out: nothing has answered it
\* since it was sent, so its nonce is listed, unless the Content Store has an answer.
TimedOutNonceIsListed ==
  [][\A k \in DOMAIN pit : k \notin DOMAIN pit' /\ pit[k].timer = "running" =>
       \A g \in DOMAIN pit[k].out :
         <<NameOf[k], pit[k].out[g].nonce>> \in dnl' \/ CsHas(k)]_vars

=============================================================================
