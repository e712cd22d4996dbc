# KITE forwarding in NFD: a TLA+ model

KITE lets consumers reach a mobile producer without knowing where it is. The
producer sends *trace Interests* to a rendezvous server (RV); the RV's *Acks* carry
prefix announcements, and every NFD on the way back installs a route towards the
producer. Consumers attach a forwarding hint that names the RV: an NFD forwards
such an Interest straight to the producer when it has a route, and towards the RV
otherwise. The repository holds the modified forwarder (`kite-NFD`), library
(`kite-ndn-cxx`) and tools (`kite-ndn-tools`), and scripts that test them in
virtual machines (`tests/`).

## The system's parts

| Part | State it keeps | Operations | What is hard, and what makes it correct |
|---|---|---|---|
| Forwarding pipelines (`fw/forwarder.cpp`, `fw/algorithm.cpp`, `fw/strategy.cpp`) | works on the tables below | incoming/outgoing Interest, Data, Nack; loop; Content Store hit/miss; finalize | packets and timers in any order; loops are caught, entries end, nobody waits for nothing |
| KITE strategy (`fw/kite-strategy.cpp`, `fw/process-nack-traits.cpp`) | status per in- and out-record, `KiteMobileProducerInfo` per prefix in the measurements table | `afterReceiveInterest`, `afterReceiveNack`, `beforeSatisfyInterest`, `registPrefix`, `removePrefix`, `dealNack` | pending Interests follow a moving producer; the RV is tried before a consumer is refused; `weak_ptr`s and face ids go stale |
| PIT (`table/pit*.cpp`) | entries with in- and out-records, satisfied flag, timer | insert, renew, match, delete | a record outlives the packet it describes |
| Measurements (`table/measurements*.cpp`) | strategy info per name, with a lifetime | get, extend, clean up | outside the strategy's authority `get` is `nullptr` |
| Dead Nonce List (`table/dead-nonce-list.cpp`) | hashes of name and nonce | has, add, evict | capacity follows the Interest rate |
| Content Store (`table/cs*.cpp`, `mgmt/cs-manager.cpp`, `nfdc cs`) | table of Data, queues and timers of the policy, limit, flags | insert, refresh, find, evict, erase in rounds, reconfigure | timers and queues hold references into the table; eviction order; an erase in rounds must not end early |
| RIB manager (`mgmt/rib-manager.cpp`) | routes, via the RIB | `slAnnounce`, `slRenew`, register, unregister, face cleanup | runs in its own thread; an announcement is validated asynchronously |
| RIB and FIB updater (`rib/`) | routes per name with inheritance and capture; queue of updates; batches | insert, erase, expire, remove face, compute and send FIB updates, retry | the FIB equals what the RIB implies; one batch at a time; partial failure |
| Link service (`face/generic-link-service.cpp`, `lp-*.cpp`) | window of unacknowledged fragments, Ack queue, received Sequences, partial packets | fragment, send, acknowledge, find losses, retransmit, give up, reassemble | loss, reordering, late Acks, sequence numbers that wrap, three kinds of timer |
| Transports and face system (`face/*-transport.*`, `*-factory.*`) | sockets, channels | open, close, receive | I/O |
| Readvertise (`rib/readvertise/`) | advertised prefixes with counts and timers, index of routes | route added or removed, destination available or not, commands, refresh, retry | iterators kept by callbacks and timers; the gateway ends up with what the routes need |
| Strategy choice, NameTree, other strategies (`table/`, `fw/`) | strategy per prefix | set, unset, find effective | a change of strategy drops strategy info |
| Producer and RV tools (`kite-ndn-tools/tools/kite`) | the validator's records | send a Request, validate it, answer with an Ack | Requests repeated or reordered; certificates that come late |
| KITE packets (`kite-ndn-cxx/ndn-cxx/kite`) and validation (`ndn-cxx/security`) | records of timestamps and nonces, certificate caches | make and split names; check, fetch, record | names split at the right component; records read before and written after a fetch |

The forwarder thread runs pipelines, strategy and timers one at a time; the RIB
runs in a second thread and is reached by posted tasks (`runOnRibIoService`). A
node talks to its neighbours by packets. That gives the interleavings of the
model: packets, timers, tasks, the answers of the validator and the removal of
faces, in any order.

## Modules

| Module | Models |
|---|---|
| `KiteForwarder` | one NFD node with the KITE strategy: pipelines, PIT, Dead Nonce List, Content Store (as a set), measurements, announced routes, the RIB thread's tasks |
| `FibUpdater` | the RIB's table and the computation of FIB updates, as operators |
| `Rib` | the RIB thread, the FIB manager and faces around `FibUpdater`: queue, batches, commands, answers, timeouts, expiration, cleanup |
| `LpLink` | one direction of a face with NDNLP fragmentation, reliability and reassembly |
| `LpChannel` | the abstract channel that `LpLink` implements |
| `ContentStore` | the Content Store with both policies, its management and the `nfdc` client |
| `KiteRendezvous` | producer, network, rendezvous server and its validator |
| `Readvertise` | advertisement of RIB routes to a gateway or NLSR |
| `MC*` | constants of the small instances of each of these |
| `KiteForwarderProofs`, `RibProofs`, `RibOrderProofs`, `LpLinkProofs`, `ContentStoreProofs`, `KiteRendezvousProofs`, `ReadvertiseProofs` | theorems about the module of that name (`RibOrderProofs`: about `Rib`); `NatOrder` holds a lemma that several of them use |

Each module stands for one component; where components meet, the module holds both
sides: `Rib` has the two threads and the commands between them, `LpLink` both ends of
a link, `KiteRendezvous` producers and server, `Readvertise` the destination,
`ContentStore` the client that erases.

### KiteForwarder

State: `up` the faces that exist; `pit` a partial function from keys (name with
selectors) to entries with in-records, out-records, the nonce and hop limit of the
Interest that created them, `satisfied` and a timer; `cs`; `dnl`; `mpInfo` the
`KiteMobileProducerInfo` per prefix; `routes` the routes that came from
announcements; `ribTasks` what was posted to the RIB thread; `validating` the
announcements the validator has not answered; `fault` the dereference that stopped
the process; `budget` the Interests still to come. `evicted`, the Data that left the
Content Store, is a history variable, and `await` in an out-record is a
history flag: the Interest last sent there has no answer yet.

Actions and the code they stand for:

* An Interest arrives: `InterestLoop`, `ContentStoreHit`, then by strategy
  `ForwardStraight` (KITE hint, producer has a route), `ForwardStraightFault` (the
  same path where it dereferences a `nullptr`), `ForwardToRv`, `ForwardPlain` (no
  hint), `RejectInterest`.
* Data arrives: `IncomingData`, and `IncomingAck` for a KITE Ack, which posts the
  announcement and sends pending Interests to the producer's new face.
* A Nack arrives: `NackWait`, `NackRetry` (`dealNack` finds the RV), `NackReturn`.
  Each includes `removePrefix` and the last lines of `onIncomingNack`.
* Timers and faces: `InterestFinalize`, `ExpireInRecord`, `ExpireMeasurement`,
  `FaceRemoved`; `CsEvict`, by which Data leave the Content Store (eviction or erase).
* The RIB thread: `RunSlAnnounce`, `AnnouncementValidated`, `RunSlRenew`,
  `RouteExpires`.

Abstractions: time is order only (a record is unexpired until it expires; whether
an out-record has expired when `hasPendingOutRecords` looks is left open); the
order of a PIT entry's record lists is left open where the code takes the first;
names are not under `/localhost` or `/localhop`; an Interest has at most one
delegation, a KITE one; Data has no FreshnessPeriod; the Content Store
may lose any Data at any time (`ContentStore` has the policies); a posted task sees the RIB as it is when it runs, and the FIB follows the
RIB at once. The names of this model have no producer prefix above another one
except the empty prefix. The `NextHopFaceId` tag and the counters are left out.

### Rib and FibUpdater

`rib` maps names to entries: routes in list order, faces of inherited routes, the
counter of capture flags, the parent pointer. A pointer is kept because `insert` and
`eraseEntry` repair it piecemeal; children follow from it, and `m_faceEntries` from
the routes. `queue`, `inProgress`, `batchFace`, `batchUpdates`, `otherUpdates` and
`inheritUpdates` are the members of `Rib` and `FibUpdater`. `wire` is what the
internal face carries: one group of commands for each `sendUpdates`, in order. A
command is executed and answered in one step, because nothing the RIB thread does
between the two depends on the answer. A command that timed out is executed all the
same and its answer is ignored.

`RegisterEntry`, `UnregisterEntry`, the expirations, `BeginRemoveFace` and
`BeginRemoveFailedFaces` put updates into the queue; `SendBatchFromQueue`, which ends
each handler, is a step of its own that the RIB thread must take next, so the other
thread may come in between. `OnUpdateSuccess`, `OnFaceNotFound` and `OnTimeout` are
the answers; `FaceDestroyed`, `FaceCreated` and `NoticeLost` are the other thread.
`failed` and `lasting` are history variables. The expiration of a route is scheduled when
its registration begins: `RegistrationExpires` is the event that fires before the
registration is done (`fired` says that it did), `RouteExpiration` the one of a route in
the table. The face dataset is fetched every five minutes, and a second after a failed
update, so that `FetchActiveFaces` overlaps another fetch only after a failure.

Bounds: `MaxRequests` requests in all; a request waits while `MaxQueue` updates do;
`MaxTimeouts` is the code's constant, smaller. `FibMatchesRib` compares the FIB with
`NextHopOf`, which is defined from the routes alone and does not follow the code.

### LpLink and LpChannel

A Sequence never changes and so is replaced by packet and index; a TxSequence is a
number modulo `TxMod`, and `lastTx` starts at `LastSettled` so that the window wraps
soon. With 64 bits no TxSequence is used twice; here that is a guard. The handler of a
packet with Acks is a sequence of steps, one per Ack (`IgnoreAck`, `ProcessAck`) and
one per fragment found lost (`HandleLost`), with nothing else on the sending side in
between. `RtoTimeout` is the timer of a fragment. On the receiving side a fragment is
acknowledged, recognised or remembered and reassembled in one step;
`ReassemblyTimeout` drops a partial packet; `Piggyback` and `IdleAckTimer` send Acks.
Whatever is sent may be received late or never: nothing removes it from the link.
Sizes include the TLV overhead. `Forgets` lets received Sequences grow older than the
RTO. The RTT estimate is left out: a timer may fire at any time.

`LpChannel` is what the forwarder may rely on. The mapping takes a packet as *whole*
when all its fragments have arrived, and both kinds of success as *received*.

### ContentStore

Data are model values with a `Rank`, their place in the order of names. Time is the
rest of each entry's freshness. `queues` has the three queues of priority FIFO and the
one of LRU; `timers` are the entries that will move to the stale queue. `Insert`,
`Refresh` and `FindHit` include the policy's part and the eviction. `SetLimit`,
`EnableAdmit`, `EnableServe` and `Reconfigure` are the operator's. An erase is
`BeginErase` in `nfdc`, then rounds of `BeginRound`, `EraseNext` per entry and
`EraseAnswer`; nothing else happens within a round and anything between rounds.
`before` (who was used before whom) and `old` (what was there when the erase began)
are history variables.

### KiteRendezvous

A Request has a name, a timestamp and its place in `sent` as nonce. The network
delivers each any number of times, in any order. `OnInterestKnown` validates at once;
`OnInterestUnknown` takes a slot in `validating` until `CertificateFetched`, or until
`FetchAgain` has used the retries and `CannotRetrieve` ends it. `records` belong to
the outer policy (timestamp and nonces, per key), `commands` to the inner one
(timestamp only); both are read on arrival and written on success. The inner policy's
refusal is not an action, because `RecordsAgree` shows that it never happens. A
producer signs with one key and so stands for it; the rules of the configuration file
accept everybody. Callbacks that only log, and the pending Interest of the producer,
are left out, as is the producer's `-s` option.

Bounds: two slots, two ticks of the clock, three Requests, three Acks. One record is
kept, so two producers push each other out, and two nonces, so a third does.

### Readvertise

A `ReadvertisedRoute` is a place in `rr` and is in `m_rrs` while it is in `live`.
`index` is `m_routeToRr`. `AddUnadvertised`, `AddKnown`, `AddNew`,
`RemoveUnadvertised` and `RemoveAdvertised` are `Rib::insert` and `Rib::erase` with
all their signals in the code's order, availability of the destination included.
`Succeeds` and `Fails` are the callbacks, `Timer` the refresh or retry. A failure may
be a timeout, after which the gateway has the command or not. The gateway is an NFD,
whose `registerEntry` answers before its own FIB is updated, or NLSR, which is not part
of this repository; what counts here is that it took the command. `fault` says that an
iterator was used whose element is gone. `overlapped` is a history variable: the
prefixes for which a command was sent, or an element erased, with another command
under way. The code does not prevent that, and with it neither the iterators nor the
gateway's state are safe: the safety and liveness properties are for the rest.

Bounds: `MaxChanges` routes added or removed, `MaxFlying` commands of a kind.

## Runs

Deadlock is not checked where budgets, or packets all settled, end the behaviour; it
is in `cs`.

| Run | Instance | Shows |
|---|---|---|
| `mobility` | `KiteForwarder`: 2 Interests, 1 trace Interest, `m1` static, `m2` (ad hoc) appears and may be destroyed; hop limits, a Content Store that evicts, measurements expire; 2 tasks | `TypeOK`; `RetransmitToNewMp`: a recorded pending Interest goes to the producer's new face, with the nonce the entry first saw; `LastNonceCaught`: only an evicted answer loses the nonce of a record that goes; `NoDanglingFace` |
| `nacks` | 3 Interests of one key, with and without hint, from `c`, `c2` (multi-access) and `m1` (also an upstream) | `PendingHasUpstream`; `RvBeforeNack` |
| `live` | 2 Interests, 1 trace Interest, fairness | `PitDrains`, `NackDeletesRoute` |
| `rib` | three names on a path, the middle one's routes expire, two faces, one origin, two costs, 4 requests | `TypeOK`, `ParentIsNearest`, `FibMatchesRib`, `LastingRouteStays` |
| `rib_mixed` | two names, two origins, capture, expiration, a new face, timeouts, 3 requests | `InProgressIsAnswered`; every handler happens |
| `rib_live` | three names, 3 requests, a face that breaks, fairness | `UpdatesEnd`, `DeadRoutesLeave` |
| `lp` | one packet that fills two fragments exactly, 1 retransmission each, loss threshold 1, 5 TxSequences, fairness | `TypeOK`, `FragmentsCover`, `WindowIsOrdered`, `AckedIsDelivered`, `DeliveredOnce`, `PacketsEnd`, `ImplementsChannel` |
| `cs` | 3 Data, limits 0, 2 and 3, 2 entries erased per round, both policies | `TypeOK`, `QueuesHoldTable`, `WithinLimit`, `TimersMatchQueues`, `EraseReachesAll`, `EvictsInOrder`, `EvictsOldest` |
| `rendezvous` | two producers, one of them a trust anchor, 3 Requests | `TypeOK`, `AckedOnce`, `NewerThanLast`, `RecordsAgree`, `AnnouncesSender`, `ValidationsEnd` |
| `readvertise` | two routes of one prefix, one of another that leads to the gateway too, one only to the gateway; 6 changes | `TypeOK`, `LastRouteWithdraws`, `SafeWithoutOverlap`, `NeededIsAdvertised`, `UnneededIsWithdrawn` |
| `lost_retransmission` | violation | `README.MD`: the new producer receives the Interest sent before. The name's slot in `pitEntrys` is held by an expired entry |
| `withdraw_needed` | violation | the assertion in `Readvertise::withdraw`. The retry timer of a failed withdrawal fires after a route needs the prefix again |

Why the bounds are enough. `KiteForwarder`: two nonces make a repeated and a fresh one
(they are interchangeable, hence the symmetry); two Interests and one trace Interest
let an Interest wait, expire, be asked again and meet a moving producer. `rib`: three
names make an entry appear between two others and go; four requests register at all
three and change or remove one. Its routes are of one origin, without capture, and the
second face only occurs at the longest name, because with more than that the FIB does
not follow the RIB (`second_origin`, `capture_erased`, `shadowed_nexthop`, below).
Routes of the middle name expire, those of the others last; a route of which both kinds
are requested does not last (`renew_race`).
`lp`: two fragments are the least with a sibling in the window, and five TxSequences
hold every transmission of both and wrap; `lp_packets.cfg` has the three fragments it
takes for a sibling in the list of lost fragments, and the theorems any number. `cs`: three Data fill every queue,
exceed a limit and need two rounds. `readvertise`: six changes let a prefix come, go
and come again while the destination does.

Fairness. `KiteForwarder`: timers fire (`InterestFinalize`, `ExpireInRecord`: events of
the scheduler with a finite delay), the RIB thread works through its queue, the
validator answers; nothing is assumed of the neighbours. `Rib`: both threads run, a
command on the internal face is executed and answered, and the dataset is fetched again
and again (a periodic event). `LpLink`: a handler that has begun ends, and RTO timers
fire; nothing is assumed of the link. `KiteRendezvous`: the Interest for a certificate
times out if it is not answered. `Readvertise`: timers fire, a command is answered or
times out, and a command repeated for ever succeeds at some time (strong fairness of
`Succeeds`): without that no retry could help, and the properties are about the retry.

## Further disagreements

Each of these configurations makes TLC find a state or behaviour in which the code does
not do what the text says. They are kept beside the runs above.

| Configuration | The text | What the code does |
|---|---|---|
| `stale_nack` | `pit-out-record.hpp`: a stored Nack means the last outgoing Interest was Nacked | the outgoing pipeline renews the record and never clears the Nack |
| `erased_nonce` | `dead-nonce-list.hpp`: an erased nonce is listed | a renewed record overwrites its nonce, which is then nowhere |
| `evicted_answer` | the same, for an Interest that timed out | the nonces of a satisfied entry that was revived skip the list, and the Data that would answer a loop was evicted |
| `hop_limit` | `strategy.hpp`: `sendInterest` may return `nullptr` | it is dereferenced |
| `default_route` | `measurements-accessor.hpp`: `get` may return `nullptr` | it is dereferenced, with a default route and the repository's `nfd.conf` |
| `announce_race` | `README.MD`: the Nack deletes the route | an announcement still under validation brings it back |
| `shadowed_nexthop` | `FibMatchesRib` | a name inherits on a face and gets a route of its own there; when the ancestor's route stops being inherited, the name's own nexthop is removed |
| `second_origin` | `FibMatchesRib` | when the dearer of two routes on a face is removed, the route with the second lowest cost, put in its place, is the removed one: the nexthop the other origin still needs goes |
| `capture_erased` | `FibMatchesRib` | when the entry that captures is erased, its children do not get what it kept away |
| `erased_nexthop` | `FibMatchesRib` | when a name's route on one face is removed, its children get the routes of the ancestors on every face, also on one where the name itself has an inheritable route with another cost |
| `failed_nexthop` | `FibMatchesRib` | a batch whose face is gone has two commands for it; the second 410 comes after the failure and completes the failed batch, whose entry the batch then in progress did not know of: the entry lacks a nexthop it inherits |
| `timeout_retry` | `FibMatchesRib` | the retry of a removal is sent as an addition |
| `capture_count` | `rib-entry.hpp`: "the number of routes on this namespace with the capture flag set" | not adjusted when a route is overwritten |
| `failed_batch` | `rib.hpp`: when the FIB update fails "the RIB will not be updated" | late answers of a failed batch complete it |
| `failed_lasting` | `LastingRouteStays` | such an answer also ends the batch in progress, an unregistration, before its own answer: it is applied after the registration queued behind it |
| `renew_race` | `nfdc-route`: a route without expiration stays | the expiration queued behind the renewal removes it |
| `stale_faces` | the same | a dataset older than the face removes its routes; from the RIB only, since the face is taken for destroyed, so that `FibMatchesRib` is violated as well |
| `null_route` | the lookup returns a route | it returns null when no route on the face is inheritable |
| `lp_received` | `generic-link-service.hpp`: "eventually received in full" | fragments are acknowledged before reassembly, which may time out |
| `erase_unserved` | `nfdc-cs.rst`: the command "erases cached Data under a name prefix" | with serving disabled the manager's lookup misses, and the client stops after one round |
| `reordered_request` | `validation-policy-signed-interest.hpp`: timestamps "are not reordered" | two validations overlap and the older Request is acknowledged last |
| `same_timestamp` | `interest-signer.hpp`: the timestamp is unique | two Requests of a producer get the same one |

Two configurations vary `lp` and hold. `lp_packets.cfg` has two packets, one of three
fragments, and no retransmissions: `WindowIsOrdered` and `ImplementsChannel` hold when a
packet is given up whose siblings are still in the list of lost fragments, which `lp`
does not reach. In `lp_forgets.cfg` the receiver forgets Sequences (and may then pass on
a packet twice).

## Proofs

All theorems hold for every value of the constants that satisfies the `ASSUME`s of the
module. Those that the proofs lean on: a name has finitely many prefixes, which lie on
one path (`RibNamesAssumption`: names are finite sequences of components); the header
of an unfragmented packet is no longer than that of a fragment, to which the fragmenter
adds fields (`PacketSizesAssumption`); the lists of the signed-Interest policy hold at
least one record and one nonce, and the server's prefix does not contain the keyword
(`ValidatorAssumption`, `NamesAssumption`).

`KiteForwarderProofs`:

* `TypeCorrect`: `Spec => []TypeOK`. Lemmas say what each operator on entries and
  measurements returns; the proof has a step per action.
* `UpstreamOwesAnswer`: `Spec => []PendingHasUpstream`. The property is not
  inductive: a Nack ends the wait by looking at stored Nacks, not at answers. The
  invariant `PendingInv` adds that an out-record without a Nack awaits its answer,
  and that no hop limit is used up when `HopLimited` is false.
* `FacesExist`: `Spec => []NoDanglingFace`, with `TypeOK` as the only strengthening.
* `RendezvousTriedFirst`, `NonceStaysCaught`, `PendingFollowProducer`: the action
  properties `RvBeforeNack`, `LastNonceCaught` and `RetransmitToNewMp`. The last two
  need `EntryInv`: Data for a satisfied entry was stored unless the Interest asked
  for fresh Data, so it is in the Content Store or was evicted, and the status of an out-record names the Interest's
  own prefix, the empty one or none. Without it a stale status could send a pending
  Interest after another producer.

`RibProofs`: `TypeCorrect`, `ParentsNearest`, `NeverWaitsForNothing`, from `RibInv`.
For the table, the lemmas say that `insert`, `eraseEntry`, `erase` and
`modifyInheritedRoutes` keep each parent pointer at the nearest ancestor: a new entry
takes over exactly the children of its parent that lie below it. That pointers lead to
shorter names makes `Chain`, the walk along them, well defined, so that the computed
FIB updates are FIB updates. For the wire, `BatchInv` says that the updates of a batch
are sorted by face; an answer then removes its update from the one list it can be in,
and each update still listed has a live command, through retries and late answers.

`RibOrderProofs`: `LastingStays`, that is `LastingRouteStays` under three suppositions:
no face is created, requests for one route agree on whether it expires (both `Steady`,
about the constants; the `rib` run's satisfy it), and no batch fails. None can be
dropped: `stale_faces`, `renew_race` and `failed_lasting` are what happens otherwise.
The invariant `OrderInv` says of each route that should last: the last queued update
about it registers it; or none is queued and the batch in progress registers it; or
neither is about it and it is in the table. To carry that through a batch it also says
that the live commands are those of one batch, one per update still listed (`Carries`):
only then is the batch that `onUpdateSuccess` completes the one in progress. The
cleanup of faces queues removals for faces that are gone only, because a face dataset
holds at least the faces that still exist (`FacesOrder`).

`RibOrderProofs` also has `FibFollowsRib`, that is `FibMatchesRib` under suppositions
on the requests (`Tame`) and the timeouts (`Faithful`), and
`FibFollowsWithoutTimeouts`, where `MaxTimeouts = 0` takes the place of the latter. No
supposition is idle; each has a configuration above that violates `FibMatchesRib`
without it:

| Supposition | Otherwise |
|---|---|
| no route captures | `capture_erased` |
| the requests for a name and a face have one origin | `second_origin` |
| below an inheritable route, the routes on its face are inheritable | `shadowed_nexthop` |
| they cost the same, or their name gives nothing on other faces | `erased_nexthop` |
| nothing is requested below a route on a face that may be destroyed | `failed_nexthop` |
| no face is created | `stale_faces` |
| no removal is sent again as an addition | `timeout_retry` |

The `rib` run's constants satisfy them; names, faces and costs may be any number.
The proof has two halves. The first is about the computation alone and needs no state:
to the FIB a table is a set of offers (name, face, cost, inheritable), and `Hop` says
which nexthop a set of offers calls for. `ChangeIsRight` compares the change that
`computeUpdatesForRegistration` and `-Unregistration` yield with the offers before and
after: at each name and face it sets the new nexthop, or sets none and the old one
stays right. It needs no induction over the tree of names, because the names that the
walk over the children reaches are characterised without the walk: those below the
name for which no name from there down to them, they included, has an inheritable route
on the face (`ReachedIsOpen`). The walk also relies on the marks of inherited routes, so
`MarksRight` says that what is inherited is marked.

The second half is the invariant `Matching`. At rest the FIB is what the offers of the
table call for. During a batch every nexthop is right for the table that the batch leads to
or one of the pending updates makes it right (`OnTheWay`): an update may be executed
twice, late or not at all once its face is gone. Until the batch's own face is done,
the other faces are untouched, so a batch that fails leaves the FIB as the table has
it; and a face that may go has one command per batch, so nothing is left on the wire
when it fails. A command that timed out is followed by one for the same update
(`Followed`), so late commands never belong to an earlier batch.

`LastingStaysThroughFailures` puts `OrderInv` and `Matching` together: under `Steady`,
`Tame` and `Faithful`, `LastingRouteStays` holds although batches fail. A batch that
fails is about a face that is gone, thus not about a route that lasts.

`LpLinkProofs`: `TypeCorrect`, `WindowOrdered`, `AckedDelivered`,
`DeliveredAtMostOnce`, `ChannelImplemented` and `FragmentsFit`. One invariant serves
all but the last: the window
lies between `first` and `lastTx` going round (`Window`); what is in it, on the link or
found lost was sent under that number (`SentInv`); only what has arrived is
acknowledged (`AckInv`); a packet is pending exactly while it has fragments in the
window, and its other fragments have arrived (`PacketOK`); what has arrived of a packet
not passed on waits in the reassembler, unless it timed out (`ReceiverOK`). The
ordering is preserved because the distance from `first` adds up around the circle as
long as a window stays shorter than `TxMod`. The refinement maps each action to one of
`LpChannel` or to a stutter. `FragmentsFit` is arithmetic: the division that counts the
fragments is characterised by its bounds, and the case of one fragment needs that its
header is no longer than a fragment's.

`ContentStoreProofs`: `TypeCorrect`, `QueuesAgree`, `TimersAgree`, `LimitKept`,
`EraseComplete`, `EvictionOrder`, `EvictionOldest`. The invariant joins `StoreInv`
(each entry in exactly one queue of the policy in force; timers and flags match the
queues; the limit; entries in the stale queue are stale; the LRU queue is in the order
of use) with `ClientInv` (the budget of a round, what the client knows of the answers,
`old` below the client's prefix). The eviction properties are about steps; they follow
because eviction takes a prefix of each queue, and takes from a queue only when those
before it are empty.

`KiteRendezvousProofs`: `TypeCorrect`, `AnnouncesRight`, `PoliciesAgree`,
`NeverAckedTwice`, `NewerThanTheLast`. `TableInv` says what the records, the queue of
the inner policy and the validations under way look like: the inner queue holds, for
the keys used last, the timestamps of the outer container. `History` relates them to
the log of Acks: the record of a key stems from the last Ack of that key, its nonces
from the Acks that recorded them and in that order, and a record or nonce that is
missing was pushed out by enough others; a validation under way has found its nonce
missing at the moment it began. `AnnouncesRight` needs no history: the keyword is found
from the front, behind the prefix of the server.

The proof corrected `AckedOnce`. It used to count the keys and nonces recorded since
the Request was acknowledged last. That is false when two copies of a Request are
validated at once, both are acknowledged, and enough other Requests follow: the second
Ack does not move the nonce to the end of its list, since the list is unique and
refuses it, so the nonce is dropped earlier than counted. (It takes four validations at
once, more than the run's bounds.) The property now counts from the Ack that recorded
the nonce.

`ReadvertiseProofs`: `TypeCorrect`, `WithdrawnWithLastRoute`,
`SafeUnlessOverlap`. `Table` joins
the types with `Linked` (index and routes point to the same objects), `SentForMade` (a
command is for an object that was made), `CountsRoutes` (`nRibRoutes`
is the number of routes that point to the object) and `ServedWhileAway`;
`SafePrefixes` says, of each prefix without overlapping commands, which timer runs and
which command is under way for which number of routes. That part cannot be dropped: a
callback uses its iterator safely only because no second command or timer of the
prefix can have erased the object.

`NatOrder`: a nonempty set of naturals has a smallest element, which the library
provides only through induction principles that cannot be instantiated here.

Only model-checked: liveness (`PitDrains`, `NackDeletesRoute`, `UpdatesEnd`,
`DeadRoutesLeave`, `PacketsEnd`, `ValidationsEnd`, `NeededIsAdvertised`,
`UnneededIsWithdrawn`), which is out of the prover's reach. Neither proved nor checked:
`FibMatchesRib` for requests that are not `Tame` and yet do no harm (say, a capture that
is never erased).

## Plan

1. *Proofs*: `Tame` by what is in the table at a time rather than by what may ever be
   requested.
2. *Network*: two `KiteForwarder` nodes with `KiteRendezvous` between them; the "live
   deadlock" that `process-nack-traits.hpp` describes.
3. *Tables*: Dead Nonce List capacity, strategy choice and NameTree, retransmission
   suppression and the stock strategies.

## Not modelled

Encoding and the cryptography of signatures; socket I/O, channels and the face system
(their state is the operating system's); `setOptions` on a face with packets under
way, congestion marks and the RTT estimate; the stock strategies, strategy choice,
NameTree and the capacity of the Dead Nonce List (planned); management datasets,
authorization and the commands not named above; the stock tools. Most of the
repository's lines are `ndn-cxx` and NFD as they are upstream, `websocketpp` and the
`nonstd` headers: the model covers the parts KITE changes and the parts of NFD it
relies on for routes, links and caching.
