--------------------------- MODULE KiteRendezvous ---------------------------
(***************************************************************************)
(* KITE Requests and Acks end to end: the producer tool signs a Request    *)
(* (kite-ndn-tools/tools/kite/producer), the network delivers it any       *)
(* number of times in any order, the rendezvous server validates it and    *)
(* answers with an Ack that announces the producer's prefix                *)
(* (kite-ndn-tools/tools/kite/rv, ndn-cxx/kite, ndn-cxx/security).         *)
(*                                                                         *)
(* Validation has two parts.  When an Interest arrives, two nested         *)
(* policies compare its timestamp and nonce with the records of its key;   *)
(* then the signature is verified, at once when the certificate is known,  *)
(* otherwise after a fetch that may be retried.  The records are written   *)
(* only when validation has succeeded.                                     *)
(*                                                                         *)
(* A producer signs with one key, so a producer also stands for a key      *)
(* name.  The Config policy's rules accept all of them.                    *)
(***************************************************************************)
EXTENDS Integers, Sequences, FiniteSets

CONSTANTS
  Producers,
  Component,        \* name components
  KITE_KEYWORD,
  Digest,           \* ParametersSha256DigestComponent, last in a signed Interest's name
  RvPrefix,
  ProducerSuffix,   \* producer's option prefixPairs[0].producerSuffix
  Lifetime,         \* producer's option lifetime, NoExpiration when not given
  NoExpiration,
  Skew,             \* a producer's clock minus the clock of the rendezvous
  Anchors,          \* producers whose certificates are trust anchors
  Grace,            \* timestampGracePeriod, gracePeriod
  MaxRecords,       \* maxRecordCount, maxRecords
  MaxNonces,        \* maxNonceRecordCount
  RecordLifetime,   \* of a command record
  Retries,          \* CertificateRequest::nRetriesLeft
  Slots,            \* bound: validations in progress at once
  MaxTime,          \* bound of the clock
  MaxRequests,      \* bound: Requests the producers send
  MaxAcks           \* bound: Acks the rendezvous sends

ASSUME NamesAssumption ==
  /\ KITE_KEYWORD \in Component /\ Digest \in Component \ {KITE_KEYWORD}
  /\ RvPrefix \in Seq(Component \ {KITE_KEYWORD}) /\ RvPrefix # <<>>
  /\ ProducerSuffix \in [Producers -> Seq(Component) \ {<<>>}]
  /\ Lifetime \in [Producers -> Nat \cup {NoExpiration}]

ASSUME ValidatorAssumption ==
  /\ Skew \in [Producers -> Int] /\ Anchors \subseteq Producers
  /\ Grace \in Nat /\ RecordLifetime \in Nat /\ Retries \in Nat
  /\ MaxRecords \in Nat \ {0} /\ MaxNonces \in Nat \ {0}

ASSUME BoundsAssumption == MaxTime \in Nat /\ MaxRequests \in Nat /\ MaxAcks \in Nat

VARIABLES
  clock,        \* system_clock and steady_clock of the rendezvous
  sent,         \* Requests signed so far; a Request's place is its nonce
  records,      \* m_container of ValidationPolicySignedInterest, least recently refreshed first
  commands,     \* m_queue of ValidationPolicyCommandInterest
  verified,     \* producers with a certificate in the verified cache
  unverified,   \* producers with a certificate in the unverified cache
  validating,   \* validation states that wait for a certificate, by slot
  log           \* history: Acks in the order they were sent

recordVars == <<records, commands>>
vars == <<clock, sent, recordVars, verified, unverified, validating, log>>

Request == [from : Producers, name : Seq(Component), time : Int,
            expiration : Nat \cup {NoExpiration}]
Nonce == 1..MaxRequests

\* Types.
TypeOK ==
  /\ clock \in 0..MaxTime
  /\ sent \in Seq(Request) /\ Len(sent) <= MaxRequests
  /\ records \in Seq([key : Producers, time : Int, nonces : Seq(Nonce)])
  /\ Len(records) <= MaxRecords
  /\ \A i \in DOMAIN records : Len(records[i].nonces) \in 1..MaxNonces
  /\ commands \in Seq([key : Producers, time : Int, refreshed : 0..MaxTime])
  /\ verified \subseteq Producers /\ unverified \subseteq Producers
  /\ DOMAIN validating \subseteq Slots
  /\ \A s \in DOMAIN validating :
       validating[s] \in [nonce : DOMAIN sent, left : 0..Retries, began : 0..MaxAcks]
  /\ log \in Seq([nonce : DOMAIN sent, began : 0..MaxAcks,
                  announced : Seq(Component), expiration : Nat])

Init ==
  /\ clock = 0
  /\ sent = <<>>
  /\ records = <<>> /\ commands = <<>>
  /\ verified = {} /\ unverified = {}
  /\ validating = [s \in {} |-> 0]
  /\ log = <<>>

----------------------------------------------------------------------------
(* Request and Ack *)

\* Mutant of KeywordPosition: the search runs from the end of the name.
LastKeywordPosition(name) ==
  CHOOSE i \in DOMAIN name :
    name[i] = KITE_KEYWORD /\ \A j \in DOMAIN name : name[j] = KITE_KEYWORD => j <= i

KeywordPosition(name) ==
  CHOOSE i \in DOMAIN name :
    name[i] = KITE_KEYWORD /\ \A j \in DOMAIN name : name[j] = KITE_KEYWORD => i <= j

\* extractPrefixes(name).second: what follows the keyword, without the digest.
Suffix(name) == SubSeq(name, KeywordPosition(name) + 1, Len(name) - 1)

MakeInterest(p) ==
  [from |-> p,
   name |-> Append(Append(RvPrefix, KITE_KEYWORD) \o ProducerSuffix[p], Digest),
   time |-> clock + Skew[p],
   expiration |-> Lifetime[p]]

\* sendKiteRequest makes a new InterestSigner each time, so two Requests of
\* one millisecond carry the same timestamp.
SendKiteRequest(p) ==
  /\ Len(sent) < MaxRequests
  /\ sent' = Append(sent, MakeInterest(p))
  /\ UNCHANGED <<clock, recordVars, verified, unverified, validating, log>>

----------------------------------------------------------------------------
(* The two policies that keep records *)

Elements(s) == {s[i] : i \in DOMAIN s}
RecordsOf(recs, key) == {rec \in Elements(recs) : rec.key = key}

WithinGrace(r) == clock - r.time <= Grace /\ r.time - clock <= Grace

\* Mutant of Newer: an equal timestamp passes.
NotOlder(n, rec) == sent[n].time >= rec.time

\* Neither policy takes a timestamp as old as the recorded one.
Newer(n, rec) == sent[n].time > rec.time

CheckIncomingInterest(n) ==
  /\ WithinGrace(sent[n])
  /\ \A rec \in RecordsOf(records, sent[n].from) :
       Newer(n, rec) /\ n \notin Elements(rec.nonces)

\* ValidationPolicyCommandInterest::cleanup: old records, then the excess.
Cleaned ==
  LET kept == {i \in DOMAIN commands : /\ commands[i].refreshed > clock - RecordLifetime
                                       /\ i > Len(commands) - MaxRecords}
  IN SubSeq(commands, Len(commands) - Cardinality(kept) + 1, Len(commands))

CheckTimestamp(n) ==
  /\ WithinGrace(sent[n])
  /\ \A rec \in RecordsOf(Cleaned, sent[n].from) : Newer(n, rec)

\* The records without the one of the key; a key has at most one.
OthersThan(recs, key) ==
  LET place == {i \in DOMAIN recs : recs[i].key = key}
      at == CHOOSE i \in place : TRUE
  IN IF place = {} THEN recs
     ELSE [i \in 1..(Len(recs) - 1) |-> IF i < at THEN recs[i] ELSE recs[i + 1]]

\* Mutant of Observed: the nonces of a record that exists are not kept.
ObservedOnly(n) == <<n>>

\* The nonce list of the key with n at its end, at most MaxNonces long.
Observed(n) ==
  LET old == UNION {{rec.nonces} : rec \in RecordsOf(records, sent[n].from)}
      list == IF old = {} THEN <<>> ELSE CHOOSE l \in old : TRUE
      new == IF n \in Elements(list) THEN list ELSE Append(list, n)
  IN IF Len(new) > MaxNonces THEN Tail(new) ELSE new

\* Mutant of Excess: one record too many is kept.
ExcessButOne(recs) == Len(recs) > MaxRecords + 1

Excess(recs) == Len(recs) > MaxRecords

\* insertRecord: the timestamp replaces the one recorded, whichever is later.
InsertRecord(n) ==
  LET recs == Append(OthersThan(records, sent[n].from),
                     [key |-> sent[n].from, time |-> sent[n].time, nonces |-> Observed(n)])
  IN records' = IF Excess(recs) THEN Tail(recs) ELSE recs

\* Mutant of Refreshed: a record that exists keeps its place in the queue.
RefreshedInPlace(cmds, rec) ==
  IF RecordsOf(cmds, rec.key) = {} THEN Append(cmds, rec)
  ELSE [i \in DOMAIN cmds |-> IF cmds[i].key = rec.key THEN rec ELSE cmds[i]]

\* insertNewRecord moves the record to the tail.
Refreshed(cmds, rec) == Append(OthersThan(cmds, rec.key), rec)

----------------------------------------------------------------------------
(* The rendezvous *)

\* Rv::onSuccess, then the records of both policies: afterSuccess calls its
\* handlers in the order they were connected.
Succeed(n, began, cmds) ==
  /\ Len(log) < MaxAcks
  /\ log' = Append(log, [nonce |-> n, began |-> began,
                         announced |-> Suffix(sent[n].name),
                         expiration |-> IF sent[n].expiration = NoExpiration THEN 1000
                                        ELSE sent[n].expiration])
  /\ InsertRecord(n)
  /\ commands' = Refreshed(cmds, [key |-> sent[n].from, time |-> sent[n].time,
                                  refreshed |-> clock])

\* A trust anchor, or a certificate that was verified before.
Trusted(p) == p \in Anchors \/ p \in verified

FetchCertificate(n) ==
  \E s \in Slots \ DOMAIN validating :
    /\ validating' = [t \in DOMAIN validating \cup {s} |->
                        IF t = s THEN [nonce |-> n, left |-> Retries, began |-> Len(log)]
                        ELSE validating[t]]
    /\ UNCHANGED <<unverified, verified>>

\* A certificate in the unverified cache goes through validation at once,
\* and to the verified cache with it.
Chained(p) ==
  /\ unverified' = unverified \cup {p}
  /\ verified' = verified \cup {p}

\* A copy of Request n arrives and the certificate is at hand.
OnInterestKnown(n) ==
  /\ CheckIncomingInterest(n)
  /\ CheckTimestamp(n)
  /\ Trusted(sent[n].from) \/ sent[n].from \in unverified
  /\ Succeed(n, Len(log), Cleaned)
  /\ IF Trusted(sent[n].from) THEN UNCHANGED <<verified, unverified>> ELSE Chained(sent[n].from)
  /\ UNCHANGED <<clock, sent, validating>>

\* A copy of Request n arrives and its certificate has to be fetched.
OnInterestUnknown(n) ==
  /\ CheckIncomingInterest(n)
  /\ CheckTimestamp(n)
  /\ ~Trusted(sent[n].from) /\ sent[n].from \notin unverified
  /\ FetchCertificate(n)
  /\ commands' = Cleaned
  /\ UNCHANGED <<clock, sent, records, log>>

Ended(s) == validating' = [t \in DOMAIN validating \ {s} |-> validating[t]]

\* dataCallback: the certificate comes, signed by a trust anchor.
CertificateFetched(s) ==
  /\ Succeed(validating[s].nonce, validating[s].began, commands)
  /\ Chained(sent[validating[s].nonce].from)
  /\ Ended(s)
  /\ UNCHANGED <<clock, sent>>

\* Mutant of OneLess: the retry is not counted.
AsMany(left) == left

OneLess(left) == left - 1

\* timeoutCallback or nackCallback, and tries are left: fetch looks into the
\* unverified cache before it asks again.
FetchAgain(s) ==
  LET v == validating[s]
      p == sent[v.nonce].from
  IN /\ v.left > 0
     /\ UNCHANGED <<clock, sent>>
     /\ IF p \in unverified
        THEN /\ Succeed(v.nonce, v.began, commands)
             /\ Chained(p)
             /\ Ended(s)
        ELSE /\ validating' = [validating EXCEPT ![s].left = OneLess(@)]
             /\ UNCHANGED <<recordVars, verified, unverified, log>>

\* The last try has failed: onFailure.
CannotRetrieve(s) ==
  /\ validating[s].left = 0
  /\ Ended(s)
  /\ UNCHANGED <<clock, sent, recordVars, verified, unverified, log>>

\* Certificates leave the caches after five minutes and after an hour.
CertificateExpires(p) ==
  /\ \/ p \in unverified /\ unverified' = unverified \ {p} /\ UNCHANGED verified
     \/ p \in verified /\ verified' = verified \ {p} /\ UNCHANGED unverified
  /\ UNCHANGED <<clock, sent, recordVars, validating, log>>

Tick ==
  /\ clock < MaxTime
  /\ clock' = clock + 1
  /\ UNCHANGED <<sent, recordVars, verified, unverified, validating, log>>

----------------------------------------------------------------------------

Next ==
  \/ Tick
  \/ \E p \in Producers : SendKiteRequest(p) \/ CertificateExpires(p)
  \/ \E n \in DOMAIN sent : OnInterestKnown(n) \/ OnInterestUnknown(n)
  \/ \E s \in DOMAIN validating :
       CertificateFetched(s) \/ FetchAgain(s) \/ CannotRetrieve(s)

\* The timer of an Interest for a certificate fires if no answer comes.
FetchTimeout(s) == s \in DOMAIN validating /\ (FetchAgain(s) \/ CannotRetrieve(s))

Spec == Init /\ [][Next]_vars /\ \A s \in Slots : WF_vars(FetchTimeout(s))

----------------------------------------------------------------------------
(* Properties *)

KeyOf(i) == sent[log[i].nonce].from

\* Acks between two places of the log that can have pushed the nonce or the
\* record of a key out.
PushedOut(key, i, j) ==
  \/ Cardinality({k \in (i + 1)..j : KeyOf(k) = key}) >= MaxNonces
  \/ Cardinality({KeyOf(k) : k \in (i + 1)..j} \ {key}) >= MaxRecords

\* A copy of a Request that arrives after the Request was acknowledged is not
\* acknowledged again (checkIncomingInterest), as long as the records hold
\* that long: validations that overlapped may have set the recorded timestamp
\* back, and then only the nonce tells the copy.  The time counts from the
\* acknowledgement that recorded the nonce: that one, or the one of another
\* copy that came while that one was being validated.
AckedOnce ==
  \A j \in DOMAIN log : \A i \in 1..log[j].began :
    log[i].nonce = log[j].nonce =>
      \E h \in (log[i].began + 1)..i :
        log[h].nonce = log[i].nonce /\ PushedOut(KeyOf(j), h, log[j].began)

\* An acknowledged Request is newer than the Request of its key that was
\* acknowledged last when it arrived, although certificates come late and in
\* any order and records are pushed out.
NewerThanLast ==
  \A j \in DOMAIN log : \A i \in 1..log[j].began :
    KeyOf(i) = KeyOf(j) =>
      \/ sent[log[i].nonce].time < sent[log[j].nonce].time
      \/ \E k \in (i + 1)..log[j].began : KeyOf(k) = KeyOf(j)
      \/ PushedOut(KeyOf(j), i, log[j].began)

\* The records of the two policies never part: what the outer policy has
\* forgotten the inner one forgets before it is asked, and both hold the same
\* timestamp, so the inner check never refuses what the outer one let through.
RecordsAgree ==
  \A n \in DOMAIN sent : CheckIncomingInterest(n) => CheckTimestamp(n)

\* The Ack announces exactly the name the producer was configured with, for
\* the time it asked for, also when that name contains the KITE keyword.
AnnouncesSender ==
  \A i \in DOMAIN log :
    /\ log[i].announced = ProducerSuffix[KeyOf(i)]
    /\ Lifetime[KeyOf(i)] # NoExpiration => log[i].expiration = Lifetime[KeyOf(i)]

\* Every validation ends, by success or failure, whatever the network does
\* with the Interests for certificates.
ValidationsEnd ==
  \A s \in Slots : (s \in DOMAIN validating /\ Len(log) < MaxAcks)
                     ~> (s \notin DOMAIN validating \/ Len(log) = MaxAcks)

\* ndn-cxx/security/validation-policy-signed-interest.hpp:56 says the policy
\* ensures that timestamps "are not reordered for a given public key": the
\* Requests of a key are acknowledged in the order of their timestamps.
NotReordered ==
  \A j \in DOMAIN log : \A i \in 1..(j - 1) :
    KeyOf(i) = KeyOf(j) => sent[log[i].nonce].time < sent[log[j].nonce].time

\* ndn-cxx/security/interest-signer.hpp:81 says the timestamp is unique.
TimestampsUnique ==
  \A i, j \in DOMAIN sent :
    i # j /\ sent[i].from = sent[j].from => sent[i].time # sent[j].time
=============================================================================
