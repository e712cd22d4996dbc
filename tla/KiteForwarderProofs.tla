------------------------ MODULE KiteForwarderProofs ------------------------
(* Proofs about KiteForwarder, for every value of its constants. *)
EXTENDS KiteForwarder, TLAPS

-----------------------------------------------------------------------------
(* Partial functions                                                        *)

\* The empty function is a partial function of any type.
LEMMA EmptyPartial == ASSUME NEW S, NEW T PROVE IsPartialFn(EmptyFn, S, T)
  BY DEF IsPartialFn, EmptyFn

\* Put adds an argument or replaces its value, within the type.
LEMMA PutPartial ==
  ASSUME NEW S, NEW T, NEW fn, IsPartialFn(fn, S, T), NEW x \in S, NEW v \in T
  PROVE  IsPartialFn(Put(fn, x, v), S, T)
  BY DEF IsPartialFn, Put

\* Without only takes arguments away.
LEMMA WithoutPartial ==
  ASSUME NEW S, NEW T, NEW fn, IsPartialFn(fn, S, T), NEW R
  PROVE  IsPartialFn(Without(fn, R), S, T)
  BY DEF IsPartialFn, Without

-----------------------------------------------------------------------------
(* PIT entries                                                              *)

\* The entry that Pit::insert makes is well formed.
LEMMA NewEntryType ==
  ASSUME NEW z \in Nonce, NEW h \in BOOLEAN PROVE IsEntry(NewEntry(z, h))
  BY EmptyPartial DEF NewEntry, IsEntry

\* insertOrUpdateInRecord returns an entry.
LEMMA InsertInRecordType ==
  ASSUME NEW e, IsEntry(e), NEW f \in Face, NEW z \in Nonce
  PROVE  IsEntry(insertOrUpdateInRecord(e, f, z))
  <1> DEFINE rec == [nonce |-> z, old |-> FALSE,
                     stage |-> IF f \in DOMAIN e.in THEN e.in[f].stage ELSE "none"]
  <1>1. rec \in InRecord
    BY DEF IsEntry, IsPartialFn, InRecord, Stage
  <1>2. IsPartialFn(Put(e.in, f, rec), Face, InRecord)
    BY <1>1, PutPartial DEF IsEntry
  <1> HIDE DEF rec
  <1>3. IsEntry([e EXCEPT !.in = Put(e.in, f, rec)])
    BY <1>2 DEF IsEntry
  <1> QED BY <1>3 DEF insertOrUpdateInRecord, rec

\* An out-record made or renewed by the outgoing pipeline is well formed.
LEMMA RenewedOutRecordType ==
  ASSUME NEW e, IsEntry(e), NEW g, NEW z \in Nonce, NEW p \in Prefix \cup {NoPrefix}
  PROVE  RenewedOutRecord(e, g, z, p) \in OutRecord
  BY DEF RenewedOutRecord, OutRecord, IsEntry, IsPartialFn

\* sendInterest returns an entry.
LEMMA SendInterestType ==
  ASSUME NEW e, IsEntry(e), NEW G \in SUBSET Face, NEW z \in Nonce,
         NEW h \in BOOLEAN, NEW p \in Prefix \cup {NoPrefix}
  PROVE  IsEntry(sendInterest(e, G, z, h, p))
  <1> DEFINE sent == Sendable(G, h)
             out == [g \in DOMAIN e.out \cup sent |->
                       IF g \in sent THEN RenewedOutRecord(e, g, z, p) ELSE e.out[g]]
  <1>1. sent \subseteq Face
    BY DEF Sendable
  <1>2. \A g \in DOMAIN out : out[g] \in OutRecord
    BY RenewedOutRecordType DEF IsEntry, IsPartialFn
  <1>3. IsPartialFn(out, Face, OutRecord)
    BY <1>1, <1>2 DEF IsEntry, IsPartialFn
  <1> HIDE DEF sent, out
  <1>4. IsEntry([e EXCEPT !.out = out])
    BY <1>3 DEF IsEntry
  <1> QED BY <1>4 DEF sendInterest, out, sent

\* sendNack, which takes in-records away, returns an entry.
LEMMA SendNackType ==
  ASSUME NEW e, IsEntry(e), NEW F PROVE IsEntry(sendNack(e, F))
  BY WithoutPartial DEF IsEntry, sendNack

\* setExpiryTimer returns an entry.
LEMMA SetExpiryTimerType ==
  ASSUME NEW e, IsEntry(e), NEW t \in {"running", "now"}
  PROVE  IsEntry(setExpiryTimer(e, t))
  BY DEF IsEntry, setExpiryTimer

\* So does the assignment to isSatisfied.
LEMMA SetSatisfiedType ==
  ASSUME NEW e, IsEntry(e), NEW b \in BOOLEAN PROVE IsEntry([e EXCEPT !.satisfied = b])
  BY DEF IsEntry

\* Data leaves an entry, with a single match and with several.
LEMMA SatisfiedEntryType ==
  ASSUME NEW e, IsEntry(e), NEW f, NEW single \in BOOLEAN
  PROVE  IsEntry(SatisfiedEntry(e, f, single))
  <1> DEFINE left == IF single
                     THEN Without(e.in, {g \in DOMAIN e.in :
                            ~e.in[g].old /\ (g # f \/ g \in AdHocFace)})
                     ELSE EmptyFn
             out == Without(e.out, {f})
  <1>1. IsPartialFn(left, Face, InRecord)
    BY WithoutPartial, EmptyPartial DEF IsEntry
  <1>2. IsPartialFn(out, Face, OutRecord)
    BY WithoutPartial DEF IsEntry
  <1> HIDE DEF left, out
  <1>3. IsEntry([in |-> left, out |-> out, nonce |-> e.nonce, hopZero |-> e.hopZero,
                 satisfied |-> TRUE, timer |-> "now"])
    BY <1>1, <1>2 DEF IsEntry
  <1> QED BY <1>3 DEF SatisfiedEntry, left, out

\* A Nack stored in an out-record leaves an entry.
LEMMA NackedEntryType ==
  ASSUME NEW k, k \in DOMAIN pit, IsEntry(pit[k]), NEW f, f \in DOMAIN pit[k].out
  PROVE  IsEntry(NackedEntry(k, f))
  <1> DEFINE o == pit[k].out
             o1 == [o EXCEPT ![f].nacked = TRUE, ![f].await = FALSE]
  <1>1. IsPartialFn(o1, Face, OutRecord)
    BY DEF IsEntry, IsPartialFn, OutRecord
  <1>2. NackedEntry(k, f) = [pit[k] EXCEPT !.out = o1]
    BY DEF NackedEntry, IsEntry, IsPartialFn
  <1> HIDE DEF o1
  <1> QED BY <1>1, <1>2 DEF IsEntry

\* The strategy's status of an in-record may be any stage.
LEMMA StageType ==
  ASSUME NEW e, IsEntry(e), NEW d, d \in DOMAIN e.in, NEW s \in Stage
  PROVE  IsEntry([e EXCEPT !.in[d].stage = s])
  <1> DEFINE i1 == [e.in EXCEPT ![d].stage = s]
  <1>1. IsPartialFn(i1, Face, InRecord)
    BY DEF IsEntry, IsPartialFn, InRecord
  <1>2. [e EXCEPT !.in[d].stage = s] = [e EXCEPT !.in = i1]
    BY DEF IsEntry, IsPartialFn
  <1> HIDE DEF i1
  <1> QED BY <1>1, <1>2 DEF IsEntry

\* The records of a removed face are taken out of an entry.
LEMMA WithoutEntryType ==
  ASSUME NEW e, IsEntry(e), NEW R
  PROVE  IsEntry([e EXCEPT !.in = Without(e.in, R), !.out = Without(e.out, R)])
  <1> DEFINE i1 == Without(e.in, R)
             o1 == Without(e.out, R)
             e1 == [e EXCEPT !.in = i1]
  <1>1. IsPartialFn(i1, Face, InRecord) /\ IsPartialFn(o1, Face, OutRecord)
    BY WithoutPartial DEF IsEntry
  <1> HIDE DEF i1, o1
  <1>2. IsEntry(e1)
    BY <1>1 DEF IsEntry
  <1>3. [e EXCEPT !.in = i1, !.out = o1] = [e1 EXCEPT !.out = o1]
    BY DEF IsEntry
  <1>4. IsEntry([e1 EXCEPT !.out = o1])
    <2> HIDE DEF e1
    <2> QED BY <1>1, <1>2 DEF IsEntry
  <1> QED BY <1>3, <1>4 DEF i1, o1

\* The nexthops of dealNack are faces.
LEMMA RvHopsType ==
  ASSUME NEW e PROVE RvHops(e) \subseteq Face
  BY FacesAssumption, NamesAssumption
  DEF RvHops, NextHops, findLongestPrefixMatch, Prefix

\* An entry sent again through the rendezvous server is one.
LEMMA RetryViaRvType ==
  ASSUME NEW e, IsEntry(e), NEW d, d \in DOMAIN e.in
  PROVE  IsEntry(RetryViaRv(e, d))
  <1>1. IsEntry([e EXCEPT !.in[d].stage = "rv"])
    BY StageType DEF Stage
  <1> QED BY <1>1, SendInterestType, RvHopsType DEF RetryViaRv, IsEntry

\* An entry whose downstreams were Nacked is one.
LEMMA NackDownstreamsType ==
  ASSUME NEW e, IsEntry(e), NEW D PROVE IsEntry(NackDownstreams(e, D))
  <1> DEFINE i1 == [d \in DOMAIN e.in |->
                      IF d \in D /\ e.in[d].stage = "straight"
                      THEN [e.in[d] EXCEPT !.stage = "rv"] ELSE e.in[d]]
  <1>1. IsPartialFn(i1, Face, InRecord)
    BY DEF IsEntry, IsPartialFn, InRecord, Stage
  <1>2. IsEntry([e EXCEPT !.in = i1])
    <2> HIDE DEF i1
    <2> QED BY <1>1 DEF IsEntry
  <1> QED BY <1>2, SendNackType DEF NackDownstreams

\* Pit::insert finds or makes an entry.
LEMMA PitInsertType ==
  ASSUME IsPit(pit), NEW k \in Key, NEW z \in Nonce, NEW h \in BOOLEAN
  PROVE  IsEntry(PitInsert(k, z, h))
  BY NewEntryType DEF PitInsert, IsPit

\* The entry as the strategy gets it is well formed.
LEMMA AcceptedType ==
  ASSUME IsPit(pit), NEW k \in Key, NEW f \in Face, NEW z \in Nonce, NEW h \in BOOLEAN
  PROVE  IsEntry(Accepted(k, f, z, h))
  BY PitInsertType, InsertInRecordType, SetExpiryTimerType DEF Accepted

\* An entry put into the PIT leaves a PIT,
LEMMA PutPit ==
  ASSUME NEW t, IsPit(t), NEW k \in Key, NEW e, IsEntry(e) PROVE IsPit(Put(t, k, e))
  BY DEF IsPit, Put

\* and so does one changed in place,
LEMMA ExceptPit ==
  ASSUME NEW t, IsPit(t), NEW k \in DOMAIN t, NEW e, IsEntry(e)
  PROVE  IsPit([t EXCEPT ![k] = e])
  BY DEF IsPit

\* and entries taken out.
LEMMA WithoutPit ==
  ASSUME NEW t, IsPit(t), NEW R PROVE IsPit(Without(t, R))
  BY DEF IsPit, Without

-----------------------------------------------------------------------------
(* Measurements                                                             *)

\* A record put into the measurements table leaves a table,
LEMMA PutMeasurements ==
  ASSUME NEW t, IsMeasurements(t), NEW q \in Prefix, NEW i, IsMobileProducerInfo(i)
  PROVE  IsMeasurements(Put(t, q, i))
  BY DEF IsMeasurements, Put

\* and so do records taken out.
LEMMA WithoutMeasurements ==
  ASSUME NEW t, IsMeasurements(t), NEW R PROVE IsMeasurements(Without(t, R))
  BY DEF IsMeasurements, Without

\* The slots of a producer's record may be any partial function of names.
LEMMA PitEntrysType ==
  ASSUME NEW i, IsMobileProducerInfo(i), NEW s, IsPartialFn(s, Name, Key \cup {Stale})
  PROVE  IsMobileProducerInfo([i EXCEPT !.pitEntrys = s])
  BY DEF IsMobileProducerInfo

\* The slots of PIT entries that are gone are stale, not missing.
LEMMA EraseMeasurementType ==
  ASSUME NEW t, IsMeasurements(t), NEW N PROVE IsMeasurements(eraseMeasurement(t, N))
  <1>1. \A q \in DOMAIN t :
          IsMobileProducerInfo([t[q] EXCEPT !.pitEntrys = Without(t[q].pitEntrys, N[q])])
    BY WithoutPartial, PitEntrysType DEF IsMeasurements, IsMobileProducerInfo
  <1> QED BY <1>1 DEF IsMeasurements, eraseMeasurement

\* An Interest recorded as pending leaves a measurements table.
LEMMA RecordPendingType ==
  ASSUME IsMeasurements(mpInfo), NEW q \in Prefix, NEW k \in Key
  PROVE  IsMeasurements(RecordPending(q, k))
  <1> DEFINE info == IF q \in DOMAIN mpInfo THEN mpInfo[q]
                     ELSE [faceIds |-> {}, pitEntrys |-> EmptyFn]
             nm == NameOf[k]
  <1>1. nm \in Name
    BY NamesAssumption
  <1>2. IsMobileProducerInfo(info)
    BY EmptyPartial DEF IsMeasurements, IsMobileProducerInfo
  <1> HIDE DEF info, nm
  <1>3. IsMobileProducerInfo([info EXCEPT !.pitEntrys = Put(info.pitEntrys, nm, k)])
    BY <1>1, <1>2, PutPartial, PitEntrysType DEF IsMobileProducerInfo
  <1>4. IsMobileProducerInfo(IF nm \in DOMAIN info.pitEntrys THEN info
                ELSE [info EXCEPT !.pitEntrys = Put(info.pitEntrys, nm, k)])
    BY <1>2, <1>3
  <1> QED BY <1>4, PutMeasurements DEF RecordPending, info, nm

\* removePrefix leaves a measurements table.
LEMMA InfoWithoutFaceType ==
  ASSUME IsMeasurements(mpInfo), NEW q, NEW f
  PROVE  IsMeasurements(InfoWithoutFace(q, f))
  <1>1. \A i : IsMobileProducerInfo(i)
                 => IsMobileProducerInfo([i EXCEPT !.faceIds = @ \ {f}])
    BY DEF IsMobileProducerInfo
  <1> QED BY <1>1 DEF IsMeasurements, InfoWithoutFace

-----------------------------------------------------------------------------
(* Type correctness                                                         *)

\* Nexthops are faces.
LEMMA EligibleType ==
  ASSUME TypeOK, NEW f, NEW p PROVE Eligible(f, p) \subseteq Face
  BY DEF Eligible, NextHops, TypeOK

\* The FIB entry found for an Interest has a prefix.
LEMMA LongestPrefixType ==
  ASSUME NEW k \in Key PROVE findLongestPrefixMatch(PrefixOf[k]) \in Prefix
  BY NamesAssumption DEF findLongestPrefixMatch, Prefix

\* An Interest that arrives leaves a natural number of Interests to come.
LEMMA BudgetType ==
  ASSUME TypeOK, NEW k \in Key, NEW f, NEW h, Arrives(k, f, h) PROVE budget' \in [Key -> Nat]
  BY DEF TypeOK, Arrives

\* What finalization and Data put into the Dead Nonce List is names with nonces.
LEMMA DeadNoncesType ==
  ASSUME TypeOK, NEW M, M \subseteq DOMAIN pit, NEW f
  PROVE  DeadNoncesOfData(M, f) \subseteq Name \X Nonce
  <1>1. ASSUME NEW k \in M, f \in DOMAIN pit[k].out
        PROVE  NameOf[k] \in Name /\ pit[k].out[f].nonce \in Nonce
    <2>1. k \in Key /\ IsEntry(pit[k])
      BY DEF TypeOK, IsPit
    <2> QED BY <1>1, <2>1, NamesAssumption DEF IsEntry, IsPartialFn, OutRecord
  <1>2. SUFFICES ASSUME NEW x \in DeadNoncesOfData(M, f) PROVE x \in Name \X Nonce
    OBVIOUS
  <1>3. PICK k \in M : f \in DOMAIN pit[k].out /\ x = <<NameOf[k], pit[k].out[f].nonce>>
    BY DEF DeadNoncesOfData
  <1> QED BY <1>1, <1>3

\* Data changes Content Store and Dead Nonce List within their types.
LEMMA DataArrivesType ==
  ASSUME TypeOK, NEW d \in Pkt, NEW f \in Face, DataArrives(d, f)
  PROVE  cs' \subseteq Pkt /\ evicted' \subseteq Pkt /\ dnl' \subseteq Name \X Nonce
  <1>1. DeadNoncesOfData(findAllDataMatches(d), f) \subseteq Name \X Nonce
    BY DeadNoncesType DEF findAllDataMatches
  <1> QED BY <1>1 DEF TypeOK, DataArrives

\* A task posted to the RIB thread is a task.
LEMMA AppendTask ==
  ASSUME TypeOK, NEW o \in {"slAnnounce", "slRenew"}, NEW p \in Prefix, NEW F \in SUBSET Face
  PROVE  Append(ribTasks, [op |-> o, prefix |-> p, faces |-> F]) \in Seq(Task)
  BY DEF TypeOK, Task

\* The status of an out-record is a prefix or none.
LEMMA OutMpType ==
  ASSUME TypeOK, NEW k \in DOMAIN pit, NEW f \in DOMAIN pit[k].out
  PROVE  pit[k].out[f].mp \in Prefix \cup {NoPrefix}
  BY DEF TypeOK, IsPit, IsEntry, IsPartialFn, OutRecord

\* removePrefix posts a task, or nothing.
LEMMA RemovePrefixType ==
  ASSUME TypeOK, NEW k \in DOMAIN pit, NEW f \in Face, f \in DOMAIN pit[k].out,
         RemovePrefix(pit[k].out[f].mp, f)
  PROVE  ribTasks' \in Seq(Task)
  <1>1. pit[k].out[f].mp \in Prefix \cup {NoPrefix}
    BY OutMpType
  <1>2. CASE pit[k].out[f].mp = NoPrefix
    BY <1>2 DEF RemovePrefix, TypeOK
  <1>3. CASE pit[k].out[f].mp # NoPrefix
    BY <1>1, <1>3, AppendTask DEF RemovePrefix
  <1> QED BY <1>2, <1>3

\* onIncomingNack leaves a PIT.
LEMMA AfterNackType ==
  ASSUME IsPit(pit), NEW k \in DOMAIN pit, NEW e, IsEntry(e), NEW F, AfterNack(k, e, F)
  PROVE  IsPit(pit')
  BY ExceptPit, SetExpiryTimerType DEF AfterNack

\* Every variable keeps its type: whatever the neighbours send, whatever the
\* timers and the RIB thread do.
THEOREM TypeCorrect == Spec => []TypeOK
<1>1. Init => TypeOK
  BY BoundsAssumption DEF Init, TypeOK, IsPit, IsMeasurements, EmptyFn, Task
<1>2. TypeOK /\ [Next]_vars => TypeOK'
  <2> SUFFICES ASSUME TypeOK, [Next]_vars PROVE TypeOK'
    OBVIOUS
  <2>1. ASSUME NEW k \in Key, NEW f \in Face, NEW z \in Nonce, InterestLoop(k, f, z)
        PROVE  TypeOK'
    BY <2>1, BudgetType DEF InterestLoop, TypeOK
  <2>2. ASSUME NEW k \in Key, NEW f \in Face, NEW z \in Nonce, NEW h \in BOOLEAN,
               ContentStoreHit(k, f, z, h)
        PROVE  TypeOK'
    <3>1. IsEntry([PitInsert(k, z, h) EXCEPT !.satisfied = TRUE])
      BY SetSatisfiedType, PitInsertType DEF TypeOK
    <3>2. IsPit(pit')
      BY <2>2, <3>1, SetExpiryTimerType, PutPit DEF ContentStoreHit, TypeOK
    <3> QED BY <2>2, <3>2, BudgetType DEF ContentStoreHit, TypeOK
  <2>3. ASSUME NEW k \in Key, NEW f \in Face, NEW z \in Nonce, NEW h \in BOOLEAN,
               ForwardStraight(k, f, z, h)
        PROVE  TypeOK'
    <3> DEFINE q == findLongestPrefixMatch(PrefixOf[k])
               G == Eligible(f, PrefixOf[k])
               a == Accepted(k, f, z, h)
               e == sendInterest(a, G, z, h, q)
    <3>1. q \in Prefix /\ G \subseteq Face
      BY LongestPrefixType, EligibleType
    <3>2. IsEntry(a) /\ f \in DOMAIN a.in
      <4>1. IsEntry(a)
        BY AcceptedType DEF TypeOK
      <4>2. f \in DOMAIN a.in
        <5>1. IsEntry(PitInsert(k, z, h))
          BY PitInsertType DEF TypeOK
        <5> QED BY <5>1, InsertInRecordType
                DEF Accepted, setExpiryTimer, insertOrUpdateInRecord, IsEntry, Put
      <4> QED BY <4>1, <4>2
    <3>3. IsEntry(e) /\ e.in = a.in
      <4> HIDE DEF q, G, a
      <4>1. IsEntry(e)
        BY <3>1, <3>2, SendInterestType
      <4>2. e.in = a.in
        BY <3>2 DEF sendInterest, IsEntry
      <4> QED BY <4>1, <4>2
    <3>4. IsPit(pit')
      <4>1. pit' = Put(pit, k, [e EXCEPT !.in[f].stage = "straight"])
        BY <2>3 DEF ForwardStraight
      <4>2. IsEntry([e EXCEPT !.in[f].stage = "straight"])
        <5> HIDE DEF e, a
        <5> QED BY <3>2, <3>3, StageType DEF Stage
      <4> QED BY <4>1, <4>2, PutPit DEF TypeOK
    <3>5. IsMeasurements(mpInfo')
      BY <2>3, <3>1, RecordPendingType DEF ForwardStraight, TypeOK
    <3> QED BY <2>3, <3>4, <3>5, BudgetType DEF ForwardStraight, Misses, TypeOK
  <2>4. ASSUME NEW k \in Key, NEW f \in Face, NEW z \in Nonce, NEW h \in BOOLEAN,
               ForwardStraightFault(k, f, z, h)
        PROVE  TypeOK'
    BY <2>4, BudgetType DEF ForwardStraightFault, Misses, TypeOK
  <2>5. ASSUME NEW k \in Key, NEW f \in Face, NEW z \in Nonce, NEW h \in BOOLEAN,
               ForwardToRv(k, f, z, h) \/ ForwardPlain(k, f, z, h)
        PROVE  TypeOK'
    <3>1. ASSUME NEW p
          PROVE  IsEntry(sendInterest(Accepted(k, f, z, h), Eligible(f, p), z, h, NoPrefix))
      <4>1. IsEntry(Accepted(k, f, z, h))
        BY AcceptedType DEF TypeOK
      <4> QED BY <4>1, EligibleType, SendInterestType
    <3>2. IsPit(pit')
      <4>1. PICK p : pit' = Put(pit, k,
              sendInterest(Accepted(k, f, z, h), Eligible(f, p), z, h, NoPrefix))
        BY <2>5 DEF ForwardToRv, ForwardPlain
      <4> QED BY <3>1, <4>1, PutPit DEF TypeOK
    <3> QED BY <2>5, <3>2, BudgetType DEF ForwardToRv, ForwardPlain, Misses, TypeOK
  <2>6. ASSUME NEW k \in Key, NEW f \in Face, NEW z \in Nonce, NEW h \in BOOLEAN,
               NEW hint \in BOOLEAN, RejectInterest(k, f, z, hint, h)
        PROVE  TypeOK'
    <3>1. IsPit(pit')
      BY <2>6, AcceptedType, SendNackType, SetExpiryTimerType, PutPit
      DEF RejectInterest, TypeOK
    <3> QED BY <2>6, <3>1, BudgetType DEF RejectInterest, Misses, TypeOK
  <2>7. ASSUME NEW d \in Pkt, NEW f \in Face, IncomingData(d, f)
        PROVE  TypeOK'
    <3>1. IsPit(pit')
      BY <2>7, SatisfiedEntryType DEF IncomingData, TypeOK, IsPit
    <3>2. IsMeasurements(mpInfo')
      BY <2>7, EraseMeasurementType DEF IncomingData, TypeOK
    <3> QED BY <2>7, <3>1, <3>2, DataArrivesType DEF IncomingData, TypeOK
  <2>8. ASSUME NEW d \in Pkt, NEW f \in Face, IncomingAck(d, f)
        PROVE  TypeOK'
    <3> DEFINE M == findAllDataMatches(d)
               p == Announces[d]
               G == NewMpFaces(p, M)
    <3>1. p \in Mp /\ p \in Prefix
      BY <2>8, PacketsAssumption DEF IncomingAck, Prefix
    <3>2. AckFaces(M) \subseteq Face /\ G \subseteq Face
      BY DEF AckFaces, NewMpFaces
    <3>3. \A k \in DOMAIN pit :
            IsEntry(sendInterest(pit[k], G, pit[k].nonce, pit[k].hopZero, NoPrefix))
      BY <3>2, SendInterestType DEF TypeOK, IsPit, IsEntry
    <3>4. IsPit(pit')
      <4> HIDE DEF G, M, p
      <4>1. pit' = [k \in DOMAIN pit |->
              IF k \in M THEN SatisfiedEntry(pit[k], f, M = {k})
              ELSE IF k \in Recorded(p)
              THEN sendInterest(pit[k], G, pit[k].nonce, pit[k].hopZero, NoPrefix)
              ELSE pit[k]]
        BY <2>8 DEF IncomingAck, G, M, p
      <4> QED BY <4>1, <3>3, SatisfiedEntryType DEF TypeOK, IsPit
    <3>5. IsMeasurements(mpInfo')
      <4>1. \A i : IsMobileProducerInfo(i)
                     => IsMobileProducerInfo([i EXCEPT !.faceIds = @ \cup AckFaces(M)])
        BY <3>2 DEF IsMobileProducerInfo
      <4> HIDE DEF M, p
      <4> QED BY <2>8, <4>1 DEF IncomingAck, TypeOK, IsMeasurements, M, p
    <3>6. ribTasks' \in Seq(Task)
      BY <2>8, <3>1, <3>2, AppendTask DEF IncomingAck, TypeOK
    <3> QED BY <2>8, <3>4, <3>5, <3>6, DataArrivesType DEF IncomingAck, TypeOK
  <2>9. ASSUME NEW k \in Key, NEW f \in Face,
               NackWait(k, f) \/ NackRetry(k, f) \/ NackReturn(k, f)
        PROVE  TypeOK'
    <3> DEFINE e == NackedEntry(k, f)
               q == pit[k].out[f].mp
    <3>1. k \in DOMAIN pit /\ f \in DOMAIN pit[k].out
      BY <2>9 DEF NackWait, NackRetry, NackReturn, NackArrives
    <3>2. IsEntry(e)
      BY <3>1, NackedEntryType DEF TypeOK, IsPit
    <3>3. ribTasks' \in Seq(Task)
      BY <2>9, <3>1, RemovePrefixType DEF NackWait, NackRetry, NackReturn
    <3>4. IsPit(pit')
      <4>1. CASE NackWait(k, f)
        BY <4>1, <3>1, <3>2, AfterNackType DEF NackWait, TypeOK
      <4>2. CASE NackRetry(k, f)
        <5>1. PICK d \in NackTo(e) : AfterNack(k, RetryViaRv(e, d), RvHops(e))
          BY <4>2 DEF NackRetry
        <5>2. d \in DOMAIN e.in
          BY DEF NackTo
        <5> HIDE DEF e
        <5> QED BY <5>1, <5>2, <3>1, <3>2, RetryViaRvType, AfterNackType DEF TypeOK
      <4>3. CASE NackReturn(k, f)
        BY <4>3, <3>1, <3>2, NackDownstreamsType, AfterNackType DEF NackReturn, TypeOK
      <4> QED BY <2>9, <4>1, <4>2, <4>3
    <3>5. IsMeasurements(mpInfo')
      BY <2>9, InfoWithoutFaceType, EraseMeasurementType
      DEF NackWait, NackRetry, NackReturn, TypeOK
    <3> QED BY <2>9, <3>3, <3>4, <3>5 DEF NackWait, NackRetry, NackReturn, TypeOK
  <2>10. ASSUME NEW k \in Key, InterestFinalize(k)
         PROVE  TypeOK'
    <3>1. dnl' \subseteq Name \X Nonce
      <4>1. {<<NameOf[k], pit[k].out[g].nonce>> : g \in DOMAIN pit[k].out}
              \subseteq Name \X Nonce
        BY <2>10, NamesAssumption
        DEF InterestFinalize, TypeOK, IsPit, IsEntry, IsPartialFn, OutRecord
      <4> QED BY <2>10, <4>1 DEF InterestFinalize, TypeOK
    <3>2. IsPit(pit')
      BY <2>10, WithoutPit DEF InterestFinalize, TypeOK
    <3>3. IsMeasurements(mpInfo')
      <4> DEFINE s(q) == [nm \in DOMAIN mpInfo[q].pitEntrys |->
                            IF mpInfo[q].pitEntrys[nm] = k THEN Stale
                            ELSE mpInfo[q].pitEntrys[nm]]
      <4>1. \A q \in DOMAIN mpInfo : IsPartialFn(s(q), Name, Key \cup {Stale})
        BY DEF TypeOK, IsMeasurements, IsMobileProducerInfo, IsPartialFn
      <4>2. mpInfo' = [q \in DOMAIN mpInfo |-> [mpInfo[q] EXCEPT !.pitEntrys = s(q)]]
        BY <2>10 DEF InterestFinalize
      <4> HIDE DEF s
      <4> QED BY <4>1, <4>2, PitEntrysType DEF TypeOK, IsMeasurements
    <3> QED BY <2>10, <3>1, <3>2, <3>3 DEF InterestFinalize, TypeOK
  <2>11. ASSUME NEW k \in Key, NEW f \in Face, ExpireInRecord(k, f)
         PROVE  TypeOK'
    <3> DEFINE e == pit[k]
               i1 == [e.in EXCEPT ![f].old = TRUE]
    <3>1. k \in DOMAIN pit /\ f \in DOMAIN e.in /\ IsEntry(e)
      BY <2>11 DEF ExpireInRecord, TypeOK, IsPit
    <3>2. IsPartialFn(i1, Face, InRecord)
      BY <3>1 DEF IsEntry, IsPartialFn, InRecord
    <3>3. pit' = [pit EXCEPT ![k] = [e EXCEPT !.in = i1]]
      BY <2>11, <3>1 DEF ExpireInRecord, IsEntry, IsPartialFn, TypeOK, IsPit
    <3> HIDE DEF i1, e
    <3>4. IsEntry([e EXCEPT !.in = i1])
      BY <3>1, <3>2 DEF IsEntry
    <3>5. IsPit(pit')
      BY <3>1, <3>3, <3>4, ExceptPit DEF TypeOK
    <3> QED BY <2>11, <3>5 DEF ExpireInRecord, TypeOK
  <2>12. ASSUME NEW p \in Prefix, ExpireMeasurement(p)
         PROVE  TypeOK'
    BY <2>12, WithoutMeasurements DEF ExpireMeasurement, TypeOK
  <2>13. ASSUME NEW f \in Face, FaceRemoved(f)
         PROVE  TypeOK'
    <3>1. \A k \in DOMAIN pit :
            IsEntry([pit[k] EXCEPT !.in = Without(pit[k].in, {f}),
                                   !.out = Without(pit[k].out, {f})])
      BY WithoutEntryType DEF TypeOK, IsPit
    <3>2. IsPit(pit')
      BY <2>13, <3>1 DEF FaceRemoved, TypeOK, IsPit
    <3> QED BY <2>13, <3>2 DEF FaceRemoved, TypeOK
  <2>14. ASSUME RunSlAnnounce PROVE TypeOK'
    <3>1. validating' \in [Mp \X Face -> Nat]
      BY <2>14 DEF RunSlAnnounce, TypeOK
    <3>2. ribTasks' \in Seq(Task)
      BY <2>14 DEF RunSlAnnounce, TypeOK
    <3> QED BY <2>14, <3>1, <3>2 DEF RunSlAnnounce, TypeOK
  <2>15. ASSUME RunSlRenew PROVE TypeOK'
    <3>1. ribTasks' \in Seq(Task)
      BY <2>15 DEF RunSlRenew, TypeOK
    <3> QED BY <2>15, <3>1 DEF RunSlRenew, TypeOK
  <2>16. ASSUME NEW p \in Mp, NEW f \in Face, NEW v \in BOOLEAN,
                AnnouncementValidated(p, f, v)
         PROVE  TypeOK'
    BY <2>16 DEF AnnouncementValidated, TypeOK
  <2>17. ASSUME NEW p \in Mp, NEW f \in Face, RouteExpires(p, f)
         PROVE  TypeOK'
    BY <2>17 DEF RouteExpires, TypeOK
  <2>18. CASE UNCHANGED vars
    BY <2>18 DEF vars, TypeOK
  <2>19. ASSUME NEW d \in Pkt, CsEvict(d) PROVE TypeOK'
    BY <2>19 DEF CsEvict, TypeOK
  <2> QED
    BY <2>1, <2>2, <2>3, <2>4, <2>5, <2>6, <2>7, <2>8, <2>9, <2>10, <2>11, <2>12,
       <2>13, <2>14, <2>15, <2>16, <2>17, <2>18, <2>19
    DEF Next, ReceiveInterest, ReceiveData, ReceiveNack, Timers, RibThread
<1> QED BY <1>1, <1>2, PTL DEF Spec

-----------------------------------------------------------------------------
(* PendingHasUpstream                                                       *)

\* An upstream owes an answer.
Awaits(e) == \E g \in DOMAIN e.out : e.out[g].await

\* sendInterest leaves in-records, hop limit and timer alone.
LEMMA SendInterestKeeps ==
  ASSUME NEW e, IsEntry(e), NEW G \in SUBSET Face, NEW z \in Nonce, NEW h \in BOOLEAN,
         NEW p \in Prefix \cup {NoPrefix}, NEW s, s = sendInterest(e, G, z, h, p)
  PROVE  s.in = e.in /\ s.hopZero = e.hopZero /\ s.timer = e.timer
  BY DEF sendInterest, IsEntry

\* An Interest sent is awaited: nobody stops waiting, and somebody waits when it had a
\* nexthop and hops left.
LEMMA SendInterestAwaits ==
  ASSUME NEW e, IsEntry(e), NEW G \in SUBSET Face, NEW z \in Nonce, NEW h \in BOOLEAN,
         NEW p \in Prefix \cup {NoPrefix}, NEW s, s = sendInterest(e, G, z, h, p)
  PROVE  /\ UnansweredAwaits(e) => UnansweredAwaits(s)
         /\ Awaits(e) => Awaits(s)
         /\ G # {} /\ ~h => Awaits(s)
  <1> DEFINE sent == Sendable(G, h)
             out == [g \in DOMAIN e.out \cup sent |->
                       IF g \in sent THEN RenewedOutRecord(e, g, z, p) ELSE e.out[g]]
  <1>1. \A g \in sent : RenewedOutRecord(e, g, z, p).await = TRUE
    BY DEF RenewedOutRecord
  <1>2. s = [e EXCEPT !.out = out]
    BY DEF sendInterest
  <1>5. G # {} /\ ~h => sent # {}
    BY DEF Sendable
  <1> HIDE DEF sent
  <1>3. /\ UnansweredAwaits(e) => \A g \in DOMAIN out : ~out[g].nacked => out[g].await
        /\ Awaits(e) => \E g \in DOMAIN out : out[g].await
        /\ sent # {} => \E g \in DOMAIN out : out[g].await
    BY <1>1 DEF UnansweredAwaits, Awaits
  <1> HIDE DEF out
  <1>4. s.out = out
    BY <1>2 DEF IsEntry
  <1> QED BY <1>3, <1>4, <1>5 DEF UnansweredAwaits, Awaits

\* What the incoming pipeline changes of an entry before the strategy sees it.
LEMMA AcceptedKeeps ==
  ASSUME IsPit(pit), NEW k \in Key, NEW f \in Face, NEW z \in Nonce, NEW h \in BOOLEAN
  PROVE  LET a == Accepted(k, f, z, h) IN
         /\ a.out = PitInsert(k, z, h).out
         /\ a.hopZero = PitInsert(k, z, h).hopZero
         /\ a.timer = "running"
         /\ DOMAIN a.in = DOMAIN PitInsert(k, z, h).in \cup {f}
  <1>1. IsEntry(PitInsert(k, z, h))
    BY PitInsertType
  <1>2. ASSUME NEW e, IsEntry(e)
        PROVE  LET i == insertOrUpdateInRecord(e, f, z) IN
               /\ i.out = e.out /\ i.hopZero = e.hopZero
               /\ DOMAIN i.in = DOMAIN e.in \cup {f}
    BY <1>2 DEF insertOrUpdateInRecord, IsEntry, Put
  <1>3. ASSUME NEW e, IsEntry(e)
        PROVE  LET i == setExpiryTimer(e, "running") IN
               i.out = e.out /\ i.hopZero = e.hopZero /\ i.in = e.in /\ i.timer = "running"
    BY <1>3 DEF setExpiryTimer, IsEntry
  <1> QED BY <1>1, <1>2, <1>3, InsertInRecordType DEF Accepted

\* What the actions do to an entry with an unanswered upstream.
LEMMA AcceptedAwaits ==
  ASSUME TypeOK, PendingInv, NEW k \in Key, NEW f \in Face, NEW z \in Nonce,
         NEW h \in BOOLEAN, h => HopLimited
  PROVE  /\ UnansweredAwaits(Accepted(k, f, z, h))
         /\ ~HopLimited => ~Accepted(k, f, z, h).hopZero
  <1>1. /\ UnansweredAwaits(PitInsert(k, z, h))
        /\ ~HopLimited => ~PitInsert(k, z, h).hopZero
    BY DEF PendingInv, PitInsert, NewEntry, UnansweredAwaits, EmptyFn
  <1> QED BY <1>1, AcceptedKeeps DEF TypeOK, UnansweredAwaits

\* PendingInv, entry by entry; full says that no face has been removed.
Sound(e, full) ==
  /\ UnansweredAwaits(e)
  /\ ~HopLimited => ~e.hopZero
  /\ full /\ ~HopLimited /\ e.timer = "running" => Awaits(e)

\* The invariant, entry by entry.
LEMMA PendingIsSound == PendingInv <=> \A k \in DOMAIN pit : Sound(pit[k], up = Face)
  BY DEF PendingInv, PendingHasUpstream, Sound, Awaits

\* The invariant is kept by a Nack that leaves a sound entry,
LEMMA AfterNackSound ==
  ASSUME IsPit(pit), PendingInv, NEW k \in DOMAIN pit, NEW e, IsEntry(e), NEW F,
         AfterNack(k, e, F), UnansweredAwaits(e), ~HopLimited => ~e.hopZero, up' = up
  PROVE  PendingInv'
  <1>1. Sound(setExpiryTimer(e, "now"), up = Face)
    BY DEF Sound, setExpiryTimer, IsEntry, UnansweredAwaits
  <1>2. NotNacked(e) # {} => Sound(e, up = Face)
    BY DEF Sound, NotNacked, UnansweredAwaits, Awaits
  <1>3. PICK x : pit' = [pit EXCEPT ![k] = x] /\ Sound(x, up = Face)
    BY <1>1, <1>2 DEF AfterNack
  <1>4. \A j \in DOMAIN pit' : Sound(pit'[j], up = Face)
    BY <1>3, PendingIsSound DEF IsPit
  <1> QED BY <1>4 DEF PendingInv, PendingHasUpstream, Sound, Awaits

\* and by an Interest that does.
LEMMA PutSound ==
  ASSUME IsPit(pit), PendingInv, NEW k \in Key, NEW e, pit' = Put(pit, k, e),
         Sound(e, up = Face), up' = up
  PROVE  PendingInv'
  <1>1. \A j \in DOMAIN pit' : Sound(pit'[j], up = Face)
    BY PendingIsSound DEF Put
  <1> QED BY <1>1 DEF PendingInv, PendingHasUpstream, Sound, Awaits

\* The Nacked record is the only one that stops waiting.
LEMMA NackedAwaits ==
  ASSUME NEW k \in DOMAIN pit, IsEntry(pit[k]), UnansweredAwaits(pit[k]),
         ~HopLimited => ~pit[k].hopZero, NEW f, f \in DOMAIN pit[k].out
  PROVE  LET e == NackedEntry(k, f) IN
         UnansweredAwaits(e) /\ (~HopLimited => ~e.hopZero)
  <1> DEFINE o1 == [pit[k].out EXCEPT ![f].nacked = TRUE, ![f].await = FALSE]
  <1>1. \A g \in DOMAIN o1 : ~o1[g].nacked => o1[g].await
    BY DEF UnansweredAwaits, IsEntry, IsPartialFn, OutRecord
  <1>2. NackedEntry(k, f).out = o1 /\ NackedEntry(k, f).hopZero = pit[k].hopZero
    BY DEF NackedEntry, IsEntry, IsPartialFn
  <1> QED BY <1>1, <1>2 DEF UnansweredAwaits

\* Nacks to downstreams leave out-records and hop limit alone.
LEMMA NackDownstreamsKeeps ==
  ASSUME NEW e, IsEntry(e), NEW D
  PROVE  LET n == NackDownstreams(e, D) IN n.out = e.out /\ n.hopZero = e.hopZero
  BY DEF NackDownstreams, sendNack, IsEntry

\* No PIT entry waits for nothing: the test of hasPendingOutRecords at the end of
\* onIncomingNack, the re-sends of dealNack and registPrefix, and rejection
\* together leave no entry whose every upstream has answered waiting for a timer.
THEOREM UpstreamOwesAnswer == Spec => []PendingHasUpstream
<1>1. Init => PendingInv
  BY DEF Init, PendingInv, PendingHasUpstream, EmptyFn
<1>2. TypeOK /\ PendingInv /\ [Next]_vars => PendingInv'
  <2> SUFFICES ASSUME TypeOK, PendingInv, [Next]_vars PROVE PendingInv'
    OBVIOUS
  <2> USE DEF TypeOK
  <2>0. ASSUME UNCHANGED <<pit, up>> PROVE PendingInv'
    BY <2>0 DEF PendingInv, PendingHasUpstream
  <2>1. ASSUME NEW k \in Key, NEW f \in Face, NEW z \in Nonce, NEW h \in BOOLEAN,
               ContentStoreHit(k, f, z, h)
        PROVE  PendingInv'
    <3> DEFINE e == PitInsert(k, z, h)
               e1 == setExpiryTimer([e EXCEPT !.satisfied = TRUE], "now")
    <3>1. IsEntry(e) /\ UnansweredAwaits(e) /\ (~HopLimited => ~e.hopZero)
      <4>1. h => HopLimited
        BY <2>1 DEF ContentStoreHit, Arrives
      <4> QED BY <4>1, PitInsertType
              DEF PendingInv, PitInsert, NewEntry, UnansweredAwaits, EmptyFn
    <3>2. e1.out = e.out /\ e1.hopZero = e.hopZero /\ e1.timer = "now"
      <4> HIDE DEF e
      <4> QED BY <3>1 DEF setExpiryTimer, IsEntry
    <3>3. Sound(e1, up = Face)
      BY <3>1, <3>2 DEF Sound, UnansweredAwaits
    <3>4. pit' = Put(pit, k, e1) /\ up' = up
      BY <2>1 DEF ContentStoreHit
    <3> HIDE DEF e1
    <3> QED BY <3>3, <3>4, PutSound
  <2>2. ASSUME NEW k \in Key, NEW f \in Face, NEW z \in Nonce, NEW h \in BOOLEAN,
               NEW p \in Prefix \cup {NoPrefix}, NEW G \in SUBSET Face, G # {},
               h => HopLimited
        PROVE  Sound(sendInterest(Accepted(k, f, z, h), G, z, h, p), up = Face)
    <3> DEFINE a == Accepted(k, f, z, h)
    <3>1. IsEntry(a) /\ UnansweredAwaits(a) /\ (~HopLimited => ~a.hopZero)
      BY <2>2, AcceptedType, AcceptedAwaits
    <3>2. ~HopLimited => G # {} /\ ~h
      BY <2>2
    <3> DEFINE s == sendInterest(a, G, z, h, p)
    <3> HIDE DEF a
    <3>3. UnansweredAwaits(s) /\ (G # {} /\ ~h => Awaits(s))
      BY <3>1, SendInterestAwaits
    <3>5. s.hopZero = a.hopZero
      BY <3>1, SendInterestKeeps
    <3> HIDE DEF s
    <3>4. Sound(s, up = Face)
      BY <3>1, <3>2, <3>3, <3>5 DEF Sound
    <3> QED BY <3>4 DEF s, a
  <2>3. ASSUME NEW k \in Key, NEW f \in Face, NEW z \in Nonce, NEW h \in BOOLEAN,
               ForwardStraight(k, f, z, h)
        PROVE  PendingInv'
    <3> DEFINE q == findLongestPrefixMatch(PrefixOf[k])
               G == Eligible(f, PrefixOf[k])
               e == sendInterest(Accepted(k, f, z, h), G, z, h, q)
               e1 == [e EXCEPT !.in[f].stage = "straight"]
    <3>1. Sound(e, up = Face) /\ IsEntry(e)
      <4>1. h => HopLimited
        BY <2>3 DEF ForwardStraight, Misses, Arrives
      <4>2. G # {} /\ G \in SUBSET Face /\ q \in Prefix
        BY <2>3, EligibleType, LongestPrefixType DEF ForwardStraight
      <4> QED BY <4>1, <4>2, <2>2, AcceptedType, SendInterestType
    <3>2. pit' = Put(pit, k, e1) /\ up' = up
      BY <2>3 DEF ForwardStraight
    <3>3. Sound(e1, up = Face)
      <4> HIDE DEF e
      <4>1. e1.out = e.out /\ e1.hopZero = e.hopZero /\ e1.timer = e.timer
        BY <3>1 DEF IsEntry
      <4> QED BY <3>1, <4>1 DEF Sound, UnansweredAwaits, Awaits
    <3> HIDE DEF e1
    <3> QED BY <3>2, <3>3, PutSound
  <2>4. ASSUME NEW k \in Key, NEW f \in Face, NEW z \in Nonce, NEW h \in BOOLEAN,
               ForwardToRv(k, f, z, h) \/ ForwardPlain(k, f, z, h)
        PROVE  PendingInv'
    <3>1. PICK p : /\ Eligible(f, p) # {}
                   /\ pit' = Put(pit, k, sendInterest(Accepted(k, f, z, h), Eligible(f, p),
                                                      z, h, NoPrefix))
      BY <2>4 DEF ForwardToRv, ForwardPlain
    <3>2. up' = up /\ (h => HopLimited)
      BY <2>4 DEF ForwardToRv, ForwardPlain, Misses, Arrives
    <3>3. Sound(sendInterest(Accepted(k, f, z, h), Eligible(f, p), z, h, NoPrefix), up = Face)
      BY <3>1, <3>2, <2>2, EligibleType
    <3> QED BY <3>1, <3>2, <3>3, PutSound
  <2>5. ASSUME NEW k \in Key, NEW f \in Face, NEW z \in Nonce, NEW h \in BOOLEAN,
               NEW hint \in BOOLEAN, RejectInterest(k, f, z, hint, h)
        PROVE  PendingInv'
    <3> DEFINE a == Accepted(k, f, z, h)
               e1 == setExpiryTimer(sendNack(a, {f}), "now")
    <3>1. pit' = Put(pit, k, e1) /\ up' = up /\ (h => HopLimited)
      BY <2>5 DEF RejectInterest, Misses, Arrives
    <3>2. IsEntry(a) /\ UnansweredAwaits(a) /\ (~HopLimited => ~a.hopZero)
      BY <3>1, AcceptedType, AcceptedAwaits
    <3>3. Sound(e1, up = Face)
      <4> HIDE DEF a
      <4>1. e1.out = a.out /\ e1.hopZero = a.hopZero /\ e1.timer = "now"
        BY <3>2 DEF sendNack, setExpiryTimer, IsEntry
      <4> QED BY <3>2, <4>1 DEF Sound, UnansweredAwaits
    <3> HIDE DEF e1
    <3> QED BY <3>1, <3>3, PutSound
  <2>6. ASSUME NEW e, IsEntry(e), Sound(e, up = Face), NEW f, NEW single \in BOOLEAN
        PROVE  Sound(SatisfiedEntry(e, f, single), up = Face)
    <3> DEFINE s == SatisfiedEntry(e, f, single)
    <3>1. s.out = Without(e.out, {f}) /\ s.hopZero = e.hopZero /\ s.timer = "now"
      BY DEF SatisfiedEntry
    <3> HIDE DEF s
    <3> QED BY <2>6, <3>1 DEF Sound, UnansweredAwaits, Without, s
  <2>7. ASSUME NEW d \in Pkt, NEW f \in Face, IncomingData(d, f) \/ IncomingAck(d, f)
        PROVE  PendingInv'
    <3>1. ASSUME NEW k \in DOMAIN pit, NEW G \in SUBSET Face
          PROVE  Sound(sendInterest(pit[k], G, pit[k].nonce, pit[k].hopZero, NoPrefix),
                       up = Face)
      <4> DEFINE e == pit[k]
      <4>1. IsEntry(e) /\ Sound(e, up = Face)
        BY PendingIsSound DEF IsPit
      <4> HIDE DEF e
      <4> DEFINE s == sendInterest(e, G, e.nonce, e.hopZero, NoPrefix)
      <4>2. e.nonce \in Nonce /\ e.hopZero \in BOOLEAN
        BY <4>1 DEF IsEntry
      <4>3. /\ UnansweredAwaits(e) => UnansweredAwaits(s)
            /\ Awaits(e) => Awaits(s)
        BY <4>1, <4>2, SendInterestAwaits
      <4>5. s.hopZero = e.hopZero /\ s.timer = e.timer
        BY <4>1, <4>2, SendInterestKeeps
      <4> HIDE DEF s
      <4>4. Sound(s, up = Face)
        BY <4>1, <4>3, <4>5 DEF Sound
      <4> QED BY <4>4 DEF e, s
    <3>2. up' = up /\ DOMAIN pit' = DOMAIN pit
      BY <2>7 DEF IncomingData, IncomingAck
    <3>3. ASSUME NEW k \in DOMAIN pit PROVE Sound(pit'[k], up = Face)
      <4>1. IsEntry(pit[k]) /\ Sound(pit[k], up = Face)
        BY PendingIsSound DEF IsPit
      <4>2. NewMpFaces(Announces[d], findAllDataMatches(d)) \in SUBSET Face
        BY DEF NewMpFaces, AckFaces
      <4>3. \/ pit'[k] = pit[k]
            \/ \E b \in BOOLEAN : pit'[k] = SatisfiedEntry(pit[k], f, b)
            \/ \E G \in SUBSET Face :
                 pit'[k] = sendInterest(pit[k], G, pit[k].nonce, pit[k].hopZero, NoPrefix)
        BY <2>7, <4>2 DEF IncomingData, IncomingAck
      <4>4. CASE \E b \in BOOLEAN : pit'[k] = SatisfiedEntry(pit[k], f, b)
        BY <4>1, <4>4, <2>6
      <4>5. CASE \E G \in SUBSET Face :
              pit'[k] = sendInterest(pit[k], G, pit[k].nonce, pit[k].hopZero, NoPrefix)
        BY <4>5, <3>1
      <4> QED BY <4>1, <4>3, <4>4, <4>5
    <3> QED BY <3>2, <3>3 DEF PendingInv, PendingHasUpstream, Sound, Awaits
  <2>8. ASSUME NEW k \in Key, NEW f \in Face,
               NackWait(k, f) \/ NackRetry(k, f) \/ NackReturn(k, f)
        PROVE  PendingInv'
    <3> DEFINE e == NackedEntry(k, f)
    <3>1. k \in DOMAIN pit /\ f \in DOMAIN pit[k].out /\ up' = up
      BY <2>8 DEF NackWait, NackRetry, NackReturn, NackArrives
    <3>2. IsEntry(e) /\ UnansweredAwaits(e) /\ (~HopLimited => ~e.hopZero)
      BY <3>1, NackedEntryType, NackedAwaits DEF IsPit, PendingInv
    <3>3. CASE NackWait(k, f)
      BY <3>1, <3>2, <3>3, AfterNackSound DEF NackWait
    <3>4. CASE NackRetry(k, f)
      <4>1. PICK d \in NackTo(e) : AfterNack(k, RetryViaRv(e, d), RvHops(e))
        BY <3>4 DEF NackRetry
      <4>2. d \in DOMAIN e.in
        BY DEF NackTo
      <4> DEFINE e1 == [e EXCEPT !.in[d].stage = "rv"]
      <4> HIDE DEF e
      <4>3. /\ IsEntry(e1) /\ UnansweredAwaits(e1)
            /\ e1.hopZero = e.hopZero /\ e1.nonce = e.nonce
        <5>1. IsEntry(e1)
          BY <3>2, <4>2, StageType DEF Stage
        <5>2. e1.out = e.out /\ e1.hopZero = e.hopZero /\ e1.nonce = e.nonce
          BY <3>2 DEF IsEntry
        <5> QED BY <3>2, <5>1, <5>2 DEF UnansweredAwaits
      <4>4. /\ IsEntry(RetryViaRv(e, d)) /\ UnansweredAwaits(RetryViaRv(e, d))
            /\ RetryViaRv(e, d).hopZero = e.hopZero
        <5>1. IsEntry(RetryViaRv(e, d))
          BY <3>2, <4>2, RetryViaRvType
        <5>2. e.nonce \in Nonce /\ e.hopZero \in BOOLEAN
          BY <3>2 DEF IsEntry
        <5>3. RetryViaRv(e, d) = sendInterest(e1, RvHops(e), e.nonce, e.hopZero, NoPrefix)
          BY DEF RetryViaRv
        <5> HIDE DEF e1
        <5>4. UnansweredAwaits(RetryViaRv(e, d))
          BY <4>3, <5>2, <5>3, RvHopsType, SendInterestAwaits
        <5>5. RetryViaRv(e, d).hopZero = e1.hopZero
          BY <4>3, <5>2, <5>3, RvHopsType, SendInterestKeeps
        <5> QED BY <4>3, <5>1, <5>4, <5>5
      <4> QED BY <3>1, <3>2, <4>1, <4>4, AfterNackSound
    <3>5. CASE NackReturn(k, f)
      <4> DEFINE n == NackDownstreams(e, NackTo(e))
      <4>1. AfterNack(k, n, {})
        BY <3>5 DEF NackReturn
      <4>2. IsEntry(n) /\ UnansweredAwaits(n) /\ (~HopLimited => ~n.hopZero)
        <5> HIDE DEF e
        <5> QED BY <3>2, NackDownstreamsType, NackDownstreamsKeeps DEF UnansweredAwaits
      <4> HIDE DEF n
      <4> QED BY <3>1, <4>1, <4>2, AfterNackSound
    <3> QED BY <2>8, <3>3, <3>4, <3>5
  <2>9. ASSUME NEW k \in Key, InterestFinalize(k)
        PROVE  PendingInv'
    BY <2>9 DEF InterestFinalize, PendingInv, PendingHasUpstream, Without
  <2>10. ASSUME NEW k \in Key, NEW f \in Face, ExpireInRecord(k, f)
         PROVE  PendingInv'
    <3>1. IsEntry(pit[k]) /\ k \in DOMAIN pit
      BY <2>10 DEF ExpireInRecord, IsPit
    <3>2. \A j \in DOMAIN pit : /\ pit'[j].out = pit[j].out
                                /\ pit'[j].hopZero = pit[j].hopZero
                                /\ pit'[j].timer = pit[j].timer
      BY <2>10, <3>1 DEF ExpireInRecord, IsEntry, IsPit
    <3>3. DOMAIN pit' = DOMAIN pit /\ up' = up
      BY <2>10 DEF ExpireInRecord, IsPit
    <3> QED BY <3>2, <3>3 DEF PendingInv, PendingHasUpstream, UnansweredAwaits
  <2>11. ASSUME NEW f \in Face, FaceRemoved(f)
         PROVE  PendingInv'
    <3>1. up' # Face /\ DOMAIN pit' = DOMAIN pit
      BY <2>11 DEF FaceRemoved
    <3>2. ASSUME NEW k \in DOMAIN pit
          PROVE  /\ pit'[k].out = Without(pit[k].out, {f})
                 /\ pit'[k].hopZero = pit[k].hopZero
      <4>1. pit'[k] = [pit[k] EXCEPT !.in = Without(pit[k].in, {f}),
                                     !.out = Without(pit[k].out, {f})]
        BY <2>11 DEF FaceRemoved
      <4>2. IsEntry(pit[k])
        BY DEF IsPit
      <4> DEFINE i == Without(pit[k].in, {f})
                 o == Without(pit[k].out, {f})
      <4>3. pit'[k] = [pit[k] EXCEPT !.in = i, !.out = o]
        BY <4>1
      <4> HIDE DEF i, o
      <4>4. pit'[k].out = o /\ pit'[k].hopZero = pit[k].hopZero
        BY <4>2, <4>3 DEF IsEntry
      <4> QED BY <4>4 DEF o
    <3>3. ASSUME NEW k \in DOMAIN pit PROVE UnansweredAwaits(pit'[k])
      BY <3>2 DEF PendingInv, UnansweredAwaits, Without
    <3> QED BY <3>1, <3>2, <3>3 DEF PendingInv, PendingHasUpstream
  <2>12. ASSUME NEW k, NEW f, NEW z, InterestLoop(k, f, z) PROVE PendingInv'
    BY <2>0, <2>12 DEF InterestLoop
  <2>13. ASSUME NEW k, NEW f, NEW z, NEW h, ForwardStraightFault(k, f, z, h)
         PROVE  PendingInv'
    BY <2>0, <2>13 DEF ForwardStraightFault
  <2>14. ASSUME NEW p, ExpireMeasurement(p) PROVE PendingInv'
    BY <2>0, <2>14 DEF ExpireMeasurement
  <2>15. ASSUME RibThread PROVE PendingInv'
    BY <2>0, <2>15
    DEF RibThread, RunSlAnnounce, RunSlRenew, AnnouncementValidated, RouteExpires
  <2>16. CASE UNCHANGED vars
    BY <2>0, <2>16 DEF vars
  <2>17. ASSUME NEW d, CsEvict(d) PROVE PendingInv'
    BY <2>0, <2>17 DEF CsEvict
  <2> QED
    BY <2>1, <2>3, <2>4, <2>5, <2>7, <2>8, <2>9, <2>10, <2>11, <2>12, <2>13, <2>14,
       <2>15, <2>16, <2>17
    DEF Next, ReceiveInterest, ReceiveData, ReceiveNack, Timers
<1>3. PendingInv => PendingHasUpstream
  BY DEF PendingInv
<1> QED BY <1>1, <1>2, <1>3, TypeCorrect, PTL DEF Spec

-----------------------------------------------------------------------------
(* NoDanglingFace                                                           *)

\* The faces a PIT entry has records of.
FacesOf(e) == DOMAIN e.in \cup DOMAIN e.out

\* Nexthops exist.
LEMMA NextHopsUp == ASSUME NEW f, NEW p PROVE Eligible(f, p) \subseteq up
  BY DEF Eligible, NextHops

\* sendInterest adds records of the nexthops only.
LEMMA SendInterestFaces ==
  ASSUME NEW e, IsEntry(e), NEW G \in SUBSET Face, NEW z, NEW h, NEW p
  PROVE  FacesOf(sendInterest(e, G, z, h, p)) \subseteq FacesOf(e) \cup G
  <1> DEFINE sent == Sendable(G, h)
             out == [g \in DOMAIN e.out \cup sent |->
                       IF g \in sent THEN RenewedOutRecord(e, g, z, p) ELSE e.out[g]]
             s == [e EXCEPT !.out = out]
  <1>1. sent \subseteq G
    BY DEF Sendable
  <1>2. DOMAIN out = DOMAIN e.out \cup sent
    OBVIOUS
  <1>3. s = sendInterest(e, G, z, h, p)
    BY DEF sendInterest
  <1> HIDE DEF sent, out
  <1>4. s.in = e.in /\ s.out = out
    BY DEF IsEntry
  <1> HIDE DEF s
  <1> QED BY <1>1, <1>2, <1>3, <1>4 DEF FacesOf

\* The entry the strategy gets refers to faces that exist.
LEMMA AcceptedFaces ==
  ASSUME TypeOK, NoDanglingFace, NEW k \in Key, NEW f \in up, NEW z \in Nonce,
         NEW h \in BOOLEAN
  PROVE  FacesOf(Accepted(k, f, z, h)) \subseteq up
  <1>1. FacesOf(PitInsert(k, z, h)) \subseteq up
    BY DEF NoDanglingFace, PitInsert, NewEntry, EmptyFn, FacesOf
  <1>2. f \in Face
    BY DEF TypeOK
  <1> QED BY <1>1, <1>2, AcceptedKeeps DEF TypeOK, FacesOf

\* An Interest whose entry refers to faces that exist keeps NoDanglingFace,
LEMMA PutFaces ==
  ASSUME NoDanglingFace, NEW k, NEW e, pit' = Put(pit, k, e), FacesOf(e) \subseteq up,
         UNCHANGED <<up, routes>>
  PROVE  NoDanglingFace'
  BY DEF NoDanglingFace, Put, FacesOf

\* and so does a Nack.
LEMMA AfterNackFaces ==
  ASSUME IsPit(pit), NoDanglingFace, NEW k \in DOMAIN pit, NEW e, IsEntry(e), NEW F,
         AfterNack(k, e, F), FacesOf(e) \subseteq up, UNCHANGED <<up, routes>>
  PROVE  NoDanglingFace'
  <1>1. FacesOf(setExpiryTimer(e, "now")) = FacesOf(e)
    BY DEF FacesOf, setExpiryTimer, IsEntry
  <1>2. PICK x : pit' = [pit EXCEPT ![k] = x] /\ FacesOf(x) \subseteq up
    BY <1>1 DEF AfterNack
  <1> QED BY <1>2 DEF NoDanglingFace, FacesOf, IsPit

\* A stored Nack changes no face of the entry.
LEMMA NackedFaces ==
  ASSUME NEW k, k \in DOMAIN pit, IsEntry(pit[k]), NEW f, f \in DOMAIN pit[k].out
  PROVE  FacesOf(NackedEntry(k, f)) = FacesOf(pit[k])
  BY DEF NackedEntry, FacesOf, IsEntry, IsPartialFn

\* After a face is removed nothing of the forwarder refers to it: the PIT cleanup
\* and the RIB take it out, nexthops are looked up among the faces that exist,
\* retransmissions go to downstreams, and the FIB refuses a late announcement.
THEOREM FacesExist == Spec => []NoDanglingFace
<1>1. Init => NoDanglingFace
  BY DEF Init, NoDanglingFace, EmptyFn
<1>2. TypeOK /\ NoDanglingFace /\ [Next]_vars => NoDanglingFace'
  <2> SUFFICES ASSUME TypeOK, NoDanglingFace, [Next]_vars PROVE NoDanglingFace'
    OBVIOUS
  <2>0. ASSUME UNCHANGED <<pit, up, routes>> PROVE NoDanglingFace'
    BY <2>0 DEF NoDanglingFace
  <2>1. ASSUME NEW k \in Key, NEW f \in Face, NEW z \in Nonce, NEW h \in BOOLEAN,
               ContentStoreHit(k, f, z, h)
        PROVE  NoDanglingFace'
    <3> DEFINE e == PitInsert(k, z, h)
               e1 == setExpiryTimer([e EXCEPT !.satisfied = TRUE], "now")
    <3>1. IsEntry(e) /\ FacesOf(e) \subseteq up
      <4>1. IsEntry(e)
        BY PitInsertType DEF TypeOK
      <4>2. FacesOf(e) \subseteq up
        BY DEF NoDanglingFace, PitInsert, NewEntry, EmptyFn, FacesOf
      <4> QED BY <4>1, <4>2
    <3>2. pit' = Put(pit, k, e1) /\ UNCHANGED <<up, routes>>
      BY <2>1 DEF ContentStoreHit
    <3>3. FacesOf(e1) = FacesOf(e)
      <4> HIDE DEF e
      <4> QED BY <3>1 DEF setExpiryTimer, IsEntry, FacesOf
    <3> HIDE DEF e, e1
    <3> QED BY <3>1, <3>2, <3>3, PutFaces
  <2>2. ASSUME NEW k \in Key, NEW f \in Face, NEW z \in Nonce, NEW h \in BOOLEAN,
               ForwardStraight(k, f, z, h)
        PROVE  NoDanglingFace'
    <3> DEFINE q == findLongestPrefixMatch(PrefixOf[k])
               G == Eligible(f, PrefixOf[k])
               a == Accepted(k, f, z, h)
               e == sendInterest(a, G, z, h, q)
               e1 == [e EXCEPT !.in[f].stage = "straight"]
    <3>1. f \in up /\ pit' = Put(pit, k, e1) /\ UNCHANGED <<up, routes>>
      BY <2>2 DEF ForwardStraight, Misses, Arrives
    <3>2. G \subseteq up /\ G \in SUBSET Face /\ q \in Prefix
      BY NextHopsUp, EligibleType, LongestPrefixType
    <3>3. IsEntry(a) /\ FacesOf(a) \subseteq up
      BY <3>1, AcceptedType, AcceptedFaces DEF TypeOK
    <3>4. IsEntry(e) /\ FacesOf(e) \subseteq up
      <4> HIDE DEF q, G, a
      <4> QED BY <3>2, <3>3, SendInterestType, SendInterestFaces
    <3>5. FacesOf(e1) = FacesOf(e)
      <4> HIDE DEF e
      <4> QED BY <3>4 DEF IsEntry, FacesOf, IsPartialFn
    <3> HIDE DEF e, e1
    <3> QED BY <3>1, <3>4, <3>5, PutFaces
  <2>3. ASSUME NEW k \in Key, NEW f \in Face, NEW z \in Nonce, NEW h \in BOOLEAN,
               ForwardToRv(k, f, z, h) \/ ForwardPlain(k, f, z, h)
        PROVE  NoDanglingFace'
    <3> DEFINE a == Accepted(k, f, z, h)
    <3>1. PICK p : pit' = Put(pit, k, sendInterest(a, Eligible(f, p), z, h, NoPrefix))
      BY <2>3 DEF ForwardToRv, ForwardPlain
    <3>2. f \in up /\ UNCHANGED <<up, routes>>
      BY <2>3 DEF ForwardToRv, ForwardPlain, Misses, Arrives
    <3>3. IsEntry(a) /\ FacesOf(a) \subseteq up
      BY <3>2, AcceptedType, AcceptedFaces DEF TypeOK
    <3> HIDE DEF a
    <3>4. FacesOf(sendInterest(a, Eligible(f, p), z, h, NoPrefix)) \subseteq up
      BY <3>3, NextHopsUp, EligibleType, SendInterestFaces
    <3> QED BY <3>1, <3>2, <3>4, PutFaces
  <2>4. ASSUME NEW k \in Key, NEW f \in Face, NEW z \in Nonce, NEW h \in BOOLEAN,
               NEW hint \in BOOLEAN, RejectInterest(k, f, z, hint, h)
        PROVE  NoDanglingFace'
    <3> DEFINE a == Accepted(k, f, z, h)
               e1 == setExpiryTimer(sendNack(a, {f}), "now")
    <3>1. f \in up /\ pit' = Put(pit, k, e1) /\ UNCHANGED <<up, routes>>
      BY <2>4 DEF RejectInterest, Misses, Arrives
    <3>2. IsEntry(a) /\ FacesOf(a) \subseteq up
      BY <3>1, AcceptedType, AcceptedFaces DEF TypeOK
    <3> HIDE DEF a
    <3>3. FacesOf(e1) \subseteq FacesOf(a)
      BY <3>2 DEF FacesOf, setExpiryTimer, sendNack, IsEntry, Without
    <3> HIDE DEF e1
    <3> QED BY <3>1, <3>2, <3>3, PutFaces
  <2>5. ASSUME NEW d \in Pkt, NEW f \in Face, IncomingData(d, f) \/ IncomingAck(d, f)
        PROVE  NoDanglingFace'
    <3> DEFINE G == NewMpFaces(Announces[d], findAllDataMatches(d))
    <3>1. UNCHANGED <<up, routes>> /\ DOMAIN pit' = DOMAIN pit
      BY <2>5 DEF IncomingData, IncomingAck
    <3>2. G \subseteq up /\ G \in SUBSET Face
      BY DEF NewMpFaces, AckFaces, NoDanglingFace, findAllDataMatches
    <3>3. ASSUME NEW k \in DOMAIN pit PROVE FacesOf(pit'[k]) \subseteq up
      <4>1. IsEntry(pit[k]) /\ FacesOf(pit[k]) \subseteq up
        BY DEF TypeOK, IsPit, NoDanglingFace, FacesOf
      <4>2. FacesOf(sendInterest(pit[k], G, pit[k].nonce, pit[k].hopZero, NoPrefix))
              \subseteq up
        BY <3>2, <4>1, SendInterestFaces
      <4>3. ASSUME NEW b \in BOOLEAN
            PROVE  FacesOf(SatisfiedEntry(pit[k], f, b)) \subseteq up
        <5>1. FacesOf(SatisfiedEntry(pit[k], f, b)) \subseteq FacesOf(pit[k])
          BY DEF FacesOf, SatisfiedEntry, Without, EmptyFn
        <5> QED BY <4>1, <5>1
      <4>4. \/ pit'[k] = pit[k]
            \/ \E b \in BOOLEAN : pit'[k] = SatisfiedEntry(pit[k], f, b)
            \/ pit'[k] = sendInterest(pit[k], G, pit[k].nonce, pit[k].hopZero, NoPrefix)
        BY <2>5 DEF IncomingData, IncomingAck
      <4> QED BY <4>1, <4>2, <4>3, <4>4
    <3> QED BY <3>1, <3>3 DEF NoDanglingFace, FacesOf
  <2>6. ASSUME NEW k \in Key, NEW f \in Face,
               NackWait(k, f) \/ NackRetry(k, f) \/ NackReturn(k, f)
        PROVE  NoDanglingFace'
    <3> DEFINE e == NackedEntry(k, f)
    <3>1. k \in DOMAIN pit /\ f \in DOMAIN pit[k].out /\ UNCHANGED <<up, routes>>
      BY <2>6 DEF NackWait, NackRetry, NackReturn, NackArrives
    <3>2. IsEntry(e) /\ FacesOf(e) \subseteq up
      <4>1. IsEntry(pit[k]) /\ FacesOf(pit[k]) \subseteq up
        BY <3>1 DEF TypeOK, IsPit, NoDanglingFace, FacesOf
      <4> QED BY <3>1, <4>1, NackedEntryType, NackedFaces
    <3>3. CASE NackWait(k, f)
      BY <3>1, <3>2, <3>3, AfterNackFaces DEF NackWait, TypeOK
    <3>4. CASE NackRetry(k, f)
      <4>1. PICK d \in NackTo(e) : AfterNack(k, RetryViaRv(e, d), RvHops(e))
        BY <3>4 DEF NackRetry
      <4>2. d \in DOMAIN e.in
        BY DEF NackTo
      <4> DEFINE e1 == [e EXCEPT !.in[d].stage = "rv"]
      <4> HIDE DEF e
      <4>3. IsEntry(e1) /\ FacesOf(e1) = FacesOf(e)
        <5>1. IsEntry(e1)
          BY <3>2, <4>2, StageType DEF Stage
        <5>2. FacesOf(e1) = FacesOf(e)
          BY <3>2 DEF FacesOf, IsEntry, IsPartialFn
        <5> QED BY <5>1, <5>2
      <4>4. FacesOf(RetryViaRv(e, d)) \subseteq up
        <5>1. RvHops(e) \subseteq up /\ RvHops(e) \in SUBSET Face
          BY RvHopsType DEF RvHops, NextHops
        <5>2. RetryViaRv(e, d) = sendInterest(e1, RvHops(e), e.nonce, e.hopZero, NoPrefix)
          BY DEF RetryViaRv
        <5> HIDE DEF e1
        <5> QED BY <3>2, <4>3, <5>1, <5>2, SendInterestFaces
      <4>5. IsEntry(RetryViaRv(e, d))
        BY <3>2, <4>2, RetryViaRvType
      <4> QED BY <3>1, <4>1, <4>4, <4>5, AfterNackFaces DEF TypeOK
    <3>5. CASE NackReturn(k, f)
      <4> DEFINE n == NackDownstreams(e, NackTo(e))
      <4>1. AfterNack(k, n, {})
        BY <3>5 DEF NackReturn
      <4>2. IsEntry(n) /\ FacesOf(n) \subseteq FacesOf(e)
        <5> HIDE DEF e
        <5>1. IsEntry(n)
          BY <3>2, NackDownstreamsType
        <5>2. FacesOf(n) \subseteq FacesOf(e)
          BY <3>2 DEF FacesOf, NackDownstreams, sendNack, IsEntry, Without
        <5> QED BY <5>1, <5>2
      <4> HIDE DEF n, e
      <4> QED BY <3>1, <3>2, <4>1, <4>2, AfterNackFaces DEF TypeOK
    <3> QED BY <2>6, <3>3, <3>4, <3>5
  <2>7. ASSUME NEW k \in Key, InterestFinalize(k) PROVE NoDanglingFace'
    BY <2>7 DEF InterestFinalize, NoDanglingFace, Without
  <2>8. ASSUME NEW k \in Key, NEW f \in Face, ExpireInRecord(k, f) PROVE NoDanglingFace'
    <3>1. \A j \in DOMAIN pit : FacesOf(pit'[j]) = FacesOf(pit[j])
      BY <2>8 DEF ExpireInRecord, FacesOf, TypeOK, IsPit, IsEntry, IsPartialFn
    <3>2. DOMAIN pit' = DOMAIN pit /\ UNCHANGED <<up, routes>>
      BY <2>8 DEF ExpireInRecord, TypeOK, IsPit
    <3> QED BY <3>1, <3>2 DEF NoDanglingFace, FacesOf
  <2>9. ASSUME NEW f \in Face, FaceRemoved(f) PROVE NoDanglingFace'
    <3>1. DOMAIN pit' = DOMAIN pit /\ up' = up \ {f}
      BY <2>9 DEF FaceRemoved
    <3>2. \A r \in routes' : r[2] \in up'
      BY <2>9 DEF FaceRemoved, NoDanglingFace
    <3>3. ASSUME NEW k \in DOMAIN pit PROVE FacesOf(pit'[k]) \subseteq up'
      <4> DEFINE i == Without(pit[k].in, {f})
                 o == Without(pit[k].out, {f})
      <4>1. pit'[k] = [pit[k] EXCEPT !.in = i, !.out = o]
        BY <2>9 DEF FaceRemoved
      <4>2. DOMAIN i = DOMAIN pit[k].in \ {f} /\ DOMAIN o = DOMAIN pit[k].out \ {f}
        BY DEF Without
      <4> HIDE DEF i, o
      <4>3. pit'[k].in = i /\ pit'[k].out = o
        BY <4>1 DEF TypeOK, IsPit, IsEntry
      <4> QED BY <3>1, <4>2, <4>3 DEF FacesOf, NoDanglingFace
    <3> QED BY <3>1, <3>2, <3>3 DEF NoDanglingFace, FacesOf
  <2>10. ASSUME RibThread PROVE NoDanglingFace'
    <3>1. UNCHANGED <<pit, up>>
      BY <2>10 DEF RibThread, RunSlAnnounce, RunSlRenew, AnnouncementValidated, RouteExpires
    <3>2. \A r \in routes' : r \in routes \/ r[2] \in up
      <4>1. ASSUME NEW p \in Mp, NEW f \in Face, NEW v \in BOOLEAN,
                   AnnouncementValidated(p, f, v)
            PROVE  \A r \in routes' : r \in routes \/ r[2] \in up
        BY <4>1 DEF AnnouncementValidated
      <4>2. ASSUME NEW p \in Mp, NEW f \in Face, RouteExpires(p, f)
            PROVE  routes' \subseteq routes
        BY <4>2 DEF RouteExpires
      <4>3. RunSlAnnounce \/ RunSlRenew => routes' \subseteq routes
        BY DEF RunSlAnnounce, RunSlRenew
      <4> QED BY <2>10, <4>1, <4>2, <4>3 DEF RibThread
    <3> QED BY <3>1, <3>2 DEF NoDanglingFace
  <2>11. ASSUME NEW k, NEW f, NEW z, InterestLoop(k, f, z) PROVE NoDanglingFace'
    BY <2>0, <2>11 DEF InterestLoop
  <2>12. ASSUME NEW k, NEW f, NEW z, NEW h, ForwardStraightFault(k, f, z, h)
         PROVE  NoDanglingFace'
    BY <2>0, <2>12 DEF ForwardStraightFault
  <2>13. ASSUME NEW p, ExpireMeasurement(p) PROVE NoDanglingFace'
    BY <2>0, <2>13 DEF ExpireMeasurement
  <2>14. CASE UNCHANGED vars
    BY <2>0, <2>14 DEF vars
  <2>15. ASSUME NEW d, CsEvict(d) PROVE NoDanglingFace'
    BY <2>0, <2>15 DEF CsEvict
  <2> QED
    BY <2>1, <2>2, <2>3, <2>4, <2>5, <2>6, <2>7, <2>8, <2>9, <2>10, <2>11, <2>12,
       <2>13, <2>14, <2>15
    DEF Next, ReceiveInterest, ReceiveData, ReceiveNack, Timers
<1> QED BY <1>1, <1>2, TypeCorrect, PTL DEF Spec


-----------------------------------------------------------------------------
(* RvBeforeNack                                                             *)

\* A step that neither takes an Interest nor removes a face is one of these.
LEMMA QuietSteps ==
  ASSUME TypeOK, [Next]_vars, budget' = budget, up' = up
  PROVE  \/ \E d \in Pkt, f \in Face : IncomingData(d, f) \/ IncomingAck(d, f)
         \/ \E k \in Key, f \in Face : NackWait(k, f) \/ NackRetry(k, f) \/ NackReturn(k, f)
         \/ \E k \in Key : InterestFinalize(k)
         \/ \E k \in Key, f \in Face : ExpireInRecord(k, f)
         \/ pit' = pit
  <1>1. ASSUME NEW k \in Key, NEW f, NEW h, Arrives(k, f, h) PROVE FALSE
    BY <1>1 DEF Arrives, TypeOK
  <1>2. ~ReceiveInterest
    <2>1. ASSUME NEW k \in Key, NEW f, NEW z, NEW h,
                 \/ InterestLoop(k, f, z) \/ ContentStoreHit(k, f, z, h)
                 \/ ForwardStraight(k, f, z, h) \/ ForwardStraightFault(k, f, z, h)
                 \/ ForwardToRv(k, f, z, h) \/ ForwardPlain(k, f, z, h)
                 \/ \E hint \in BOOLEAN : RejectInterest(k, f, z, hint, h)
          PROVE  \E i : Arrives(k, f, i)
      BY <2>1, Zenon
      DEF InterestLoop, ContentStoreHit, ForwardStraight, ForwardStraightFault,
          ForwardToRv, ForwardPlain, RejectInterest, Misses
    <2> QED BY <1>1, <2>1, Zenon DEF ReceiveInterest
  <1>3. ASSUME NEW f, FaceRemoved(f) PROVE FALSE
    BY <1>3 DEF FaceRemoved
  <1>4. ASSUME NEW p, ExpireMeasurement(p) PROVE pit' = pit
    BY <1>4 DEF ExpireMeasurement
  <1>5. RibThread => pit' = pit
    BY DEF RibThread, RunSlAnnounce, RunSlRenew, AnnouncementValidated, RouteExpires
  <1>6. UNCHANGED vars => pit' = pit
    BY DEF vars
  <1>7. ASSUME NEW d, CsEvict(d) PROVE pit' = pit
    BY <1>7 DEF CsEvict
  <1> QED BY <1>2, <1>3, <1>4, <1>5, <1>6, <1>7 DEF Next, ReceiveData, ReceiveNack, Timers

\* What Data does to a PIT entry: it satisfies it, or sends its Interest again.
LEMMA DataKinds ==
  ASSUME TypeOK, NEW d \in Pkt, NEW f \in Face, IncomingData(d, f) \/ IncomingAck(d, f),
         NEW k \in DOMAIN pit
  PROVE  \/ k \in findAllDataMatches(d)
            /\ \E b \in BOOLEAN : pit'[k] = SatisfiedEntry(pit[k], f, b)
         \/ /\ k \notin findAllDataMatches(d)
            /\ \/ pit'[k] = pit[k]
               \/ \E G \in SUBSET Face :
                    pit'[k] = sendInterest(pit[k], G, pit[k].nonce, pit[k].hopZero, NoPrefix)
  <1> DEFINE G == NewMpFaces(Announces[d], findAllDataMatches(d))
  <1>1. G \in SUBSET Face
    BY DEF NewMpFaces, AckFaces
  <1>2. \/ k \in findAllDataMatches(d)
           /\ \E b \in BOOLEAN : pit'[k] = SatisfiedEntry(pit[k], f, b)
        \/ /\ k \notin findAllDataMatches(d)
           /\ \/ pit'[k] = pit[k]
              \/ pit'[k] = sendInterest(pit[k], G, pit[k].nonce, pit[k].hopZero, NoPrefix)
    BY DEF IncomingData, IncomingAck
  <1> HIDE DEF G
  <1> QED BY <1>1, <1>2

\* The end of onIncomingNack stores the entry; of its fields only the timer may change.
LEMMA AfterNackStores ==
  ASSUME IsPit(pit), NEW k \in DOMAIN pit, NEW e, IsEntry(e), NEW F, AfterNack(k, e, F)
  PROVE  /\ DOMAIN pit' = DOMAIN pit
         /\ \A j \in DOMAIN pit : j # k => pit'[j] = pit[j]
         /\ pit'[k].in = e.in /\ pit'[k].out = e.out /\ pit'[k].satisfied = e.satisfied
         /\ pit'[k].nonce = e.nonce /\ pit'[k].hopZero = e.hopZero
  <1> DEFINE t == setExpiryTimer(e, "now")
  <1>1. /\ t.in = e.in /\ t.out = e.out /\ t.satisfied = e.satisfied
        /\ t.nonce = e.nonce /\ t.hopZero = e.hopZero
    BY DEF setExpiryTimer, IsEntry
  <1> HIDE DEF t
  <1>2. PICK x \in {e, t} : pit' = [pit EXCEPT ![k] = x]
    BY DEF AfterNack, t
  <1> QED BY <1>1, <1>2 DEF IsPit

\* A Nack leaves the faces of the entry as they are, but for the one it marks.
LEMMA NackedKeeps ==
  ASSUME NEW k, k \in DOMAIN pit, IsEntry(pit[k]), NEW f, f \in DOMAIN pit[k].out,
         NEW e, e = NackedEntry(k, f)
  PROVE  /\ IsEntry(e)
         /\ e.in = pit[k].in /\ DOMAIN e.out = DOMAIN pit[k].out
         /\ e.satisfied = pit[k].satisfied /\ e.nonce = pit[k].nonce
         /\ e.hopZero = pit[k].hopZero
         /\ \A g \in DOMAIN e.out : /\ e.out[g].mp = pit[k].out[g].mp
                                    /\ e.out[g].nonce = pit[k].out[g].nonce
  <1> DEFINE o1 == [pit[k].out EXCEPT ![f].nacked = TRUE, ![f].await = FALSE]
  <1>1. e = [pit[k] EXCEPT !.out = o1]
    BY DEF NackedEntry, IsEntry, IsPartialFn
  <1>2. /\ DOMAIN o1 = DOMAIN pit[k].out
        /\ \A g \in DOMAIN o1 : /\ o1[g].mp = pit[k].out[g].mp
                                /\ o1[g].nonce = pit[k].out[g].nonce
    BY DEF IsEntry, IsPartialFn, OutRecord
  <1>3. IsEntry(e)
    BY NackedEntryType
  <1> HIDE DEF o1
  <1>4. e.out = o1 /\ e.in = pit[k].in /\ e.satisfied = pit[k].satisfied
        /\ e.nonce = pit[k].nonce /\ e.hopZero = pit[k].hopZero
    BY <1>1 DEF IsEntry
  <1> QED BY <1>2, <1>3, <1>4

\* A retry through the rendezvous server keeps every downstream.
LEMMA RetryKeeps ==
  ASSUME NEW e, IsEntry(e), NEW d, d \in DOMAIN e.in, NEW s, s = RetryViaRv(e, d)
  PROVE  /\ IsEntry(s) /\ DOMAIN s.in = DOMAIN e.in /\ s.satisfied = e.satisfied
         /\ s.nonce = e.nonce /\ s.hopZero = e.hopZero
  <1> DEFINE e1 == [e EXCEPT !.in[d].stage = "rv"]
  <1>1. IsEntry(s)
    BY RetryViaRvType
  <1>2. IsEntry(e1)
    BY StageType DEF Stage
  <1>3. DOMAIN e1.in = DOMAIN e.in /\ e1.satisfied = e.satisfied
        /\ e1.nonce = e.nonce /\ e1.hopZero = e.hopZero
    BY DEF IsEntry, IsPartialFn
  <1>4. s = sendInterest(e1, RvHops(e), e.nonce, e.hopZero, NoPrefix)
    BY DEF RetryViaRv
  <1> HIDE DEF e1
  <1>5. s.in = e1.in /\ s.satisfied = e1.satisfied /\ s.nonce = e1.nonce
        /\ s.hopZero = e1.hopZero
    BY <1>2, <1>4 DEF sendInterest, IsEntry
  <1> QED BY <1>1, <1>3, <1>5

\* Only the downstreams in D lose their in-records.
LEMMA NackDownstreamsIn ==
  ASSUME NEW e, IsEntry(e), NEW D, NEW n, n = NackDownstreams(e, D)
  PROVE  /\ IsEntry(n) /\ n.out = e.out /\ n.satisfied = e.satisfied
         /\ n.nonce = e.nonce /\ n.hopZero = e.hopZero
         /\ DOMAIN e.in \ D \subseteq DOMAIN n.in
         /\ DOMAIN n.in \subseteq DOMAIN e.in
  <1>1. IsEntry(n)
    BY NackDownstreamsType
  <1>2. /\ n.out = e.out /\ n.satisfied = e.satisfied
        /\ n.nonce = e.nonce /\ n.hopZero = e.hopZero
    BY DEF NackDownstreams, sendNack, IsEntry
  <1>3. DOMAIN e.in \ D \subseteq DOMAIN n.in /\ DOMAIN n.in \subseteq DOMAIN e.in
    BY DEF NackDownstreams, sendNack, IsEntry, Without
  <1> QED BY <1>1, <1>2, <1>3

\* A Nack is passed to a downstream whose Interest went straight to the mobile
\* producer only when no nexthop towards the rendezvous server is left: of all the
\* handlers that take in-records away, dealNack alone does so without an answer.
THEOREM RendezvousTriedFirst == Spec => RvBeforeNack
<1> DEFINE A == \A k \in DOMAIN pit \cap DOMAIN pit' : \A d \in DOMAIN pit[k].in :
                  /\ budget' = budget /\ up' = up
                  /\ ~pit'[k].satisfied
                  /\ d \notin DOMAIN pit'[k].in
                  /\ pit[k].in[d].stage = "straight"
                  => RvHops(pit[k]) = {}
<1>1. ASSUME TypeOK, [Next]_vars PROVE A
  <2> SUFFICES ASSUME NEW k \in DOMAIN pit \cap DOMAIN pit', NEW d \in DOMAIN pit[k].in,
                      budget' = budget, up' = up, ~pit'[k].satisfied,
                      d \notin DOMAIN pit'[k].in, pit[k].in[d].stage = "straight"
               PROVE  RvHops(pit[k]) = {}
    OBVIOUS
  <2>0. IsPit(pit) /\ IsEntry(pit[k])
    BY <1>1 DEF TypeOK, IsPit
  <2>1. ASSUME NEW x \in Pkt, NEW f \in Face, IncomingData(x, f) \/ IncomingAck(x, f)
        PROVE  FALSE
    <3>1. ASSUME NEW b, pit'[k] = SatisfiedEntry(pit[k], f, b) PROVE FALSE
      BY <3>1 DEF SatisfiedEntry
    <3>2. ASSUME NEW G \in SUBSET Face,
                 pit'[k] = sendInterest(pit[k], G, pit[k].nonce, pit[k].hopZero, NoPrefix)
          PROVE  FALSE
      <4>1. pit'[k].in = pit[k].in
        BY <2>0, <3>2 DEF sendInterest, IsEntry
      <4> QED BY <4>1
    <3> QED BY <1>1, <2>1, <3>1, <3>2, DataKinds
  <2>2. ASSUME NEW j \in Key, NEW f \in Face,
               NackWait(j, f) \/ NackRetry(j, f) \/ NackReturn(j, f)
        PROVE  RvHops(pit[k]) = {}
    <3>1. PICK e : e = NackedEntry(j, f)
      OBVIOUS
    <3>2. j \in DOMAIN pit /\ f \in DOMAIN pit[j].out /\ IsEntry(pit[j])
      BY <1>1, <2>2 DEF NackWait, NackRetry, NackReturn, NackArrives, TypeOK, IsPit
    <3>3. /\ IsEntry(e) /\ e.in = pit[j].in /\ DOMAIN e.out = DOMAIN pit[j].out
      BY <3>1, <3>2, NackedKeeps
    <3>4. CASE NackWait(j, f)
      <4>1. AfterNack(j, e, {})
        BY <3>1, <3>4 DEF NackWait
      <4>2. pit'[j].in = e.in /\ (j # k => pit'[k] = pit[k])
        BY <2>0, <3>2, <3>3, <4>1, AfterNackStores
      <4> QED BY <3>3, <4>2
    <3>5. CASE NackRetry(j, f)
      <4>1. PICK c \in NackTo(e) : AfterNack(j, RetryViaRv(e, c), RvHops(e))
        BY <3>1, <3>5 DEF NackRetry
      <4>2. PICK s : s = RetryViaRv(e, c)
        OBVIOUS
      <4>3. c \in DOMAIN e.in
        BY DEF NackTo
      <4>4. IsEntry(s) /\ DOMAIN s.in = DOMAIN e.in
        BY <3>3, <4>2, <4>3, RetryKeeps
      <4>5. pit'[j].in = s.in /\ (j # k => pit'[k] = pit[k])
        BY <2>0, <3>2, <4>1, <4>2, <4>4, AfterNackStores
      <4> QED BY <3>3, <4>4, <4>5
    <3>6. CASE NackReturn(j, f)
      <4>1. AfterNack(j, NackDownstreams(e, NackTo(e)), {})
            /\ \A c \in NackTo(e) : ~CanRetry(e, c)
        BY <3>1, <3>6 DEF NackReturn
      <4>2. PICK n : n = NackDownstreams(e, NackTo(e))
        OBVIOUS
      <4>3. IsEntry(n) /\ DOMAIN e.in \ NackTo(e) \subseteq DOMAIN n.in
        BY <3>3, <4>2, NackDownstreamsIn
      <4>4. pit'[j].in = n.in /\ (j # k => pit'[k] = pit[k])
        BY <2>0, <3>2, <4>1, <4>2, <4>3, AfterNackStores
      <4>5. j = k /\ d \in NackTo(e)
        BY <3>3, <4>3, <4>4
      <4>6. RvHops(e) = {}
        BY <3>3, <4>1, <4>5 DEF CanRetry
      <4> QED BY <3>3, <4>5, <4>6 DEF RvHops
    <3> QED BY <2>2, <3>4, <3>5, <3>6
  <2>3. ASSUME NEW j, InterestFinalize(j) PROVE FALSE
    <3>1. pit'[k] = pit[k]
      BY <2>3 DEF InterestFinalize, Without
    <3> QED BY <3>1
  <2>4. ASSUME NEW j, NEW f, ExpireInRecord(j, f) PROVE FALSE
    <3>1. DOMAIN pit'[k].in = DOMAIN pit[k].in
      BY <2>0, <2>4 DEF ExpireInRecord, IsPit, IsEntry, IsPartialFn
    <3> QED BY <3>1
  <2>5. pit' # pit
    OBVIOUS
  <2> QED BY <1>1, <2>1, <2>2, <2>3, <2>4, <2>5, QuietSteps
<1>2. Spec => [][A]_vars
  <2>1. TypeOK /\ [Next]_vars => [A]_vars
    BY <1>1
  <2> QED BY <2>1, TypeCorrect, PTL DEF Spec
<1> QED BY <1>2 DEF RvBeforeNack


-----------------------------------------------------------------------------
(* LastNonceCaught and RetransmitToNewMp                                    *)

\* What a handler that neither answers nor deletes it makes of entry a of key k: the
\* out-records stay, and what is new is a status about the prefix of k or none.
Grows(k, a, e) ==
  /\ DOMAIN a.out \subseteq DOMAIN e.out
  /\ e.satisfied => a.satisfied \/ CsHas(k)
  /\ \A g \in DOMAIN e.out :
       \/ e.out[g].mp \in {NoPrefix, PrefixOf[k], Root}
       \/ g \in DOMAIN a.out /\ e.out[g].mp = a.out[g].mp

\* An entry may grow in several steps.
LEMMA GrowsTwice ==
  ASSUME NEW k, NEW a, NEW b, NEW e, Grows(k, a, b), Grows(k, b, e) PROVE Grows(k, a, e)
  BY DEF Grows

\* An entry with the same out-records has grown.
LEMMA SameGrows ==
  ASSUME NEW k, NEW a, NEW e, e.out = a.out, e.satisfied = a.satisfied PROVE Grows(k, a, e)
  BY DEF Grows

\* sendInterest renews or adds out-records, with the prefix the strategy gives.
LEMMA SendInterestGrows ==
  ASSUME NEW k, NEW e, IsEntry(e), NEW G \in SUBSET Face, NEW z \in Nonce, NEW h \in BOOLEAN,
         NEW p \in {NoPrefix, PrefixOf[k], Root}, NEW s, s = sendInterest(e, G, z, h, p)
  PROVE  Grows(k, e, s)
  <1> DEFINE sent == Sendable(G, h)
             out == [g \in DOMAIN e.out \cup sent |->
                       IF g \in sent THEN RenewedOutRecord(e, g, z, p) ELSE e.out[g]]
  <1>1. \A g \in sent : LET o == RenewedOutRecord(e, g, z, p) IN
                        \/ o.mp \in {NoPrefix, PrefixOf[k], Root}
                        \/ g \in DOMAIN e.out /\ o.mp = e.out[g].mp
    BY DEF RenewedOutRecord
  <1>2. s = [e EXCEPT !.out = out]
    BY DEF sendInterest
  <1> HIDE DEF sent
  <1>3. /\ DOMAIN e.out \subseteq DOMAIN out
        /\ \A g \in DOMAIN out : \/ out[g].mp \in {NoPrefix, PrefixOf[k], Root}
                                 \/ g \in DOMAIN e.out /\ out[g].mp = e.out[g].mp
    BY <1>1
  <1> HIDE DEF out
  <1>4. s.out = out /\ s.satisfied = e.satisfied
    BY <1>2 DEF IsEntry
  <1> QED BY <1>3, <1>4 DEF Grows

\* The in-record inserted and the timer set leave the rest of the entry alone.
LEMMA AcceptedGrows ==
  ASSUME IsPit(pit), NEW k \in Key, NEW f \in Face, NEW z \in Nonce, NEW h \in BOOLEAN
  PROVE  Grows(k, PitInsert(k, z, h), Accepted(k, f, z, h))
  <1>1. PICK e : e = PitInsert(k, z, h)
    OBVIOUS
  <1>2. IsEntry(e)
    BY <1>1, PitInsertType
  <1>3. PICK i : i = insertOrUpdateInRecord(e, f, z)
    OBVIOUS
  <1>4. i.out = e.out /\ i.satisfied = e.satisfied
    BY <1>2, <1>3 DEF insertOrUpdateInRecord, IsEntry
  <1>5. IsEntry(i)
    BY <1>2, <1>3, InsertInRecordType
  <1>6. PICK a : a = setExpiryTimer(i, "running")
    OBVIOUS
  <1>7. a.out = i.out /\ a.satisfied = i.satisfied
    BY <1>5, <1>6 DEF setExpiryTimer, IsEntry
  <1>8. a = Accepted(k, f, z, h)
    BY <1>1, <1>3, <1>6 DEF Accepted
  <1>9. Grows(k, e, a)
    BY <1>4, <1>7, SameGrows
  <1> QED BY <1>1, <1>8, <1>9

\* One Interest: the entry of its key grows from the one there was, or from a new one.
TakesInterest(k) ==
  \E z \in Nonce, h \in BOOLEAN : \E e :
    pit' = Put(pit, k, e) /\ Grows(k, PitInsert(k, z, h), e)

\* Whatever becomes of an Interest, at most the entry of its key changes, and grows.
LEMMA InterestGrows ==
  ASSUME TypeOK, ReceiveInterest
  PROVE  pit' = pit \/ \E k \in Key : TakesInterest(k)
  <1>1. ASSUME NEW k \in Key, NEW f \in Face, NEW z \in Nonce, NEW h \in BOOLEAN,
               ContentStoreHit(k, f, z, h)
        PROVE  TakesInterest(k)
    <2>1. PICK e : e = PitInsert(k, z, h)
      OBVIOUS
    <2>2. IsEntry(e)
      BY <2>1, PitInsertType DEF TypeOK
    <2>3. PICK s : s = setExpiryTimer([e EXCEPT !.satisfied = TRUE], "now")
      OBVIOUS
    <2>4. s.out = e.out
      BY <2>2, <2>3 DEF setExpiryTimer, IsEntry
    <2>5. pit' = Put(pit, k, s) /\ CsHas(k)
      BY <1>1, <2>1, <2>3 DEF ContentStoreHit, CsHit
    <2>6. Grows(k, e, s)
      BY <2>4, <2>5 DEF Grows
    <2> QED BY <2>1, <2>5, <2>6 DEF TakesInterest
  <1>2. ASSUME NEW k \in Key, NEW f \in Face, NEW z \in Nonce, NEW h \in BOOLEAN,
               ForwardStraight(k, f, z, h)
        PROVE  TakesInterest(k)
    <2>1. PICK q : q = findLongestPrefixMatch(PrefixOf[k])
      OBVIOUS
    <2>2. q \in {NoPrefix, PrefixOf[k], Root}
      BY <2>1 DEF findLongestPrefixMatch
    <2>3. PICK a : a = Accepted(k, f, z, h)
      OBVIOUS
    <2>4. IsEntry(a) /\ Grows(k, PitInsert(k, z, h), a)
      BY <2>3, AcceptedType, AcceptedGrows DEF TypeOK
    <2>5. PICK e : e = sendInterest(a, Eligible(f, PrefixOf[k]), z, h, q)
      OBVIOUS
    <2>6. Eligible(f, PrefixOf[k]) \in SUBSET Face /\ q \in Prefix
      BY <2>1, EligibleType, LongestPrefixType
    <2>7. IsEntry(e) /\ Grows(k, a, e)
      BY <2>2, <2>4, <2>5, <2>6, SendInterestType, SendInterestGrows
    <2>8. PICK s : s = [e EXCEPT !.in[f].stage = "straight"]
      OBVIOUS
    <2>9. s.out = e.out /\ s.satisfied = e.satisfied
      BY <2>7, <2>8 DEF IsEntry
    <2>10. Grows(k, PitInsert(k, z, h), s)
      <3>1. Grows(k, e, s)
        BY <2>9, SameGrows
      <3>2. Grows(k, a, s)
        BY <2>7, <3>1, GrowsTwice
      <3> QED BY <2>4, <3>2, GrowsTwice
    <2>11. pit' = Put(pit, k, s)
      BY <1>2, <2>1, <2>3, <2>5, <2>8 DEF ForwardStraight
    <2> QED BY <2>10, <2>11 DEF TakesInterest
  <1>3. ASSUME NEW k \in Key, NEW f \in Face, NEW z \in Nonce, NEW h \in BOOLEAN,
               ForwardToRv(k, f, z, h) \/ ForwardPlain(k, f, z, h)
        PROVE  TakesInterest(k)
    <2>1. PICK a : a = Accepted(k, f, z, h)
      OBVIOUS
    <2>2. IsEntry(a) /\ Grows(k, PitInsert(k, z, h), a)
      BY <2>1, AcceptedType, AcceptedGrows DEF TypeOK
    <2>3. PICK p : pit' = Put(pit, k, sendInterest(a, Eligible(f, p), z, h, NoPrefix))
      BY <1>3, <2>1 DEF ForwardToRv, ForwardPlain
    <2>4. PICK e : e = sendInterest(a, Eligible(f, p), z, h, NoPrefix)
      OBVIOUS
    <2>5. Eligible(f, p) \in SUBSET Face
      BY EligibleType
    <2>6. Grows(k, a, e)
      BY <2>2, <2>4, <2>5, SendInterestGrows
    <2>7. Grows(k, PitInsert(k, z, h), e)
      BY <2>2, <2>6, GrowsTwice
    <2> QED BY <2>3, <2>4, <2>7 DEF TakesInterest
  <1>4. ASSUME NEW k \in Key, NEW f \in Face, NEW z \in Nonce, NEW h \in BOOLEAN,
               NEW hint \in BOOLEAN, RejectInterest(k, f, z, hint, h)
        PROVE  TakesInterest(k)
    <2>1. PICK a : a = Accepted(k, f, z, h)
      OBVIOUS
    <2>2. IsEntry(a) /\ Grows(k, PitInsert(k, z, h), a)
      BY <2>1, AcceptedType, AcceptedGrows DEF TypeOK
    <2>3. PICK s : s = setExpiryTimer(sendNack(a, {f}), "now")
      OBVIOUS
    <2>4. s.out = a.out /\ s.satisfied = a.satisfied
      BY <2>2, <2>3 DEF setExpiryTimer, sendNack, IsEntry
    <2>5. Grows(k, PitInsert(k, z, h), s)
      BY <2>2, <2>4, SameGrows, GrowsTwice
    <2>6. pit' = Put(pit, k, s)
      BY <1>4, <2>1, <2>3 DEF RejectInterest
    <2> QED BY <2>5, <2>6 DEF TakesInterest
  <1>5. ASSUME NEW k, NEW f, NEW z, InterestLoop(k, f, z) PROVE pit' = pit
    BY <1>5 DEF InterestLoop
  <1>6. ASSUME NEW k, NEW f, NEW z, NEW h, ForwardStraightFault(k, f, z, h) PROVE pit' = pit
    BY <1>6 DEF ForwardStraightFault
  <1> QED BY <1>1, <1>2, <1>3, <1>4, <1>5, <1>6 DEF ReceiveInterest

\* A Nack takes no out-record away and satisfies no entry.
LEMMA NackGrows ==
  ASSUME TypeOK, ReceiveNack
  PROVE  DOMAIN pit' = DOMAIN pit /\ \A k \in DOMAIN pit : Grows(k, pit[k], pit'[k])
  <1>1. PICK j \in Key, f \in Face : NackWait(j, f) \/ NackRetry(j, f) \/ NackReturn(j, f)
    BY DEF ReceiveNack
  <1>2. IsPit(pit) /\ j \in DOMAIN pit /\ f \in DOMAIN pit[j].out /\ IsEntry(pit[j])
    BY <1>1 DEF NackWait, NackRetry, NackReturn, NackArrives, TypeOK, IsPit
  <1>3. PICK e : e = NackedEntry(j, f)
    OBVIOUS
  <1>4. IsEntry(e) /\ Grows(j, pit[j], e)
    BY <1>2, <1>3, NackedKeeps DEF Grows
  <1>5. ASSUME NEW s, IsEntry(s), Grows(j, e, s), NEW F, AfterNack(j, s, F)
        PROVE  DOMAIN pit' = DOMAIN pit /\ \A k \in DOMAIN pit : Grows(k, pit[k], pit'[k])
    <2>1. /\ DOMAIN pit' = DOMAIN pit
          /\ \A k \in DOMAIN pit : k # j => pit'[k] = pit[k]
          /\ pit'[j].out = s.out /\ pit'[j].satisfied = s.satisfied
      BY <1>2, <1>5, AfterNackStores
    <2>2. Grows(j, pit[j], pit'[j])
      BY <1>4, <1>5, <2>1, SameGrows, GrowsTwice
    <2> QED BY <2>1, <2>2, SameGrows
  <1>6. CASE NackWait(j, f)
    <2>1. AfterNack(j, e, {}) /\ Grows(j, e, e)
      BY <1>3, <1>6, SameGrows DEF NackWait
    <2> QED BY <1>4, <1>5, <2>1
  <1>7. CASE NackRetry(j, f)
    <2>1. PICK c \in NackTo(e) : AfterNack(j, RetryViaRv(e, c), RvHops(e))
      BY <1>3, <1>7 DEF NackRetry
    <2>2. c \in DOMAIN e.in
      BY DEF NackTo
    <2>3. PICK i : i = [e EXCEPT !.in[c].stage = "rv"]
      OBVIOUS
    <2>4. IsEntry(i) /\ i.out = e.out /\ i.satisfied = e.satisfied
      <3>1. IsEntry(i)
        BY <1>4, <2>2, <2>3, StageType DEF Stage
      <3> QED BY <1>4, <2>3, <3>1 DEF IsEntry
    <2>5. PICK s : s = sendInterest(i, RvHops(e), e.nonce, e.hopZero, NoPrefix)
      OBVIOUS
    <2>6. s = RetryViaRv(e, c)
      BY <2>3, <2>5 DEF RetryViaRv
    <2>7. RvHops(e) \in SUBSET Face /\ e.nonce \in Nonce /\ e.hopZero \in BOOLEAN
      BY <1>4, RvHopsType DEF IsEntry
    <2>8. Grows(j, i, s)
      BY <2>4, <2>5, <2>7, SendInterestGrows
    <2>9. Grows(j, e, s)
      BY <2>4, <2>8, SameGrows, GrowsTwice
    <2>10. IsEntry(s)
      BY <1>4, <2>2, <2>6, RetryViaRvType
    <2> QED BY <1>5, <2>1, <2>6, <2>9, <2>10
  <1>8. CASE NackReturn(j, f)
    <2>1. PICK n : n = NackDownstreams(e, NackTo(e))
      OBVIOUS
    <2>2. AfterNack(j, n, {})
      BY <1>3, <1>8, <2>1 DEF NackReturn
    <2>3. IsEntry(n) /\ Grows(j, e, n)
      BY <1>4, <2>1, NackDownstreamsIn, SameGrows
    <2> QED BY <1>5, <2>2, <2>3
  <1> QED BY <1>1, <1>6, <1>7, <1>8


\* What every handler may do to the PIT entry of key k.
LEMMA EntrySteps ==
  ASSUME TypeOK, [Next]_vars, NEW k \in DOMAIN pit
  PROVE  \/ k \in DOMAIN pit' /\ Grows(k, pit[k], pit'[k])
         \/ \E d \in Pkt, f \in Face :
              /\ DataArrives(d, f) /\ k \in findAllDataMatches(d)
              /\ k \in DOMAIN pit'
              /\ \E b \in BOOLEAN : pit'[k] = SatisfiedEntry(pit[k], f, b)
         \/ InterestFinalize(k)
         \/ \E f \in Face :
              /\ up' # up /\ k \in DOMAIN pit'
              /\ pit'[k].out = Without(pit[k].out, {f})
              /\ pit'[k].satisfied = pit[k].satisfied
  <1>0. IsPit(pit) /\ IsEntry(pit[k])
    BY DEF TypeOK, IsPit
  <1>1. ASSUME pit' = pit PROVE k \in DOMAIN pit' /\ Grows(k, pit[k], pit'[k])
    BY <1>1, SameGrows
  <1>2. ASSUME NEW j \in Key, TakesInterest(j)
        PROVE  k \in DOMAIN pit' /\ Grows(k, pit[k], pit'[k])
    <2>0. PICK z \in Nonce, h \in BOOLEAN : \E e :
            pit' = Put(pit, j, e) /\ Grows(j, PitInsert(j, z, h), e)
      BY <1>2 DEF TakesInterest
    <2>1. PICK e :
            pit' = Put(pit, j, e) /\ Grows(j, PitInsert(j, z, h), e)
      BY <2>0
    <2>2. CASE j = k
      BY <2>1, <2>2 DEF Put, PitInsert
    <2>3. CASE j # k
      BY <2>1, <2>3, SameGrows DEF Put
    <2> QED BY <2>2, <2>3
  <1>3. ASSUME NEW d \in Pkt, NEW f \in Face, IncomingData(d, f) \/ IncomingAck(d, f)
        PROVE  \/ k \in DOMAIN pit' /\ Grows(k, pit[k], pit'[k])
               \/ /\ DataArrives(d, f) /\ k \in findAllDataMatches(d)
                  /\ k \in DOMAIN pit'
                  /\ \E b \in BOOLEAN : pit'[k] = SatisfiedEntry(pit[k], f, b)
    <2>1. DataArrives(d, f) /\ k \in DOMAIN pit'
      BY <1>3 DEF IncomingData, IncomingAck
    <2>2. pit[k].nonce \in Nonce /\ pit[k].hopZero \in BOOLEAN
      BY <1>0 DEF IsEntry
    <2>3. ASSUME NEW G \in SUBSET Face,
                 pit'[k] = sendInterest(pit[k], G, pit[k].nonce, pit[k].hopZero, NoPrefix)
          PROVE  Grows(k, pit[k], pit'[k])
      BY <1>0, <2>2, <2>3, SendInterestGrows
    <2> QED BY <1>3, <2>1, <2>3, DataKinds, SameGrows
  <1>4. ASSUME NEW j \in Key, InterestFinalize(j), j # k
        PROVE  k \in DOMAIN pit' /\ Grows(k, pit[k], pit'[k])
    BY <1>4, SameGrows DEF InterestFinalize, Without
  <1>5. ASSUME NEW j \in Key, NEW f \in Face, ExpireInRecord(j, f)
        PROVE  k \in DOMAIN pit' /\ Grows(k, pit[k], pit'[k])
    <2>1. /\ k \in DOMAIN pit' /\ pit'[k].out = pit[k].out
          /\ pit'[k].satisfied = pit[k].satisfied
      BY <1>0, <1>5 DEF ExpireInRecord, IsPit, IsEntry
    <2> QED BY <2>1, SameGrows
  <1>6. ASSUME NEW f \in Face, FaceRemoved(f)
        PROVE  /\ up' # up /\ k \in DOMAIN pit'
               /\ pit'[k].out = Without(pit[k].out, {f})
               /\ pit'[k].satisfied = pit[k].satisfied
    BY <1>0, <1>6 DEF FaceRemoved, IsEntry
  <1>7. ASSUME NEW p, ExpireMeasurement(p) PROVE pit' = pit
    BY <1>7 DEF ExpireMeasurement
  <1>8. RibThread => pit' = pit
    BY DEF RibThread, RunSlAnnounce, RunSlRenew, AnnouncementValidated, RouteExpires
  <1>9. UNCHANGED vars => pit' = pit
    BY DEF vars
  <1>10. ReceiveInterest => k \in DOMAIN pit' /\ Grows(k, pit[k], pit'[k])
    BY <1>1, <1>2, InterestGrows
  <1>11. ReceiveNack => k \in DOMAIN pit' /\ Grows(k, pit[k], pit'[k])
    BY NackGrows
  <1>12. ASSUME NEW d, CsEvict(d) PROVE pit' = pit
    BY <1>12 DEF CsEvict
  <1> QED BY <1>1, <1>3, <1>4, <1>5, <1>6, <1>7, <1>8, <1>9, <1>10, <1>11, <1>12
          DEF Next, ReceiveData, Timers

\* An entry that appears was created by an Interest.
LEMMA NewEntrySteps ==
  ASSUME TypeOK, [Next]_vars, NEW k \in DOMAIN pit', k \notin DOMAIN pit
  PROVE  \E z \in Nonce, h \in BOOLEAN : Grows(k, NewEntry(z, h), pit'[k])
  <1>0. IsPit(pit)
    BY DEF TypeOK
  <1>1. ASSUME NEW j \in Key, TakesInterest(j)
        PROVE  \E z \in Nonce, h \in BOOLEAN : Grows(k, NewEntry(z, h), pit'[k])
    <2>0. PICK z \in Nonce, h \in BOOLEAN : \E e :
            pit' = Put(pit, j, e) /\ Grows(j, PitInsert(j, z, h), e)
      BY <1>1 DEF TakesInterest
    <2>1. PICK e :
            pit' = Put(pit, j, e) /\ Grows(j, PitInsert(j, z, h), e)
      BY <2>0
    <2>2. j = k
      BY <2>1 DEF Put
    <2>3. pit'[k] = e /\ PitInsert(j, z, h) = NewEntry(z, h)
      BY <2>1, <2>2 DEF Put, PitInsert
    <2> QED BY <2>1, <2>2, <2>3
  <1>2. ASSUME NEW d, NEW f, IncomingData(d, f) \/ IncomingAck(d, f) PROVE FALSE
    BY <1>2 DEF IncomingData, IncomingAck
  <1>3. ASSUME NEW j, InterestFinalize(j) PROVE FALSE
    BY <1>3 DEF InterestFinalize, Without
  <1>4. ASSUME NEW j, NEW f, ExpireInRecord(j, f) PROVE FALSE
    BY <1>0, <1>4 DEF ExpireInRecord, IsPit
  <1>5. ASSUME NEW f, FaceRemoved(f) PROVE FALSE
    BY <1>5 DEF FaceRemoved
  <1>6. ASSUME NEW p, ExpireMeasurement(p) PROVE pit' = pit
    BY <1>6 DEF ExpireMeasurement
  <1>7. RibThread => pit' = pit
    BY DEF RibThread, RunSlAnnounce, RunSlRenew, AnnouncementValidated, RouteExpires
  <1>8. UNCHANGED vars => pit' = pit
    BY DEF vars
  <1>9. ASSUME NEW d, CsEvict(d) PROVE pit' = pit
    BY <1>9 DEF CsEvict
  <1> QED BY <1>1, <1>2, <1>3, <1>4, <1>5, <1>6, <1>7, <1>8, <1>9, InterestGrows, NackGrows
          DEF Next, ReceiveData, Timers

\* The Content Store loses Data by eviction only.
LEMMA StoreKeeps == ASSUME [Next]_vars PROVE (cs \cup evicted) \subseteq (cs' \cup evicted')
  <1>1. ReceiveInterest => UNCHANGED <<cs, evicted>>
    <2>1. ASSUME NEW k, NEW f, NEW z, NEW h,
                 \/ InterestLoop(k, f, z) \/ ContentStoreHit(k, f, z, h)
                 \/ ForwardStraight(k, f, z, h) \/ ForwardStraightFault(k, f, z, h)
                 \/ ForwardToRv(k, f, z, h) \/ ForwardPlain(k, f, z, h)
                 \/ \E hint \in BOOLEAN : RejectInterest(k, f, z, hint, h)
          PROVE  UNCHANGED <<cs, evicted>>
      BY <2>1
      DEF InterestLoop, ContentStoreHit, ForwardStraight, ForwardStraightFault,
          ForwardToRv, ForwardPlain, RejectInterest
    <2> QED BY <2>1, Zenon DEF ReceiveInterest
  <1>2. ReceiveData => (cs \cup evicted) \subseteq (cs' \cup evicted')
    BY DEF ReceiveData, IncomingData, IncomingAck, DataArrives
  <1>3. ReceiveNack => UNCHANGED <<cs, evicted>>
    BY DEF ReceiveNack, NackWait, NackRetry, NackReturn
  <1>4. Timers => (cs \cup evicted) \subseteq (cs' \cup evicted')
    BY DEF Timers, InterestFinalize, ExpireInRecord, ExpireMeasurement, FaceRemoved, CsEvict
  <1>5. RibThread => UNCHANGED <<cs, evicted>>
    BY DEF RibThread, RunSlAnnounce, RunSlRenew, AnnouncementValidated, RouteExpires
  <1> QED BY <1>1, <1>2, <1>3, <1>4, <1>5 DEF Next, vars

\* The Data that satisfied an entry can answer its Interest again unless it has been
\* evicted, and the status of an out-record names the prefix of the Interest, the empty
\* one, or none.
WasStored(k) == CsHas(k) \/ AnswerEvicted(k)
IsAnswered(k, e) == CsEnabled /\ e.satisfied => k \in FreshKey \/ WasStored(k)
HasOwnStatus(k, e) == \A g \in DOMAIN e.out : e.out[g].mp \in {NoPrefix, PrefixOf[k], Root}

EntryInv == \A k \in DOMAIN pit : IsAnswered(k, pit[k]) /\ HasOwnStatus(k, pit[k])

\* What has been in the Content Store is there or has been evicted.
LEMMA WasStoredKept ==
  ASSUME NEW k, WasStored(k), (cs \cup evicted) \subseteq (cs' \cup evicted') PROVE WasStored(k)'
  BY DEF WasStored, CsHas, AnswerEvicted

\* An entry that grows keeps both.
LEMMA GrowsKeeps ==
  ASSUME NEW k, NEW a, IsAnswered(k, a), HasOwnStatus(k, a),
         (cs \cup evicted) \subseteq (cs' \cup evicted'), Grows(k, a, pit'[k])
  PROVE  (IsAnswered(k, pit[k]) /\ HasOwnStatus(k, pit[k]))'
  <1>1. WasStored(k) => WasStored(k)'
    BY WasStoredKept
  <1>2. CsEnabled /\ pit'[k].satisfied => k \in FreshKey \/ WasStored(k)'
    BY <1>1 DEF IsAnswered, Grows, WasStored
  <1>3. \A g \in DOMAIN pit'[k].out : pit'[k].out[g].mp \in {NoPrefix, PrefixOf[k], Root}
    BY DEF HasOwnStatus, Grows
  <1> QED BY <1>2, <1>3 DEF IsAnswered, HasOwnStatus

\* Data that satisfies an Interest is in the Content Store, if that is enabled.
LEMMA DataStored ==
  ASSUME NEW d \in Pkt, NEW f, DataArrives(d, f), NEW k, k \in findAllDataMatches(d), CsEnabled,
         k \notin FreshKey
  PROVE  CsHas(k)'
  BY DEF DataArrives, findAllDataMatches, CsHas

\* Both hold of every entry in every reachable state.
LEMMA EntryInvariant == Spec => []EntryInv
<1>1. Init => EntryInv
  BY DEF Init, EntryInv, EmptyFn
<1>2. TypeOK /\ EntryInv /\ [Next]_vars => EntryInv'
  <2> SUFFICES ASSUME TypeOK, EntryInv, [Next]_vars, NEW k \in DOMAIN pit'
               PROVE  (IsAnswered(k, pit[k]) /\ HasOwnStatus(k, pit[k]))'
    BY DEF EntryInv
  <2>0. (cs \cup evicted) \subseteq (cs' \cup evicted')
    BY StoreKeeps
  <2>1. CASE k \notin DOMAIN pit
    <3>1. PICK z \in Nonce, h \in BOOLEAN : Grows(k, NewEntry(z, h), pit'[k])
      BY <2>1, NewEntrySteps
    <3>2. PICK a : a = NewEntry(z, h)
      OBVIOUS
    <3>3. IsAnswered(k, a) /\ HasOwnStatus(k, a)
      BY <3>2 DEF NewEntry, EmptyFn, IsAnswered, HasOwnStatus
    <3> QED BY <2>0, <3>1, <3>2, <3>3, GrowsKeeps
  <2>2. CASE k \in DOMAIN pit
    <3>0. IsAnswered(k, pit[k]) /\ HasOwnStatus(k, pit[k])
      BY <2>2 DEF EntryInv
    <3>1. CASE Grows(k, pit[k], pit'[k])
      BY <2>0, <3>0, <3>1, GrowsKeeps
    <3>2. ASSUME NEW d \in Pkt, NEW f \in Face, DataArrives(d, f),
                 k \in findAllDataMatches(d), NEW b \in BOOLEAN,
                 pit'[k] = SatisfiedEntry(pit[k], f, b)
          PROVE  (IsAnswered(k, pit[k]) /\ HasOwnStatus(k, pit[k]))'
      <4>1. CsEnabled /\ k \notin FreshKey => CsHas(k)'
        BY <3>2, DataStored
      <4>2. pit'[k].out = Without(pit[k].out, {f})
        BY <3>2 DEF SatisfiedEntry
      <4>3. \A g \in DOMAIN pit'[k].out : pit'[k].out[g].mp \in {NoPrefix, PrefixOf[k], Root}
        BY <3>0, <4>2 DEF HasOwnStatus, Without
      <4> QED BY <4>1, <4>3 DEF IsAnswered, HasOwnStatus, WasStored
    <3>3. ASSUME NEW f \in Face, pit'[k].out = Without(pit[k].out, {f}),
                 pit'[k].satisfied = pit[k].satisfied
          PROVE  (IsAnswered(k, pit[k]) /\ HasOwnStatus(k, pit[k]))'
      <4>1. WasStored(k) => WasStored(k)'
        BY <2>0, WasStoredKept
      <4>2. \A g \in DOMAIN pit'[k].out : pit'[k].out[g].mp \in {NoPrefix, PrefixOf[k], Root}
        BY <3>0, <3>3 DEF HasOwnStatus, Without
      <4> QED BY <3>0, <3>3, <4>1, <4>2 DEF IsAnswered, HasOwnStatus
    <3>4. ~InterestFinalize(k)
      BY DEF InterestFinalize, Without
    <3> QED BY <2>2, <3>1, <3>2, <3>3, <3>4, EntrySteps
  <2> QED BY <2>1, <2>2
<1> QED BY <1>1, <1>2, TypeCorrect, PTL DEF Spec

\* When Data or the timer takes an out-record away, the nonce last sent is in the Dead
\* Nonce List, or Data in the Content Store answers the Interest that carries it, or such
\* Data was there and has been evicted: the condition needDnl, which leaves out what Data
\* satisfied, relies on the Content Store and on nothing else.
THEOREM NonceStaysCaught == Spec => LastNonceCaught
<1> DEFINE A == \A k \in DOMAIN pit : \A g \in DOMAIN pit[k].out :
                  /\ CsEnabled /\ up' = up
                  /\ k \in DOMAIN pit' => g \notin DOMAIN pit'[k].out
                  => \/ <<NameOf[k], pit[k].out[g].nonce>> \in dnl'
                     \/ CsHas(k)'
                     \/ pit[k].satisfied /\ AnswerEvicted(k)
<1>1. ASSUME TypeOK, EntryInv, [Next]_vars PROVE A
  <2> SUFFICES ASSUME NEW k \in DOMAIN pit, NEW g \in DOMAIN pit[k].out, CsEnabled, up' = up,
                      k \in DOMAIN pit' => g \notin DOMAIN pit'[k].out
               PROVE  \/ <<NameOf[k], pit[k].out[g].nonce>> \in dnl'
                      \/ CsHas(k)'
                      \/ pit[k].satisfied /\ AnswerEvicted(k)
    OBVIOUS
  <2>1. ~(k \in DOMAIN pit' /\ Grows(k, pit[k], pit'[k]))
    BY DEF Grows
  <2>2. ASSUME NEW d \in Pkt, NEW f \in Face, DataArrives(d, f), k \in findAllDataMatches(d),
               k \in DOMAIN pit', NEW b \in BOOLEAN, pit'[k] = SatisfiedEntry(pit[k], f, b)
        PROVE  <<NameOf[k], pit[k].out[g].nonce>> \in dnl' \/ CsHas(k)'
    <3>1. pit'[k].out = Without(pit[k].out, {f})
      BY <2>2 DEF SatisfiedEntry
    <3>2. g = f
      BY <2>2, <3>1 DEF Without
    <3>3. CASE k \in FreshKey
      BY <2>2, <3>2, <3>3 DEF DataArrives, DeadNoncesOfData, needDnl
    <3>4. CASE k \notin FreshKey
      BY <2>2, <3>4, DataStored
    <3> QED BY <3>3, <3>4
  <2>3. ASSUME InterestFinalize(k)
        PROVE  \/ <<NameOf[k], pit[k].out[g].nonce>> \in dnl'
               \/ CsHas(k)'
               \/ pit[k].satisfied /\ AnswerEvicted(k)
    <3>1. CASE needDnl(k, pit[k].satisfied)
      BY <2>3, <3>1 DEF InterestFinalize
    <3>2. CASE ~needDnl(k, pit[k].satisfied)
      <4>1. pit[k].satisfied /\ WasStored(k)
        BY <1>1, <3>2 DEF needDnl, EntryInv, IsAnswered, TypeOK, IsPit, IsEntry
      <4>2. CsHas(k) => CsHas(k)'
        BY <2>3 DEF InterestFinalize, CsHas
      <4> QED BY <4>1, <4>2 DEF WasStored
    <3> QED BY <3>1, <3>2
  <2> QED BY <1>1, <2>1, <2>2, <2>3, EntrySteps
<1>2. Spec => [][A]_vars
  <2>1. TypeOK /\ EntryInv /\ [Next]_vars => [A]_vars
    BY <1>1
  <2> QED BY <2>1, TypeCorrect, EntryInvariant, PTL DEF Spec
<1> QED BY <1>2 DEF LastNonceCaught


\* Only the Ack of a producer posts an announcement.
LEMMA AnnouncedByAck ==
  ASSUME TypeOK, [Next]_vars, NEW p \in Mp, NEW f \in Face, Posted("slAnnounce", p, f)
  PROVE  \E d \in Pkt, g \in Face :
           /\ IncomingAck(d, g) /\ Announces[d] = p
           /\ f \in AckFaces(findAllDataMatches(d))
  <1>0. PICK n, m : n = Len(ribTasks) /\ m = Len(ribTasks')
    OBVIOUS
  <1>1. n \in Nat /\ ribTasks \in Seq(Task) /\ m > n
    BY <1>0 DEF TypeOK, Posted
  <1>2. ribTasks' # ribTasks
    BY <1>0, <1>1
  <1>3. ASSUME NEW t, ribTasks' = Append(ribTasks, t)
        PROVE  t.op = "slAnnounce" /\ t.prefix = p /\ f \in t.faces
    <2>1. Len(ribTasks') = n + 1 /\ ribTasks'[n + 1] = t
      BY <1>0, <1>1, <1>3
    <2>2. PICK u : u = ribTasks'[Len(ribTasks')]
      OBVIOUS
    <2>3. u.op = "slAnnounce" /\ u.prefix = p /\ f \in u.faces
      BY <2>2 DEF Posted
    <2> QED BY <2>1, <2>2, <2>3
  <1>4. ASSUME NEW d \in Pkt, NEW g \in Face, IncomingAck(d, g)
        PROVE  Announces[d] = p /\ f \in AckFaces(findAllDataMatches(d))
    <2>1. PICK t : t = [op |-> "slAnnounce", prefix |-> Announces[d],
                        faces |-> AckFaces(findAllDataMatches(d))]
      OBVIOUS
    <2>2. ribTasks' = Append(ribTasks, t)
      BY <1>2, <1>4, <2>1 DEF IncomingAck
    <2>3. t.prefix = p /\ f \in t.faces
      BY <1>3, <2>2
    <2> QED BY <2>1, <2>3
  <1>5. ASSUME NEW q, NEW g, RemovePrefix(q, g) PROVE FALSE
    <2>1. PICK t : t = [op |-> "slRenew", prefix |-> q, faces |-> {g}]
      OBVIOUS
    <2>2. ribTasks' = Append(ribTasks, t)
      BY <1>2, <1>5, <2>1 DEF RemovePrefix
    <2>3. t.op = "slAnnounce"
      BY <1>3, <2>2
    <2> QED BY <2>1, <2>3
  <1>6. ~ReceiveNack
    BY <1>5 DEF ReceiveNack, NackWait, NackRetry, NackReturn
  <1>7. ~ReceiveInterest
    <2>1. ASSUME NEW k, NEW i, NEW z, NEW h,
                 \/ InterestLoop(k, i, z) \/ ContentStoreHit(k, i, z, h)
                 \/ ForwardStraight(k, i, z, h) \/ ForwardStraightFault(k, i, z, h)
                 \/ ForwardToRv(k, i, z, h) \/ ForwardPlain(k, i, z, h)
                 \/ \E hint \in BOOLEAN : RejectInterest(k, i, z, hint, h)
          PROVE  ribTasks' = ribTasks
      BY <2>1
      DEF InterestLoop, ContentStoreHit, ForwardStraight, ForwardStraightFault,
          ForwardToRv, ForwardPlain, RejectInterest
    <2> QED BY <1>2, <2>1, Zenon DEF ReceiveInterest
  <1>8. ASSUME NEW d, NEW g, IncomingData(d, g) PROVE ribTasks' = ribTasks
    BY <1>8 DEF IncomingData
  <1>9. Timers => ribTasks' = ribTasks
    BY DEF Timers, InterestFinalize, ExpireInRecord, ExpireMeasurement, FaceRemoved, CsEvict
  <1>10. ASSUME ribTasks # << >>, ribTasks' = Tail(ribTasks) PROVE FALSE
    BY <1>0, <1>1, <1>10
  <1>11. ~RibThread
    <2>1. ASSUME NEW q, NEW g, NEW v, AnnouncementValidated(q, g, v) \/ RouteExpires(q, g)
          PROVE  ribTasks' = ribTasks
      BY <2>1 DEF AnnouncementValidated, RouteExpires
    <2>2. ~RunSlAnnounce /\ ~RunSlRenew
      BY <1>10 DEF RunSlAnnounce, RunSlRenew
    <2> QED BY <1>2, <2>1, <2>2 DEF RibThread
  <1> QED BY <1>2, <1>4, <1>6, <1>7, <1>8, <1>9, <1>11 DEF Next, ReceiveData, vars

\* A sent Interest has an out-record with its nonce that awaits the answer.
LEMMA SendInterestSends ==
  ASSUME NEW e, IsEntry(e), NEW G, NEW z, NEW h, ~h, NEW p, NEW g \in G,
         NEW s, s = sendInterest(e, G, z, h, p)
  PROVE  g \in DOMAIN s.out /\ s.out[g].await /\ s.out[g].nonce = z
  <1> DEFINE sent == Sendable(G, h)
             out == [x \in DOMAIN e.out \cup sent |->
                       IF x \in sent THEN RenewedOutRecord(e, x, z, p) ELSE e.out[x]]
  <1>1. g \in sent
    BY DEF Sendable
  <1>2. s = [e EXCEPT !.out = out]
    BY DEF sendInterest
  <1>3. RenewedOutRecord(e, g, z, p).await = TRUE /\ RenewedOutRecord(e, g, z, p).nonce = z
    BY DEF RenewedOutRecord
  <1> HIDE DEF sent
  <1>4. g \in DOMAIN out /\ out[g].await /\ out[g].nonce = z
    BY <1>1, <1>3
  <1> HIDE DEF out
  <1>5. s.out = out
    BY <1>2 DEF IsEntry
  <1> QED BY <1>4, <1>5

\* When registPrefix announces a producer on a face it was not known to be behind,
\* every Interest a consumer waits for that pitEntrys still leads to goes out there,
\* with the nonce the entry first saw: an Ack never satisfies the very Interest it
\* should bring to the producer.
THEOREM PendingFollowProducer == Spec => RetransmitToNewMp
<1> DEFINE A == \A p \in Mp, f \in Face, k \in Key :
                  /\ Posted("slAnnounce", p, f)
                  /\ AwaitsProducer(k, p)
                  /\ ~pit[k].hopZero
                  /\ p \in DOMAIN mpInfo /\ f \notin mpInfo[p].faceIds
                  /\ NameOf[k] \in DOMAIN mpInfo[p].pitEntrys
                  /\ mpInfo[p].pitEntrys[NameOf[k]] = k
                  => /\ f \in DOMAIN pit'[k].out
                     /\ pit'[k].out[f].await
                     /\ pit'[k].out[f].nonce = pit[k].nonce
<1>1. ASSUME TypeOK, EntryInv, [Next]_vars PROVE A
  <2> SUFFICES ASSUME NEW p \in Mp, NEW f \in Face, NEW k \in Key,
                      Posted("slAnnounce", p, f), AwaitsProducer(k, p), ~pit[k].hopZero,
                      p \in DOMAIN mpInfo, f \notin mpInfo[p].faceIds,
                      NameOf[k] \in DOMAIN mpInfo[p].pitEntrys,
                      mpInfo[p].pitEntrys[NameOf[k]] = k
               PROVE  /\ f \in DOMAIN pit'[k].out
                      /\ pit'[k].out[f].await
                      /\ pit'[k].out[f].nonce = pit[k].nonce
    OBVIOUS
  <2>1. PICK d \in Pkt, g \in Face : /\ IncomingAck(d, g) /\ Announces[d] = p
                                     /\ f \in AckFaces(findAllDataMatches(d))
    BY <1>1, AnnouncedByAck
  <2>2. k \in DOMAIN pit /\ IsEntry(pit[k])
    BY <1>1 DEF AwaitsProducer, TypeOK, IsPit
  <2>3. PrefixOf[k] = p
    <3>1. PICK o \in DOMAIN pit[k].out : pit[k].out[o].mp = p
      BY DEF AwaitsProducer
    <3>2. p \in {NoPrefix, PrefixOf[k], Root}
      BY <1>1, <2>2, <3>1 DEF EntryInv, HasOwnStatus
    <3>3. p # NoPrefix /\ p # Root
      BY NamesAssumption DEF Prefix
    <3> QED BY <3>2, <3>3
  <2>4. k \notin findAllDataMatches(d)
    <3>1. p # NoPrefix /\ p # Rv
      BY NamesAssumption DEF Prefix
    <3>2. k \in Satisfies[d] => PrefixOf[k] = Rv
      BY <2>1, <3>1, PacketsAssumption
    <3> QED BY <2>3, <3>1, <3>2 DEF findAllDataMatches
  <2>5. k \in Recorded(p)
    BY <2>2 DEF Recorded
  <2>6. PICK G : G = NewMpFaces(p, findAllDataMatches(d))
    OBVIOUS
  <2>7. f \in G
    BY <2>1, <2>6 DEF NewMpFaces
  <2>8. pit'[k] = sendInterest(pit[k], G, pit[k].nonce, pit[k].hopZero, NoPrefix)
    BY <2>1, <2>2, <2>4, <2>5, <2>6 DEF IncomingAck
  <2>9. PICK s : s = pit'[k]
    OBVIOUS
  <2>10. f \in DOMAIN s.out /\ s.out[f].await /\ s.out[f].nonce = pit[k].nonce
    BY <2>2, <2>7, <2>8, <2>9, SendInterestSends
  <2> QED BY <2>9, <2>10
<1>2. Spec => [][A]_vars
  <2>1. TypeOK /\ EntryInv /\ [Next]_vars => [A]_vars
    BY <1>1
  <2> QED BY <2>1, TypeCorrect, EntryInvariant, PTL DEF Spec
<1> QED BY <1>2 DEF RetransmitToNewMp
=============================================================================
