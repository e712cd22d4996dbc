------------------------------ MODULE LpLink ------------------------------
(***************************************************************************)
(* One direction of a face with NDNLP reliability: on the sending side the *)
(* fragmenter (daemon/face/lp-fragmenter.cpp) and the send window of       *)
(* LpReliability (daemon/face/lp-reliability.cpp), on the receiving side   *)
(* its acknowledgements and duplicate detection and the reassembler        *)
(* (daemon/face/lp-reassembler.cpp), called in the order of                *)
(* GenericLinkService (daemon/face/generic-link-service.cpp).              *)
(*                                                                         *)
(* Both directions run the same code; acknowledgements of this one travel  *)
(* in packets of the other, or in IDLE packets.  The link between them     *)
(* loses and reorders: what is never received is lost.                     *)
(*                                                                         *)
(* A Sequence names a fragment for good (assignSequences counts up and a   *)
(* retransmission keeps it), so a fragment <<p, i>> stands for it, and p   *)
(* for the reassembler's message identifier, Sequence - FragIndex.  A      *)
(* TxSequence names one transmission.  TxSequences wrap; with 64 bits none *)
(* is used twice, which is a guard here.  m_lastTxSeqNo starts at          *)
(* LastSettled: whatever was sent before is settled.                       *)
(*                                                                         *)
(* The handler for a packet with Acks is a sequence of steps, one per Ack  *)
(* and one per fragment found lost, and nothing else happens on the        *)
(* sending side before it has ended.                                       *)
(***************************************************************************)
EXTENDS Integers, Sequences, FiniteSets

CONSTANTS
  Packet,         \* network packets; each is sent once
  Size,           \* payload of a packet, in octets
  Header,         \* other NDNLPv2 headers, on the first fragment
  Mtu,
  SingleOverhead, \* MAX_SINGLE_FRAG_OVERHEAD
  FragOverhead,   \* MAX_FRAG_OVERHEAD
  MaxFragments,   \* nMaxFragments
  MaxRetx,        \* maxRetx
  LossThreshold,  \* seqNumLossThreshold
  AcksPerPacket,  \* Acks that fit into a packet
  TxMod,          \* TxSequences are 0..TxMod-1
  LastSettled,    \* the last TxSequence of what was sent before, all of it settled
  NoSeq,          \* m_unackedFrags.end()
  Forgets         \* do received Sequences get older than the RTO?

ASSUME PacketSizesAssumption ==
  /\ Size \in [Packet -> Nat \ {0}] /\ Header \in [Packet -> Nat]
  /\ {Mtu, SingleOverhead, FragOverhead, MaxFragments} \subseteq Nat
  \* a fragment has the fields of a whole packet, and FragIndex and FragCount
  /\ SingleOverhead <= FragOverhead

ASSUME ReliabilityAssumption ==
  /\ MaxRetx \in Nat
  /\ LossThreshold \in Nat \ {0}
  /\ AcksPerPacket \in Nat \ {0}
  /\ TxMod \in Nat \ {0}
  /\ LastSettled \in 0..(TxMod - 1)
  /\ NoSeq \notin Nat
  /\ Forgets \in BOOLEAN

----------------------------------------------------------------------------
(* LpFragmenter::fragmentPacket *)

AtMost(a, b) == IF a < b THEN a ELSE b

\* Mutant of FragCount: a last fragment is counted also when nothing is left for it.
FragCountOneMore(size, header) ==
  IF SingleOverhead + header + size <= Mtu THEN 1
  ELSE 2 + (size - AtMost(size, Mtu - header - FragOverhead)) \div (Mtu - FragOverhead)

FragCount(size, header) ==
  IF SingleOverhead + header + size <= Mtu THEN 1
  ELSE LET left == size - AtMost(size, Mtu - header - FragOverhead)
           payloadSize == Mtu - FragOverhead
       IN 1 + left \div payloadSize + (IF left % payloadSize # 0 THEN 1 ELSE 0)

\* The octets of the payload before fragment i.
FragBegin(size, header, i) ==
  IF i = 0 THEN 0
  ELSE AtMost(size, Mtu - header - FragOverhead + (i - 1) * (Mtu - FragOverhead))

\* "MTU too small for first fragment" and "FragCount over limit"
CanFragment(size, header) ==
  \/ SingleOverhead + header + size <= Mtu
  \/ /\ FragOverhead + header + 1 <= Mtu
     /\ FragCount(size, header) <= MaxFragments

Fragments(p) == {p} \X (0..(FragCount(Size[p], Header[p]) - 1))
Fragment == UNION {Fragments(p) : p \in Packet}
TxSeq == 0..(TxMod - 1)

----------------------------------------------------------------------------
VARIABLES
  unacked,     \* m_unackedFrags: TxSequences to UnackedFrags (partial)
  first,       \* m_firstUnackedFrag
  lastTx,      \* m_lastTxSeqNo
  didRetx,     \* packets with NetPkt::didRetx
  outcome,     \* what the counters said about a packet
  sentAs,      \* history: the fragment that was sent with a TxSequence (partial)
  acking,      \* Acks of the packet in processIncomingPacket
  lost,        \* lostLpPackets of the Ack being processed
  frames,      \* transmissions on the link
  ackPackets,  \* packets with Acks on the link
  ackQueue,    \* m_ackQueue
  idleTimer,   \* does m_idleAckTimer run?
  recent,      \* m_recentRecvSeqs and m_recentRecvSeqsQueue, without the times
  partials,    \* m_partialPackets: the fragments received
  arrived,     \* history: fragments that have reached the receiving side
  timedOut,    \* history: packets whose reassembly timed out
  delivered    \* history: how often a packet was passed on

senderVars == <<unacked, first, lastTx, didRetx, outcome, sentAs, acking, lost, frames>>
receiverVars == <<ackQueue, idleTimer, recent, partials, arrived, timedOut, delivered>>
vars == <<senderVars, ackPackets, receiverVars>>

UnackedFrag == [frag : Fragment, retx : 0..MaxRetx, nGreater : Nat]
IsPartialFn(fn, S, T) == DOMAIN fn \subseteq S /\ fn \in [DOMAIN fn -> T]

\* Types.
TypeOK ==
  /\ IsPartialFn(unacked, TxSeq, UnackedFrag)
  /\ first \in TxSeq \cup {NoSeq}
  /\ lastTx \in TxSeq
  /\ didRetx \subseteq Packet
  /\ outcome \in [Packet -> {"new", "pending", "acknowledged", "retransmitted", "exhausted"}]
  /\ IsPartialFn(sentAs, TxSeq, Fragment)
  /\ acking \in Seq(TxSeq)
  /\ lost \subseteq TxSeq
  /\ frames \subseteq TxSeq
  /\ ackPackets \subseteq Seq(TxSeq)
  /\ ackQueue \in Seq(TxSeq)
  /\ idleTimer \in BOOLEAN
  /\ recent \subseteq Fragment
  /\ partials \subseteq Fragment
  /\ arrived \subseteq Fragment
  /\ timedOut \subseteq Packet
  /\ delivered \in [Packet -> Nat]

Init ==
  /\ unacked = [t \in {} |-> NoSeq]
  /\ first = NoSeq
  /\ lastTx = LastSettled
  /\ didRetx = {}
  /\ outcome = [p \in Packet |-> "new"]
  /\ sentAs = [t \in {} |-> NoSeq]
  /\ acking = <<>> /\ lost = {}
  /\ frames = {} /\ ackPackets = {}
  /\ ackQueue = <<>> /\ idleTimer = FALSE
  /\ recent = {}
  /\ partials = {}
  /\ arrived = {} /\ timedOut = {}
  /\ delivered = [p \in Packet |-> 0]

----------------------------------------------------------------------------
(* The send window; TxSequences wrap *)

Distance(a, b) == IF b >= a THEN b - a ELSE b - a + TxMod
TxAfter(t, n) == IF t + n < TxMod THEN t + n ELSE t + n - TxMod

\* Mutant of FirstOf: the window does not continue at the beginning of the map.
FirstAbove(D, from) ==
  IF \A t \in D : t < from THEN NoSeq
  ELSE CHOOSE t \in D : t >= from /\ \A s \in D : s >= from => t <= s

\* m_firstUnackedFrag after deleteUnackedFrag has left D: the next one, with
\* consideration of wraparound.
FirstOf(D, from) ==
  IF D = {} THEN NoSeq
  ELSE CHOOSE t \in D : \A s \in D : Distance(from, t) <= Distance(from, s)

SenderRests == acking = <<>> /\ lost = {}

OfPacket(U, p) == {t \in DOMAIN U : U[t].frag[1] = p}

\* sendNetPacket: fragmentPacket, assignSequences, handleOutgoing, sendLpPacket.
\* A packet that cannot be fragmented is dropped and changes nothing.
SendNetPacket(p) ==
  LET n == FragCount(Size[p], Header[p])
      new == {t \in TxSeq : Distance(lastTx, t) \in 1..n}
      frag(t) == <<p, Distance(lastTx, t) - 1>>
  IN /\ SenderRests
     /\ outcome[p] = "new"
     /\ CanFragment(Size[p], Header[p])
     /\ n < TxMod /\ new \cap DOMAIN sentAs = {}
     /\ unacked' = [t \in DOMAIN unacked \cup new |->
                      IF t \in new THEN [frag |-> frag(t), retx |-> 0, nGreater |-> 0]
                      ELSE unacked[t]]
     /\ sentAs' = [t \in DOMAIN sentAs \cup new |-> IF t \in new THEN frag(t) ELSE sentAs[t]]
     /\ first' = IF DOMAIN unacked = {} THEN TxAfter(lastTx, 1) ELSE first
     /\ lastTx' = TxAfter(lastTx, n)
     /\ frames' = frames \cup new
     /\ outcome' = [outcome EXCEPT ![p] = "pending"]
     /\ UNCHANGED <<didRetx, acking, lost, ackPackets, receiverVars>>

\* Mutant of Exhausted: one retransmission too many.
ExhaustedLate(t) == unacked[t].retx > MaxRetx

Exhausted(t) == unacked[t].retx >= MaxRetx

\* Mutant of Dropped: the other fragments of the packet stay.
DroppedAlone(t) == {t}

\* The fragments that go with t: all of the packet.
Dropped(t) == OfPacket(unacked, unacked[t].frag[1])

\* onLpPacketLost, when retransmissions are used up.
GiveUp(t) ==
  LET rest == DOMAIN unacked \ Dropped(t)
  IN /\ Exhausted(t)
     /\ unacked' = [s \in rest |-> unacked[s]]
     /\ first' = FirstOf(rest, first)
     /\ lost' = lost \cap rest
     /\ outcome' = [outcome EXCEPT ![unacked[t].frag[1]] = "exhausted"]
     /\ UNCHANGED <<lastTx, didRetx, sentAs, frames>>

\* Mutant of Resent: retransmissions are not counted.
ResentUncounted(u) == [frag |-> u.frag, retx |-> u.retx, nGreater |-> 0]

Resent(u) == [frag |-> u.frag, retx |-> u.retx + 1, nGreater |-> 0]

\* onLpPacketLost otherwise: the fragment moves to a new TxSequence.
Retransmit(t) ==
  LET new == TxAfter(lastTx, 1)
      rest == DOMAIN unacked \ {t}
  IN /\ ~Exhausted(t)
     /\ new \notin DOMAIN sentAs
     /\ unacked' = [s \in rest \cup {new} |->
                      IF s = new THEN Resent(unacked[t]) ELSE unacked[s]]
     /\ sentAs' = [s \in DOMAIN sentAs \cup {new} |->
                     IF s = new THEN unacked[t].frag ELSE sentAs[s]]
     /\ first' = FirstOf(rest \cup {new}, first)
     /\ lastTx' = new
     /\ lost' = lost \ {t}
     /\ frames' = frames \cup {new}
     /\ didRetx' = didRetx \cup {unacked[t].frag[1]}
     /\ UNCHANGED outcome

RtoTimeout(t) ==
  /\ SenderRests
  /\ t \in DOMAIN unacked
  /\ GiveUp(t) \/ Retransmit(t)
  /\ UNCHANGED <<acking, ackPackets, receiverVars>>

\* processIncomingPacket on the sending side
ReceiveAcks(a) ==
  /\ SenderRests
  /\ a \in ackPackets
  /\ acking' = a
  /\ ackPackets' = ackPackets \ {a}
  /\ UNCHANGED <<unacked, first, lastTx, didRetx, outcome, sentAs, lost, frames, receiverVars>>

\* "received ack for unknown txseq"
IgnoreAck ==
  /\ lost = {} /\ acking # <<>>
  /\ Head(acking) \notin DOMAIN unacked
  /\ acking' = Tail(acking)
  /\ UNCHANGED <<unacked, first, lastTx, didRetx, outcome, sentAs, lost, frames, ackPackets, receiverVars>>

\* Mutant of Settled: a packet is settled by the Ack of any of its fragments.
SettledByAny(t, p) == TRUE

\* Was t the last unacknowledged fragment of its packet?
Settled(t, p) == OfPacket(unacked, p) = {t}

\* findLostLpPackets, onLpPacketAcknowledged
ProcessAck ==
  /\ lost = {} /\ acking # <<>>
  /\ Head(acking) \in DOMAIN unacked
  /\ LET t == Head(acking)
         p == unacked[t].frag[1]
         rest == DOMAIN unacked \ {t}
         before == {s \in rest : Distance(first, s) < Distance(first, t)}
     IN /\ lost' = {s \in before : unacked[s].nGreater + 1 >= LossThreshold}
        /\ unacked' = [s \in rest |->
                         IF s \in before
                         THEN [frag |-> unacked[s].frag, retx |-> unacked[s].retx,
                               nGreater |-> unacked[s].nGreater + 1]
                         ELSE unacked[s]]
        /\ first' = FirstOf(rest, first)
        /\ outcome' = IF Settled(t, p)
                      THEN [outcome EXCEPT ![p] = IF p \in didRetx THEN "retransmitted"
                                                  ELSE "acknowledged"]
                      ELSE outcome
  /\ acking' = Tail(acking)
  /\ UNCHANGED <<lastTx, didRetx, sentAs, frames, ackPackets, receiverVars>>

\* The fragments found lost, oldest first; the ones removed meanwhile are left out.
HandleLost ==
  /\ lost # {}
  /\ LET t == FirstOf(lost, first) IN GiveUp(t) \/ Retransmit(t)
  /\ UNCHANGED <<acking, ackPackets, receiverVars>>

----------------------------------------------------------------------------
(* The receiving side *)

\* LpReassembler::receiveFragment
Reassemble(p, f) ==
  LET have == partials \cup {f}
      whole == Fragments(p) \subseteq have
  IN IF f \in partials THEN UNCHANGED <<partials, delivered>>
     ELSE /\ partials' = IF whole THEN have \ Fragments(p) ELSE have
          /\ delivered' = IF whole THEN [delivered EXCEPT ![p] = @ + 1] ELSE delivered

\* Mutant of Remember: a fragment seen before is not remembered.
RememberNothing(f) == UNCHANGED recent

\* f is remembered; what is older than the RTO is forgotten.
Remember(f) ==
  \E old \in (IF Forgets THEN SUBSET recent ELSE {{}}) : recent' = (recent \ old) \cup {f}

\* doReceivePacket: processIncomingPacket, then receiveFragment unless it is a
\* duplicate
ReceiveFragment(t) ==
  /\ t \in frames
  /\ frames' = frames \ {t}
  /\ ackQueue' = Append(ackQueue, t)
  /\ idleTimer' = TRUE
  /\ Remember(sentAs[t])
  /\ arrived' = arrived \cup {sentAs[t]}
  /\ IF sentAs[t] \in recent THEN UNCHANGED <<partials, delivered>>
     ELSE Reassemble(sentAs[t][1], sentAs[t])
  /\ UNCHANGED <<unacked, first, lastTx, didRetx, outcome, sentAs, acking, lost, ackPackets, timedOut>>

\* timeoutPartialPacket
ReassemblyTimeout(p) ==
  /\ partials \cap Fragments(p) # {}
  /\ partials' = partials \ Fragments(p)
  /\ timedOut' = timedOut \cup {p}
  /\ UNCHANGED <<senderVars, ackPackets, ackQueue, idleTimer, recent, arrived, delivered>>

\* A packet of the other direction takes Acks with it, as many as fit.
Piggyback(k) ==
  /\ k <= Len(ackQueue)
  /\ ackPackets' = ackPackets \cup {SubSeq(ackQueue, 1, k)}
  /\ ackQueue' = SubSeq(ackQueue, k + 1, Len(ackQueue))
  /\ UNCHANGED <<senderVars, idleTimer, recent, partials, arrived, timedOut, delivered>>

\* startIdleAckTimer: IDLE packets until the queue is empty
IdleAckTimer ==
  /\ idleTimer
  /\ idleTimer' = FALSE
  /\ ackPackets' = ackPackets \cup
       {SubSeq(ackQueue, j + 1, AtMost(j + AcksPerPacket, Len(ackQueue))) :
          j \in {i \in 0..(Len(ackQueue) - 1) : i % AcksPerPacket = 0}}
  /\ ackQueue' = <<>>
  /\ UNCHANGED <<senderVars, recent, partials, arrived, timedOut, delivered>>

Next ==
  \/ \E p \in Packet : SendNetPacket(p) \/ ReassemblyTimeout(p)
  \/ \E t \in TxSeq : RtoTimeout(t) \/ ReceiveFragment(t)
  \/ \E a \in ackPackets : ReceiveAcks(a)
  \/ IgnoreAck \/ ProcessAck \/ HandleLost
  \/ \E k \in 1..AcksPerPacket : Piggyback(k)
  \/ IdleAckTimer

Spec == Init /\ [][Next]_vars

\* A handler that has begun ends, and the RTO timers fire.
LiveSpec ==
  /\ Spec
  /\ WF_vars(IgnoreAck \/ ProcessAck \/ HandleLost)
  /\ WF_vars(\E t \in TxSeq : RtoTimeout(t))

----------------------------------------------------------------------------
(* Properties *)

\* fragmentPacket cuts a packet without a gap, to the last octet, no fragment is empty
\* and none exceeds the MTU: the FragCount computed ahead, which the receiver waits for,
\* is the number of pieces of the loop.
FragmentsCover ==
  \A p \in Packet : outcome[p] # "new" =>
    LET n == FragCount(Size[p], Header[p])
        begin(i) == FragBegin(Size[p], Header[p], i)
        end(i) == IF n = 1 THEN Size[p] ELSE begin(i + 1)
    IN /\ end(n - 1) = Size[p]
       /\ \A i \in 0..(n - 1) :
            /\ begin(i) < end(i)
            /\ end(i) - begin(i) + (IF i = 0 THEN Header[p] ELSE 0)
                 + (IF n = 1 THEN SingleOverhead ELSE FragOverhead) <= Mtu

\* m_firstUnackedFrag is the oldest transmission of the window, which runs from it to
\* m_lastTxSeqNo also across the wraparound, through every mix of Acks, losses found by
\* Acks, timeouts and packets given up: findLostLpPackets never starts at the wrong end.
WindowIsOrdered ==
  /\ (first = NoSeq) <=> (DOMAIN unacked = {})
  /\ first # NoSeq =>
       /\ first \in DOMAIN unacked
       /\ \A t \in DOMAIN unacked : Distance(first, t) <= Distance(first, lastTx)

\* A packet the sender counts as received was passed to the forwarder on the other
\* side, unless the reassembler dropped a part of it for age: acknowledging fragments
\* before reassembly loses packets in no other way.
AckedIsDelivered ==
  \A p \in Packet : outcome[p] \in {"acknowledged", "retransmitted"} =>
                      delivered[p] > 0 \/ p \in timedOut

\* generic-link-service.hpp: a packet counted by nRetransmitted was "eventually
\* received in full".
ReceivedInFull ==
  \A p \in Packet : outcome[p] = "retransmitted" => delivered[p] > 0

\* As long as no Sequence is forgotten, a packet is passed on at most once, although
\* its fragments are sent again whenever an Ack is late or lost.
DeliveredOnce == ~Forgets => \A p \in Packet : delivered[p] <= 1

\* Every packet is settled in the end, whatever the link does.
PacketsEnd == \A p \in Packet : outcome[p] = "pending" ~> outcome[p] # "pending"

\* The link implements LpChannel: settled once, received only after all of it has
\* arrived, and nothing else is passed on.
Status(o) == CASE o = "new" -> "new" [] o = "pending" -> "pending"
               [] o = "exhausted" -> "given up" [] OTHER -> "received"
Channel == INSTANCE LpChannel WITH
  status <- [p \in Packet |-> Status(outcome[p])],
  whole <- {p \in Packet : outcome[p] # "new" /\ Fragments(p) \subseteq arrived}
ImplementsChannel == Channel!Spec
=============================================================================
