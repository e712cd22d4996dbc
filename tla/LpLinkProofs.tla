---------------------------- MODULE LpLinkProofs ----------------------------
(***************************************************************************)
(* Proofs that one direction of a face with NDNLP reliability implements   *)
(* LpChannel, keeps its send window in order across the wraparound and     *)
(* passes on what it acknowledges, for any number and size of packets and  *)
(* any loss, delay and reordering on the link.                             *)
(***************************************************************************)
EXTENDS LpLink, NatOrder, TLAPS, SequenceTheorems

----------------------------------------------------------------------------
(* TxSequences *)

\* A distance on the circle of TxSequences is less than its length.
LEMMA DistanceType ==
  ASSUME NEW a \in TxSeq, NEW b \in TxSeq
  PROVE  Distance(a, b) \in 0..(TxMod - 1)
  BY ReliabilityAssumption DEF Distance, TxSeq

\* The n-th TxSequence after t is at distance n from it.
LEMMA AfterDistance ==
  ASSUME NEW t \in TxSeq, NEW n \in 1..(TxMod - 1)
  PROVE  TxAfter(t, n) \in TxSeq /\ Distance(t, TxAfter(t, n)) = n
  BY ReliabilityAssumption DEF Distance, TxSeq, TxAfter

\* A distance leads to one TxSequence only.
LEMMA DistanceUnique ==
  ASSUME NEW a \in TxSeq, NEW b \in TxSeq, NEW c \in TxSeq, Distance(a, b) = Distance(a, c)
  PROVE  b = c
  BY ReliabilityAssumption DEF Distance, TxSeq

\* What is behind b, seen from a, is as far from b as the rest of the way.
LEMMA DistanceRest ==
  ASSUME NEW a \in TxSeq, NEW b \in TxSeq, NEW c \in TxSeq, Distance(a, b) <= Distance(a, c)
  PROVE  Distance(b, c) = Distance(a, c) - Distance(a, b)
  BY ReliabilityAssumption DEF Distance, TxSeq

\* The way from a over b to c, when a is not on the way from b to c.
LEMMA DistanceSum ==
  ASSUME NEW a \in TxSeq, NEW b \in TxSeq, NEW c \in TxSeq,
         ~(Distance(b, a) \in 1..Distance(b, c))
  PROVE  Distance(a, c) = Distance(a, b) + Distance(b, c)
  BY ReliabilityAssumption DEF Distance, TxSeq

\* deleteUnackedFrag finds the oldest transmission.
LEMMA FirstOfIn ==
  ASSUME NEW D \in SUBSET TxSeq, D # {}, NEW from \in TxSeq
  PROVE  /\ FirstOf(D, from) \in D
         /\ \A s \in D : Distance(from, FirstOf(D, from)) <= Distance(from, s)
<1>. DEFINE N == {Distance(from, t) : t \in D}
<1>1. N \in SUBSET Nat /\ N # {}
  BY DistanceType, ReliabilityAssumption
<1>. HIDE DEF N
<1>2. PICK x \in N : \A y \in N : x <= y
  BY <1>1, SmallestNat
<1>3. PICK t \in D : x = Distance(from, t)
  BY DEF N
<1>4. \A s \in D : Distance(from, t) <= Distance(from, s)
  BY <1>2, <1>3 DEF N
<1>. QED
  BY <1>4 DEF FirstOf

\* The window from first to last holds D.
Window(D, f, last) ==
  /\ (f = NoSeq) <=> (D = {})
  /\ f # NoSeq => f \in D /\ \A t \in D : Distance(f, t) <= Distance(f, last)

\* A part of a window, begun at its oldest fragment, is a window.
LEMMA WindowAgain ==
  ASSUME NEW D \in SUBSET TxSeq, NEW from, D # {} => from \in TxSeq, NEW last \in TxSeq,
         \A t \in D : Distance(from, t) <= Distance(from, last)
  PROVE  Window(D, FirstOf(D, from), last) /\ FirstOf(D, from) \in TxSeq \cup {NoSeq}
<1>1. CASE D = {}
  BY <1>1 DEF FirstOf, Window
<1>2. CASE D # {}
  <2>. DEFINE f == FirstOf(D, from)
  <2>0. from \in TxSeq
    BY <1>2
  <2>1. f \in D /\ \A s \in D : Distance(from, f) <= Distance(from, s)
    BY <1>2, <2>0, FirstOfIn
  <2>. HIDE DEF f
  <2>2. f # NoSeq
    BY <2>1, ReliabilityAssumption DEF TxSeq
  <2>3. ASSUME NEW t \in D PROVE Distance(f, t) <= Distance(f, last)
    <3>1. Distance(f, t) = Distance(from, t) - Distance(from, f)
      BY <2>0, <2>1, DistanceRest
    <3>2. Distance(from, f) <= Distance(from, last)
      BY <2>1
    <3>3. Distance(f, last) = Distance(from, last) - Distance(from, f)
      BY <3>2, <2>0, <2>1, DistanceRest
    <3>4. /\ Distance(from, t) \in Int /\ Distance(from, f) \in Int /\ Distance(from, last) \in Int
          /\ Distance(from, t) <= Distance(from, last)
      BY <2>0, <2>1, DistanceType
    <3>. QED
      BY <3>1, <3>3, <3>4
  <2>4. Window(D, f, last)
    BY <1>2, <2>1, <2>2, <2>3 DEF Window
  <2>. QED
    BY <2>1, <2>4 DEF f
<1>. QED
  BY <1>1, <1>2

----------------------------------------------------------------------------
(* Fragments *)

\* A packet that can be fragmented has at least one fragment.
LEMMA FragCountType ==
  ASSUME NEW p \in Packet, CanFragment(Size[p], Header[p])
  PROVE  FragCount(Size[p], Header[p]) \in Nat \ {0}
<1>. DEFINE size == Size[p]
            header == Header[p]
<1>0. size \in Nat /\ header \in Nat /\ Mtu \in Nat /\ FragOverhead \in Nat /\ SingleOverhead \in Nat
  BY PacketSizesAssumption
<1>. HIDE DEF size, header
<1>1. CASE SingleOverhead + header + size <= Mtu
  BY <1>1 DEF FragCount, size, header
<1>2. CASE ~(SingleOverhead + header + size <= Mtu)
  <2>. DEFINE left == size - AtMost(size, Mtu - header - FragOverhead)
              k == Mtu - FragOverhead
  <2>1. FragOverhead + header + 1 <= Mtu
    BY <1>2 DEF CanFragment, size, header
  <2>2. left \in Nat /\ k \in Nat \ {0}
    BY <1>0, <2>1 DEF AtMost
  <2>3. FragCount(Size[p], Header[p])
          = 1 + left \div k + (IF left % k # 0 THEN 1 ELSE 0)
    BY <1>2 DEF FragCount, size, header
  <2>. HIDE DEF left, k
  <2>4. left \div k \in Nat
    BY <2>2
  <2>. QED
    BY <2>3, <2>4
<1>. QED
  BY <1>1, <1>2

\* A fragment names its packet.
LEMMA FragmentOf ==
  ASSUME NEW f \in Fragment
  PROVE  f[1] \in Packet /\ f \in Fragments(f[1]) /\ \A p : f \in Fragments(p) => p = f[1]
  BY DEF Fragment, Fragments

----------------------------------------------------------------------------
(* The inductive invariant *)

\* The transmissions whose fragment has arrived.
Acked == {t \in DOMAIN sentAs : sentAs[t] \in arrived}

\* The window, the frames and the fragments received are of what was sent.
SentInv ==
  /\ DOMAIN unacked \subseteq DOMAIN sentAs
  /\ \A t \in DOMAIN unacked : unacked[t].frag = sentAs[t]
  /\ frames \subseteq DOMAIN sentAs
  /\ lost \subseteq DOMAIN unacked
  /\ \A f \in arrived : \E t \in DOMAIN sentAs : sentAs[t] = f

\* Only what has arrived is acknowledged.
AckInv == acking \in Seq(Acked) /\ ackQueue \in Seq(Acked) /\ ackPackets \subseteq Seq(Acked)

\* A packet is pending exactly while it has fragments in the window, and all of its
\* fragments that are not have arrived.
PacketOK(p) ==
  /\ outcome[p] = "new" => \A t \in DOMAIN sentAs : sentAs[t][1] # p
  /\ outcome[p] # "new" => Fragments(p) # {}
  /\ outcome[p] = "pending" =>
       /\ \E t \in DOMAIN unacked : sentAs[t][1] = p
       /\ \A f \in Fragments(p) : f \in arrived \/ \E t \in DOMAIN unacked : sentAs[t] = f
  /\ outcome[p] # "pending" => \A t \in DOMAIN unacked : sentAs[t][1] # p
  /\ outcome[p] \in {"acknowledged", "retransmitted"} => Fragments(p) \subseteq arrived

\* What has arrived of a packet not passed on waits in the reassembler.
ReceiverOK(p) ==
  /\ outcome[p] # "new" => ~(Fragments(p) \subseteq partials)
  /\ delivered[p] = 0 /\ p \notin timedOut => arrived \cap Fragments(p) \subseteq partials
  /\ ~Forgets => delivered[p] <= 1
  /\ ~Forgets /\ delivered[p] = 1 => Fragments(p) \subseteq arrived

ReceivedInv ==
  /\ partials \subseteq arrived /\ recent \subseteq arrived
  /\ ~Forgets => recent = arrived

Inv ==
  /\ TypeOK
  /\ Window(DOMAIN unacked, first, lastTx)
  /\ SentInv
  /\ AckInv
  /\ ReceivedInv
  /\ \A p \in Packet : PacketOK(p) /\ ReceiverOK(p)

\* The invariant holds before anything is sent.
LEMMA InitInv == Init => Inv
<1>. SUFFICES ASSUME Init PROVE Inv
  OBVIOUS
<1>1. DOMAIN unacked = {} /\ DOMAIN sentAs = {}
  BY DEF Init
<1>2. TypeOK
  <2>1. unacked \in [{} -> UnackedFrag] /\ sentAs \in [{} -> Fragment]
    BY DEF Init
  <2>. QED
    BY <1>1, <2>1, ReliabilityAssumption, EmptySeq DEF Init, TypeOK, IsPartialFn, TxSeq
<1>3. Window(DOMAIN unacked, first, lastTx)
  BY <1>1 DEF Window, Init
<1>4. SentInv /\ ReceivedInv
  BY <1>1 DEF SentInv, ReceivedInv, Init
<1>5. AckInv
  BY EmptySeq DEF AckInv, Init
<1>6. ASSUME NEW p \in Packet PROVE PacketOK(p) /\ ReceiverOK(p)
  <2>1. outcome[p] = "new" /\ delivered[p] = 0 /\ arrived = {}
    BY DEF Init
  <2>. QED
    BY <1>1, <2>1 DEF PacketOK, ReceiverOK
<1>. QED
  BY <1>2, <1>3, <1>4, <1>5, <1>6 DEF Inv

\* What was acknowledged stays so.
LEMMA AckedGrows ==
  ASSUME DOMAIN sentAs \subseteq (DOMAIN sentAs)', arrived \subseteq arrived',
         \A t \in DOMAIN sentAs : sentAs'[t] = sentAs[t]
  PROVE  /\ \A s \in Seq(Acked) : s \in Seq(Acked')
<1>1. Acked \subseteq Acked'
  BY DEF Acked
<1>. QED
  BY <1>1, SeqMonotonic

\* The receiving side is not touched by a step of the sending side.
LEMMA ReceiverSame ==
  ASSUME Inv, UNCHANGED receiverVars, NEW p \in Packet, outcome[p] # "new"
  PROVE  ReceiverOK(p)' /\ ReceivedInv'
<1>1. UNCHANGED <<ackQueue, idleTimer, recent, partials, arrived, timedOut, delivered>>
  BY DEF receiverVars
<1>. QED
  BY <1>1 DEF Inv, ReceiverOK, ReceivedInv

\* The types of the sending side.
SenderType ==
  /\ IsPartialFn(unacked, TxSeq, UnackedFrag)
  /\ first \in TxSeq \cup {NoSeq} /\ lastTx \in TxSeq
  /\ didRetx \subseteq Packet
  /\ outcome \in [Packet -> {"new", "pending", "acknowledged", "retransmitted", "exhausted"}]
  /\ IsPartialFn(sentAs, TxSeq, Fragment)
  /\ acking \in Seq(TxSeq) /\ lost \subseteq TxSeq /\ frames \subseteq TxSeq

\* The types of the receiving side and the link.
ReceiverType ==
  /\ ackPackets \subseteq Seq(TxSeq) /\ ackQueue \in Seq(TxSeq) /\ idleTimer \in BOOLEAN
  /\ recent \subseteq Fragment /\ partials \subseteq Fragment /\ arrived \subseteq Fragment
  /\ timedOut \subseteq Packet /\ delivered \in [Packet -> Nat]

\* Type correctness, the sender's part and the receiver's,
LEMMA TypeParts == TypeOK <=> SenderType /\ ReceiverType
  BY DEF TypeOK, SenderType, ReceiverType

\* in the next state too.
LEMMA TypePartsPrime == TypeOK' <=> SenderType' /\ ReceiverType'
  BY DEF TypeOK, SenderType, ReceiverType

\* A transmission in the window belongs to a pending packet.
LEMMA UnackedPending ==
  ASSUME Inv, NEW t \in DOMAIN unacked
  PROVE  /\ t \in TxSeq /\ t \in DOMAIN sentAs
         /\ sentAs[t] \in Fragment /\ sentAs[t][1] \in Packet
         /\ unacked[t].frag = sentAs[t] /\ outcome[sentAs[t][1]] = "pending"
<1>1. SenderType
  BY TypeParts DEF Inv
<1>2. t \in DOMAIN sentAs /\ unacked[t].frag = sentAs[t]
  BY DEF Inv, SentInv
<1>3. sentAs[t] \in Fragment /\ t \in TxSeq
  BY <1>1, <1>2 DEF SenderType, IsPartialFn
<1>4. sentAs[t][1] \in Packet
  BY <1>3, FragmentOf
<1>5. PacketOK(sentAs[t][1])
  BY <1>4 DEF Inv
<1>6. outcome[sentAs[t][1]] = "pending"
  BY <1>5 DEF PacketOK
<1>. QED
  BY <1>2, <1>3, <1>4, <1>6

----------------------------------------------------------------------------
(* The window under the steps of the sender *)

\* A window begins at a fragment of its own and ends with the last one sent.
LEMMA WindowOrder ==
  ASSUME NEW D \in SUBSET TxSeq, NEW f, NEW last, Window(D, f, last), D # {}
  PROVE  f \in D /\ f \in TxSeq /\ \A t \in D : Distance(f, t) <= Distance(f, last)
  BY DEF Window

\* Transmissions leave the window.
LEMMA WindowLess ==
  ASSUME NEW D \in SUBSET TxSeq, NEW f, NEW last \in TxSeq, Window(D, f, last),
         NEW E \in SUBSET D
  PROVE  Window(E, FirstOf(E, f), last) /\ FirstOf(E, f) \in TxSeq \cup {NoSeq}
<1>1. D # {} => f \in TxSeq
  BY WindowOrder
<1>2. E # {} => f \in TxSeq
  BY <1>1
<1>3. \A t \in E : Distance(f, t) <= Distance(f, last)
  BY WindowOrder
<1>4. E \in SUBSET TxSeq
  OBVIOUS
<1>. QED
  BY <1>2, <1>3, <1>4, WindowAgain

\* A packet is sent.
LEMMA WindowSend ==
  ASSUME NEW D \in SUBSET TxSeq, NEW f, NEW last \in TxSeq, Window(D, f, last),
         NEW n \in 1..(TxMod - 1), NEW new, new = {t \in TxSeq : Distance(last, t) \in 1..n},
         new \cap D = {}
  PROVE  /\ D = {} => Window(D \cup new, TxAfter(last, 1), TxAfter(last, n))
         /\ D # {} => Window(D \cup new, f, TxAfter(last, n))
         /\ TxAfter(last, 1) \in TxSeq /\ TxAfter(last, n) \in TxSeq
<1>. DEFINE b == TxAfter(last, 1)
            e == TxAfter(last, n)
<1>0. n \in Nat /\ 1 \in 1..(TxMod - 1) /\ TxMod \in Nat
  BY ReliabilityAssumption
<1>1. b \in TxSeq /\ Distance(last, b) = 1
  BY <1>0, AfterDistance
<1>2. e \in TxSeq /\ Distance(last, e) = n
  BY AfterDistance
<1>3. b \in new
  BY <1>0, <1>1
<1>4. b # NoSeq /\ \A t \in D : t # NoSeq
  BY <1>1, ReliabilityAssumption DEF TxSeq
<1>. HIDE DEF b, e
<1>5. ASSUME D = {} PROVE Window(D \cup new, b, e)
  <2>1. ASSUME NEW t \in new PROVE Distance(b, t) <= Distance(b, e)
    <3>1. Distance(last, t) \in 1..n /\ t \in TxSeq
      OBVIOUS
    <3>2. Distance(last, b) <= Distance(last, t) /\ Distance(last, b) <= Distance(last, e)
      BY <3>1, <1>1, <1>2, <1>0
    <3>3. Distance(b, t) = Distance(last, t) - Distance(last, b)
      BY <3>1, <3>2, <1>1, DistanceRest
    <3>4. Distance(b, e) = Distance(last, e) - Distance(last, b)
      BY <3>2, <1>1, <1>2, DistanceRest
    <3>. QED
      BY <3>1, <3>3, <3>4, <1>1, <1>2, <1>0
  <2>. QED
    BY <1>5, <2>1, <1>3, <1>4 DEF Window
<1>6. ASSUME D # {} PROVE Window(D \cup new, f, e)
  <2>1. f \in D /\ f \in TxSeq /\ \A t \in D : Distance(f, t) <= Distance(f, last)
    BY <1>6, WindowOrder
  <2>2. Distance(last, f) \notin 1..n
    BY <2>1
  <2>3. Distance(f, e) = Distance(f, last) + Distance(last, e)
    BY <2>1, <2>2, <1>2, DistanceSum
  <2>4. Distance(f, last) \in Nat /\ Distance(last, f) \in Nat
    BY <2>1, DistanceType
  <2>5. ASSUME NEW t \in D PROVE Distance(f, t) <= Distance(f, e)
    <3>1. Distance(f, t) \in Nat /\ Distance(f, t) <= Distance(f, last)
      BY <2>1, DistanceType
    <3>. QED
      BY <3>1, <2>3, <2>4, <1>2, <1>0
  <2>6. ASSUME NEW t \in new PROVE Distance(f, t) <= Distance(f, e)
    <3>1. Distance(last, t) \in 1..n /\ t \in TxSeq
      OBVIOUS
    <3>2. Distance(last, f) \notin 1..Distance(last, t)
      BY <3>1, <2>2, <2>4, <1>0
    <3>3. Distance(f, t) = Distance(f, last) + Distance(last, t)
      BY <2>1, <3>1, <3>2, DistanceSum
    <3>. QED
      BY <3>1, <3>3, <2>3, <2>4, <1>2, <1>0
  <2>. QED
    BY <2>1, <2>5, <2>6, <1>4 DEF Window
<1>. QED
  BY <1>1, <1>2, <1>5, <1>6 DEF b, e

\* A fragment moves to a new TxSequence.
LEMMA WindowResend ==
  ASSUME NEW D \in SUBSET TxSeq, NEW f, NEW last \in TxSeq, Window(D, f, last),
         NEW t \in D, NEW new, new = TxAfter(last, 1), new \notin D,
         NEW E, E = (D \ {t}) \cup {new}
  PROVE  /\ Window(E, FirstOf(E, f), new)
         /\ FirstOf(E, f) \in TxSeq \cup {NoSeq} /\ new \in TxSeq
<1>1. f \in D /\ f \in TxSeq /\ \A s \in D : Distance(f, s) <= Distance(f, last)
  BY WindowOrder
<1>2. 1 \in 1..(TxMod - 1)
  <2>1. SUFFICES ASSUME TxMod = 1 PROVE FALSE
    BY ReliabilityAssumption
  <2>2. TxSeq = {0}
    BY <2>1 DEF TxSeq
  <2>3. new = 0
    BY <2>1, <2>2 DEF TxAfter
  <2>. QED
    BY <2>2, <2>3
<1>3. new \in TxSeq /\ Distance(last, new) = 1
  BY <1>2, AfterDistance
<1>4. Distance(last, f) # 1
  BY <1>1, <1>3, DistanceUnique
<1>5. Distance(last, f) \notin 1..Distance(last, new)
  BY <1>3, <1>4, <1>1, DistanceType
<1>6. Distance(f, new) = Distance(f, last) + Distance(last, new)
  BY <1>1, <1>3, <1>5, DistanceSum
<1>7. ASSUME NEW s \in E PROVE Distance(f, s) <= Distance(f, new)
  <2>1. CASE s = new
    BY <2>1, <1>1, <1>3, DistanceType
  <2>2. CASE s \in D
    <3>1. Distance(f, s) \in Nat /\ Distance(f, last) \in Nat /\ Distance(f, s) <= Distance(f, last)
      BY <2>2, <1>1, DistanceType
    <3>. QED
      BY <3>1, <1>3, <1>6
  <2>. QED
    BY <2>1, <2>2
<1>8. E \in SUBSET TxSeq
  BY <1>3
<1>. QED
  BY <1>1, <1>3, <1>7, <1>8, WindowAgain

----------------------------------------------------------------------------
(* Each action preserves the invariant *)

\* A packet sent keeps the invariant,
LEMMA SendInv ==
  ASSUME Inv, NEW p \in Packet, SendNetPacket(p)
  PROVE  Inv'
<1>. DEFINE n == FragCount(Size[p], Header[p])
            new == {t \in TxSeq : Distance(lastTx, t) \in 1..n}
            frag(t) == <<p, Distance(lastTx, t) - 1>>
<1>0. /\ SenderType /\ ReceiverType
      /\ DOMAIN unacked \subseteq TxSeq /\ DOMAIN sentAs \subseteq TxSeq /\ lastTx \in TxSeq
      /\ DOMAIN unacked \subseteq DOMAIN sentAs /\ SentInv
  BY TypeParts DEF Inv, SenderType, IsPartialFn, SentInv
<1>1. /\ outcome[p] = "new" /\ new \cap DOMAIN sentAs = {} /\ acking = <<>> /\ lost = {}
      /\ unacked' = [t \in DOMAIN unacked \cup new |->
                       IF t \in new THEN [frag |-> frag(t), retx |-> 0, nGreater |-> 0]
                       ELSE unacked[t]]
      /\ sentAs' = [t \in DOMAIN sentAs \cup new |-> IF t \in new THEN frag(t) ELSE sentAs[t]]
      /\ first' = (IF DOMAIN unacked = {} THEN TxAfter(lastTx, 1) ELSE first)
      /\ lastTx' = TxAfter(lastTx, n)
      /\ frames' = frames \cup new
      /\ outcome' = [outcome EXCEPT ![p] = "pending"]
      /\ UNCHANGED <<didRetx, acking, lost, ackPackets, receiverVars>>
  BY DEF SendNetPacket, SenderRests
<1>2. n \in 1..(TxMod - 1)
  BY FragCountType, ReliabilityAssumption DEF SendNetPacket
<1>3. UNCHANGED <<ackQueue, idleTimer, recent, partials, arrived, timedOut, delivered>>
  BY <1>1 DEF receiverVars
<1>4. /\ DOMAIN unacked' = DOMAIN unacked \cup new /\ DOMAIN sentAs' = DOMAIN sentAs \cup new
      /\ \A t \in new : sentAs'[t] = frag(t) /\ unacked'[t] = [frag |-> frag(t), retx |-> 0, nGreater |-> 0]
      /\ \A t \in DOMAIN sentAs : sentAs'[t] = sentAs[t]
      /\ \A t \in DOMAIN unacked : unacked'[t] = unacked[t]
  BY <1>0, <1>1
<1>5. \A t \in new : frag(t) \in Fragments(p) /\ t \in TxSeq
  BY <1>2, DistanceType, <1>0 DEF Fragments
<1>6. \A t \in new : frag(t) \in Fragment /\ frag(t)[1] = p
  BY <1>5 DEF Fragment
<1>7. \A f \in Fragments(p) : \E t \in new : frag(t) = f
  <2>. TAKE f \in Fragments(p)
  <2>1. f = <<p, f[2]>> /\ f[2] \in 0..(n - 1)
    BY DEF Fragments
  <2>2. f[2] + 1 \in 1..(TxMod - 1) /\ f[2] + 1 \in 1..n
    BY <2>1, <1>2, ReliabilityAssumption
  <2>3. TxAfter(lastTx, f[2] + 1) \in TxSeq /\ Distance(lastTx, TxAfter(lastTx, f[2] + 1)) = f[2] + 1
    BY <2>2, <1>0, AfterDistance
  <2>4. TxAfter(lastTx, f[2] + 1) \in new
    BY <2>2, <2>3
  <2>5. frag(TxAfter(lastTx, f[2] + 1)) = <<p, f[2]>>
    BY <2>1, <2>3
  <2>. QED
    BY <2>1, <2>4, <2>5
<1>8. Window(DOMAIN unacked', first', lastTx') /\ first' \in TxSeq \cup {NoSeq} /\ lastTx' \in TxSeq
  <2>1. Window(DOMAIN unacked, first, lastTx) /\ new \cap DOMAIN unacked = {} /\ DOMAIN unacked \in SUBSET TxSeq
    BY <1>0, <1>1 DEF Inv
  <2>2. first \in TxSeq \cup {NoSeq}
    BY <1>0 DEF SenderType
  <2>. HIDE DEF n
  <2>3. /\ DOMAIN unacked = {} => Window(DOMAIN unacked \cup new, TxAfter(lastTx, 1), TxAfter(lastTx, n))
        /\ DOMAIN unacked # {} => Window(DOMAIN unacked \cup new, first, TxAfter(lastTx, n))
        /\ TxAfter(lastTx, 1) \in TxSeq /\ TxAfter(lastTx, n) \in TxSeq
    BY <1>0, <1>2, <2>1, WindowSend
  <2>. QED
    BY <1>1, <1>4, <2>2, <2>3
<1>. HIDE DEF new, frag, n
<1>9. SenderType'
  <2>1. IsPartialFn(unacked', TxSeq, UnackedFrag)
    <3>1. \A t \in new : unacked'[t] \in UnackedFrag
      BY <1>4, <1>6, ReliabilityAssumption DEF UnackedFrag
    <3>2. \A t \in DOMAIN unacked : unacked'[t] \in UnackedFrag
      BY <1>0, <1>4 DEF SenderType, IsPartialFn
    <3>3. unacked' = [t \in DOMAIN unacked' |-> unacked'[t]]
      BY <1>1
    <3>. QED
      BY <1>0, <1>4, <1>5, <3>1, <3>2, <3>3 DEF IsPartialFn
  <2>2. IsPartialFn(sentAs', TxSeq, Fragment)
    <3>1. \A t \in DOMAIN sentAs' : sentAs'[t] \in Fragment
      BY <1>0, <1>4, <1>6 DEF SenderType, IsPartialFn
    <3>2. sentAs' = [t \in DOMAIN sentAs' |-> sentAs'[t]]
      BY <1>1
    <3>. QED
      BY <1>0, <1>4, <1>5, <3>1, <3>2 DEF IsPartialFn
  <2>3. frames' \subseteq TxSeq
    BY <1>0, <1>1, <1>5 DEF SenderType
  <2>4. outcome' \in [Packet -> {"new", "pending", "acknowledged", "retransmitted", "exhausted"}]
    BY <1>0, <1>1 DEF SenderType
  <2>. QED
    BY <1>0, <1>1, <1>8, <2>1, <2>2, <2>3, <2>4 DEF SenderType
<1>10. ReceiverType'
  BY <1>0, <1>1, <1>3 DEF ReceiverType
<1>11. SentInv'
  <2>1. \A t \in DOMAIN unacked' : unacked'[t].frag = sentAs'[t]
    BY <1>0, <1>4 DEF SentInv
  <2>. QED
    BY <1>0, <1>1, <1>3, <1>4, <2>1 DEF SentInv
<1>12. AckInv'
  <2>1. \A s \in Seq(Acked) : s \in Seq(Acked')
    BY <1>3, <1>4, AckedGrows
  <2>. QED
    BY <2>1, <1>1, <1>3 DEF Inv, AckInv
<1>13. ReceivedInv'
  BY <1>3 DEF Inv, ReceivedInv
<1>14. \A f \in arrived : f[1] # p
  <2>1. PacketOK(p)
    BY DEF Inv
  <2>. QED
    BY <2>1, <1>0, <1>1 DEF PacketOK, SentInv
<1>15. \E t \in new : frag(t) \in Fragments(p)
  <2>1. <<p, 0>> \in Fragments(p)
    BY <1>2 DEF Fragments, n
  <2>. QED
    BY <2>1, <1>7
<1>16. ASSUME NEW q \in Packet PROVE PacketOK(q)' /\ ReceiverOK(q)'
  <2>0. PacketOK(q) /\ ReceiverOK(q)
    BY DEF Inv
  <2>1. CASE q = p
    <3>1. outcome'[p] = "pending"
      BY <1>0, <1>1 DEF SenderType
    <3>2. PacketOK(p)'
      <4>1. \E t \in DOMAIN unacked' : sentAs'[t][1] = p
        BY <1>4, <1>6, <1>15
      <4>2. \A f \in Fragments(p) : \E t \in DOMAIN unacked' : sentAs'[t] = f
        BY <1>4, <1>7
      <4>. QED
        BY <3>1, <4>1, <4>2, <1>15 DEF PacketOK
    <3>3. Fragments(p) \cap arrived = {} /\ \A f \in Fragments(p) : f \notin partials
      <4>1. \A f \in Fragments(p) : f[1] = p
        BY DEF Fragments
      <4>. QED
        BY <4>1, <1>14 DEF Inv, ReceivedInv
    <3>4. ReceiverOK(p)'
      <4>1. ~(Fragments(p) \subseteq partials)
        BY <3>3, <1>15
      <4>2. /\ delivered[p] = 0 /\ p \notin timedOut => arrived \cap Fragments(p) \subseteq partials
            /\ ~Forgets => delivered[p] <= 1
            /\ ~Forgets /\ delivered[p] = 1 => Fragments(p) \subseteq arrived
        BY <2>0, <2>1 DEF ReceiverOK
      <4>. QED
        BY <4>1, <4>2, <1>3 DEF ReceiverOK
    <3>. QED
      BY <2>1, <3>2, <3>4
  <2>2. CASE q # p
    <3>1. outcome'[q] = outcome[q]
      BY <2>2, <1>0, <1>1 DEF SenderType
    <3>2. \A t \in new : sentAs'[t][1] # q
      BY <2>2, <1>4, <1>6
    <3>3. PacketOK(q)'
      <4>1. outcome[q] = "new" => \A t \in DOMAIN sentAs' : sentAs'[t][1] # q
        BY <2>0, <1>4, <3>2 DEF PacketOK
      <4>2. outcome[q] # "pending" => \A t \in DOMAIN unacked' : sentAs'[t][1] # q
        BY <2>0, <1>0, <1>4, <3>2 DEF PacketOK
      <4>3. outcome[q] = "pending" =>
             /\ \E t \in DOMAIN unacked' : sentAs'[t][1] = q
             /\ \A f \in Fragments(q) : f \in arrived \/ \E t \in DOMAIN unacked' : sentAs'[t] = f
        BY <2>0, <1>0, <1>4 DEF PacketOK
      <4>. QED
        BY <2>0, <3>1, <1>3, <4>1, <4>2, <4>3 DEF PacketOK
    <3>4. ReceiverOK(q)'
      BY <2>0, <3>1, <1>3 DEF ReceiverOK
    <3>. QED
      BY <3>3, <3>4
  <2>. QED
    BY <2>1, <2>2
<1>17. TypeOK'
  BY <1>9, <1>10, TypePartsPrime
<1>. QED
  BY <1>17, <1>8, <1>11, <1>12, <1>13, <1>16 DEF Inv

\* onLpPacketLost gives the packet of t up.
LEMMA GiveUpInv ==
  ASSUME Inv, NEW t \in DOMAIN unacked, GiveUp(t),
         UNCHANGED <<acking, ackPackets, receiverVars>>
  PROVE  Inv'
<1>. DEFINE p == sentAs[t][1]
            rest == DOMAIN unacked \ Dropped(t)
<1>0. /\ SenderType /\ ReceiverType /\ SentInv
      /\ DOMAIN unacked \subseteq TxSeq /\ lastTx \in TxSeq
      /\ DOMAIN unacked \subseteq DOMAIN sentAs
  BY TypeParts DEF Inv, SenderType, IsPartialFn, SentInv
<1>1. p \in Packet /\ outcome[p] = "pending" /\ unacked[t].frag[1] = p
  BY UnackedPending
<1>2. /\ unacked' = [s \in rest |-> unacked[s]]
      /\ first' = FirstOf(rest, first)
      /\ lost' = lost \cap rest
      /\ outcome' = [outcome EXCEPT ![p] = "exhausted"]
      /\ UNCHANGED <<lastTx, didRetx, sentAs, frames>>
  BY <1>1 DEF GiveUp
<1>3. UNCHANGED <<ackQueue, idleTimer, recent, partials, arrived, timedOut, delivered>>
  BY DEF receiverVars
<1>4. rest = {s \in DOMAIN unacked : sentAs[s][1] # p}
  BY <1>0, <1>1 DEF Dropped, OfPacket, SentInv
<1>. HIDE DEF rest, p
<1>5. DOMAIN unacked' = rest /\ \A s \in rest : s \in DOMAIN unacked /\ unacked'[s] = unacked[s]
  BY <1>2, <1>4
<1>6. Window(DOMAIN unacked', first', lastTx') /\ first' \in TxSeq \cup {NoSeq}
  <2>1. Window(DOMAIN unacked, first, lastTx) /\ DOMAIN unacked \in SUBSET TxSeq /\ rest \in SUBSET (DOMAIN unacked)
    BY <1>0, <1>5 DEF Inv
  <2>2. Window(rest, FirstOf(rest, first), lastTx) /\ FirstOf(rest, first) \in TxSeq \cup {NoSeq}
    BY <2>1, <1>0, WindowLess
  <2>. QED
    BY <2>2, <1>2, <1>5
<1>7. SenderType'
  <2>1. IsPartialFn(unacked', TxSeq, UnackedFrag)
    BY <1>0, <1>2, <1>5 DEF SenderType, IsPartialFn
  <2>2. outcome' \in [Packet -> {"new", "pending", "acknowledged", "retransmitted", "exhausted"}]
    BY <1>0, <1>2 DEF SenderType
  <2>. QED
    BY <1>0, <1>2, <1>6, <2>1, <2>2 DEF SenderType
<1>8. ReceiverType' /\ ReceivedInv'
  BY <1>0, <1>3 DEF ReceiverType, Inv, ReceivedInv
<1>9. SentInv'
  BY <1>0, <1>2, <1>3, <1>5 DEF SentInv
<1>10. AckInv'
  <2>1. Acked' = Acked
    BY <1>2, <1>3 DEF Acked
  <2>. QED
    BY <2>1, <1>3 DEF Inv, AckInv
<1>11. ASSUME NEW q \in Packet PROVE PacketOK(q)' /\ ReceiverOK(q)'
  <2>0. PacketOK(q) /\ ReceiverOK(q)
    BY DEF Inv
  <2>1. CASE q = p
    <3>1. outcome'[q] = "exhausted" /\ outcome[q] = "pending"
      BY <2>1, <1>0, <1>1, <1>2 DEF SenderType
    <3>2. \A s \in rest : sentAs[s][1] # q
      BY <2>1, <1>4
    <3>. QED
      BY <2>0, <3>1, <3>2, <1>2, <1>3, <1>5 DEF PacketOK, ReceiverOK
  <2>2. CASE q # p
    <3>1. outcome'[q] = outcome[q]
      BY <2>2, <1>0, <1>2 DEF SenderType
    <3>2. \A f \in Fragments(q) : f[1] = q
      BY DEF Fragments
    <3>3. outcome[q] = "pending" =>
           /\ \E s \in rest : sentAs[s][1] = q
           /\ \A f \in Fragments(q) : f \in arrived \/ \E s \in rest : sentAs[s] = f
      BY <2>0, <2>2, <1>4, <3>2 DEF PacketOK
    <3>4. PacketOK(q)'
      BY <2>0, <3>1, <3>3, <1>2, <1>3, <1>5 DEF PacketOK
    <3>5. ReceiverOK(q)'
      BY <2>0, <3>1, <1>3 DEF ReceiverOK
    <3>. QED
      BY <3>4, <3>5
  <2>. QED
    BY <2>1, <2>2
<1>12. TypeOK'
  BY <1>7, <1>8, TypePartsPrime
<1>. QED
  BY <1>12, <1>6, <1>8, <1>9, <1>10, <1>11 DEF Inv

\* onLpPacketLost sends the fragment of t once more.
LEMMA RetransmitInv ==
  ASSUME Inv, NEW t \in DOMAIN unacked, Retransmit(t),
         UNCHANGED <<acking, ackPackets, receiverVars>>
  PROVE  Inv'
<1>. DEFINE new == TxAfter(lastTx, 1)
            D == (DOMAIN unacked \ {t}) \cup {new}
<1>0. /\ SenderType /\ ReceiverType /\ SentInv
      /\ DOMAIN unacked \subseteq TxSeq /\ lastTx \in TxSeq
      /\ DOMAIN unacked \subseteq DOMAIN sentAs
  BY TypeParts DEF Inv, SenderType, IsPartialFn, SentInv
<1>1. /\ t \in TxSeq /\ t \in DOMAIN sentAs /\ sentAs[t] \in Fragment /\ sentAs[t][1] \in Packet
      /\ unacked[t].frag = sentAs[t] /\ outcome[sentAs[t][1]] = "pending"
  BY UnackedPending
<1>2. /\ new \notin DOMAIN sentAs
      /\ unacked' = [s \in D |-> IF s = new THEN Resent(unacked[t]) ELSE unacked[s]]
      /\ sentAs' = [s \in DOMAIN sentAs \cup {new} |-> IF s = new THEN sentAs[t] ELSE sentAs[s]]
      /\ first' = FirstOf(D, first)
      /\ lastTx' = new
      /\ lost' = lost \ {t}
      /\ frames' = frames \cup {new}
      /\ didRetx' = didRetx \cup {sentAs[t][1]}
      /\ UNCHANGED outcome
  BY <1>1 DEF Retransmit
<1>3. UNCHANGED <<ackQueue, idleTimer, recent, partials, arrived, timedOut, delivered>>
  BY DEF receiverVars
<1>4. ~Exhausted(t)
  BY DEF Retransmit
<1>5. /\ Window(DOMAIN unacked', first', lastTx') /\ first' \in TxSeq \cup {NoSeq}
      /\ new \in TxSeq
  <2>1. Window(DOMAIN unacked, first, lastTx) /\ DOMAIN unacked \in SUBSET TxSeq /\ new \notin DOMAIN unacked
    BY <1>0, <1>2 DEF Inv
  <2>2. Window(D, FirstOf(D, first), new) /\ FirstOf(D, first) \in TxSeq \cup {NoSeq} /\ new \in TxSeq
    <3>. HIDE DEF new
    <3>1. new = TxAfter(lastTx, 1)
      BY DEF new
    <3>. HIDE DEF D
    <3>2. D = (DOMAIN unacked \ {t}) \cup {new}
      BY DEF D
    <3>. QED
      BY <2>1, <1>0, <3>1, <3>2, WindowResend
  <2>. QED
    BY <2>2, <1>2
<1>. HIDE DEF new
<1>6. /\ DOMAIN unacked' = D /\ DOMAIN sentAs' = DOMAIN sentAs \cup {new}
      /\ unacked'[new] = Resent(unacked[t]) /\ sentAs'[new] = sentAs[t]
      /\ \A s \in DOMAIN unacked \ {t} : unacked'[s] = unacked[s]
      /\ \A s \in DOMAIN sentAs : sentAs'[s] = sentAs[s]
  BY <1>0, <1>2
<1>7. SenderType'
  <2>1. unacked[t] \in UnackedFrag
    BY <1>0 DEF SenderType, IsPartialFn
  <2>2. Resent(unacked[t]) \in UnackedFrag
    BY <2>1, <1>4, ReliabilityAssumption DEF Resent, UnackedFrag, Exhausted
  <2>3. IsPartialFn(unacked', TxSeq, UnackedFrag)
    <3>1. \A s \in D : unacked'[s] \in UnackedFrag /\ s \in TxSeq
      BY <1>0, <1>5, <1>6, <2>2 DEF SenderType, IsPartialFn
    <3>2. unacked' = [s \in D |-> unacked'[s]]
      BY <1>2
    <3>. QED
      BY <1>6, <3>1, <3>2 DEF IsPartialFn
  <2>4. IsPartialFn(sentAs', TxSeq, Fragment)
    <3>1. \A s \in DOMAIN sentAs' : sentAs'[s] \in Fragment /\ s \in TxSeq
      BY <1>0, <1>1, <1>5, <1>6 DEF SenderType, IsPartialFn
    <3>2. sentAs' = [s \in DOMAIN sentAs' |-> sentAs'[s]]
      BY <1>2
    <3>. QED
      BY <3>1, <3>2 DEF IsPartialFn
  <2>5. frames' \subseteq TxSeq /\ lost' \subseteq TxSeq /\ didRetx' \subseteq Packet /\ lastTx' \in TxSeq
    BY <1>0, <1>1, <1>2, <1>5 DEF SenderType
  <2>. QED
    BY <1>0, <1>2, <1>5, <2>3, <2>4, <2>5 DEF SenderType
<1>8. ReceiverType' /\ ReceivedInv'
  BY <1>0, <1>3 DEF ReceiverType, Inv, ReceivedInv
<1>9. SentInv'
  <2>1. \A s \in DOMAIN unacked' : unacked'[s].frag = sentAs'[s] /\ s \in DOMAIN sentAs'
    BY <1>0, <1>1, <1>6 DEF SentInv, Resent
  <2>2. lost' \subseteq DOMAIN unacked'
    BY <1>0, <1>2, <1>6 DEF SentInv
  <2>3. \A f \in arrived : \E s \in DOMAIN sentAs' : sentAs'[s] = f
    BY <1>0, <1>6 DEF SentInv
  <2>. QED
    BY <1>0, <1>2, <1>3, <1>6, <2>1, <2>2, <2>3 DEF SentInv
<1>10. AckInv'
  <2>1. \A s \in Seq(Acked) : s \in Seq(Acked')
    BY <1>3, <1>6, AckedGrows
  <2>. QED
    BY <2>1, <1>3 DEF Inv, AckInv
<1>11. ASSUME NEW q \in Packet PROVE PacketOK(q)' /\ ReceiverOK(q)'
  <2>0. PacketOK(q) /\ ReceiverOK(q)
    BY DEF Inv
  <2>1. ReceiverOK(q)'
    BY <2>0, <1>2, <1>3 DEF ReceiverOK
  <2>2. \A s \in DOMAIN unacked : \E u \in DOMAIN unacked' : sentAs'[u] = sentAs[s]
    BY <1>0, <1>6
  <2>3. \A u \in DOMAIN unacked' : \E s \in DOMAIN unacked : sentAs'[u] = sentAs[s]
    BY <1>0, <1>6
  <2>4. \A u \in DOMAIN sentAs' : \E s \in DOMAIN sentAs : sentAs'[u] = sentAs[s]
    BY <1>1, <1>6
  <2>5. outcome[q] = "pending" =>
             /\ \E u \in DOMAIN unacked' : sentAs'[u][1] = q
             /\ \A f \in Fragments(q) : f \in arrived \/ \E u \in DOMAIN unacked' : sentAs'[u] = f
    BY <2>0, <2>2 DEF PacketOK
  <2>6. outcome[q] # "pending" => \A u \in DOMAIN unacked' : sentAs'[u][1] # q
    BY <2>0, <2>3 DEF PacketOK
  <2>7. outcome[q] = "new" => \A u \in DOMAIN sentAs' : sentAs'[u][1] # q
    BY <2>0, <2>4 DEF PacketOK
  <2>8. PacketOK(q)'
    BY <2>0, <2>5, <2>6, <2>7, <1>2, <1>3 DEF PacketOK
  <2>. QED
    BY <2>1, <2>8
<1>12. TypeOK'
  BY <1>7, <1>8, TypePartsPrime
<1>. QED
  BY <1>12, <1>5, <1>8, <1>9, <1>10, <1>11 DEF Inv

\* and so do a retransmission timer,
LEMMA RtoInv ==
  ASSUME Inv, NEW t \in TxSeq, RtoTimeout(t)
  PROVE  Inv'
<1>1. t \in DOMAIN unacked /\ UNCHANGED <<acking, ackPackets, receiverVars>>
  BY DEF RtoTimeout
<1>2. CASE GiveUp(t)
  BY <1>1, <1>2, GiveUpInv
<1>3. CASE Retransmit(t)
  BY <1>1, <1>3, RetransmitInv
<1>. QED
  BY <1>2, <1>3 DEF RtoTimeout

\* The oldest fragment found lost is in the window.
LEMMA OldestLost ==
  ASSUME Inv, lost # {}
  PROVE  FirstOf(lost, first) \in DOMAIN unacked
<1>1. lost \subseteq DOMAIN unacked /\ DOMAIN unacked \subseteq TxSeq
  BY TypeParts DEF Inv, SentInv, SenderType, IsPartialFn
<1>2. first \in TxSeq
  BY <1>1, WindowOrder DEF Inv
<1>. QED
  BY <1>1, <1>2, FirstOfIn

\* a fragment found lost,
LEMMA LostInv ==
  ASSUME Inv, HandleLost
  PROVE  Inv'
<1>. DEFINE t == FirstOf(lost, first)
<1>1. t \in DOMAIN unacked /\ UNCHANGED <<acking, ackPackets, receiverVars>>
  BY OldestLost DEF HandleLost
<1>2. GiveUp(t) \/ Retransmit(t)
  BY DEF HandleLost
<1>. HIDE DEF t
<1>3. CASE GiveUp(t)
  BY <1>1, <1>3, GiveUpInv
<1>4. CASE Retransmit(t)
  BY <1>1, <1>4, RetransmitInv
<1>. QED
  BY <1>2, <1>3, <1>4

\* A step that leaves the window, what was sent and the packets alone.
LEMMA SameWindow ==
  ASSUME Inv, UNCHANGED <<unacked, first, lastTx, outcome, sentAs, arrived, partials, timedOut, delivered>>
  PROVE  /\ Window(DOMAIN unacked, first, lastTx)' /\ Acked' = Acked
         /\ \A p \in Packet : PacketOK(p)' /\ ReceiverOK(p)'
<1>1. ASSUME NEW p \in Packet PROVE PacketOK(p)' /\ ReceiverOK(p)'
  <2>1. PacketOK(p) /\ ReceiverOK(p)
    BY DEF Inv
  <2>. QED
    BY <2>1 DEF PacketOK, ReceiverOK
<1>2. Window(DOMAIN unacked, first, lastTx)'
  BY DEF Inv, Window
<1>. QED
  BY <1>1, <1>2 DEF Acked

\* the beginning of a handler of Acks,
LEMMA ReceiveAcksInv ==
  ASSUME Inv, NEW a \in ackPackets, ReceiveAcks(a)
  PROVE  Inv'
<1>1. /\ acking' = a /\ ackPackets' = ackPackets \ {a}
      /\ UNCHANGED <<unacked, first, lastTx, didRetx, outcome, sentAs, lost, frames>>
      /\ UNCHANGED <<ackQueue, idleTimer, recent, partials, arrived, timedOut, delivered>>
  BY DEF ReceiveAcks, receiverVars
<1>2. /\ Window(DOMAIN unacked, first, lastTx)' /\ Acked' = Acked
      /\ \A p \in Packet : PacketOK(p)' /\ ReceiverOK(p)'
  BY <1>1, SameWindow
<1>3. TypeOK'
  BY <1>1 DEF Inv, TypeOK
<1>4. SentInv' /\ ReceivedInv'
  BY <1>1 DEF Inv, SentInv, ReceivedInv
<1>5. AckInv'
  BY <1>1, <1>2 DEF Inv, AckInv
<1>. QED
  BY <1>2, <1>3, <1>4, <1>5 DEF Inv

\* an Ack of something not in the window,
LEMMA IgnoreInv ==
  ASSUME Inv, IgnoreAck
  PROVE  Inv'
<1>1. /\ acking # <<>> /\ acking' = Tail(acking)
      /\ UNCHANGED <<unacked, first, lastTx, didRetx, outcome, sentAs, lost, frames, ackPackets>>
      /\ UNCHANGED <<ackQueue, idleTimer, recent, partials, arrived, timedOut, delivered>>
  BY DEF IgnoreAck, receiverVars
<1>2. /\ Window(DOMAIN unacked, first, lastTx)' /\ Acked' = Acked
      /\ \A p \in Packet : PacketOK(p)' /\ ReceiverOK(p)'
  BY <1>1, SameWindow
<1>3. TypeOK'
  <2>1. Tail(acking) \in Seq(TxSeq)
    BY <1>1, HeadTailProperties DEF Inv, TypeOK
  <2>. QED
    BY <1>1, <2>1 DEF Inv, TypeOK
<1>4. SentInv' /\ ReceivedInv'
  BY <1>1 DEF Inv, SentInv, ReceivedInv
<1>5. AckInv'
  <2>1. Tail(acking) \in Seq(Acked)
    BY <1>1, HeadTailProperties DEF Inv, AckInv
  <2>. QED
    BY <1>1, <1>2, <2>1 DEF Inv, AckInv
<1>. QED
  BY <1>2, <1>3, <1>4, <1>5 DEF Inv

\* Acknowledged transmissions that leave the window take nothing with them that has
\* not arrived.
LEMMA ProcessAckInv ==
  ASSUME Inv, ProcessAck
  PROVE  Inv'
<1>. DEFINE t == Head(acking)
            p == sentAs[t][1]
            rest == DOMAIN unacked \ {t}
            before == {s \in rest : Distance(first, s) < Distance(first, t)}
<1>0. /\ SenderType /\ ReceiverType /\ SentInv
      /\ DOMAIN unacked \subseteq TxSeq /\ lastTx \in TxSeq
      /\ DOMAIN unacked \subseteq DOMAIN sentAs
  BY TypeParts DEF Inv, SenderType, IsPartialFn, SentInv
<1>1. acking # <<>> /\ t \in DOMAIN unacked /\ acking' = Tail(acking)
  BY DEF ProcessAck
<1>2. /\ t \in TxSeq /\ p \in Packet /\ sentAs[t] \in Fragment
      /\ unacked[t].frag = sentAs[t] /\ outcome[p] = "pending"
  BY <1>1, UnackedPending
<1>3. t \in Acked /\ Tail(acking) \in Seq(Acked) /\ Tail(acking) \in Seq(TxSeq)
  BY <1>0, <1>1, HeadTailProperties DEF Inv, AckInv, SenderType
<1>4. /\ lost' = {s \in before : unacked[s].nGreater + 1 >= LossThreshold}
      /\ unacked' = [s \in rest |->
                         IF s \in before
                         THEN [frag |-> unacked[s].frag, retx |-> unacked[s].retx,
                               nGreater |-> unacked[s].nGreater + 1]
                         ELSE unacked[s]]
      /\ first' = FirstOf(rest, first)
      /\ outcome' = IF Settled(t, p)
                      THEN [outcome EXCEPT ![p] = IF p \in didRetx THEN "retransmitted"
                                                  ELSE "acknowledged"]
                      ELSE outcome
      /\ UNCHANGED <<lastTx, didRetx, sentAs, frames, ackPackets, receiverVars>>
  BY <1>2 DEF ProcessAck
<1>5. UNCHANGED <<ackQueue, idleTimer, recent, partials, arrived, timedOut, delivered>>
  BY <1>4 DEF receiverVars
<1>6. Settled(t, p) <=> \A s \in DOMAIN unacked : sentAs[s][1] = p => s = t
  <2>1. \A s \in DOMAIN unacked : unacked[s].frag[1] = sentAs[s][1]
    BY <1>0 DEF SentInv
  <2>. QED
    BY <1>1, <2>1 DEF Settled, OfPacket
<1>7. sentAs[t] \in arrived
  BY <1>3 DEF Acked
<1>. HIDE DEF t, p
<1>8. /\ DOMAIN unacked' = rest
      /\ \A s \in rest : unacked[s] \in UnackedFrag /\ unacked'[s].frag = unacked[s].frag
      /\ \A s \in rest : unacked'[s] \in UnackedFrag
  <2>1. \A s \in rest : unacked[s] \in UnackedFrag
    BY <1>0 DEF SenderType, IsPartialFn
  <2>2. DOMAIN unacked' = rest
    BY <1>4
  <2>3. ASSUME NEW s \in rest PROVE unacked'[s].frag = unacked[s].frag /\ unacked'[s] \in UnackedFrag
    <3>. HIDE DEF before, rest
    <3>0. unacked[s] \in UnackedFrag
      BY <2>1
    <3>1. CASE s \in before
      <4>1. unacked'[s] = [frag |-> unacked[s].frag, retx |-> unacked[s].retx,
                           nGreater |-> unacked[s].nGreater + 1]
        BY <3>1, <1>4
      <4>. QED
        BY <3>0, <4>1 DEF UnackedFrag
    <3>2. CASE s \notin before
      <4>1. unacked'[s] = unacked[s]
        BY <3>2, <1>4
      <4>. QED
        BY <3>0, <4>1
    <3>. QED
      BY <3>1, <3>2
  <2>. QED
    BY <2>1, <2>2, <2>3
<1>9. Window(DOMAIN unacked', first', lastTx') /\ first' \in TxSeq \cup {NoSeq}
  <2>1. Window(DOMAIN unacked, first, lastTx) /\ DOMAIN unacked \in SUBSET TxSeq /\ rest \in SUBSET (DOMAIN unacked)
    BY <1>0 DEF Inv
  <2>. HIDE DEF rest
  <2>2. Window(rest, FirstOf(rest, first), lastTx) /\ FirstOf(rest, first) \in TxSeq \cup {NoSeq}
    BY <2>1, <1>0, WindowLess
  <2>. QED
    BY <2>2, <1>4, <1>8
<1>10. lost' \subseteq DOMAIN unacked'
  BY <1>4, <1>8
<1>. HIDE DEF before
<1>11. SenderType'
  <2>1. IsPartialFn(unacked', TxSeq, UnackedFrag)
    <3>1. unacked' = [s \in rest |-> unacked'[s]]
      BY <1>4
    <3>. QED
      BY <1>0, <1>8, <3>1 DEF IsPartialFn
  <2>2. outcome' \in [Packet -> {"new", "pending", "acknowledged", "retransmitted", "exhausted"}]
    BY <1>0, <1>4 DEF SenderType
  <2>3. lost' \subseteq TxSeq
    BY <1>10, <1>8, <1>0
  <2>. QED
    BY <1>0, <1>1, <1>3, <1>4, <1>9, <2>1, <2>2, <2>3 DEF SenderType
<1>12. ReceiverType' /\ ReceivedInv'
  BY <1>0, <1>4, <1>5 DEF ReceiverType, Inv, ReceivedInv
<1>13. SentInv'
  BY <1>0, <1>4, <1>5, <1>8, <1>10 DEF SentInv
<1>14. AckInv'
  <2>1. Acked' = Acked
    BY <1>4, <1>5 DEF Acked
  <2>. QED
    BY <2>1, <1>1, <1>3, <1>4, <1>5 DEF Inv, AckInv
<1>15. ASSUME NEW q \in Packet PROVE PacketOK(q)' /\ ReceiverOK(q)'
  <2>0. PacketOK(q) /\ ReceiverOK(q)
    BY DEF Inv
  <2>1. CASE q = p /\ Settled(t, p)
    <3>1. outcome'[q] \in {"acknowledged", "retransmitted"} /\ outcome[q] = "pending"
      BY <2>1, <1>0, <1>2, <1>4 DEF SenderType
    <3>2. \A s \in rest : sentAs[s][1] # q
      BY <2>1, <1>6
    <3>3. Fragments(q) \subseteq arrived
      <4>1. \A f \in Fragments(q) : f[1] = q
        BY DEF Fragments
      <4>2. \A f \in Fragments(q) : f \in arrived \/ \E s \in DOMAIN unacked : sentAs[s] = f
        BY <2>0, <3>1 DEF PacketOK
      <4>. QED
        BY <2>1, <4>1, <4>2, <1>6, <1>7
    <3>. QED
      BY <2>0, <3>1, <3>2, <3>3, <1>4, <1>5, <1>8 DEF PacketOK, ReceiverOK
  <2>2. CASE ~(q = p /\ Settled(t, p))
    <3>1. outcome'[q] = outcome[q]
      BY <2>2, <1>0, <1>4 DEF SenderType
    <3>2. outcome[q] = "pending" =>
           /\ \E s \in rest : sentAs[s][1] = q
           /\ \A f \in Fragments(q) : f \in arrived \/ \E s \in rest : sentAs[s] = f
      <4>1. CASE q = p
        <5>1. \E s \in rest : sentAs[s][1] = q
          BY <2>2, <4>1, <1>6
        <5>. QED
          BY <2>0, <5>1, <1>7 DEF PacketOK
      <4>2. CASE q # p
        BY <2>0, <4>2, <1>7 DEF PacketOK, p
      <4>. QED
        BY <4>1, <4>2
    <3>3. outcome[q] # "pending" => \A s \in rest : sentAs[s][1] # q
      BY <2>0 DEF PacketOK
    <3>4. PacketOK(q)'
      BY <2>0, <3>1, <3>2, <3>3, <1>4, <1>5, <1>8 DEF PacketOK
    <3>5. ReceiverOK(q)'
      BY <2>0, <3>1, <1>5 DEF ReceiverOK
    <3>. QED
      BY <3>4, <3>5
  <2>. QED
    BY <2>1, <2>2
<1>16. TypeOK'
  BY <1>11, <1>12, TypePartsPrime
<1>. QED
  BY <1>16, <1>9, <1>12, <1>13, <1>14, <1>15 DEF Inv

\* a fragment that arrives,
LEMMA ReceiveInv ==
  ASSUME Inv, NEW t \in TxSeq, ReceiveFragment(t)
  PROVE  Inv'
<1>. DEFINE f == sentAs[t]
            p == sentAs[t][1]
<1>0. SenderType /\ ReceiverType /\ SentInv /\ ReceivedInv
  BY TypeParts DEF Inv
<1>1. /\ t \in frames /\ frames' = frames \ {t}
      /\ ackQueue' = Append(ackQueue, t) /\ idleTimer' = TRUE
      /\ arrived' = arrived \cup {f} /\ Remember(f)
      /\ UNCHANGED <<unacked, first, lastTx, didRetx, outcome, sentAs, acking, lost, ackPackets, timedOut>>
  BY DEF ReceiveFragment
<1>2. t \in DOMAIN sentAs /\ f \in Fragment
  BY <1>0, <1>1 DEF SentInv, SenderType, IsPartialFn
<1>3. p \in Packet /\ f \in Fragments(p) /\ \A q : f \in Fragments(q) => q = p
  BY <1>2, FragmentOf
<1>4. outcome[p] # "new" /\ Fragments(p) # {}
  <2>1. PacketOK(p)
    BY <1>3 DEF Inv
  <2>. QED
    BY <2>1, <1>2, <1>3 DEF PacketOK
<1>5. PICK old \in (IF Forgets THEN SUBSET recent ELSE {{}}) : recent' = (recent \ old) \cup {f}
  BY <1>1 DEF Remember
<1>6. /\ recent' \subseteq recent \cup {f}
      /\ ~Forgets => recent' = recent \cup {f}
  BY <1>5
<1>. DEFINE have == partials \cup {f}
            whole == Fragments(p) \subseteq have
            Same == UNCHANGED <<partials, delivered>>
            Kept == partials' = have /\ delivered' = delivered
            Passed == /\ partials' = have \ Fragments(p)
                      /\ delivered' = [delivered EXCEPT ![p] = @ + 1]
<1>7. \/ f \in arrived /\ Same
      \/ f \notin recent /\ ~whole /\ Kept
      \/ f \notin recent /\ whole /\ Passed
  <2>1. CASE f \in recent
    BY <2>1, <1>0 DEF ReceiveFragment, ReceivedInv
  <2>2. CASE f \in partials /\ f \notin recent
    BY <2>2, <1>0 DEF ReceiveFragment, ReceivedInv, Reassemble
  <2>3. CASE f \notin partials /\ f \notin recent
    <3>1. Reassemble(p, f)
      BY <2>3 DEF ReceiveFragment
    <3>2. /\ partials' = (IF whole THEN have \ Fragments(p) ELSE have)
          /\ delivered' = (IF whole THEN [delivered EXCEPT ![p] = @ + 1] ELSE delivered)
      BY <2>3, <3>1 DEF Reassemble
    <3>. QED
      BY <2>3, <3>2
  <2>. QED
    BY <2>1, <2>2, <2>3
<1>8. partials' \subseteq partials \cup {f}
  BY <1>7
<1>9. delivered' \in [Packet -> Nat]
  <2>1. delivered \in [Packet -> Nat]
    BY <1>0 DEF ReceiverType
  <2>. QED
    BY <2>1, <1>3, <1>7
<1>10. ReceiverType'
  <2>1. Append(ackQueue, t) \in Seq(TxSeq)
    BY <1>0, AppendProperties DEF ReceiverType
  <2>. QED
    BY <1>0, <1>1, <1>2, <1>6, <1>8, <1>9, <2>1 DEF ReceiverType
<1>11. SenderType'
  BY <1>0, <1>1 DEF SenderType
<1>12. SentInv'
  BY <1>0, <1>1, <1>2 DEF SentInv
<1>13. AckInv'
  <2>1. \A s \in Seq(Acked) : s \in Seq(Acked')
    BY <1>1, AckedGrows
  <2>2. t \in Acked'
    BY <1>1, <1>2 DEF Acked
  <2>3. ackQueue \in Seq(Acked')
    BY <2>1 DEF Inv, AckInv
  <2>4. Append(ackQueue, t) \in Seq(Acked')
    BY <2>2, <2>3, AppendProperties
  <2>. QED
    BY <2>1, <2>4, <1>1 DEF Inv, AckInv
<1>14. ReceivedInv'
  BY <1>0, <1>1, <1>6, <1>8 DEF ReceivedInv
<1>15. Window(DOMAIN unacked, first, lastTx)'
  BY <1>1 DEF Inv, Window
<1>16. ASSUME NEW q \in Packet PROVE PacketOK(q)'
  <2>1. PacketOK(q)
    BY DEF Inv
  <2>. QED
    BY <2>1, <1>1 DEF PacketOK
<1>17. ASSUME NEW q \in Packet PROVE ReceiverOK(q)'
  <2>0. ReceiverOK(q) /\ delivered[q] \in Nat
    BY <1>0 DEF Inv, ReceiverType
  <2>1. CASE q # p
    <3>1. f \notin Fragments(q)
      BY <2>1, <1>3
    <3>2. Fragments(q) \cap Fragments(p) = {}
      BY <2>1 DEF Fragments
    <3>3. delivered'[q] = delivered[q]
      BY <2>1, <1>0, <1>7 DEF ReceiverType
    <3>4. Fragments(q) \cap partials' = Fragments(q) \cap partials /\ arrived' \cap Fragments(q) = arrived \cap Fragments(q)
      BY <3>1, <3>2, <1>1, <1>7
    <3>. QED
      BY <2>0, <3>3, <3>4, <1>1 DEF ReceiverOK
  <2>2. CASE q = p /\ f \in arrived /\ Same
    BY <2>0, <2>2, <1>1 DEF ReceiverOK
  <2>3. CASE q = p /\ f \notin recent /\ ~whole /\ Kept
    BY <2>0, <2>3, <1>1 DEF ReceiverOK
  <2>4. CASE q = p /\ f \notin recent /\ whole /\ Passed
    <3>1. delivered'[q] = delivered[q] + 1
      BY <2>4, <1>0 DEF ReceiverType
    <3>2. ~(Fragments(q) \subseteq partials')
      BY <2>4, <1>4
    <3>3. Fragments(q) \subseteq arrived'
      BY <2>4, <1>0, <1>1 DEF ReceivedInv
    <3>4. ~Forgets => delivered[q] = 0
      <4>. SUFFICES ASSUME ~Forgets, delivered[q] = 1 PROVE FALSE
        BY <2>0 DEF ReceiverOK
      <4>1. Fragments(q) \subseteq recent
        BY <2>0, <1>0 DEF ReceiverOK, ReceivedInv
      <4>. QED
        BY <4>1, <2>4, <1>3
    <3>. QED
      BY <2>0, <3>1, <3>2, <3>3, <3>4 DEF ReceiverOK
  <2>. QED
    BY <2>1, <2>2, <2>3, <2>4, <1>7
<1>18. TypeOK'
  BY <1>10, <1>11, TypePartsPrime
<1>. QED
  BY <1>12, <1>13, <1>14, <1>15, <1>16, <1>17, <1>18 DEF Inv

\* a partial packet dropped,
LEMMA ReassemblyTimeoutInv ==
  ASSUME Inv, NEW p \in Packet, ReassemblyTimeout(p)
  PROVE  Inv'
<1>1. /\ partials' = partials \ Fragments(p) /\ timedOut' = timedOut \cup {p}
      /\ UNCHANGED <<unacked, first, lastTx, didRetx, outcome, sentAs, acking, lost, frames>>
      /\ UNCHANGED <<ackPackets, ackQueue, idleTimer, recent, arrived, delivered>>
  BY DEF ReassemblyTimeout, senderVars
<1>2. TypeOK'
  BY <1>1 DEF Inv, TypeOK
<1>3. SentInv' /\ ReceivedInv'
  BY <1>1 DEF Inv, SentInv, ReceivedInv
<1>4. AckInv'
  <2>1. Acked' = Acked
    BY <1>1 DEF Acked
  <2>. QED
    BY <1>1, <2>1 DEF Inv, AckInv
<1>5. Window(DOMAIN unacked, first, lastTx)'
  BY <1>1 DEF Inv, Window
<1>6. ASSUME NEW q \in Packet PROVE PacketOK(q)' /\ ReceiverOK(q)'
  <2>0. PacketOK(q) /\ ReceiverOK(q)
    BY DEF Inv
  <2>1. PacketOK(q)'
    BY <2>0, <1>1 DEF PacketOK
  <2>2. q # p => Fragments(q) \cap Fragments(p) = {}
    BY DEF Fragments
  <2>3. ReceiverOK(q)'
    BY <2>0, <2>2, <1>1 DEF ReceiverOK
  <2>. QED
    BY <2>1, <2>3
<1>. QED
  BY <1>2, <1>3, <1>4, <1>5, <1>6 DEF Inv

\* Acks move from the queue into packets.
LEMMA AcksLeave ==
  ASSUME Inv, ackQueue' \in Seq(TxSeq), ackQueue' \in Seq(Acked), idleTimer' \in BOOLEAN,
         \A a \in ackPackets' : a \in ackPackets \/ (a \in Seq(TxSeq) /\ a \in Seq(Acked)),
         UNCHANGED <<senderVars, recent, partials, arrived, timedOut, delivered>>
  PROVE  Inv'
<1>1. UNCHANGED <<unacked, first, lastTx, didRetx, outcome, sentAs, acking, lost, frames>>
  BY DEF senderVars
<1>2. /\ Window(DOMAIN unacked, first, lastTx)' /\ Acked' = Acked
      /\ \A p \in Packet : PacketOK(p)' /\ ReceiverOK(p)'
  BY <1>1, SameWindow
<1>3. TypeOK'
  BY <1>1 DEF Inv, TypeOK
<1>4. SentInv' /\ ReceivedInv'
  BY <1>1 DEF Inv, SentInv, ReceivedInv
<1>5. AckInv'
  BY <1>1, <1>2 DEF Inv, AckInv
<1>. QED
  BY <1>2, <1>3, <1>4, <1>5 DEF Inv

\* Acks sent with a packet
LEMMA PiggybackInv ==
  ASSUME Inv, NEW k \in 1..AcksPerPacket, Piggyback(k)
  PROVE  Inv'
<1>. DEFINE q == ackQueue
<1>1. q \in Seq(TxSeq) /\ q \in Seq(Acked)
  BY DEF Inv, TypeOK, AckInv
<1>2. k \in 1..Len(q) /\ Len(q) \in Nat
  BY <1>1, ReliabilityAssumption, LenProperties DEF Piggyback
<1>3. ASSUME NEW S, q \in Seq(S)
      PROVE  SubSeq(q, 1, k) \in Seq(S) /\ SubSeq(q, k + 1, Len(q)) \in Seq(S)
  <2>1. 1 \in 1..(Len(q) + 1) /\ k \in (1 - 1)..Len(q)
    BY <1>2
  <2>2. k + 1 \in 1..(Len(q) + 1) /\ Len(q) \in (k + 1 - 1)..Len(q)
    BY <1>2
  <2>. QED
    BY <1>3, <2>1, <2>2, SubSeqProperties
<1>4. /\ ackPackets' = ackPackets \cup {SubSeq(q, 1, k)} /\ ackQueue' = SubSeq(q, k + 1, Len(q))
      /\ UNCHANGED <<senderVars, idleTimer, recent, partials, arrived, timedOut, delivered>>
  BY DEF Piggyback
<1>5. idleTimer' \in BOOLEAN
  BY <1>4 DEF Inv, TypeOK
<1>6. \A a \in ackPackets' : a \in ackPackets \/ (a \in Seq(TxSeq) /\ a \in Seq(Acked))
  BY <1>1, <1>3, <1>4
<1>7. ackQueue' \in Seq(TxSeq) /\ ackQueue' \in Seq(Acked)
  BY <1>1, <1>3, <1>4
<1>8. UNCHANGED <<senderVars, recent, partials, arrived, timedOut, delivered>>
  BY <1>4
<1>. QED
  BY <1>5, <1>6, <1>7, <1>8, AcksLeave

\* and Acks sent by the idle timer.
LEMMA IdleInv ==
  ASSUME Inv, IdleAckTimer
  PROVE  Inv'
<1>. DEFINE q == ackQueue
            piece(j) == SubSeq(q, j + 1, AtMost(j + AcksPerPacket, Len(q)))
            J == {i \in 0..(Len(q) - 1) : i % AcksPerPacket = 0}
<1>1. q \in Seq(TxSeq) /\ q \in Seq(Acked)
  BY DEF Inv, TypeOK, AckInv
<1>2. Len(q) \in Nat
  BY <1>1, LenProperties
<1>3. ASSUME NEW S, q \in Seq(S), NEW j \in 0..(Len(q) - 1)
      PROVE  piece(j) \in Seq(S)
  <2>. DEFINE e == AtMost(j + AcksPerPacket, Len(q))
  <2>1. j + 1 \in 1..(Len(q) + 1) /\ e \in (j + 1 - 1)..Len(q)
    BY <1>2, ReliabilityAssumption DEF AtMost
  <2>. HIDE DEF e
  <2>2. SubSeq(q, j + 1, e) \in Seq(S)
    BY <1>3, <2>1, SubSeqProperties
  <2>. QED
    BY <2>2 DEF e
<1>4. /\ idleTimer' = FALSE
      /\ ackPackets' = ackPackets \cup {piece(j) : j \in J}
      /\ ackQueue' = <<>>
      /\ UNCHANGED <<senderVars, recent, partials, arrived, timedOut, delivered>>
  BY DEF IdleAckTimer
<1>5. \A j \in J : piece(j) \in Seq(TxSeq) /\ piece(j) \in Seq(Acked)
  BY <1>1, <1>3
<1>. HIDE DEF piece, J
<1>6. \A a \in ackPackets' : a \in ackPackets \/ (a \in Seq(TxSeq) /\ a \in Seq(Acked))
  BY <1>4, <1>5
<1>7. ackQueue' \in Seq(TxSeq) /\ ackQueue' \in Seq(Acked)
  BY <1>4, EmptySeq
<1>. QED
  BY <1>4, <1>6, <1>7, AcksLeave

\* Every step keeps the invariant.
LEMMA NextInv == Inv /\ [Next]_vars => Inv'
<1>. SUFFICES ASSUME Inv, [Next]_vars PROVE Inv'
  OBVIOUS
<1>1. CASE \E p \in Packet : SendNetPacket(p)
  BY <1>1, SendInv
<1>2. CASE \E p \in Packet : ReassemblyTimeout(p)
  BY <1>2, ReassemblyTimeoutInv
<1>3. CASE \E t \in TxSeq : RtoTimeout(t)
  BY <1>3, RtoInv
<1>4. CASE \E t \in TxSeq : ReceiveFragment(t)
  BY <1>4, ReceiveInv
<1>5. CASE \E a \in ackPackets : ReceiveAcks(a)
  BY <1>5, ReceiveAcksInv
<1>6. CASE IgnoreAck
  BY <1>6, IgnoreInv
<1>7. CASE ProcessAck
  BY <1>7, ProcessAckInv
<1>8. CASE HandleLost
  BY <1>8, LostInv
<1>9. CASE \E k \in 1..AcksPerPacket : Piggyback(k)
  BY <1>9, PiggybackInv
<1>10. CASE IdleAckTimer
  BY <1>10, IdleInv
<1>11. CASE UNCHANGED vars
  <2>1. /\ UNCHANGED <<senderVars, recent, partials, arrived, timedOut, delivered>>
        /\ UNCHANGED <<ackQueue, idleTimer, ackPackets>>
    BY <1>11 DEF vars, receiverVars
  <2>2. ackQueue' \in Seq(TxSeq) /\ ackQueue' \in Seq(Acked) /\ idleTimer' \in BOOLEAN
    BY <2>1 DEF Inv, TypeOK, AckInv
  <2>. QED
    BY <2>1, <2>2, AcksLeave
<1>. QED
  BY <1>1, <1>2, <1>3, <1>4, <1>5, <1>6, <1>7, <1>8, <1>9, <1>10, <1>11 DEF Next

----------------------------------------------------------------------------
(* Every step is a step of the channel, or none *)

StatusNow == [p \in Packet |-> Status(outcome[p])]
WholeNow == {p \in Packet : outcome[p] # "new" /\ Fragments(p) \subseteq arrived}
ChannelStep == Channel!Next \/ UNCHANGED Channel!vars

\* Steps the channel does not see.
LEMMA ChannelSame ==
  ASSUME UNCHANGED <<outcome, arrived, delivered>>
  PROVE  ChannelStep
  BY DEF ChannelStep, Channel!vars

\* The abstract channel begins with nothing sent.
LEMMA ChannelInit == Init => Channel!Init
<1>. SUFFICES ASSUME Init PROVE Channel!Init
  OBVIOUS
<1>1. \A p \in Packet : outcome[p] = "new" /\ Status(outcome[p]) = "new"
  BY DEF Init, Status
<1>. QED
  BY <1>1 DEF Init, Channel!Init

\* A packet sent is sent on the channel.
LEMMA ChannelSend ==
  ASSUME Inv, NEW p \in Packet, SendNetPacket(p)
  PROVE  ChannelStep
<1>1. /\ outcome[p] = "new" /\ outcome' = [outcome EXCEPT ![p] = "pending"]
      /\ CanFragment(Size[p], Header[p])
      /\ UNCHANGED <<arrived, delivered>>
  BY DEF SendNetPacket, receiverVars
<1>2. outcome \in [Packet -> {"new", "pending", "acknowledged", "retransmitted", "exhausted"}]
  BY DEF Inv, TypeOK
<1>3. StatusNow[p] = "new" /\ StatusNow' = [StatusNow EXCEPT ![p] = "pending"]
  BY <1>1, <1>2 DEF StatusNow, Status
<1>4. ~(Fragments(p) \subseteq arrived)
  <2>1. <<p, 0>> \in Fragments(p)
    BY <1>1, FragCountType DEF Fragments
  <2>2. PacketOK(p)
    BY DEF Inv
  <2>3. <<p, 0>> \notin arrived
    BY <2>2, <1>1 DEF PacketOK, Inv, SentInv
  <2>. QED
    BY <2>1, <2>3
<1>5. WholeNow' = WholeNow
  BY <1>1, <1>2, <1>4 DEF WholeNow
<1>6. Channel!Send(p)
  BY <1>1, <1>3, <1>5 DEF Channel!Send, StatusNow, WholeNow
<1>. QED
  BY <1>6 DEF ChannelStep, Channel!Next

\* A packet is given up.
LEMMA ChannelGiveUp ==
  ASSUME Inv, NEW t \in DOMAIN unacked, GiveUp(t), UNCHANGED receiverVars
  PROVE  ChannelStep
<1>. DEFINE p == sentAs[t][1]
<1>1. p \in Packet /\ outcome[p] = "pending" /\ unacked[t].frag[1] = p
  BY UnackedPending
<1>2. outcome' = [outcome EXCEPT ![p] = "exhausted"] /\ UNCHANGED <<arrived, delivered>>
  BY <1>1 DEF GiveUp, receiverVars
<1>. HIDE DEF p
<1>3. outcome \in [Packet -> {"new", "pending", "acknowledged", "retransmitted", "exhausted"}]
  BY DEF Inv, TypeOK
<1>4. StatusNow[p] = "pending" /\ StatusNow' = [StatusNow EXCEPT ![p] = "given up"]
  BY <1>1, <1>2, <1>3 DEF StatusNow, Status
<1>5. WholeNow' = WholeNow
  BY <1>1, <1>2, <1>3 DEF WholeNow
<1>6. Channel!GiveUp(p)
  BY <1>2, <1>4, <1>5 DEF Channel!GiveUp, StatusNow, WholeNow
<1>. QED
  BY <1>1, <1>6 DEF ChannelStep, Channel!Next

\* A retransmission, or giving up, is a step of the channel or none.
LEMMA ChannelRetransmit ==
  ASSUME Inv, NEW t, Retransmit(t), UNCHANGED receiverVars
  PROVE  ChannelStep
<1>1. UNCHANGED <<outcome, arrived, delivered>>
  BY DEF Retransmit, receiverVars
<1>. QED
  BY <1>1, ChannelSame

\* The last fragment of a packet is acknowledged: by then all have arrived.
LEMMA ChannelAck ==
  ASSUME Inv, Inv', ProcessAck
  PROVE  ChannelStep
<1>. DEFINE t == Head(acking)
<1>0. t \in DOMAIN unacked
  BY DEF ProcessAck
<1>1. PICK p \in Packet : outcome[p] = "pending" /\ unacked[t].frag[1] = p
  BY <1>0, UnackedPending
<1>2. /\ outcome' = IF Settled(t, p)
                    THEN [outcome EXCEPT ![p] = IF p \in didRetx THEN "retransmitted" ELSE "acknowledged"]
                    ELSE outcome
      /\ UNCHANGED <<arrived, delivered>>
  BY <1>1 DEF ProcessAck, receiverVars
<1>. HIDE DEF t
<1>3. outcome \in [Packet -> {"new", "pending", "acknowledged", "retransmitted", "exhausted"}]
  BY DEF Inv, TypeOK
<1>4. CASE ~Settled(t, p)
  BY <1>2, <1>4, ChannelSame
<1>5. CASE Settled(t, p)
  <2>1. PICK o \in {"acknowledged", "retransmitted"} : outcome' = [outcome EXCEPT ![p] = o]
    BY <1>2, <1>5
  <2>2. StatusNow[p] = "pending" /\ StatusNow' = [StatusNow EXCEPT ![p] = "received"]
    BY <1>1, <1>3, <2>1 DEF StatusNow, Status
  <2>3. Fragments(p) \subseteq arrived
    <3>1. PacketOK(p)' /\ outcome'[p] = o
      BY <1>1, <1>3, <2>1 DEF Inv
    <3>. QED
      BY <3>1, <1>2 DEF PacketOK
  <2>4. WholeNow' = WholeNow /\ p \in WholeNow
    BY <1>1, <1>2, <1>3, <2>1, <2>3 DEF WholeNow
  <2>5. Channel!Receipt(p)
    BY <1>2, <2>2, <2>4 DEF Channel!Receipt, StatusNow, WholeNow
  <2>. QED
    BY <1>1, <2>5 DEF ChannelStep, Channel!Next
<1>. QED
  BY <1>4, <1>5

\* A fragment that arrives is a step of the channel when it completes its packet.
LEMMA ChannelArrive ==
  ASSUME Inv, NEW t \in TxSeq, ReceiveFragment(t)
  PROVE  ChannelStep
<1>. DEFINE f == sentAs[t]
<1>1. t \in DOMAIN sentAs /\ f \in Fragment
  BY DEF ReceiveFragment, Inv, SentInv, TypeOK, IsPartialFn
<1>2. PICK p \in Packet : p = f[1] /\ f \in Fragments(p) /\ \A q : f \in Fragments(q) => q = p
  BY <1>1, FragmentOf
<1>3. arrived' = arrived \cup {f} /\ UNCHANGED outcome
  BY DEF ReceiveFragment
<1>4. /\ outcome[p] # "new" /\ Status(outcome[p]) # "new"
      /\ outcome[p] \in {"new", "pending", "acknowledged", "retransmitted", "exhausted"}
  <2>1. PacketOK(p)
    BY <1>2 DEF Inv
  <2>2. outcome[p] # "new"
    BY <2>1, <1>1, <1>2 DEF PacketOK
  <2>3. outcome[p] \in {"new", "pending", "acknowledged", "retransmitted", "exhausted"}
    BY <1>2 DEF Inv, TypeOK
  <2>. QED
    BY <2>2, <2>3 DEF Status
<1>5. \/ UNCHANGED delivered
      \/ Fragments(p) \subseteq partials \cup {f} /\ delivered' = [delivered EXCEPT ![p] = @ + 1]
  BY <1>2 DEF ReceiveFragment, Reassemble
<1>6. partials \subseteq arrived
  BY DEF Inv, ReceivedInv
<1>. HIDE DEF f
<1>7. WholeNow' \in {WholeNow, WholeNow \cup {p}}
  BY <1>2, <1>3 DEF WholeNow
<1>8. \/ UNCHANGED delivered
      \/ p \in WholeNow' /\ delivered' = [delivered EXCEPT ![p] = @ + 1]
  BY <1>2, <1>3, <1>4, <1>5, <1>6 DEF WholeNow
<1>9. StatusNow[p] # "new" /\ UNCHANGED StatusNow
  BY <1>2, <1>3, <1>4 DEF StatusNow
<1>10. Channel!Arrive(p)
  BY <1>7, <1>8, <1>9 DEF Channel!Arrive, StatusNow, WholeNow
<1>. QED
  BY <1>2, <1>10 DEF ChannelStep, Channel!Next

\* Every step of the link is one of the channel or changes nothing there.
LEMMA NextChannel ==
  ASSUME Inv, Inv', [Next]_vars
  PROVE  ChannelStep
<1>1. CASE \E p \in Packet : SendNetPacket(p)
  BY <1>1, ChannelSend
<1>2. CASE \E t \in TxSeq : ReceiveFragment(t)
  BY <1>2, ChannelArrive
<1>3. CASE \E t \in TxSeq : RtoTimeout(t)
  <2>1. PICK t \in TxSeq : t \in DOMAIN unacked /\ (GiveUp(t) \/ Retransmit(t)) /\ UNCHANGED receiverVars
    BY <1>3 DEF RtoTimeout
  <2>. QED
    BY <2>1, ChannelGiveUp, ChannelRetransmit
<1>4. CASE HandleLost
  <2>. DEFINE t == FirstOf(lost, first)
  <2>1. t \in DOMAIN unacked /\ (GiveUp(t) \/ Retransmit(t)) /\ UNCHANGED receiverVars
    BY <1>4, OldestLost DEF HandleLost
  <2>. HIDE DEF t
  <2>. QED
    BY <2>1, ChannelGiveUp, ChannelRetransmit
<1>5. CASE ProcessAck
  BY <1>5, ChannelAck
<1>6. CASE \/ \E p \in Packet : ReassemblyTimeout(p)
           \/ \E a \in ackPackets : ReceiveAcks(a)
           \/ IgnoreAck
           \/ \E k \in 1..AcksPerPacket : Piggyback(k)
           \/ IdleAckTimer
           \/ UNCHANGED vars
  <2>1. UNCHANGED <<outcome, arrived, delivered>>
    BY <1>6 DEF ReassemblyTimeout, ReceiveAcks, IgnoreAck, Piggyback, IdleAckTimer,
                senderVars, receiverVars, vars
  <2>. QED
    BY <2>1, ChannelSame
<1>. QED
  BY <1>1, <1>2, <1>3, <1>4, <1>5, <1>6 DEF Next

----------------------------------------------------------------------------
(* The theorems *)

\* The invariant holds in every reachable state.
LEMMA SpecInv == Spec => []Inv
  BY InitInv, NextInv, PTL DEF Spec

\* Types (LpReliability, LpFragmenter, LpReassembler).
THEOREM TypeCorrect == Spec => []TypeOK
<1>1. Inv => TypeOK
  BY DEF Inv
<1>. QED
  BY <1>1, SpecInv, PTL

\* m_firstUnackedFrag is the oldest transmission, and everything in m_unackedFrags lies
\* between it and m_lastTxSeqNo, wherever the TxSequences wrap (LpReliability).
THEOREM WindowOrdered == Spec => []WindowIsOrdered
<1>1. Inv => WindowIsOrdered
  BY DEF Inv, Window, WindowIsOrdered
<1>. QED
  BY <1>1, SpecInv, PTL

\* What onLpPacketAcknowledged counts as received has been passed on by the other side's
\* reassembler, unless timeoutPartialPacket dropped a part of it.
THEOREM AckedDelivered == Spec => []AckedIsDelivered
<1>1. Inv => AckedIsDelivered
  <2>. SUFFICES ASSUME Inv, NEW p \in Packet, outcome[p] \in {"acknowledged", "retransmitted"},
                       p \notin timedOut
                PROVE  delivered[p] > 0
    BY DEF AckedIsDelivered
  <2>0. delivered[p] \in Nat
    BY DEF Inv, TypeOK
  <2>1. PacketOK(p) /\ ReceiverOK(p)
    BY DEF Inv
  <2>2. Fragments(p) \subseteq arrived
    BY <2>1 DEF PacketOK
  <2>3. ~(arrived \cap Fragments(p) \subseteq partials)
    BY <2>1, <2>2 DEF ReceiverOK
  <2>. QED
    BY <2>0, <2>1, <2>3 DEF ReceiverOK
<1>. QED
  BY <1>1, SpecInv, PTL

\* While m_recentRecvSeqs forgets nothing, the duplicate detection of
\* processIncomingPacket keeps the reassembler from passing a packet on twice.
THEOREM DeliveredAtMostOnce == Spec => []DeliveredOnce
<1>1. Inv => DeliveredOnce
  BY DEF Inv, ReceiverOK, DeliveredOnce
<1>. QED
  BY <1>1, SpecInv, PTL

\* The link service implements the channel: a packet is settled once, as received only
\* after all of it has arrived, and only what arrived whole is passed on.
THEOREM ChannelImplemented == Spec => ImplementsChannel
<1>1. Inv /\ Inv' /\ [Next]_vars => [Channel!Next]_(Channel!vars)
  BY NextChannel DEF ChannelStep
<1>. QED
  BY <1>1, ChannelInit, SpecInv, PTL DEF Spec, ImplementsChannel, Channel!Spec


----------------------------------------------------------------------------
(* FragmentsCover *)

\* The quotient that fragmentPacket rounds up.
RoundUp(x, b) == x \div b + (IF x % b # 0 THEN 1 ELSE 0)

\* RoundUp(x, b) pieces of size b hold x octets, and one piece less does not.
LEMMA RoundedUp ==
  ASSUME NEW x \in Nat, x > 0, NEW b \in Nat, b > 0, NEW m, m = RoundUp(x, b)
  PROVE  m \in Nat /\ m > 0 /\ (m - 1) * b < x /\ x <= m * b
<1>1. PICK q, r : q = x \div b /\ r = x % b
  OBVIOUS
<1>2. q \in Int /\ r \in Int /\ 0 <= r /\ r < b
  BY <1>1
<1>3. q >= 0
  BY <1>1, <1>2
<1>4. PICK y \in Int : y = q * b
  BY <1>2
<1>5. x = y + r
  BY <1>1, <1>2, <1>4
<1>6. (q + 1) * b = y + b /\ (q - 1) * b = y - b
  BY <1>2, <1>4
<1>7. CASE r # 0
  <2>1. m = q + 1 /\ m - 1 = q
    BY <1>1, <1>2, <1>7 DEF RoundUp
  <2>2. m * b = y + b /\ (m - 1) * b = y
    BY <1>4, <1>6, <2>1
  <2>. QED
    BY <1>2, <1>3, <1>5, <1>7, <2>1, <2>2
<1>8. CASE r = 0
  <2>1. m = q
    BY <1>1, <1>2, <1>8 DEF RoundUp
  <2>2. q # 0
    BY <1>4, <1>5, <1>8
  <2>3. m * b = y /\ (m - 1) * b = y - b
    BY <1>4, <1>6, <2>1
  <2>. QED
    BY <1>2, <1>3, <1>5, <1>8, <2>1, <2>2, <2>3
<1>. QED
  BY <1>7, <1>8

\* More pieces hold no less.
LEMMA TimesMonotone ==
  ASSUME NEW i \in Int, NEW j \in Int, NEW b \in Nat, i <= j
  PROVE  i * b <= j * b
  OBVIOUS

\* The pieces of a packet that does not fit whole: a octets with the first header, b
\* octets in every other one.
Cut(size, a, b, i) == IF i = 0 THEN 0 ELSE AtMost(size, a + (i - 1) * b)

\* The pieces begin at the start, end at the end, are not empty and are no larger than
\* b.
LEMMA CutCovers ==
  ASSUME NEW size \in Nat, NEW a \in Nat, NEW b \in Nat, 0 < a, a <= b, a < size,
         NEW m, m = RoundUp(size - a, b)
  PROVE  /\ m \in Nat /\ m > 0
         /\ Cut(size, a, b, m + 1) = size
         /\ Cut(size, a, b, 0) = 0 /\ Cut(size, a, b, 1) = a
         /\ \A i \in 1..m : /\ Cut(size, a, b, i) < Cut(size, a, b, i + 1)
                            /\ Cut(size, a, b, i + 1) - Cut(size, a, b, i) <= b
<1>1. PICK x : x = size - a
  OBVIOUS
<1>2. x \in Nat /\ x > 0 /\ b > 0 /\ m = RoundUp(x, b)
  BY <1>1
<1>3. m \in Nat /\ m > 0 /\ (m - 1) * b < x /\ x <= m * b
  BY <1>2, RoundedUp
<1>4. Cut(size, a, b, m + 1) = size
  <2>1. PICK y \in Int : y = m * b
    BY <1>3
  <2>2. (m + 1) - 1 = m /\ m + 1 # 0
    BY <1>3
  <2>3. Cut(size, a, b, m + 1) = AtMost(size, a + y)
    BY <2>1, <2>2 DEF Cut
  <2>. QED
    BY <1>1, <1>3, <2>1, <2>3 DEF AtMost
<1>5. Cut(size, a, b, 0) = 0 /\ Cut(size, a, b, 1) = a
  <2>1. (1 - 1) * b = 0
    OBVIOUS
  <2>. QED
    BY <2>1 DEF Cut, AtMost
<1>6. ASSUME NEW i \in 1..m
      PROVE  /\ Cut(size, a, b, i) < Cut(size, a, b, i + 1)
             /\ Cut(size, a, b, i + 1) - Cut(size, a, b, i) <= b
  <2>1. PICK y \in Int : y = (i - 1) * b
    BY <1>3
  <2>2. i * b = y + b
    BY <1>3, <2>1
  <2>3. PICK z \in Int : z = (m - 1) * b
    BY <1>3
  <2>4. i - 1 \in Int /\ m - 1 \in Int /\ i - 1 <= m - 1
    BY <1>3
  <2>5. y <= z
    BY <2>1, <2>3, <2>4, TimesMonotone
  <2>6. y < x
    BY <1>2, <1>3, <2>3, <2>5
  <2>7. (i + 1) - 1 = i /\ i # 0 /\ i + 1 # 0
    BY <1>3
  <2>8. Cut(size, a, b, i) = AtMost(size, a + y) /\ Cut(size, a, b, i + 1) = AtMost(size, a + (y + b))
    BY <2>1, <2>2, <2>7 DEF Cut
  <2>. QED
    BY <1>1, <2>6, <2>8 DEF AtMost
<1>. QED
  BY <1>3, <1>4, <1>5, <1>6

\* Only a packet that can be fragmented gets an outcome.
SentFits == \A p \in Packet : outcome[p] # "new" => CanFragment(Size[p], Header[p])

\* SendNetPacket refuses the others.
LEMMA SentFitsAlways == Spec => []SentFits
<1>1. Init => SentFits
  BY DEF Init, SentFits
<1>2. Inv /\ SentFits /\ [Next]_vars => SentFits'
  <2>. SUFFICES ASSUME Inv, SentFits, [Next]_vars PROVE SentFits'
    OBVIOUS
  <2>0. outcome \in [Packet -> {"new", "pending", "acknowledged", "retransmitted", "exhausted"}]
    BY DEF Inv, TypeOK
  <2>1. ASSUME NEW p \in Packet, SendNetPacket(p) PROVE SentFits'
    BY <2>0, <2>1 DEF SendNetPacket, SentFits
  <2>2. ASSUME NEW t \in DOMAIN unacked, NEW o, NEW q, q = unacked[t].frag[1],
               outcome' = [outcome EXCEPT ![q] = o]
        PROVE  SentFits'
    <3>1. q \in Packet /\ outcome[q] = "pending"
      BY <2>2, UnackedPending
    <3>. QED
      BY <2>0, <2>2, <3>1 DEF SentFits
  <2>3. ASSUME NEW t \in DOMAIN unacked, GiveUp(t) PROVE SentFits'
    BY <2>2, <2>3 DEF GiveUp
  <2>4. ASSUME UNCHANGED outcome PROVE SentFits'
    BY <2>4 DEF SentFits
  <2>5. ASSUME NEW t, Retransmit(t) PROVE SentFits'
    BY <2>4, <2>5 DEF Retransmit
  <2>6. ASSUME NEW t \in TxSeq, RtoTimeout(t) PROVE SentFits'
    BY <2>3, <2>5, <2>6 DEF RtoTimeout
  <2>7. ASSUME HandleLost PROVE SentFits'
    <3>1. PICK t : t = FirstOf(lost, first)
      OBVIOUS
    <3>2. t \in DOMAIN unacked
      BY <2>7, <3>1, OldestLost DEF HandleLost
    <3>. QED
      BY <2>3, <2>5, <2>7, <3>1, <3>2 DEF HandleLost
  <2>8. ASSUME ProcessAck PROVE SentFits'
    <3>1. PICK t : t = Head(acking)
      OBVIOUS
    <3>2. t \in DOMAIN unacked
      BY <2>8, <3>1 DEF ProcessAck
    <3>3. \/ UNCHANGED outcome
          \/ \E o : outcome' = [outcome EXCEPT ![unacked[t].frag[1]] = o]
      BY <2>8, <3>1 DEF ProcessAck
    <3>. QED
      BY <2>2, <2>4, <3>2, <3>3
  <2>9. ASSUME \/ \E p \in Packet : ReassemblyTimeout(p)
               \/ \E t \in TxSeq : ReceiveFragment(t)
               \/ \E a \in ackPackets : ReceiveAcks(a)
               \/ IgnoreAck
               \/ \E k \in 1..AcksPerPacket : Piggyback(k)
               \/ IdleAckTimer
               \/ UNCHANGED vars
        PROVE  SentFits'
    BY <2>4, <2>9 DEF ReassemblyTimeout, ReceiveFragment, ReceiveAcks, IgnoreAck, Piggyback,
                      IdleAckTimer, senderVars, receiverVars, vars
  <2>. QED
    BY <2>1, <2>6, <2>7, <2>8, <2>9 DEF Next
<1>. QED
  BY <1>1, <1>2, SpecInv, PTL DEF Spec

\* fragmentPacket cuts every packet it accepts without a gap and to the last octet; no
\* piece is empty and none exceeds the MTU, whatever the sizes: the division that gives
\* FragCount agrees with the loop that cuts (LpFragmenter).
THEOREM FragmentsFit == Spec => []FragmentsCover
<1>1. SentFits => FragmentsCover
  <2>. SUFFICES ASSUME SentFits, NEW p \in Packet, outcome[p] # "new"
                PROVE  LET n == FragCount(Size[p], Header[p])
                           begin(i) == FragBegin(Size[p], Header[p], i)
                           end(i) == IF n = 1 THEN Size[p] ELSE begin(i + 1)
                       IN /\ end(n - 1) = Size[p]
                          /\ \A i \in 0..(n - 1) :
                               /\ begin(i) < end(i)
                               /\ end(i) - begin(i) + (IF i = 0 THEN Header[p] ELSE 0)
                                    + (IF n = 1 THEN SingleOverhead ELSE FragOverhead) <= Mtu
    BY DEF FragmentsCover
  <2>1. PICK s, h : s = Size[p] /\ h = Header[p]
    OBVIOUS
  <2>2. s \in Nat /\ s > 0 /\ h \in Nat /\ CanFragment(s, h)
    BY <2>1, PacketSizesAssumption DEF SentFits
  <2>3. /\ Mtu \in Nat /\ SingleOverhead \in Nat /\ FragOverhead \in Nat
        /\ SingleOverhead <= FragOverhead
    BY PacketSizesAssumption
  <2>4. PICK n : n = FragCount(s, h)
    OBVIOUS
  <2>5. CASE SingleOverhead + h + s <= Mtu
    <3>1. n = 1
      BY <2>4, <2>5 DEF FragCount
    <3>2. FragBegin(s, h, 0) = 0
      BY DEF FragBegin
    <3>3. /\ FragBegin(s, h, 0) < s
          /\ s - FragBegin(s, h, 0) + h + SingleOverhead <= Mtu
      BY <2>2, <2>3, <2>5, <3>2
    <3>. QED
      BY <2>1, <2>4, <3>1, <3>3
  <2>6. CASE ~(SingleOverhead + h + s <= Mtu)
    <3>1. FragOverhead + h + 1 <= Mtu
      BY <2>2, <2>6 DEF CanFragment
    <3>2. PICK a, b : a = Mtu - h - FragOverhead /\ b = Mtu - FragOverhead
      OBVIOUS
    <3>3. a \in Nat /\ b \in Nat /\ 0 < a /\ a <= b /\ a < s /\ a + h = b /\ b + FragOverhead = Mtu
      BY <2>2, <2>3, <2>6, <3>1, <3>2
    <3>4. PICK m : m = RoundUp(s - a, b)
      OBVIOUS
    <3>5. /\ m \in Nat /\ m > 0
          /\ Cut(s, a, b, m + 1) = s
          /\ Cut(s, a, b, 0) = 0 /\ Cut(s, a, b, 1) = a
          /\ \A i \in 1..m : /\ Cut(s, a, b, i) < Cut(s, a, b, i + 1)
                             /\ Cut(s, a, b, i + 1) - Cut(s, a, b, i) <= b
      BY <2>2, <3>3, <3>4, CutCovers
    <3>6. n = 1 + m
      <4>1. AtMost(s, a) = a
        BY <2>2, <3>3 DEF AtMost
      <4>2. (s - a) \div b \in Int /\ (s - a) % b \in Int
        BY <2>2, <3>3
      <4>3. n = 1 + (s - a) \div b + (IF (s - a) % b # 0 THEN 1 ELSE 0)
        BY <2>4, <2>6, <3>2, <4>1 DEF FragCount
      <4>. QED
        BY <3>4, <4>2, <4>3 DEF RoundUp
    <3>7. \A i : FragBegin(s, h, i) = Cut(s, a, b, i)
      BY <3>2 DEF FragBegin, Cut
    <3>8. n # 1 /\ n - 1 = m /\ n = m + 1 /\ (n - 1) + 1 = m + 1
      BY <3>5, <3>6
    <3>9. \A i \in 0..m : Cut(s, a, b, i) \in Int
      <4>1. ASSUME NEW i \in 0..m PROVE Cut(s, a, b, i) \in Int
        <5>1. (i - 1) * b \in Int
          BY <3>3, <3>5
        <5>. QED
          BY <2>2, <3>3, <5>1 DEF Cut, AtMost
      <4>. QED
        BY <4>1
    <3>10. ASSUME NEW i \in 0..m
           PROVE  /\ FragBegin(s, h, i) < FragBegin(s, h, i + 1)
                  /\ FragBegin(s, h, i + 1) - FragBegin(s, h, i) + (IF i = 0 THEN h ELSE 0)
                       + FragOverhead <= Mtu
      <4>1. CASE i = 0
        <5>1. FragBegin(s, h, i) = 0 /\ FragBegin(s, h, i + 1) = a
          BY <3>5, <3>7, <4>1
        <5>. QED
          BY <2>2, <2>3, <3>3, <4>1, <5>1
      <4>2. CASE i # 0
        <5>1. i \in 1..m
          BY <3>5, <4>2
        <5>2. PICK c, e : c = Cut(s, a, b, i) /\ e = Cut(s, a, b, i + 1)
          OBVIOUS
        <5>3. c < e /\ e - c <= b
          BY <3>5, <5>1, <5>2
        <5>4. e \in Int /\ c \in Int
          <6>1. i + 1 \in 0..m \/ i + 1 = m + 1
            BY <3>5, <5>1
          <6>. QED
            BY <2>2, <3>5, <3>9, <5>2, <6>1
        <5>5. FragBegin(s, h, i) = c /\ FragBegin(s, h, i + 1) = e
          BY <3>7, <5>2
        <5>. QED
          BY <2>2, <2>3, <3>3, <4>2, <5>3, <5>4, <5>5
      <4>. QED
        BY <4>1, <4>2
    <3>11. FragBegin(s, h, m + 1) = s
      BY <3>5, <3>7
    <3>. QED
      BY <2>1, <2>4, <3>8, <3>10, <3>11
  <2>. QED
    BY <2>5, <2>6
<1>. QED
  BY <1>1, SentFitsAlways, PTL
=============================================================================
