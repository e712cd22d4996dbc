-------------------------- MODULE MCKiteForwarder --------------------------
(* Small instances of KiteForwarder. *)
EXTENDS KiteForwarder, TLC

CONSTANTS c, c2, m1, m2, r, kd, kf, kt, nd, nt, mp, rv, root, dd, ack

\* kd is a name under the producer's prefix, kf the same name asked for with
\* MustBeFresh, kt a trace Interest under the rendezvous prefix.
MCNameOf == [k \in Key |-> IF k = kt THEN nt ELSE nd]
MCPrefixOf == [k \in Key |-> IF k = kt THEN rv ELSE mp]
MCSatisfies == [d \in Pkt |-> IF d = dd THEN Key \ {kt} ELSE {kt}]
\* Acks come from the rendezvous server, Data from it or from the producer.
MCOrigin == [d \in Pkt |-> IF d = dd THEN {m1, m2, r} ELSE {r}]
MCAnnounces == [d \in Pkt |-> IF d = dd THEN NoPrefix ELSE mp]

\* The rendezvous server is behind r; the producer is found by announcements,
\* or statically behind m1 (and m2) in the runs without mobility.
FibRvOnly == [p \in {mp, rv, root} |-> IF p = rv THEN {r} ELSE {}]
FibOneMp == [p \in {mp, rv, root} |-> IF p = rv THEN {r} ELSE IF p = mp THEN {m1} ELSE {}]
FibTwoMps == [p \in {mp, rv, root} |-> IF p = rv THEN {r} ELSE IF p = mp THEN {m1, m2} ELSE {}]
FibDefaultAndRv == [p \in {mp, rv, root} |-> IF p = mp THEN {} ELSE {r}]
FibDefault == [p \in {mp, rv, root} |-> IF p = root THEN {r} ELSE {}]

ConsumerAndMps == [k \in Key |-> IF k = kt THEN {m1, m2} ELSE {c}]
ConsumerAndM1 == [k \in Key |-> IF k = kt THEN {m1} ELSE {c}]
ConsumerAndM2 == [k \in Key |-> IF k = kt THEN {m2} ELSE {c}]
ConsumersAndM1 == [k \in Key |-> {c, c2, m1} \cap Face]

\* Nonces are only compared.
NonceSymmetry == Permutations(Nonce)

\* Interests per key: trace Interests are the rarer ones.
TwoAndOneTrace == [k \in Key |-> IF k = kt THEN 1 ELSE 2]
OneAndTwoTraces == [k \in Key |-> IF k = kt THEN 2 ELSE 1]
TwoEach == [k \in Key |-> 2]
Three == [k \in Key |-> 3]
=============================================================================
