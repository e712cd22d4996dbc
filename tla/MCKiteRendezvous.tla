-------------------------- MODULE MCKiteRendezvous --------------------------
(* A small instance of KiteRendezvous: two producers, one of them with the   *)
(* keyword inside its name, no expiration and a clock that runs ahead.       *)
EXTENDS KiteRendezvous

CONSTANTS p1, p2

MCComponent == {"rv", "KITE", "digest", "a", "b"}
MCRvPrefix == <<"rv">>
MCProducerSuffix == [p \in Producers |-> IF p = p1 THEN <<"a">> ELSE <<"b", "KITE", "a">>]
MCLifetime == [p \in Producers |-> IF p = p1 THEN 5 ELSE NoExpiration]
MCSkew == [p \in Producers |-> IF p = p1 THEN 0 ELSE 1]
=============================================================================
