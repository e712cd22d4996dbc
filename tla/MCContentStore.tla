--------------------------- MODULE MCContentStore ---------------------------
(* Small instances of ContentStore: three Data, the first of which is never  *)
(* fresh for longer than the moment of its arrival.                          *)
EXTENDS ContentStore

CONSTANTS d1, d2, d3, all

MCRank == [d \in Data |-> CASE d = d1 -> 1 [] d = d2 -> 2 [] d = d3 -> 3]
MCUnder == [p \in Prefix |-> Data]
MCFreshnessPeriod == [d \in Data |-> IF d = d1 THEN 0 ELSE 1]
=============================================================================
