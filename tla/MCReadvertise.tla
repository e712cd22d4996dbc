--------------------------- MODULE MCReadvertise ---------------------------
(* A small instance of Readvertise: two routes of one prefix, one of another
   that is also the gateway's, and one that is only the gateway's. *)
EXTENDS Readvertise

CONSTANTS r1, r2, d, g, p1, p2, nLocal, nRoot, nGateway

MCEntryOf == [r \in Route |-> IF r = g THEN nGateway ELSE IF r = d THEN nRoot ELSE nLocal]
MCPolicy == [r \in Route |-> IF r = g THEN NoPrefix ELSE IF r = d THEN p2 ELSE p1]
=============================================================================
