------------------------------ MODULE MCLpLink ------------------------------
(* Small instances of LpLink: packets of one, two and three fragments. *)
EXTENDS LpLink

CONSTANTS p1, p2, p3

\* With an MTU of 10: p1 has headers and fills exactly two fragments, p2 just fits
\* into one, p3 needs three.
MCSize == [p \in Packet |-> IF p = p1 THEN 11 ELSE IF p = p2 THEN 7 ELSE 17]
MCHeader == [p \in Packet |-> IF p = p1 THEN 1 ELSE 0]
=============================================================================
