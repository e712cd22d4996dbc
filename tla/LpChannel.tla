----------------------------- MODULE LpChannel -----------------------------
(***************************************************************************)
(* What a link with NDNLP reliability promises for one direction, without  *)
(* fragments, sequence numbers, acknowledgements or timers: a packet that  *)
(* was sent is settled once, as received or as given up; it is settled as  *)
(* received only after all of it has reached the other side; and nothing   *)
(* comes out that was not sent and did not arrive whole.  A packet may     *)
(* come out and nevertheless be given up, or come out twice: that is all   *)
(* the link service promises to the forwarder.                             *)
(***************************************************************************)
EXTENDS Naturals

CONSTANT Packet

VARIABLES
  status,     \* what the sender knows of a packet
  whole,      \* packets all of which has reached the other side
  delivered   \* how often a packet came out

vars == <<status, whole, delivered>>

Init ==
  /\ status = [p \in Packet |-> "new"]
  /\ whole = {}
  /\ delivered = [p \in Packet |-> 0]

Send(p) ==
  /\ status[p] = "new"
  /\ status' = [status EXCEPT ![p] = "pending"]
  /\ UNCHANGED <<whole, delivered>>

\* The last missing part arrives, or a part that completes the packet once more.
Arrive(p) ==
  /\ status[p] # "new"
  /\ whole' \in {whole, whole \cup {p}}
  /\ \/ UNCHANGED delivered
     \/ p \in whole' /\ delivered' = [delivered EXCEPT ![p] = @ + 1]
  /\ UNCHANGED status

Receipt(p) ==
  /\ status[p] = "pending" /\ p \in whole
  /\ status' = [status EXCEPT ![p] = "received"]
  /\ UNCHANGED <<whole, delivered>>

GiveUp(p) ==
  /\ status[p] = "pending"
  /\ status' = [status EXCEPT ![p] = "given up"]
  /\ UNCHANGED <<whole, delivered>>

Next == \E p \in Packet : Send(p) \/ Arrive(p) \/ Receipt(p) \/ GiveUp(p)


Spec == Init /\ [][Next]_vars
=============================================================================
