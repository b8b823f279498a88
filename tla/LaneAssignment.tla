--------------------------- MODULE LaneAssignment ---------------------------
(***************************************************************************)
(* What the failover of one target promises its crawlers, whatever probes, *)
(* candidates and inventories there are: the lanes that hold a node keep   *)
(* holding one, no node is on two lanes, and lanes change one at a time,   *)
(* each to a node no lane holds.                                           *)
(***************************************************************************)
CONSTANTS Lanes, Nodes, None

VARIABLE holder   \* lane -> the node it holds, or None

Held == {holder[l] : l \in Lanes} \ {None}

Init ==
  /\ holder \in [Lanes -> Nodes \cup {None}]
  /\ \A l, k \in Lanes : l # k /\ holder[l] # None => holder[l] # holder[k]

Move(l, n) ==
  /\ holder[l] # None
  /\ n \in Nodes \ Held
  /\ holder' = [holder EXCEPT ![l] = n]

Next == \E l \in Lanes, n \in Nodes : Move(l, n)

Spec == Init /\ [][Next]_holder

=============================================================================
