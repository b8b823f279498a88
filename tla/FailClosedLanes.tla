-------------------------- MODULE FailClosedLanes ---------------------------
(***************************************************************************)
(* What recovery promises the lanes of a gateway, however many processes   *)
(* start, stop and restore it: a Mihomo comes up with every lane closed,   *)
(* and a lane is only ever opened to the node it leases.  A lease that is  *)
(* given up while somebody still holds it is torn: the lane may stay open  *)
(* to its node, or be opened to it once more, until a later Mihomo comes.  *)
(***************************************************************************)
CONSTANTS Lanes, Nodes, None, Reject

VARIABLES
  present,   \* is there a Mihomo process, answering or not
  lease,     \* lane -> the node it leases, or None
  route,     \* lane -> where its selector points, while there is a Mihomo
  torn       \* lane -> the node of a lease that was given up while held, or None

gateway == <<present, lease, route, torn>>

AllClosed == [l \in Lanes |-> Reject]

Init ==
  /\ present = FALSE
  /\ lease \in [Lanes -> Nodes \cup {None}]
  /\ route \in [Lanes -> Nodes \cup {Reject}]
  /\ torn = [l \in Lanes |-> None]

\* Whoever still holds a torn lease may keep it over the new Mihomo.
Comes ==
  /\ ~present /\ present' = TRUE
  /\ route' = AllClosed
  /\ \E held \in SUBSET Lanes : torn' = [l \in Lanes |-> IF l \in held THEN torn[l] ELSE None]
  /\ UNCHANGED lease

Goes == present /\ present' = FALSE /\ UNCHANGED <<lease, route, torn>>

Closes == present /\ route' = AllClosed /\ UNCHANGED <<present, lease, torn>>

Opens(l) ==
  /\ present
  /\ \E n \in {lease[l], torn[l]} \ {None} : route' = [route EXCEPT ![l] = n]
  /\ UNCHANGED <<present, lease, torn>>

\* The lease is torn if anybody holds it, and always if the lane is open.
Clears(l) ==
  /\ lease[l] # None
  /\ lease' = [lease EXCEPT ![l] = None]
  /\ \/ UNCHANGED torn /\ (present => route[l] = Reject)
     \/ torn' = [torn EXCEPT ![l] = lease[l]]
  /\ UNCHANGED <<present, route>>

Next == Comes \/ Goes \/ Closes \/ \E l \in Lanes : Opens(l) \/ Clears(l)

Spec == Init /\ [][Next]_gateway

\* No lane ever carries traffic to a node but the one it leases, or leased when
\* somebody who held the lease lost it.
OwnRoutes ==
  present => \A l \in Lanes : route[l] \in {Reject} \cup ({lease[l], torn[l]} \ {None})

=============================================================================
