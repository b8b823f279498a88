--------------------------- MODULE MCGatewayLanes ---------------------------
(* Constants of the model-checking runs of GatewayLanes.                   *)
EXTENDS GatewayLanes, TLC

CONSTANTS n1, n2, n3, tgt

MCIpOf   == [n \in Nodes |-> NoIp]
MCTierOf == [n \in Nodes |-> 0]

LinkFails == [n \in Nodes |-> {"ok", "link"}]

\* Nodes are as good as each other here.
Symmetries == Permutations(Nodes)

=============================================================================
