--------------------------- MODULE MCLaneMonitor ----------------------------
(* Constants of the model-checking runs of LaneMonitor.                    *)
EXTENDS LaneMonitor, TLC

CONSTANTS n1, n2, n3, ip1, ip2, tgt

\* n1 and n2 are subscription nodes with egress IPs of their own; n3 is a
\* local node whose egress IP is not known.
MCIpOf   == (n1 :> ip1) @@ (n2 :> ip2) @@ (n3 :> NoIp)
MCTierOf == (n1 :> 0) @@ (n2 :> 0) @@ (n3 :> 1)

\* What the nodes go through: the target refuses all of them alike, or it
\* refuses one and another one cannot reach it; or they just lose their links.
Refusals  == [n \in Nodes |-> {"ok", "http403"}]
LinkFails == [n \in Nodes |-> {"ok", "link"}]
Mixed     == [n \in Nodes |-> IF n = n2 THEN {"ok", "link", "http403"} ELSE {"ok", "http403"}]

=============================================================================
