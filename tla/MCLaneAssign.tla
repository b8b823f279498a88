---------------------------- MODULE MCLaneAssign ----------------------------
(* Constants of the model-checking runs of LaneAssign.                     *)
EXTENDS LaneAssign, TLC

CONSTANTS n1, n2, ip1, t1, t2

\* Two nodes of one source, behind one egress IP.
MCIpOf   == [n \in Nodes |-> ip1]
MCTierOf == [n \in Nodes |-> 0]

=============================================================================
