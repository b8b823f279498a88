------------------------- MODULE MCGatewayRecovery --------------------------
(* Constants of the model-checking runs of GatewayRecovery.                *)
EXTENDS GatewayRecovery, TLC

CONSTANTS n1, n2, tgt

MCIpOf   == [n \in Nodes |-> NoIp]
MCTierOf == [n \in Nodes |-> 0]

=============================================================================
