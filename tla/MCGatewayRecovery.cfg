\* Two keepers and a stop command that waits for nobody.
SPECIFICATION FairRecoverySpec
CONSTANTS
  n1 = n1
  n2 = n2
  tgt = tgt
  Lanes = {1, 2}
  Targets = {tgt}
  Nodes = {n1, n2}
  IpOf <- MCIpOf
  TierOf <- MCTierOf
  Signatures = {}
  NoIp = NoIp
  Reject = Reject
  None = None
  Threshold = 2
  Keepers = {"maintain", "start"}
  Daemon = "maintain"
  MaxFaults = 2
  MaxKills = 1
  MaxStops = 1
INVARIANTS
  RecoveryInv
  UnassignedRejects
  ActiveLanesRouted
PROPERTIES
  GatewayComesBack
  ImplementsFailClosed
