\* stop while the maintenance daemon restarts the gateway.
SPECIFICATION RecoverySpec
CONSTANTS
  n1 = n1
  n2 = n2
  tgt = tgt
  Lanes = {1, 2}
  Targets = {tgt}
  Nodes = {n1, n2}
  IpOf <- MCIpOf
  TierOf <- MCTierOf
  Signatures = {}
  NoIp = NoIp
  Reject = Reject
  None = None
  Threshold = 2
  Keepers = {"maintain"}
  Daemon = "maintain"
  MaxFaults = 0
  MaxKills = 0
  MaxStops = 1
INVARIANTS
  UnassignedRejectsAtRest
