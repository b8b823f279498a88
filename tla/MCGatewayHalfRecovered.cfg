\* One keeper, and one API call that fails.
SPECIFICATION RecoverySpec
CONSTANTS
  n1 = n1
  n2 = n2
  tgt = tgt
  Lanes = {1, 2}
  Targets = {tgt}
  Nodes = {n1, n2}
  IpOf <- MCIpOf
  TierOf <- MCTierOf
  Signatures = {}
  NoIp = NoIp
  Reject = Reject
  None = None
  Threshold = 2
  Keepers = {"maintain"}
  Daemon = "maintain"
  MaxFaults = 1
  MaxKills = 0
  MaxStops = 0
INVARIANTS
  LanesRestored
