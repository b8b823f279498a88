\* Two lanes, three nodes: one spare node for two lanes.
SPECIFICATION FairSpec
CONSTANTS
  n1 = n1
  n2 = n2
  n3 = n3
  ip1 = ip1
  ip2 = ip2
  tgt = tgt
  Lanes = {1, 2}
  Targets = {tgt}
  Target = tgt
  Nodes = {n1, n2, n3}
  IpOf <- MCIpOf
  TierOf <- MCTierOf
  Signatures = {"http403"}
  Threshold = 1
  NoIp = NoIp
  Reject = Reject
  None = None
  CheckModes = {TRUE}
  Behaviours <- Mixed
  MaxDeaths = 0
INVARIANTS
  TrafficStaysOnLease
PROPERTIES
  OutageMovesOnlyCanary
  FailedLanesRecover
