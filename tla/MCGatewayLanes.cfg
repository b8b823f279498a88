\* Two lanes over two nodes; Mihomo crashes, or a call fails, once.
SPECIFICATION FairSystemSpec
CONSTANTS
  n1 = n1
  n2 = n2
  n3 = n3
  tgt = tgt
  Lanes = {1, 2}
  Targets = {tgt}
  Target = tgt
  Nodes = {n1, n2}
  IpOf <- MCIpOf
  TierOf <- MCTierOf
  Signatures = {}
  Threshold = 2
  NoIp = NoIp
  Reject = Reject
  None = None
  CheckModes = {TRUE}
  Behaviours <- LinkFails
  MaxDeaths = 0
  Keepers = {"maintain"}
  Daemon = "maintain"
  MaxFaults = 1
  MaxKills = 0
  MaxStops = 0
PROPERTIES
  LeasesMoveAfterThreshold
  AssignmentUntilStop
  FailedLanesRecover
