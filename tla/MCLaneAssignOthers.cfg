\* assign for one target while another target has lanes.
SPECIFICATION RoutedSpec
CONSTANTS
  n1 = n1
  n2 = n2
  ip1 = ip1
  t1 = t1
  t2 = t2
  Lanes = {1, 2}
  Targets = {t1, t2}
  AssignTargets = {t1}
  Nodes = {n1, n2}
  IpOf <- MCIpOf
  TierOf <- MCTierOf
  Signatures = {}
  Threshold = 1
  NoIp = NoIp
  Reject = Reject
  None = None
  Requests = {1, 2}
  Modes = {"assign"}
  NodeOutcomes = {"ok", "link"}
  MaxMishaps = 0
PROPERTIES
  OthersLanesKept
