\* check --no-replace while every node answers with the same error.
SPECIFICATION Spec
CONSTANTS
  n1 = n1
  n2 = n2
  n3 = n3
  ip1 = ip1
  ip2 = ip2
  tgt = tgt
  Lanes = {1, 2}
  Targets = {tgt}
  Target = tgt
  Nodes = {n1, n2, n3}
  IpOf <- MCIpOf
  TierOf <- MCTierOf
  Signatures = {"http403"}
  Threshold = 2
  NoIp = NoIp
  Reject = Reject
  None = None
  CheckModes = {FALSE}
  Behaviours <- Refusals
  MaxDeaths = 0
PROPERTIES
  NoReplaceMovesNothing
