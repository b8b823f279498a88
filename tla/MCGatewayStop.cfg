\* One lane, with a crash, a killed keeper, and a stop command that waits for
\* nobody.  Holds.
SPECIFICATION SystemSpec
SYMMETRY Symmetries
CONSTANTS
  n1 = n1
  n2 = n2
  n3 = n3
  tgt = tgt
  Lanes = {1}
  Targets = {tgt}
  Target = tgt
  Nodes = {n1, n2}
  IpOf <- MCIpOf
  TierOf <- MCTierOf
  Signatures = {}
  Threshold = 2
  NoIp = NoIp
  Reject = Reject
  None = None
  CheckModes = {TRUE}
  Behaviours <- LinkFails
  MaxDeaths = 0
  Keepers = {"maintain"}
  Daemon = "maintain"
  MaxFaults = 1
  MaxKills = 1
  MaxStops = 1
INVARIANTS
  SystemInv
  ClosedUntilStop
PROPERTIES
  LeasesMoveAfterThreshold
  AssignmentUntilStop
