SPECIFICATION ProxiesSpec
CONSTANTS
  Keepers = {k1, k2, k3}
  Cores = {m1, m2}
  MaxKeeperKills = 1
  NoPid = NoPid
  Gone = Gone
  Unlocked = Unlocked
  Users = {u1, u2}
  Servers = {x1, x2}
  Exits = {n1, n2, bad}
  Rejected = {bad}
  MaxUserMishaps = 1
  Nothing = Nothing
  Stale = Stale
  NumSources = 2
  Bases = {"a"}
  MaxNodes = 4
  Probers = {p1, p2}
  Routes = {r1, r2}
  Closed = Closed
  NoRoute = NoRoute
  MaxAttempts = 2
SYMMETRY Symmetries
INVARIANTS
  LiveCoreIsNamed
  TurnsTellTruth
  AtMostOneServer
  SourceNamesDiffer
  VerdictOfSubject
PROPERTY
  ReleasedLaneIsClosed
