\* The daemon alone, one mishap.
SPECIFICATION SyncSpec
CONSTANTS
  n1 = n1
  c1 = c1
  c2 = c2
  Nodes = {n1}
  Configs = {c1, c2}
  Daemon = "daemon"
  Commands = {}
  MaxMishaps = 1
  Absent = Absent
  NoPrint = NoPrint
  Free = Free
INVARIANT
  ChangedNodesUntested
