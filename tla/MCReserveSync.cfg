\* One node, the daemon beside one command that may run again and again.
SPECIFICATION FairSyncSpec
CONSTANTS
  n1 = n1
  c1 = c1
  c2 = c2
  Nodes = {n1}
  Configs = {c1, c2}
  Daemon = "daemon"
  Commands = {"command"}
  MaxMishaps = 1
  Absent = Absent
  NoPrint = NoPrint
  Free = Free
INVARIANTS
  SyncInv
PROPERTIES
  DaemonKeepsFresh
  ReserveConverges
