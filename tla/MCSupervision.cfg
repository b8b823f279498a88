SPECIFICATION SuperSpec
CONSTANTS
  Job = "job"
  Manual = "manual"
  Admins = {"admin"}
  Viewers = {"viewer"}
  MaxMishaps = 1
  NoPid = NoPid
  Gone = Gone
  Unlocked = Unlocked
  Runs = {"run1", "run2"}
  MaxRunKills = 1
INVARIANTS
  ServiceInv
  NsfcInv
  OneWriterUnlessRaced
PROPERTIES
  OnlyLateChecksUnname
  InstalledJobHasLock
  StopsInTheEnd
  MaintenanceGoesOn
  ChildrenEndTogether
  StopEndsWriters
