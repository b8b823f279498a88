\* Two subscriptions, the service beside one command that refreshes.
SPECIFICATION FairFilesSpec
CONSTANTS
  Urls = {"a", "b"}
  Changing = {"a"}
  Background = "service"
  Foreground = {"user"}
  MaxChanges = 1
  MaxFailures = 1
INVARIANTS
  FilesInv
PROPERTIES
  NeverEmptied
  MergesEachSource
  FileConverges
