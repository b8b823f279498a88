\* Violated: two refreshers fill the provider file's temporary file at once; one
\* moves it into place, and what the other writes then makes it unreadable.
SPECIFICATION FilesSpec
CONSTANTS
  Urls = {"a", "b"}
  Changing = {"a"}
  Background = "service"
  Foreground = {"user"}
  MaxChanges = 1
  MaxFailures = 1
PROPERTIES
  NeverEmptiedByRace
