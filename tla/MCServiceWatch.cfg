CONSTANTS
  Publishers = {window}
  Overrides = {o1, absent}
  Absent = absent
  Attempts = 1
  MaxSaves = 2
  MaxFailures = 1
  MaxCrashes = 0
  MaxRestarts = 1
  Verbs = {"reload", "reload argument"}
SPECIFICATION WatchFairSpec
INVARIANT NothingMissed
PROPERTY SavesReachTheService
