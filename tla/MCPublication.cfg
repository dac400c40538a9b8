CONSTANTS
  Publishers = {window, cli}
  Overrides = {o1, absent}
  Absent = absent
  Attempts = 2
  MaxSaves = 3
  MaxFailures = 2
  MaxCrashes = 1
SPECIFICATION Spec
INVARIANTS TypeOK PairKept
PROPERTIES PairIsAtomic WebOffKept
