SPECIFICATION Spec
CONSTANTS
  Actors = {a1, a2}
  Installers = {d}
  Order <- OneStore
  MaxGens = 3
  MaxTokens = 1
  MaxFaults = 3
SYMMETRY Twins
INVARIANTS InnocentKept ClaimsAreOwned AuthorityLeavesFirst CleanedOnlyAfterItLeft StillsOfTheLiving AuthorityIsEarned
CHECK_DEADLOCK FALSE
