SPECIFICATION FairSpec
CONSTANTS
  Actors = {a1, a2}
  Installers = {}
  Order <- TwoStores
  MaxGens = 2
  MaxTokens = 2
  MaxFaults = 1
PROPERTIES NothingDangles RemovalSettles FilesMeetTheirFate
CHECK_DEADLOCK FALSE
