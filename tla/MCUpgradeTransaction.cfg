SPECIFICATION FairSpec
CONSTANTS
  MaxSlots = 3
  MaxEdits = 2
  MaxStops = 2
INVARIANTS NothingUntranslatedLost ResumeIsPossible JournalOutlivesClaims
PROPERTY UpgradeSettles
CHECK_DEADLOCK FALSE
