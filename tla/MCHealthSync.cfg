SPECIFICATION FairSpec
CONSTANTS
  Wallpapers = {w1, w2}
  MaxFailures = 1
  MaxEvents = 2
INVARIANT RetractionStands
PROPERTIES MarksOfTheLiving FindingsSettle
CHECK_DEADLOCK FALSE
