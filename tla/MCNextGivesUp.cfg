CONSTANTS
  MaxEntries = 3
  HistoryLimit = 2
SPECIFICATION Spec

PROPERTY NextFailsOnlyAlone
