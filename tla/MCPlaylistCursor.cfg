CONSTANTS
  MaxEntries = 3
  HistoryLimit = 2
SPECIFICATION Spec
INVARIANTS OrderWhole CursorPlaced HistoryBounded
PROPERTIES RotatesAsPromised RoundsAreFair
