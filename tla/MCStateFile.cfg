SPECIFICATION Spec
CONSTANTS
  Stores = {window, worker}
  Windows = {window}
  Paths = {p, q}
  MaxEdits = 2
INVARIANTS NothingUnreadLost MemoryWasOnDisk
PROPERTY OneList
