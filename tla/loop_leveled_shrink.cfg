SPECIFICATION Spec
CONSTANTS
  Keys = {1, 2}
  SstEntries = 1
  MaxId = 25
  Scenarios <- LeveledDeletes
INVARIANT ReadsLatest
CHECK_DEADLOCK FALSE
