SPECIFICATION FairSpec
CONSTANTS
  Keys = {1, 2, 3}
  SstEntries = 1
  MaxId = 25
  Scenarios <- AllStrategies
INVARIANTS TypeOK ReadsLatest LevelsSorted AssertionsHold NoOrphans
PROPERTIES Settles
CHECK_DEADLOCK FALSE
