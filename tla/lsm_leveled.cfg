SPECIFICATION LsmSpec
CONSTANTS
  Keys = {1, 2}
  Clients = {c1}
  FlushThread = flush_thread
  CompactionThread = compaction_thread
  NoThread = no_thread
  CompactionOptions <- LeveledOptions
  EnableWal = FALSE
  TargetSstSize = 4
  SstEntries = 1
  NumMemtableLimit = 1
  KeysOf <- SharedKeys
  Calls = {"put"}
  MaxWrites = 6
  MaxId = 9
  MaxManifest = 60
  MaxOpens = 1
  TornWrites = FALSE
  IoErrors = {}
INVARIANTS ReadsLatest InputsUnmoved LevelsSorted
CHECK_DEADLOCK FALSE
