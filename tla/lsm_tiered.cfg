SPECIFICATION LsmSpec
CONSTANTS
  Keys = {1, 2}
  Clients = {c1}
  FlushThread = flush_thread
  CompactionThread = compaction_thread
  NoThread = no_thread
  CompactionOptions <- TieredOptions
  EnableWal = FALSE
  TargetSstSize = 2
  SstEntries = 1
  NumMemtableLimit = 1
  KeysOf <- SharedKeys
  Calls = {"put", "del", "close"}
  MaxWrites = 3
  MaxId = 9
  MaxManifest = 60
  MaxOpens = 2
  TornWrites = TRUE
  IoErrors = {}
INVARIANTS ReadsLatest InputsUnmoved CloseKeepsAll
CHECK_DEADLOCK FALSE
