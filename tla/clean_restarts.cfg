SPECIFICATION LsmSpec
CONSTANTS
  Keys = {1, 2}
  Clients = {c1}
  FlushThread = flush_thread
  CompactionThread = compaction_thread
  NoThread = no_thread
  CompactionOptions <- NoCompaction
  EnableWal = FALSE
  TargetSstSize = 3
  SstEntries = 1
  NumMemtableLimit = 1
  KeysOf <- SharedKeys
  Calls = {"put", "close"}
  MaxWrites = 2
  MaxId = 8
  MaxManifest = 60
  MaxOpens = 3
  TornWrites = FALSE
  IoErrors = {}
INVARIANT CleanRestartsKeepAll
CHECK_DEADLOCK FALSE
