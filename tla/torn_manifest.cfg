SPECIFICATION LsmSpec
CONSTANTS
  Keys = {1}
  Clients = {c1}
  FlushThread = flush_thread
  CompactionThread = compaction_thread
  NoThread = no_thread
  CompactionOptions <- NoCompaction
  EnableWal = FALSE
  TargetSstSize = 2
  SstEntries = 1
  NumMemtableLimit = 1
  KeysOf <- SharedKeys
  Calls = {"put"}
  MaxWrites = 2
  MaxId = 4
  MaxManifest = 60
  MaxOpens = 2
  TornWrites = TRUE
  IoErrors = {}
INVARIANT TornTailTolerated
CHECK_DEADLOCK FALSE
