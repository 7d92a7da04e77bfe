SPECIFICATION ScanSpec
CONSTANTS
  Keys = {1, 2}
  Clients = {c1}
  FlushThread = flush_thread
  CompactionThread = compaction_thread
  NoThread = no_thread
  CompactionOptions <- NoCompaction
  EnableWal = FALSE
  TargetSstSize = 2
  SstEntries = 2
  NumMemtableLimit = 1
  KeysOf <- SharedKeys
  Calls = {"put", "del", "compact"}
  MaxWrites = 2
  MaxId = 4
  MaxManifest = 30
  MaxOpens = 1
  TornWrites = FALSE
  IoErrors = {0, 3}
  ScanBounds <- NoBounds
INVARIANTS ReadsLatest TablesPresent ScanIsSnapshot SnapshotHeld
PROPERTIES OpenTablesImmutable
CHECK_DEADLOCK FALSE
