SPECIFICATION LsmSpec
CONSTANTS
  Keys = {1, 2}
  Clients = {c1}
  FlushThread = flush_thread
  CompactionThread = compaction_thread
  NoThread = no_thread
  CompactionOptions <- SimpleOptions
  EnableWal = TRUE
  TargetSstSize = 2
  SstEntries = 1
  NumMemtableLimit = 1
  KeysOf <- SharedKeys
  Calls = {"put", "del", "sync", "close"}
  MaxWrites = 3
  MaxId = 8
  MaxManifest = 60
  MaxOpens = 2
  TornWrites = FALSE
  IoErrors = {0, 3}
INVARIANTS LsmTypeOK ReadsLatest InputsUnmoved TablesPresent ManifestMatchesState OpenSucceeds DurableSurvives CloseKeepsAll
CHECK_DEADLOCK FALSE
