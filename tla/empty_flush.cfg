SPECIFICATION Spec
CONSTANTS
  Keys = {1}
  c1 = c1
  c2 = c2
  Clients = {c1, c2}
  FlushThread = flush_thread
  CompactionThread = compaction_thread
  NoThread = no_thread
  CompactionOptions <- NoCompaction
  SstEntries = 2
  EnableWal = FALSE
  TargetSstSize = 2
  NumMemtableLimit = 1
  KeysOf <- SharedKeys
  Calls = {"put"}
  MaxWrites = 3
  MaxId = 3
INVARIANT FlushesSucceed
CHECK_DEADLOCK FALSE
