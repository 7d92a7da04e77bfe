SPECIFICATION FairSpec
CONSTANTS
  Keys = {1, 2}
  c1 = c1
  c2 = c2
  Clients = {c1, c2}
  FlushThread = flush_thread
  CompactionThread = compaction_thread
  NoThread = no_thread
  CompactionOptions <- NoCompaction
  SstEntries = 2
  EnableWal = TRUE
  TargetSstSize = 3
  NumMemtableLimit = 1
  KeysOf <- OwnKeys
  Calls = {"put", "freeze", "flush", "sync"}
  MaxWrites = 3
  MaxId = 2
INVARIANTS TypeOK ReadsLatest IInv WalMatchesMemtable
PROPERTIES FrozenUnchanged ImplementsKV CallsReturn ImmDrained
CHECK_DEADLOCK FALSE
