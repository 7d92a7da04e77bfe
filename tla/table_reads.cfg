SPECIFICATION Spec
CONSTANTS
  BlockSize = 30
  FieldLimit = 32
  Hash <- KeyHash
  HashLimit = 256
  RotateLimit = 8
  MinBits = 16
  Readers = {r1, r2}
  KeySet <- AllKeys
  Scenarios <- AllScenarios
INVARIANTS ReadsExact FilterKeepsKeys CacheIsLru
CHECK_DEADLOCK FALSE
