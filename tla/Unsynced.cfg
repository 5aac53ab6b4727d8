SPECIFICATION Spec
CONSTANTS
  Keys = {k1}
  Vals = {v1}
  Tombstone = Tombstone
  EmptyKey = EmptyKey
  SyncPolicy = "SyncBatch"
  SyncEveryN = 2
  Batches <- MCBatches
  MemtableBytes = 3
  CompactThreshold = 2
  Faults <- NoFaults
  MaxSeq = 3
  MaxCrashes = 2
  MaxFaults = 0
  MaxFiles = 0
INVARIANTS LossBound CrashSafe KillSafe IteratorAgrees
PROPERTIES ImplementsDurableKV
