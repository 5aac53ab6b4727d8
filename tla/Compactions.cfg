SPECIFICATION Spec
CONSTANTS
  Keys = {k1}
  Vals = {v1}
  Tombstone = Tombstone
  EmptyKey = EmptyKey
  SyncPolicy = "SyncFull"
  SyncEveryN = 1
  Batches <- NoBatches
  MemtableBytes = 1
  CompactThreshold = 2
  Faults <- NoFaults
  MaxSeq = 6
  MaxCrashes = 0
  MaxFaults = 0
  MaxFiles = 0
INVARIANTS GetAgrees IteratorAgrees
