SPECIFICATION Spec
CONSTANTS
  Keys = {k1}
  Vals = {v1}
  Tombstone = Tombstone
  EmptyKey = EmptyKey
  SyncPolicy = "SyncFull"
  SyncEveryN = 1
  Batches <- NoBatches
  MemtableBytes = 4
  CompactThreshold = 2
  Faults <- TornWrite
  MaxSeq = 3
  MaxCrashes = 1
  MaxFaults = 1
  MaxFiles = 0
INVARIANTS CrashSafe
