SPECIFICATION Spec
CONSTANTS
  Keys = {k1}
  Vals = {v1}
  Tombstone = Tombstone
  EmptyKey = EmptyKey
  SyncPolicy = "SyncFull"
  SyncEveryN = 1
  Batches <- MCBatches
  MemtableBytes = 2
  CompactThreshold = 2
  Faults <- ToleratedFaults
  MaxSeq = 3
  MaxCrashes = 1
  MaxFaults = 2
  MaxFiles = 0
CONSTRAINT WritesOrFaults
INVARIANTS CrashSafe GetNeverLies ManifestComplete
PROPERTIES ImplementsDurableKV
