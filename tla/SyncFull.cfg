SPECIFICATION Spec
CONSTANTS
  Keys = {k1, EmptyKey}
  Vals = {v1}
  Tombstone = Tombstone
  EmptyKey = EmptyKey
  SyncPolicy = "SyncFull"
  SyncEveryN = 1
  Batches <- EmptyKeyBatches
  MemtableBytes = 3
  CompactThreshold = 2
  Faults <- NoFaults
  MaxSeq = 3
  MaxCrashes = 2
  MaxFaults = 0
  MaxFiles = 3
INVARIANTS TypeOK CrashSafe KillSafe IteratorAgrees ManifestComplete
PROPERTIES CommitOrder ImplementsDurableKV
