SPECIFICATION FairSpec
CONSTANTS
  Keys = {k1}
  Vals = {v1}
  Tombstone = Tombstone
  EmptyKey = EmptyKey
  SyncPolicy = "SyncFull"
  SyncEveryN = 1
  Batches <- NoBatches
  MemtableBytes = 2
  CompactThreshold = 2
  Faults <- FaultKinds
  MaxSeq = 3
  MaxCrashes = 1
  MaxFaults = 1
  MaxFiles = 0
INVARIANTS VersionsAgree
PROPERTIES FilesImmutable CommitOrder ReadOnlySession OperationsEnd
