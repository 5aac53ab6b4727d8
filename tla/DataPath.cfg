SPECIFICATION Spec
CONSTANTS
  Keys <- MCKeys
  Vals <- MCVals
  Tombstone <- MCTombstone
  Hash1 <- MCHash1
  Hash2 <- MCHash2
  HashWords = 16
  MinBits = 4
  BitsPerKey = 2
  MaxProbes = 2
  BlockSize = 8
  RestartInterval = 2
  MaxLevel = 2
  Radix = 4
  MaxUint64Len = 3
  LastByte = 1
  Batches <- MCBatches
  Targets <- MCTargets
  Heights <- MCHeights
  MaxSeq = 6
  MaxTables = 3
  MaxFaults = 1
INVARIANTS TypeOK TowersAgree BytesAgree NeverRefused SearchAgrees MetaAgrees GetExact CursorComplete VarintExact
PROPERTIES ImplementsTableStore
