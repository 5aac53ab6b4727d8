SPECIFICATION FairLockedSpec
CONSTANTS
    Procs = {p1, p2}
    k1 = k1
    v1 = v1
    Tombstone = Tombstone
    Keys = {k1}
    Vals = {v1}
    Batches <- OneAndTwo
    MaxSeq = 2
    MaxFaults = 1
    MaxCrashes = 2
INVARIANTS LockedTypeOK FreshExclusion NoLeak OffsetsAgree
PROPERTIES ImplementsWAL StaleGoes
