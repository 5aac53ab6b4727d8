SPECIFICATION LockSpec
CONSTANT Procs = {p1, p2}
INVARIANT MutualExclusion
