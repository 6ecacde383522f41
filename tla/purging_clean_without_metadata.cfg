CONSTANTS
    n1 = n1
    n2 = n2
    Shards = {n1, n2}
    R = 1
    CopySets <- MCCopySets
    MaxEpoch = 2
    Seqs = {2, 3}
    Busy = {}
    MaxFaults = 0
SPECIFICATION Spec
SYMMETRY ShardSymmetry
CHECK_DEADLOCK FALSE
INVARIANTS
    GlobalCleanHasErm
