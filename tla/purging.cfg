CONSTANTS
    n1 = n1
    n2 = n2
    n3 = n3
    Shards = {n1, n2, n3}
    R = 2
    CopySets <- MCCopySets
    MaxEpoch = 2
    Seqs = {3}
    Busy = {n1}
    MaxFaults = 1
SPECIFICATION Spec
SYMMETRY ShardSymmetry
CHECK_DEADLOCK FALSE
INVARIANTS
    TypeOK
    SettledReplicated
    CleanShowsSettled
    ReleasedSettled
    GlobalCleanHasErm
    NeverStranded
