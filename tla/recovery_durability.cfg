CONSTANTS
    n1 = n1
    n2 = n2
    Shards = {n1, n2}
    R = 1
    CopySets <- MCCopySets
    MaxEsn = 2
    LegacyWave = 9
    BridgeForEmptyEpoch = FALSE
    Epoch = 1
    SealEpochs = {1, 2}
    LoseReplies = FALSE
    MaxRestarts <- NoRestarts
SPECIFICATION Spec
SYMMETRY ShardSymmetry
CHECK_DEADLOCK FALSE
INVARIANTS
    TypeOK
    AckedNeverLost
    AckedReplicated
    LngSound
    DurabilityInv
PROPERTIES
    PrecedenceAscends
