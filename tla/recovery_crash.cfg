CONSTANTS
    n1 = n1
    n2 = n2
    n3 = n3
    Shards = {n1, n2, n3}
    R = 2
    CopySets <- MCCopySets
    MaxEsn = 1
    LegacyWave = 9
    BridgeForEmptyEpoch = TRUE
    Epoch = 1
    SealEpochs = {1, 2, 3}
    LoseReplies = FALSE
    MaxRestarts <- NoRestarts
SPECIFICATION CrashSpec
CONSTRAINT MinimalQuorums
SYMMETRY ShardSymmetry
CHECK_DEADLOCK FALSE
INVARIANTS
    
    
    Agreement
    AgreesWithLCE
