CONSTANTS
    n1 = n1
    n2 = n2
    Shards = {n1, n2}
    R = 1
    CopySets <- MCCopySets
    MaxEsn = 1
    LegacyWave = 9
    BridgeForEmptyEpoch = TRUE
    Epoch = 1
    SealEpochs = {1, 2}
    LoseReplies = TRUE
    MaxRestarts <- OneRestart
SPECIFICATION FairSpec
CHECK_DEADLOCK FALSE
PROPERTIES
    RecoveryTerminates
