CONSTANTS
    Shards <- MCShards
    Replication = 2
    MaxLsn = 3
    WindowSize = 2
    GraceLimit = 0
    Logs <- MCLogs
    MaxInFlight = 1
SPECIFICATION FairSpec
CHECK_DEADLOCK FALSE
INVARIANTS
    TypeOK
    ReplicatedNeverLost
    
PROPERTIES
    ReachesUntilLsn
