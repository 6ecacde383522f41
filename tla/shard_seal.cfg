CONSTANTS
    Mixes <- MCMixes
    Stores <- MCStores
    SealOf <- MCSealOf
    Seals <- MCSeals
    MaxFaults = 1
SPECIFICATION Spec
CHECK_DEADLOCK FALSE
INVARIANTS
    TypeOK
    SealedReportsAcked
    
    SoftSealCoversRecords
    OutdatedSealPreempted
