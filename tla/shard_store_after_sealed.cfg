CONSTANTS
    Mixes <- OneMix
    Stores <- OneStore
    SealOf <- OneSealOf
    Seals <- OneSeal
    MaxFaults = 0
SPECIFICATION Spec
CHECK_DEADLOCK FALSE
INVARIANT
    NoStoreAfterSealed
