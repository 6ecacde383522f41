CONSTANTS
    Bounds <- SafetyBounds
    OrderedReplies = TRUE
SPECIFICATION Spec
CHECK_DEADLOCK FALSE
INVARIANTS
    ReleasedReplicated
    QuiescentMeansDone
    NeverStuckActivating
PROPERTIES
    ReleasedMonotone
    
    EpochStateAdvances
