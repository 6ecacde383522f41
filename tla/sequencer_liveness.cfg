CONSTANTS
    Bounds <- LivenessBounds
    OrderedReplies = TRUE
SPECIFICATION FairSpec
CHECK_DEADLOCK FALSE
PROPERTIES
    EvictedBecomesQuiescent
    RecoveryHappens
