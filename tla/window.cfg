CONSTANTS
    t1 = t1
    t2 = t2
    t3 = t3
    Threads = {t1, t2, t3}
    Capacity = 2
    EsnMax = 4
    Unknown = Unknown
    PrevTails = {Unknown, 0, 2}
SPECIFICATION FairSpec
INVARIANTS
    OneReaper
    SlotIsFree
    QuietWindow
    CondAppendFollowsTail
    NextIsFinal
PROPERTIES
    ImplementsOrderedWindow
