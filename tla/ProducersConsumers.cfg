SPECIFICATION FairSpec
CONSTANTS
    PROC_AMOUNT = 3
    EMPTY_NUM = 6
    PRODUCE_NUM = 2
    CONSUME_NUM = 2
INVARIANTS
    MutualExclusion
    ReadsFilledSlot
    SlotsInBounds
    RemovedWhenUnused
PROPERTIES
    IsBoundedQueue
    ChildrenExit
