SPECIFICATION ForkSpec
CONSTANTS
    PROC_COUNT = 2
    INTERRUPTS = 1
CHECK_DEADLOCK FALSE
INVARIANTS
    NamesEndedChild
