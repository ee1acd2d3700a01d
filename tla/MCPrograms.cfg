SPECIFICATION FairSpec
CONSTANTS
    W_CNT = 2
    R_CNT = 2
    ITERS = 1
    Places <- MCPlaces
    Buttons = {0, 1, 3, 4, 5}
    Clients = {1, 2, 3}
    MAX_CLIENTS = 2
    Keys = {k1, k2, k3}
    Named = {k1, k2}
    NoKey = NoKey
    Procs = {p1, p2}
    Nobody = Nobody
    BUFSIZE = 3
    LENGTH = 5
    Lengths <- MCLengths
    PROC_COUNT = 2
    INTERRUPTS = 2
    TimerCell = 1
    KeyCell = 4
    MessageCell = 6
    MessageLength = 2
    ScreenSize = 8
INVARIANTS
    TypesOK
    NoKeyLeftPressed
    MovesAddUp
    TableIsExact
    PressedIsPrinted
    OneDaemon
    NothingLost
    TextStands
PROPERTIES
    WinEndsUnless
    WaitEnds
    ParentHearsAll
CHECK_DEADLOCK FALSE
