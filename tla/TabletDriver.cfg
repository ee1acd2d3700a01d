SPECIFICATION FairSpec
CONSTANTS
    Containers = {w1, w2, w3, w4}
INVARIANTS
    OpenPolls
    OneReportAtATime
    UrbHasTablet
PROPERTIES
    ReportsKeepComing
CHECK_DEADLOCK FALSE
