SPECIFICATION FairSpec
CONSTANTS
    MaxLines = 3
    DataCap = 1
    MaxPings = 2
CHECK_DEADLOCK FALSE
INVARIANTS
    ReasonBeforeStop
    CallerIsTold
    NothingLost
PROPERTIES
    EverythingEnds
