SPECIFICATION NackFairSpec
CONSTANTS
    Width = 16
    MaxQueue = 4
    MaxAlive = 3
    Interval = {1, 2}
    MaxCount = 1
    FirstNack = 1
    CheckEvery = 1
    First = 7
    MaxSeq = 22
    Reorder = 2
    Burst = 2
INVARIANTS
    NackTypeOK
    MissingIsListed
    ExtendedNeverAhead
CHECK_DEADLOCK FALSE
PROPERTIES
    ListEmpties
