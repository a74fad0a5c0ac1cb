SPECIFICATION HlsSpec
CHECK_DEADLOCK FALSE
CONSTANTS
    MaxTasks = 6
INVARIANTS
    CalledOnce
    FramesFindSegment
PROPERTIES
    AllCalled
    CloserReturns
    StopLeavesNothing
