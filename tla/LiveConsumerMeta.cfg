SPECIFICATION ConsumerSpec
CHECK_DEADLOCK FALSE
CONSTANTS
    QueueSize = 2
    MwMsgs = 1
    MwDuration = 1
    Batch = 1
    MaxJitter = 2
    FrameTime = 1
    Steady = FALSE
    MaxTime = 5
    MaxMsgs = 3
PROPERTIES
    DropsOnlyOnOverflow
