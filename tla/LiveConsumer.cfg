SPECIFICATION ConsumerFairSpec
CHECK_DEADLOCK FALSE
CONSTANTS
    QueueSize = 3
    MwMsgs = 1
    MwDuration = 1
    Batch = 1
    MaxJitter = 2
    FrameTime = 1
    Steady = TRUE
    MaxTime = 5
    MaxMsgs = 3
INVARIANTS
    NoLostWakeup
    SpanBounded
PROPERTIES
    HeadersKept
    CommandServed
    ExpiredLeaves
