SPECIFICATION PublishSpec
CHECK_DEADLOCK FALSE
CONSTANTS
    MaxSends = 2
    MaxInbox = 2
INVARIANTS
    JoinSucceeds
