SPECIFICATION PublishSpec
CHECK_DEADLOCK FALSE
CONSTANTS
    MaxSends = 5
    MaxInbox = 2
INVARIANTS
    RecvStopsFirst
    NoLostError
PROPERTIES
    DoneLeaves
    SilentLeaves
