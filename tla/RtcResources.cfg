SPECIFICATION FairResourcesSpec
CONSTANTS
    Session = {s1, s2}
    Tcp = {t1}
    Addr = {1, 2}
    Slots = 1
INVARIANTS
    EachFreedOnce
    LookupsExact
    PointersAlive
PROPERTIES
    RemovedIsFreed
    FreedSessionClosesTcp
CHECK_DEADLOCK FALSE
