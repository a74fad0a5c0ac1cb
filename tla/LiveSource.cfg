SPECIFICATION LiveFairSpec
CONSTANTS
    None = None
    u1 = u1
    s2 = s2
    Url = {u1, u2}
    RemuxUrl = {u1, u2}
    Clash = {u2}
    FastCache = {u1}
    Session = {s1, s2}
    Source = {x1, x2}
    Player = {p1}
    Viewer = {v1}
    Asks <- MCAsks
INVARIANTS
    TokenHeld
    FeederOwnsSource
    PublishedIsMounted
    ConsumersAttached
    IdleMeansUnwatched
    OneDestroyPerEntry
    ViewersHaveEntry
PROPERTIES
    RemovedWhenUnused
    FreedAfterHandlers
    ImplementsLock
    IdleServerForgets
    DisposingEnds
CHECK_DEADLOCK FALSE
