SPECIFICATION ResourcesSpec
CONSTANTS
    Session = {s1}
    Tcp = {t1, t2}
    Addr = {1, 2}
    Slots = 1
INVARIANTS
    IgnoredWhileFreed
CHECK_DEADLOCK FALSE
