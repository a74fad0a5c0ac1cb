SPECIFICATION LiveSpec
CONSTANTS
    None = None
    u1 = u1
    s2 = s2
    Url = {u1}
    RemuxUrl = {u1}
    Clash = {}
    FastCache = {}
    Session = {s1, s2}
    Source = {x1, x2}
    Player = {}
    Viewer = {v1}
    Asks <- MCAsks
INVARIANTS
    BusyHasPublisher
