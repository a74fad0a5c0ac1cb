SPECIFICATION CrossSpec
CHECK_DEADLOCK FALSE
CONSTANTS
    None = None
    Url = {u1}
    Stream = u1
    Session = {m1, m2, c1, c2, t1, t2}
    Rtmp = {m1, m2}
    Rtc = {c1, c2}
    Srt = {t1, t2}
    LiveSrc = {l1, l2, l3}
    RtcSrc = {r1, r2, r3}
    SrtSrc = {x1}
    RtcToRtmp = TRUE
    RtmpToRtc = TRUE
    SrtToRtmp = TRUE
INVARIANTS
    NoBridgeCycle
    FeedersMarked
    RtcBusyHasPublisher
    LiveFedByOne
PROPERTIES
    ImplementsLock
