SPECIFICATION CrossSpec
CHECK_DEADLOCK FALSE
CONSTANTS
    None = None
    Url = {u1}
    Stream = u1
    Session = {m1, c1, c2}
    Rtmp = {m1}
    Rtc = {c1, c2}
    Srt = {}
    LiveSrc = {l1, l2}
    RtcSrc = {r1}
    SrtSrc = {x1}
    RtcToRtmp = TRUE
    RtmpToRtc = TRUE
    SrtToRtmp = TRUE
PROPERTIES
    TornDownOnce
