------------------------- MODULE CrossPublishProofs -------------------------
(***************************************************************************)
(* At most one session publishes a stream, whatever the protocols and      *)
(* whatever the timers remove, proved for any number of sessions and       *)
(* sources and any configuration of the bridges.                           *)
(*                                                                         *)
(* The lock rests on two things (LockInv): RTMP and SRT sessions hold the  *)
(* token from end to end, and an RTC session that has not opened its       *)
(* source has it marked in the pool, so that the timer leaves it there and *)
(* every newcomer finds it.  What the sessions feed through bridges needs  *)
(* the second invariant (FeedInv).                                         *)
(***************************************************************************)
EXTENDS CrossPublish, TLAPS

\* The places the sessions of each protocol can be at.
Places ==
    /\ \A s \in Rtmp : at[s] \in {"idle", "hooks", "starting", "publishing",
                                  "closing", "leaving"}
    /\ \A s \in Srt : at[s] \in {"idle", "hooks", "starting", "publishing",
                                 "closing", "leaving"}
    /\ \A s \in Rtc : at[s] \in {"idle", "created", "starting", "stalled",
                                 "publishing", "closing"}
    /\ \A s \in disposing : at[s] # "idle"

\* The source of a session is of the session's protocol.
OwnSources ==
    /\ \A s \in Rtmp : at[s] # "idle" => ref[s] \in LiveSrc
    /\ \A s \in Srt : at[s] # "idle" => ref[s] \in SrtSrc
    /\ \A s \in Rtc : at[s] # "idle" => ref[s] \in RtcSrc

\* The pool of the RTC sources has one source of the stream at most.
OneRtc == \A x, y \in pool \cap RtcSrc : x = y

\* What the sources of each protocol may feed.
Kinds ==
    /\ \A l \in LiveSrc : bridge[l] \subseteq RtcSrc
    /\ \A r \in RtcSrc : bridge[r] \subseteq LiveSrc
    /\ \A x \in SrtSrc : bridge[x] \subseteq LiveSrc \cup RtcSrc

\* RTMP and SRT sessions hold the token from end to end, RTC sessions never.
Tokens == \A s \in Rtmp \cup Srt : at[s] # "idle" => tokens[Stream] = s

\* Until it is freed an RTC session has its source marked and in the pool.
RtcHeld == \A s \in Rtc : Publishing(s) => ref[s] \in pool \cap marked

AtMostOne ==
    \A s, t \in Session : Publishing(s) /\ Publishing(t) => s = t

LockInv ==
    /\ CrossTypeOK
    /\ Places
    /\ OwnSources
    /\ OneRtc
    /\ Kinds
    /\ Tokens
    /\ RtcHeld
    /\ AtMostOne
-----------------------------------------------------------------------------
(***************************************************************************)
(* What the steps have in common.                                          *)
(***************************************************************************)

\* fetch_or_create returns what is in the pool, or what nobody refers to.
LEMMA FetchFacts ==
    ASSUME NEW Kind
    PROVE  \A x \in FetchOrCreate(Kind) :
               /\ x \in Kind
               /\ x \in pool \/ (pool \cap Kind = {} /\ x \notin Referenced)
BY DEF FetchOrCreate

\* What every step of a session starts from.
Shape ==
    /\ \A s \in Rtmp \cup Srt \cup Rtc : s \in Session
    /\ at \in [Session -> Pc]
    /\ ref \in [Session -> Source \cup {None}]
    /\ bridge \in [Source -> SUBSET Source]
    /\ tokens \in [Url -> Session \cup {None}]
    /\ pool \subseteq Source /\ marked \subseteq Source
    /\ disposing \subseteq Rtc
    /\ Stream \in Url

LEMMA ShapeHolds == LockInv => Shape
BY ProtocolAssumption, StreamAssumption
DEF LockInv, CrossTypeOK, TokenTypeOK, Shape

\* A fetch leaves the types alone.
LEMMA FetchTypes ==
    ASSUME Shape, NEW X \in SUBSET Source
    PROVE  /\ pool \cup X \subseteq Source
           /\ Marks(X) \subseteq marked
           /\ Bridges(X) \in [Source -> SUBSET Source]
           /\ \A x \in Source : Bridges(X)[x] \in {{}, bridge[x]}
BY DEF Shape, Marks, Bridges

\* Kinds holds of any bridges that are as before, or gone, or of its kind.
LEMMA KindsStep ==
    ASSUME Kinds,
           \A x \in Source : \/ bridge'[x] \in {{}, bridge[x]}
                             \/ x \in LiveSrc /\ bridge'[x] \subseteq RtcSrc
                             \/ x \in RtcSrc /\ bridge'[x] \subseteq LiveSrc
                             \/ x \in SrtSrc /\ bridge'[x] \subseteq LiveSrc \cup RtcSrc
    PROVE  Kinds'
BY SourceAssumption DEF Kinds, Source

\* The invariant of the lock survives a step that moves a session s as long as
\* the sources of the RTC sessions keep their marks and their places in the
\* pool, and s, if it is to publish, is alone.
LEMMA LockStep ==
    ASSUME LockInv, CrossTypeOK', Places', OwnSources', Kinds', Tokens',
           NEW s \in Session,
           \A t \in Session : t # s => at'[t] = at[t] /\ ref'[t] = ref[t],
           OneRtc',
           Publishing(s)' => \/ Publishing(s)
                             \/ \A t \in Session : ~Publishing(t),
           \A t \in Rtc : Publishing(t)' =>
               \/ ref'[t] \in pool' \cap marked'
               \/ /\ Publishing(t) => ref'[t] = ref[t]
                  /\ Publishing(t)
                  /\ ref[t] \in pool \cap marked => ref[t] \in pool' \cap marked'
    PROVE  LockInv'
<1>1. \A t \in Session : t # s => (Publishing(t)' <=> Publishing(t))
    BY DEF Publishing
<1>2. AtMostOne'
    BY <1>1 DEF LockInv, AtMostOne
<1>3. RtcHeld'
    BY <1>1 DEF LockInv, RtcHeld
<1> QED BY <1>2, <1>3 DEF LockInv

LEMMA LockInit == CrossInit => LockInv
<1> SUFFICES ASSUME CrossInit PROVE LockInv
    OBVIOUS
<1>1. \A s \in Session : at[s] = "idle" /\ ~Publishing(s)
    BY DEF CrossInit, Publishing
<1>2. \A s \in Rtmp \cup Srt \cup Rtc : s \in Session
    BY ProtocolAssumption
<1>3. CrossTypeOK
    BY SessionAssumption
    DEF CrossInit, CrossTypeOK, TokenInit, TokenTypeOK, Pc
<1> QED BY <1>1, <1>2, <1>3
        DEF LockInv, Places, OwnSources, OneRtc, Kinds, Tokens, RtcHeld,
            AtMostOne, CrossInit, Source
-----------------------------------------------------------------------------
(***************************************************************************)
(* RTMP and SRT sessions.                                                  *)
(***************************************************************************)
\* The token is free when a session enters.
LEMMA EnterLock ==
    ASSUME LockInv, NEW s \in Rtmp \cup Srt, NEW Kind,
           \/ s \in Rtmp /\ Kind = LiveSrc
           \/ s \in Srt /\ Kind = SrtSrc,
           Enter(s, Kind)
    PROVE  LockInv'
<1>0. Shape /\ s \in Session
    BY ShapeHolds DEF Shape
<1>1. PICK x \in FetchOrCreate(Kind) :
          /\ Fetched({x})
          /\ ref' = [ref EXCEPT ![s] = x]
    BY DEF Enter
<1>2. x \in Kind /\ x \in Source /\ x \notin RtcSrc
    BY <1>1, FetchFacts, SourceAssumption DEF Source
<1>3. at' = [at EXCEPT ![s] = "hooks"] /\ tokens[Stream] = None
      /\ tokens' = [tokens EXCEPT ![Stream] = s] /\ at[s] = "idle"
      /\ UNCHANGED <<disposing, up>>
    BY DEF Enter, Goto, AcquireToken
<1>4. CrossTypeOK'
    <2>1. pool' \subseteq Source /\ marked' \subseteq Source
          /\ bridge' \in [Source -> SUBSET Source]
        BY <1>0, <1>1, <1>2, FetchTypes DEF Fetched, Shape
    <2> QED BY <1>0, <1>1, <1>2, <1>3, <2>1, SessionAssumption
            DEF LockInv, CrossTypeOK, TokenTypeOK, Shape, Pc
<1>12. Kinds'
    BY <1>0, <1>1, <1>2, FetchTypes, KindsStep DEF Fetched, LockInv
<1>5. Places' /\ OwnSources' /\ Tokens'
    <2>1. \A t \in Rtmp \cup Srt : at[t] = "idle"
        BY <1>0, <1>3, SessionAssumption DEF LockInv, Tokens, Shape
    <2> QED BY <1>0, <1>1, <1>2, <1>3, <2>1, ProtocolAssumption, SessionAssumption
            DEF LockInv, Places, OwnSources, Tokens, Shape
<1>6. OneRtc'
    BY <1>1, <1>2 DEF LockInv, OneRtc, Fetched
<1>7. ~Publishing(s)' /\ ~Publishing(s)
    BY <1>0, <1>3 DEF Publishing, Shape
<1>8. \A t \in Rtc : ref[t] \in pool \cap marked => ref[t] \in pool' \cap marked'
    BY <1>1 DEF Fetched, Marks
<1>9. \A t \in Rtc : t # s
    BY ProtocolAssumption
<1>10. \A t \in Session : t # s => at'[t] = at[t] /\ ref'[t] = ref[t]
    BY <1>0, <1>1, <1>3 DEF Shape
<1>11. \A t \in Rtc : Publishing(t)' => Publishing(t) /\ ref'[t] = ref[t]
    BY <1>0, <1>9, <1>10 DEF Publishing, Shape
<1> QED BY <1>0, <1>4, <1>5, <1>6, <1>7, <1>8, <1>10, <1>11, <1>12, LockStep

\* A step of a session that holds the token.
LEMMA HolderLock ==
    ASSUME LockInv, NEW s \in Rtmp \cup Srt, at[s] # "idle",
           \/ Leave(s)
           \/ \E pc \in {"starting", "publishing", "closing", "leaving"} :
                Goto(s, pc) /\ UNCHANGED <<tokens, ref>>,
           pool' \subseteq Source, marked' \subseteq Source,
           bridge' \in [Source -> SUBSET Source],
           up' \in BOOLEAN, UNCHANGED disposing,
           OneRtc', Kinds',
           Publishing(s)' => \/ Publishing(s)
                             \/ \A t \in Session : ~Publishing(t),
           \A t \in Rtc : Publishing(t) => ref[t] \in pool' \cap marked'
    PROVE  LockInv'
<1>0. Shape /\ s \in Session
    BY ShapeHolds DEF Shape
<1>1. \A t \in Rtc : t # s
    BY ProtocolAssumption
<1>2. \A t \in Rtmp \cup Srt : t # s => at[t] = "idle"
    BY <1>0, SessionAssumption DEF LockInv, Tokens, Shape
<1>3. CrossTypeOK'
    BY <1>0, SessionAssumption
    DEF LockInv, CrossTypeOK, TokenTypeOK, Shape, Pc, Leave, ReleaseToken, Goto
<1>4. Places' /\ OwnSources' /\ Tokens'
    BY <1>0, <1>1, <1>2, ProtocolAssumption
    DEF LockInv, Places, OwnSources, Tokens, Shape, Leave, ReleaseToken, Goto
<1>5. \A t \in Session : t # s => at'[t] = at[t] /\ ref'[t] = ref[t]
    BY <1>0 DEF Shape, Leave, Goto
<1>6. \A t \in Rtc : Publishing(t)' => Publishing(t) /\ ref'[t] = ref[t]
    BY <1>0, <1>1, <1>5 DEF Publishing, Shape
<1> QED BY <1>0, <1>3, <1>4, <1>5, <1>6, LockStep

\* A holder that publishes is the only one, so that it may do what it likes
\* with the flags of the RTC sources.
LEMMA HolderAlone ==
    ASSUME LockInv, NEW s \in Rtmp \cup Srt, Publishing(s)
    PROVE  \A t \in Rtc : ~Publishing(t)
BY ProtocolAssumption, ShapeHolds DEF LockInv, AtMostOne, Shape

\* A fetch of an RTC source finds the one of the session that publishes.
LEMMA FetchRtc ==
    ASSUME LockInv, NEW r \in FetchOrCreate(RtcSrc), NEW X \in SUBSET Source,
           X \cap RtcSrc \subseteq {r}
    PROVE  /\ \A x, y \in (pool \cup X) \cap RtcSrc : x = y
           /\ \A t \in Rtc : Publishing(t) =>
                ref[t] \in (pool \cup X) \cap Marks(X)
           /\ \A t \in Rtc : Publishing(t) => r = ref[t] /\ r \in Marks(X)
<1>1. r \in RtcSrc /\ (r \in pool \/ pool \cap RtcSrc = {})
    BY FetchFacts
<1>2. \A x, y \in (pool \cup X) \cap RtcSrc : x = y
    BY <1>1 DEF LockInv, OneRtc
<1>3. ASSUME NEW t \in Rtc, Publishing(t)
      PROVE  ref[t] \in (pool \cup X) \cap Marks(X) /\ r = ref[t]
    <2>1. at[t] # "idle"
        BY <1>3 DEF Publishing
    <2> QED BY <1>1, <1>2, <1>3, <2>1
            DEF LockInv, RtcHeld, OwnSources, Marks
<1> QED BY <1>2, <1>3
-----------------------------------------------------------------------------
LEMMA RtmpLock ==
    ASSUME LockInv, NEW s \in Rtmp, RtmpStep(s)
    PROVE  LockInv'
<1>0. Shape /\ s \in Session /\ s \notin Rtc
    BY ShapeHolds, ProtocolAssumption DEF Shape
<1>a. up \in BOOLEAN /\ \A t \in Rtc : Publishing(t) => ref[t] \in pool \cap marked
    BY DEF LockInv, CrossTypeOK, RtcHeld
<1>1. CASE RtmpEnter(s)
    BY <1>1, EnterLock DEF RtmpEnter
<1>2. CASE RtmpHookFails(s) \/ RtmpStartFails(s) \/ Left(s)
    <2>1. Leave(s) /\ at[s] # "idle"
          /\ UNCHANGED <<pool, marked, bridge, disposing, up>>
        BY <1>2 DEF RtmpHookFails, RtmpStartFails, Left
    <2>2. ~Publishing(s)'
        BY <1>0, <2>1 DEF Leave, Goto, Publishing, Shape
    <2>3. OneRtc' /\ Kinds'
        BY <2>1 DEF LockInv, OneRtc, Kinds
    <2> QED BY <1>0, <1>a, <2>1, <2>2, <2>3, HolderLock DEF Shape
<1>3. CASE RtmpBusy(s)
    <2>1. Leave(s) /\ at[s] # "idle" /\ UNCHANGED <<disposing, up>>
        BY <1>3 DEF RtmpBusy
    <2>2. ~Publishing(s)'
        BY <1>0, <2>1 DEF Leave, Goto, Publishing, Shape
    <2>3. CASE Fetched({})
        <3>1. pool' = pool /\ marked' = marked /\ bridge' = bridge
            BY <1>0, <2>3 DEF Fetched, Marks, Bridges, Shape
        <3>2. OneRtc' /\ Kinds'
            BY <3>1 DEF LockInv, OneRtc, Kinds
        <3> QED BY <1>0, <1>a, <2>1, <2>2, <3>1, <3>2, HolderLock DEF Shape
    <2>4. CASE \E r \in FetchOrCreate(RtcSrc) : Fetched({r})
        <3>1. PICK r \in FetchOrCreate(RtcSrc) : Fetched({r})
            BY <2>4
        <3>2. {r} \in SUBSET Source
            BY FetchFacts DEF Source
        <3>3. OneRtc' /\ \A t \in Rtc : Publishing(t) => ref[t] \in pool' \cap marked'
            BY <3>1, <3>2, FetchRtc DEF Fetched, OneRtc
        <3>4. pool' \subseteq Source /\ marked' \subseteq Source
              /\ bridge' \in [Source -> SUBSET Source] /\ Kinds'
            BY <1>0, <3>1, <3>2, FetchTypes, KindsStep DEF Fetched, Shape, LockInv
        <3> QED BY <1>a, <2>1, <2>2, <3>3, <3>4, HolderLock
    <2> QED BY <1>3, <2>3, <2>4 DEF RtmpBusy
<1>4. CASE RtmpAcquire(s)
    <2>1. PICK r \in FetchOrCreate(RtcSrc), x \in FetchOrCreate(SrtSrc) :
              /\ {ref[s], r, x} \cap Marks({r, x}) = {}
              /\ pool' = pool \cup {r, x}
              /\ marked' = Marks({r, x}) \cup {ref[s]}
              /\ bridge' = [Bridges({r, x}) EXCEPT
                              ![ref[s]] = IF RtmpToRtc THEN {r} ELSE {}]
        BY <1>4 DEF RtmpAcquire
    <2>2. Goto(s, "starting") /\ at[s] = "hooks"
          /\ UNCHANGED <<tokens, ref, disposing, up>>
        BY <1>4 DEF RtmpAcquire
    <2>3. x \in SrtSrc /\ r \in RtcSrc
          /\ {r, x} \in SUBSET Source /\ {r, x} \cap RtcSrc \subseteq {r}
        BY FetchFacts, SourceAssumption DEF Source
    <2>4. ref[s] \in Source /\ ref[s] \in LiveSrc
        BY <2>2 DEF LockInv, OwnSources, Source
    <2>5. pool' \subseteq Source /\ marked' \subseteq Source
          /\ bridge' \in [Source -> SUBSET Source]
        BY <1>0, <2>1, <2>3, <2>4, FetchTypes DEF Shape
    <2>8. Kinds'
        <3>1. \A y \in Source : \/ bridge'[y] \in {{}, bridge[y]}
                                \/ y = ref[s] /\ bridge'[y] \subseteq RtcSrc
            <4>1. /\ Bridges({r, x}) \in [Source -> SUBSET Source]
                  /\ \A y \in Source : Bridges({r, x})[y] \in {{}, bridge[y]}
                BY <1>0, <2>3, FetchTypes
            <4>2. \A y \in Source :
                      bridge'[y] = IF y = ref[s] THEN IF RtmpToRtc THEN {r} ELSE {}
                                   ELSE Bridges({r, x})[y]
                BY <2>1, <4>1
            <4> QED BY <2>3, <4>1, <4>2
        <3> QED BY <2>4, <3>1, KindsStep DEF LockInv
    <2>6. OneRtc' /\ \A t \in Rtc : ~Publishing(t)
        BY <2>1, <2>3, FetchRtc DEF OneRtc
    <2>7. \A t \in Session : ~Publishing(t)
        <3>1. \A t \in Rtmp \cup Srt : t # s => at[t] = "idle"
            BY <1>0, <2>2, SessionAssumption DEF LockInv, Tokens, Shape
        <3> QED BY <2>2, <2>6, <3>1, ProtocolAssumption DEF Publishing
    <2> QED BY <1>0, <1>a, <2>2, <2>5, <2>6, <2>7, <2>8, HolderLock
<1>5. CASE RtmpStarted(s) \/ RtmpUnpublish(s) \/ RtmpUnpublished(s)
    <2>1. at[s] # "idle" /\ Publishing(s)
        BY <1>0, <1>5 DEF RtmpStarted, RtmpUnpublish, RtmpUnpublished, Publishing
    <2>2. UNCHANGED <<tokens, pool, ref, disposing>>
          /\ \E pc \in {"starting", "publishing", "closing", "leaving"} : Goto(s, pc)
        BY <1>5 DEF RtmpStarted, RtmpUnpublish, RtmpUnpublished
    <2>3. marked' \subseteq Source /\ bridge' \in [Source -> SUBSET Source]
          /\ up' \in BOOLEAN /\ Kinds'
        <3>1. ref[s] \in Source
            BY <2>1 DEF LockInv, OwnSources, Source
        <3>2. \A x \in Source : bridge'[x] \in {{}, bridge[x]}
            BY <1>0, <1>5, <3>1
            DEF Shape, RtmpStarted, RtmpUnpublish, RtmpUnpublished
        <3>3. Kinds'
            BY <3>2, KindsStep DEF LockInv
        <3> QED BY <1>0, <1>5, <1>a, <3>1, <3>3
                DEF Shape, RtmpStarted, RtmpUnpublish, RtmpUnpublished,
                    BridgeBuilt
    <2>4. OneRtc'
        BY <2>2 DEF LockInv, OneRtc
    <2>5. pool' \subseteq Source
        BY <1>0, <2>2 DEF Shape
    <2> QED BY <2>1, <2>2, <2>3, <2>4, <2>5, HolderAlone, HolderLock
<1> QED BY <1>1, <1>2, <1>3, <1>4, <1>5 DEF RtmpStep

LEMMA SrtLock ==
    ASSUME LockInv, NEW s \in Srt, SrtStep(s)
    PROVE  LockInv'
<1>0. Shape /\ s \in Session /\ s \notin Rtc
    BY ShapeHolds, ProtocolAssumption DEF Shape
<1>a. up \in BOOLEAN /\ \A t \in Rtc : Publishing(t) => ref[t] \in pool \cap marked
    BY DEF LockInv, CrossTypeOK, RtcHeld
<1>1. CASE SrtEnter(s)
    BY <1>1, EnterLock DEF SrtEnter
<1>2. CASE SrtHookFails(s) \/ SrtStartFails(s) \/ Left(s)
    <2>1. /\ at[s] # "idle"
          /\ UNCHANGED <<pool, marked, bridge, disposing, up>>
          /\ \/ Leave(s)
             \/ Goto(s, "leaving") /\ UNCHANGED <<tokens, ref>>
        BY <1>2 DEF SrtHookFails, SrtStartFails, Left
    <2>2. ~Publishing(s)'
        BY <1>0, <2>1 DEF Leave, Goto, Publishing, Shape
    <2>3. OneRtc' /\ Kinds'
        BY <2>1 DEF LockInv, OneRtc, Kinds
    <2> QED BY <1>0, <1>a, <2>1, <2>2, <2>3, HolderLock DEF Shape
<1>3. CASE SrtBusy(s)
    <2>1. Goto(s, "leaving") /\ at[s] # "idle"
          /\ UNCHANGED <<tokens, ref, disposing, up>>
        BY <1>3 DEF SrtBusy
    <2>2. ~Publishing(s)'
        BY <1>0, <2>1 DEF Goto, Publishing, Shape
    <2>3. PICK X \in SUBSET LiveSrc : Fetched(X)
        <3>1. \A l \in FetchOrCreate(LiveSrc) : {l} \in SUBSET LiveSrc
            BY FetchFacts
        <3> QED BY <1>3, <3>1 DEF SrtBusy
    <2>4. X \in SUBSET Source /\ X \cap RtcSrc = {}
        BY SourceAssumption DEF Source
    <2>5. pool' \subseteq Source /\ marked' \subseteq Source
          /\ bridge' \in [Source -> SUBSET Source] /\ Kinds'
        BY <1>0, <2>3, <2>4, FetchTypes, KindsStep DEF Fetched, Shape, LockInv
    <2>6. OneRtc' /\ \A t \in Rtc : Publishing(t) => ref[t] \in pool' \cap marked'
        BY <1>a, <2>3, <2>4 DEF Fetched, Marks, LockInv, OneRtc
    <2> QED BY <1>a, <2>1, <2>2, <2>5, <2>6, HolderLock
<1>4. CASE SrtAcquire(s) \/ SrtBuilderFails(s)
    <2>a. PICK l \in FetchOrCreate(LiveSrc), r \in FetchOrCreate(RtcSrc) :
              \E X \in {{ref[s], l}, {ref[s]}} : SrtPublish(s, l, r, X)
        BY <1>4 DEF SrtAcquire, SrtBuilderFails
    <2>1. PICK X \in {{ref[s], l}, {ref[s]}} : SrtPublish(s, l, r, X)
        BY <2>a
    <2>2. at[s] = "hooks" /\ UNCHANGED <<tokens, ref, disposing, up>>
          /\ \E pc \in {"starting", "publishing", "closing", "leaving"} : Goto(s, pc)
        BY <1>4, <2>1 DEF SrtAcquire, SrtBuilderFails, SrtPublish
    <2>3. l \in LiveSrc /\ r \in RtcSrc
          /\ {l, r} \in SUBSET Source /\ {l, r} \cap RtcSrc \subseteq {r}
        BY FetchFacts, SourceAssumption DEF Source
    <2>4. ref[s] \in Source /\ ref[s] \in SrtSrc
        BY <2>2 DEF LockInv, OwnSources, Source
    <2>5. pool' \subseteq Source /\ marked' \subseteq Source
          /\ bridge' \in [Source -> SUBSET Source]
        BY <1>0, <2>1, <2>3, <2>4, FetchTypes DEF Shape, SrtPublish
    <2>8. Kinds'
        <3>1. \A y \in Source : \/ bridge'[y] \in {{}, bridge[y]}
                                \/ y = ref[s] /\ bridge'[y] \subseteq LiveSrc \cup RtcSrc
            <4>1. /\ Bridges({l, r}) \in [Source -> SUBSET Source]
                  /\ \A y \in Source : Bridges({l, r})[y] \in {{}, bridge[y]}
                BY <1>0, <2>3, FetchTypes
            <4>2. \A y \in Source : y # ref[s] => bridge'[y] = Bridges({l, r})[y]
                BY <2>1, <4>1 DEF SrtPublish
            <4>3. \/ bridge'[ref[s]] = Bridges({l, r})[ref[s]]
                  \/ bridge'[ref[s]] \subseteq {l, r}
                BY <2>1, <2>4, <4>1 DEF SrtPublish
            <4> QED BY <2>3, <2>4, <4>1, <4>2, <4>3
        <3> QED BY <2>4, <3>1, KindsStep DEF LockInv
    <2>6. OneRtc' /\ \A t \in Rtc : ~Publishing(t)
        BY <2>1, <2>3, FetchRtc DEF OneRtc, SrtPublish
    <2>7. \A t \in Session : ~Publishing(t)
        <3>1. \A t \in Rtmp \cup Srt : t # s => at[t] = "idle"
            BY <1>0, <2>2, SessionAssumption DEF LockInv, Tokens, Shape
        <3> QED BY <2>2, <2>6, <3>1, ProtocolAssumption DEF Publishing
    <2> QED BY <1>0, <1>a, <2>2, <2>5, <2>6, <2>7, <2>8, HolderLock
<1>5. CASE SrtStarted(s) \/ SrtUnpublish(s) \/ SrtUnpublished(s)
    <2>1. at[s] # "idle" /\ Publishing(s)
        BY <1>0, <1>5 DEF SrtStarted, SrtUnpublish, SrtUnpublished, Publishing
    <2>2. UNCHANGED <<tokens, pool, ref, disposing>>
          /\ \E pc \in {"starting", "publishing", "closing", "leaving"} : Goto(s, pc)
        BY <1>5 DEF SrtStarted, SrtUnpublish, SrtUnpublished
    <2>3. marked' \subseteq Source /\ bridge' \in [Source -> SUBSET Source]
          /\ up' \in BOOLEAN /\ Kinds'
        <3>1. ref[s] \in Source
            BY <2>1 DEF LockInv, OwnSources, Source
        <3>2. \A x \in Source : bridge'[x] \in {{}, bridge[x]}
            BY <1>0, <1>5, <3>1 DEF Shape, SrtStarted, SrtUnpublish, SrtUnpublished
        <3>3. Kinds'
            BY <3>2, KindsStep DEF LockInv
        <3> QED BY <1>0, <1>5, <1>a, <3>1, <3>3
                DEF Shape, SrtStarted, SrtUnpublish, SrtUnpublished, BridgeBuilt
    <2>4. OneRtc'
        BY <2>2 DEF LockInv, OneRtc
    <2>5. pool' \subseteq Source
        BY <1>0, <2>2 DEF Shape
    <2> QED BY <2>1, <2>2, <2>3, <2>4, <2>5, HolderAlone, HolderLock
<1> QED BY <1>1, <1>2, <1>3, <1>4, <1>5 DEF SrtStep
-----------------------------------------------------------------------------
(***************************************************************************)
(* RTC sessions.                                                           *)
(***************************************************************************)
\* A step of an RTC session that leaves the pool and the token alone.
LEMMA RtcLockStep ==
    ASSUME LockInv, NEW s \in Rtc,
           UNCHANGED <<tokens, pool>>,
           \A t \in Session : t # s => at'[t] = at[t] /\ ref'[t] = ref[t],
           at' \in [Session -> Pc], ref' \in [Session -> Source \cup {None}],
           at'[s] \in {"idle", "created", "starting", "stalled",
                       "publishing", "closing"},
           at'[s] # "idle" => at[s] # "idle" /\ ref'[s] = ref[s],
           marked' \subseteq Source, bridge' \in [Source -> SUBSET Source],
           up' \in BOOLEAN, disposing' \subseteq Rtc, Kinds',
           disposing' \subseteq disposing \cup {s},
           s \in disposing' => at'[s] # "idle",
           Publishing(s)' => Publishing(s) /\ ref[s] \in marked',
           \A t \in Rtc : t # s /\ Publishing(t) => ref[t] \in marked'
    PROVE  LockInv'
<1>0. Shape /\ s \in Session /\ s \notin Rtmp \cup Srt
    BY ShapeHolds, ProtocolAssumption DEF Shape
<1>1. CrossTypeOK'
    BY <1>0 DEF LockInv, CrossTypeOK, TokenTypeOK
<1>2. Places' /\ OwnSources' /\ Tokens'
    BY <1>0 DEF LockInv, Places, OwnSources, Tokens, Shape
<1>3. OneRtc'
    BY DEF LockInv, OneRtc
<1>4. \A t \in Session : t # s => (Publishing(t)' <=> Publishing(t))
    BY DEF Publishing
<1>5. \A t \in Rtc : Publishing(t)' =>
          Publishing(t) /\ ref'[t] = ref[t] /\ ref[t] \in marked'
    <2>1. Publishing(s)' => at'[s] # "idle"
        BY DEF Publishing
    <2> QED BY <1>0, <1>4, <2>1 DEF Shape
<1>6. \A t \in Rtc : Publishing(t)' => ref'[t] \in pool' \cap marked'
    BY <1>5 DEF LockInv, RtcHeld
<1> QED BY <1>0, <1>1, <1>2, <1>3, <1>6, LockStep

LEMMA RtcCreateLock ==
    ASSUME LockInv, NEW s \in Rtc, RtcCreate(s)
    PROVE  LockInv' /\ \A t \in Session : ~Publishing(t)
<1>0. Shape /\ s \in Session /\ s \notin Rtmp \cup Srt
    BY ShapeHolds, ProtocolAssumption DEF Shape
<1>1. PICK r \in FetchOrCreate(RtcSrc), x \in FetchOrCreate(SrtSrc),
           L \in IF RtcToRtmp THEN {{l} : l \in FetchOrCreate(LiveSrc)} ELSE {{}} :
         LET X == {r, x} \cup L
         IN  /\ (X \cup (pool \cap LiveSrc)) \cap Marks(X) = {}
             /\ pool' = pool \cup X
             /\ marked' = Marks(X) \cup {r}
             /\ bridge' = [Bridges(X) EXCEPT ![r] = IF RtcToRtmp THEN L ELSE @]
             /\ up' = (RtcToRtmp => Bridges(X)[r] = {})
             /\ ref' = [ref EXCEPT ![s] = r]
    BY DEF RtcCreate
<1> DEFINE X == {r, x} \cup L
<1>2. r \in RtcSrc /\ x \in SrtSrc /\ L \subseteq LiveSrc
    BY FetchFacts
<1>3. X \in SUBSET Source /\ r \in X /\ X \cap RtcSrc \subseteq {r}
      /\ L \in SUBSET Source /\ r \in Source
    BY <1>2, SourceAssumption DEF Source
<1>4. /\ r \notin Marks(X)
      /\ pool' = pool \cup X
      /\ marked' = Marks(X) \cup {r}
      /\ bridge' = [Bridges(X) EXCEPT ![r] = IF RtcToRtmp THEN L ELSE @]
      /\ up' \in BOOLEAN
      /\ ref' = [ref EXCEPT ![s] = r]
    BY <1>1
<1>5. at[s] = "idle" /\ tokens[Stream] = None /\ at' = [at EXCEPT ![s] = "created"]
      /\ UNCHANGED <<tokens, disposing>>
    BY DEF RtcCreate, Goto
<1> HIDE DEF X
<1>6. \A t \in Session : ~Publishing(t)
    <2>1. \A t \in Rtmp \cup Srt : at[t] = "idle"
        BY <1>0, <1>5, SessionAssumption DEF LockInv, Tokens, Shape
    <2>2. \A t \in Rtc : ~Publishing(t)
        BY <1>3, <1>4, FetchRtc
    <2> QED BY <2>1, <2>2, ProtocolAssumption DEF Publishing
<1>7. CrossTypeOK'
    BY <1>0, <1>3, <1>4, <1>5, FetchTypes
    DEF LockInv, CrossTypeOK, TokenTypeOK, Shape, Pc
<1>12. Kinds'
    <2>1. \A y \in Source : \/ bridge'[y] \in {{}, bridge[y]}
                            \/ y = r /\ bridge'[y] \subseteq LiveSrc
        BY <1>0, <1>2, <1>3, <1>4, FetchTypes
    <2> QED BY <1>2, <2>1, KindsStep DEF LockInv
<1>8. Places' /\ OwnSources' /\ Tokens'
    BY <1>0, <1>2, <1>4, <1>5, ProtocolAssumption
    DEF LockInv, Places, OwnSources, Tokens, Shape
<1>9. OneRtc'
    BY <1>3, <1>4, FetchRtc DEF OneRtc
<1>10. \A t \in Session : t # s => at'[t] = at[t] /\ ref'[t] = ref[t]
    BY <1>0, <1>4, <1>5 DEF Shape
<1>11. \A t \in Rtc : Publishing(t)' => ref'[t] \in pool' \cap marked'
    <2>1. \A t \in Rtc : Publishing(t)' => t = s
        BY <1>0, <1>6, <1>10 DEF Publishing, Shape
    <2> QED BY <1>0, <1>3, <1>4, <2>1 DEF Shape
<1> QED BY <1>0, <1>6, <1>7, <1>8, <1>9, <1>10, <1>11, <1>12, LockStep

LEMMA RtcRefusedLock ==
    ASSUME LockInv, NEW s \in Rtc, RtcRefused(s)
    PROVE  LockInv'
<1>0. Shape /\ s \in Session
    BY ShapeHolds DEF Shape
<1>1. PICK r \in FetchOrCreate(RtcSrc) :
          Fetched({r}) /\ up' = (Bridges({r})[r] = {})
    BY DEF RtcRefused
<1>2. {r} \in SUBSET Source /\ {r} \cap RtcSrc \subseteq {r}
    BY FetchFacts DEF Source
<1>3. UNCHANGED <<tokens, ref, at, disposing>>
    BY DEF RtcRefused
<1>4. CrossTypeOK'
    BY <1>0, <1>1, <1>2, <1>3, FetchTypes
    DEF LockInv, CrossTypeOK, TokenTypeOK, Shape, Fetched
<1>5. Places' /\ OwnSources' /\ Tokens' /\ Kinds'
    <2>1. Kinds'
        BY <1>0, <1>1, <1>2, FetchTypes, KindsStep DEF Fetched, LockInv
    <2> QED BY <1>3, <2>1 DEF LockInv, Places, OwnSources, Tokens
<1>6. OneRtc' /\ \A t \in Rtc : Publishing(t) => ref[t] \in pool' \cap marked'
    BY <1>1, <1>2, FetchRtc DEF OneRtc, Fetched
<1>7. \A t \in Session : Publishing(t)' <=> Publishing(t)
    BY <1>3 DEF Publishing
<1>8. \A t \in Rtc : t \in Session
    BY <1>0 DEF Shape
<1> QED BY <1>0, <1>3, <1>4, <1>5, <1>6, <1>7, <1>8, LockStep

LEMMA RtcLock ==
    ASSUME LockInv, NEW s \in Rtc, RtcStep(s)
    PROVE  LockInv'
<1>0. Shape /\ s \in Session
    BY ShapeHolds DEF Shape
<1>a. up \in BOOLEAN /\ \A t \in Rtc : Publishing(t) => ref[t] \in pool \cap marked
    BY DEF LockInv, CrossTypeOK, RtcHeld
<1>b. at[s] # "idle" => ref[s] \in Source
    BY DEF LockInv, OwnSources, Source
<1>1. CASE RtcCreate(s)
    BY <1>1, RtcCreateLock
<1>2. CASE RtcRefused(s)
    BY <1>2, RtcRefusedLock
<1>3. CASE RtcStart(s) \/ RtcBuilderFails(s) \/ RtcStartFails(s) \/ RtcStarted(s)
           \/ RtcDispose(s)
    <2>1. Publishing(s) /\ at[s] # "idle"
        BY <1>0, <1>3 DEF RtcStart, RtcBuilderFails, RtcStartFails, RtcStarted,
                          RtcDispose, Publishing
    <2>2. /\ UNCHANGED <<tokens, pool, bridge, ref, up>>
          /\ at' = at \/ \E pc \in {"starting", "stalled", "publishing"} :
                            Goto(s, pc)
          /\ disposing' = disposing \/ disposing' = disposing \cup {s}
          /\ marked \subseteq marked'
        BY <1>3 DEF RtcStart, RtcBuilderFails, RtcStartFails, RtcStarted,
                    RtcDispose
    <2>3. marked' \subseteq Source
        BY <1>0, <1>3, <1>b, <2>1
        DEF RtcStart, RtcBuilderFails, RtcStartFails, RtcStarted, RtcDispose, Shape
    <2>4. at' \in [Session -> Pc] /\ at'[s] \in {"created", "starting",
              "stalled", "publishing", "closing"}
          /\ \A t \in Session : t # s => at'[t] = at[t]
        BY <1>0, <2>1, <2>2 DEF Goto, Shape, Pc, LockInv, Places
    <2>5. Kinds'
        BY <2>2 DEF LockInv, Kinds
    <2> QED BY <1>0, <1>a, <2>1, <2>2, <2>3, <2>4, <2>5, RtcLockStep DEF Shape
<1>4. CASE RtcFree(s)
    <2>1. at[s] # "idle" /\ Publishing(s)
        BY <1>0, <1>4 DEF RtcFree, LockInv, Places, Publishing
    <2>2. \A t \in Rtc : t # s => ~Publishing(t)
        BY <1>0, <2>1 DEF LockInv, AtMostOne, Shape
    <2>3. /\ UNCHANGED <<tokens, pool>>
          /\ up' \in BOOLEAN
          /\ marked' \subseteq marked
          /\ bridge' \in [Source -> SUBSET Source]
          /\ disposing' \subseteq disposing
        BY <1>0, <1>4, <1>b, <2>1 DEF RtcFree, Shape
    <2>4. /\ at' = [at EXCEPT ![s] = "closing"] /\ ref' = ref
          \/ /\ at' = [at EXCEPT ![s] = "idle"]
             /\ ref' = [ref EXCEPT ![s] = None]
             /\ disposing' = disposing \ {s}
        BY <1>4 DEF RtcFree, Goto
    <2>5. ~Publishing(s)'
        BY <1>0, <2>4 DEF Publishing, Shape
    <2>6. /\ at' \in [Session -> Pc] /\ at'[s] \in {"idle", "closing"}
          /\ ref' \in [Session -> Source \cup {None}]
          /\ \A t \in Session : t # s => at'[t] = at[t] /\ ref'[t] = ref[t]
          /\ at'[s] # "idle" => ref'[s] = ref[s]
          /\ s \in disposing' => at'[s] # "idle"
        BY <1>0, <2>4 DEF Shape, Pc
    <2>7. Kinds'
        <3>1. \A x \in Source : bridge'[x] \in {{}, bridge[x]}
            BY <1>0, <1>4 DEF RtcFree, Shape
        <3> QED BY <3>1, KindsStep DEF LockInv
    <2> QED BY <1>0, <1>a, <2>1, <2>2, <2>3, <2>5, <2>6, <2>7, RtcLockStep DEF Shape
<1>5. CASE RtcFreed(s)
    <2>1. at[s] = "closing" /\ ref[s] \in RtcSrc
        BY <1>5 DEF RtcFreed, LockInv, OwnSources
    <2>2. /\ UNCHANGED <<tokens, pool, up>>
          /\ marked' = marked \ bridge[ref[s]]
          /\ bridge' = [bridge EXCEPT ![ref[s]] = {}]
          /\ disposing' = disposing \ {s}
          /\ ref' = [ref EXCEPT ![s] = None]
          /\ at' = [at EXCEPT ![s] = "idle"]
        BY <1>5 DEF RtcFreed, Goto
    <2>3. Kinds'
        <3>1. \A x \in Source : bridge'[x] \in {{}, bridge[x]}
            BY <1>0, <2>2 DEF Shape
        <3> QED BY <3>1, KindsStep DEF LockInv
    <2>4. \A t \in Rtc : Publishing(t) => ref[t] \in marked'
        <3>1. bridge[ref[s]] \cap RtcSrc = {}
            BY <2>1, SourceAssumption DEF LockInv, Kinds
        <3>2. \A t \in Rtc : Publishing(t) => ref[t] \in RtcSrc
            BY DEF LockInv, OwnSources, Publishing
        <3> QED BY <1>a, <2>2, <3>1, <3>2
    <2>5. ~Publishing(s)' /\ marked' \subseteq Source
          /\ bridge' \in [Source -> SUBSET Source]
        BY <1>0, <2>2 DEF Publishing, Shape
    <2> QED BY <1>0, <1>a, <2>1, <2>2, <2>3, <2>4, <2>5, RtcLockStep DEF Shape, Pc
<1> QED BY <1>1, <1>2, <1>3, <1>4, <1>5 DEF RtcStep
-----------------------------------------------------------------------------
\* The timers leave the sources of the RTC sessions that publish alone: they
\* are marked.
LEMMA DiesLock ==
    ASSUME LockInv, NEW x \in Source, Dies(x)
    PROVE  LockInv'
<1>1. x \notin marked /\ pool' = pool \ {x}
      /\ UNCHANGED <<tokens, marked, bridge, ref, at, disposing, up>>
    BY DEF Dies
<1>2. CrossTypeOK' /\ Places' /\ OwnSources' /\ OneRtc' /\ Kinds' /\ Tokens'
    BY <1>1 DEF LockInv, CrossTypeOK, TokenTypeOK, Places, OwnSources, OneRtc,
                Kinds, Tokens
<1>3. \A s \in Session \cup Rtc : Publishing(s)' <=> Publishing(s)
    BY <1>1 DEF Publishing
<1>4. RtcHeld' /\ AtMostOne'
    BY <1>1, <1>3 DEF LockInv, RtcHeld, AtMostOne
<1> QED BY <1>2, <1>4 DEF LockInv

LEMMA LockNext == LockInv /\ [CrossNext]_cvars => LockInv'
<1> SUFFICES ASSUME LockInv, [CrossNext]_cvars PROVE LockInv'
    OBVIOUS
<1>1. CASE \E x \in Source : Dies(x)
    BY <1>1, DiesLock
<1>2. CASE UNCHANGED cvars
    BY <1>2
    DEF LockInv, CrossTypeOK, TokenTypeOK, Places, OwnSources, OneRtc, Kinds,
        Tokens, RtcHeld, AtMostOne, Publishing, cvars
<1> QED BY <1>1, <1>2, RtmpLock, SrtLock, RtcLock
        DEF CrossNext, LiveNotify, RtcNotify, SrtNotify, Source

LEMMA LockInvariance == CrossSpec => []LockInv
BY LockInit, LockNext, PTL DEF CrossSpec

\* Every variable keeps its type, over all protocols.
THEOREM CrossTypeCorrect == CrossSpec => []CrossTypeOK
<1>1. LockInv => CrossTypeOK
    BY DEF LockInv
<1> QED BY <1>1, LockInvariance, PTL
-----------------------------------------------------------------------------
(***************************************************************************)
(* The refinement: PublisherOf is the session that publishes, and a step   *)
(* that moves one session starts or stops the lock of the stream.          *)
(***************************************************************************)
PublisherExact ==
    /\ PublisherOf = [u \in Url |-> PublisherOf[u]]
    /\ \A s \in Session : Publishing(s) => PublisherOf[Stream] = s
    /\ (\A s \in Session : ~Publishing(s)) => PublisherOf[Stream] = None
    /\ \A u \in Url : u # Stream => PublisherOf[u] = None

LEMMA PublisherIsExact == LockInv => PublisherExact
<1> SUFFICES ASSUME LockInv PROVE PublisherExact
    OBVIOUS
<1>1. ASSUME NEW s \in Session, Publishing(s)
      PROVE  PublisherOf[Stream] = s
    <2> DEFINE c == CHOOSE t \in Session : Publishing(t)
    <2>1. PublisherOf[Stream] = c
        BY <1>1, StreamAssumption DEF PublisherOf
    <2>2. c \in Session /\ Publishing(c)
        BY <1>1
    <2> QED BY <1>1, <2>1, <2>2 DEF LockInv, AtMostOne
<1> QED BY <1>1, StreamAssumption DEF PublisherExact, PublisherOf

\* Steps of sessions move only themselves, the timers nobody.
LEMMA OneSessionMoves ==
    ASSUME LockInv, CrossNext
    PROVE  at' = at \/ \E s \in Session : \A t \in Session : t # s => at'[t] = at[t]
<1>1. ASSUME NEW s \in Rtmp, RtmpStep(s)
      PROVE  \A t \in Session : t # s => at'[t] = at[t]
    BY <1>1, ShapeHolds
    DEF RtmpStep, RtmpEnter, Enter, RtmpHookFails, RtmpBusy, RtmpAcquire,
        RtmpStartFails, RtmpStarted, RtmpUnpublish, RtmpUnpublished, Left,
        Leave, Goto, Shape
<1>2. ASSUME NEW s \in Srt, SrtStep(s)
      PROVE  \A t \in Session : t # s => at'[t] = at[t]
    BY <1>2, ShapeHolds
    DEF SrtStep, SrtEnter, Enter, SrtHookFails, SrtBusy, SrtAcquire,
        SrtBuilderFails, SrtStartFails, SrtStarted, SrtUnpublish,
        SrtUnpublished, Left, Leave, Goto, Shape
<1>3. ASSUME NEW s \in Rtc, RtcStep(s)
      PROVE  \A t \in Session : t # s => at'[t] = at[t]
    BY <1>3, ShapeHolds
    DEF RtcStep, RtcCreate, RtcRefused, RtcStart, RtcBuilderFails,
        RtcStartFails, RtcStarted, RtcDispose, RtcFree, RtcFreed, Goto, Shape
<1>4. CASE LiveNotify \/ RtcNotify \/ SrtNotify
    BY <1>4 DEF LiveNotify, RtcNotify, SrtNotify, Dies
<1> QED BY <1>1, <1>2, <1>3, <1>4, ProtocolAssumption DEF CrossNext

\* CrossPublish implements PublishLock.
THEOREM CrossPublishIsLock == CrossSpec => ImplementsLock
<1>1. CrossInit => Lock!LockInit
    <2> SUFFICES ASSUME CrossInit PROVE Lock!LockInit
        OBVIOUS
    <2>1. \A s \in Session : ~Publishing(s)
        BY DEF CrossInit, Publishing
    <2> QED BY <2>1 DEF Lock!LockInit, PublisherOf
<1>2. LockInv /\ LockInv' /\ PublisherExact /\ PublisherExact'
      /\ [CrossNext]_cvars => [Lock!LockNext]_PublisherOf
    <2> SUFFICES ASSUME LockInv, LockInv', PublisherExact, PublisherExact',
                        [CrossNext]_cvars
                 PROVE  Lock!LockNext \/ UNCHANGED PublisherOf
        OBVIOUS
    <2>1. CASE at' = at
        BY <2>1 DEF PublisherOf, Publishing
    <2>2. CASE CrossNext /\ at' # at
        <3>1. PICK s \in Session : \A t \in Session : t # s => at'[t] = at[t]
            BY <2>2, OneSessionMoves
        <3>2. \A t \in Session : t # s => (Publishing(t)' <=> Publishing(t))
            BY <3>1 DEF Publishing
        <3>3. ASSUME PublisherOf'[Stream] = PublisherOf[Stream]
              PROVE  PublisherOf' = PublisherOf
            BY <3>3 DEF PublisherExact
        <3>4. CASE Publishing(s) <=> Publishing(s)'
            BY <3>2, <3>3, <3>4 DEF PublisherExact
        <3>5. CASE Publishing(s)' /\ ~Publishing(s)
            <4>1. PublisherOf[Stream] = None /\ PublisherOf'[Stream] = s
                BY <3>2, <3>5 DEF PublisherExact, LockInv, AtMostOne
            <4>2. PublisherOf' = [PublisherOf EXCEPT ![Stream] = s]
                BY <4>1 DEF PublisherExact
            <4> QED BY <4>1, <4>2, StreamAssumption
                    DEF Lock!LockNext, Lock!Start
        <3>6. CASE Publishing(s) /\ ~Publishing(s)'
            <4>1. PublisherOf[Stream] = s /\ PublisherOf'[Stream] = None
                BY <3>2, <3>6 DEF PublisherExact, LockInv, AtMostOne
            <4>2. PublisherOf' = [PublisherOf EXCEPT ![Stream] = None]
                BY <4>1 DEF PublisherExact
            <4> QED BY <4>1, <4>2, StreamAssumption
                    DEF Lock!LockNext, Lock!Stop
        <3> QED BY <3>4, <3>5, <3>6
    <2> QED BY <2>1, <2>2 DEF cvars
<1> QED BY <1>1, <1>2, LockInvariance, PublisherIsExact, PTL
        DEF CrossSpec, ImplementsLock, Lock!LockSpec
-----------------------------------------------------------------------------
(***************************************************************************)
(* What the sessions feed.                                                 *)
(***************************************************************************)
\* The marks of the sources a session feeds.
FedMarked(s) ==
    /\ at[s] = "starting" => Feeds(s) \subseteq marked
    /\ at[s] = "publishing" => bridge[ref[s]] \subseteq marked
    /\ at[s] = "closing" /\ up => bridge[ref[s]] \subseteq marked
    /\ at[s] \in {"starting", "publishing"} => ref[s] \in marked
    /\ at[s] = "closing" /\ s \in Rtmp => ref[s] \in marked
    /\ at[s] = "closing" /\ s \in Rtc => bridge[ref[s]] # {}

\* A live source that is fed through a bridge has none of its own.
FeedsPlain(s) == s \notin Rtmp => \A l \in Feeds(s) : bridge[l] = {}

LiveBridgesMarked == \A l \in LiveSrc : bridge[l] # {} => l \in marked

\* The bridge of an RTC source feeds one live source, for a session.
RtcOwned ==
    \A r \in RtcSrc :
        /\ \A l, m \in bridge[r] : l = m
        /\ bridge[r] # {} =>
               RtcToRtmp /\ \E c \in Rtc : at[c] # "idle" /\ ref[c] = r

SrtPlain == ~SrtToRtmp => \A x \in SrtSrc : bridge[x] = {}

NoPair == \A l \in LiveSrc, r \in RtcSrc : ~(r \in bridge[l] /\ l \in bridge[r])

\* No RTC source is marked while an RTMP or SRT session is in the hub.
StartQuiet ==
    \A s \in Rtmp \cup Srt : at[s] = "starting" => RtcSrc \cap marked = {}

\* RTC sessions have sources of their own.
OwnRtc ==
    up => \A s, t \in Rtc : s # t /\ at[s] # "idle" /\ at[t] # "idle"
                            => ref[s] # ref[t]

FeedInv ==
    /\ \A s \in Session : FedMarked(s) /\ FeedsPlain(s)
    /\ LiveBridgesMarked
    /\ RtcOwned
    /\ SrtPlain
    /\ NoPair
    /\ StartQuiet
    /\ OwnRtc
    /\ RtcBusyHasPublisher
    /\ LiveFedByOne

\* The session feeds nothing.
Aside(pc) == pc \in {"idle", "hooks", "leaving"}

\* The session t and what it feeds are left alone.
Kept(t) ==
    /\ at'[t] = at[t]
    /\ ~Aside(at[t]) =>
         /\ ref'[t] = ref[t] /\ bridge'[ref[t]] = bridge[ref[t]]
         /\ bridge[ref[t]] \cap marked \subseteq marked'
         /\ Publishing(t) /\ ref[t] \in marked => ref[t] \in marked'
         /\ \A y \in bridge[ref[t]] : bridge'[y] \in {{}, bridge[y]}

\* A step of the session s, seen from the others.
LEMMA FeedStep ==
    ASSUME LockInv, FeedInv, up, NEW s \in Session,
           \A t \in Session : t # s => \/ Kept(t)
                                       \/ ~up' /\ FedMarked(t)' /\ FeedsPlain(t)',
           FedMarked(s)', FeedsPlain(s)',
           up' => \A t \in Session : t # s => Feeds(s)' \cap Feeds(t) = {},
           LiveBridgesMarked', RtcOwned', SrtPlain', NoPair', StartQuiet',
           OwnRtc', RtcBusyHasPublisher'
    PROVE  FeedInv'
<1>1. ASSUME NEW t \in Session, t # s
      PROVE  FedMarked(t)' /\ FeedsPlain(t)' /\ (up' => Feeds(t)' = Feeds(t))
    <2>1. CASE Aside(at[t]) /\ at'[t] = at[t]
        BY <2>1 DEF Aside, FedMarked, FeedsPlain, Feeds
    <2>2. CASE Kept(t) /\ ~Aside(at[t])
        <3>1. Feeds(t)' = Feeds(t) /\ Feeds(t) \subseteq {ref[t]} \cup bridge[ref[t]]
            BY <2>2 DEF Kept, Feeds
        <3>2. FedMarked(t)'
            <4>1. FedMarked(t)
                BY DEF FeedInv
            <4>2. at[t] = "closing" /\ t \in Rtmp => Publishing(t)
                BY ProtocolAssumption DEF Publishing
            <4>3. at[t] \in {"starting", "publishing"} => Publishing(t)
                BY DEF Publishing
            <4>4. at[t] = "starting" => Feeds(t)' \subseteq marked'
                BY <2>2, <3>1, <4>1, <4>3 DEF Kept, FedMarked
            <4> QED BY <2>2, <4>1, <4>2, <4>3, <4>4 DEF Kept, FedMarked
        <3>3. FeedsPlain(t)'
            <4>1. CASE t \in Rtmp
                BY <4>1 DEF FeedsPlain
            <4>2. CASE t \notin Rtmp
                <5>1. Feeds(t) \subseteq bridge[ref[t]]
                    BY <4>2, ProtocolAssumption, SourceAssumption
                    DEF Feeds, LockInv, OwnSources
                <5> QED BY <2>2, <3>1, <4>2, <5>1 DEF Kept, FeedsPlain, FeedInv
            <4> QED BY <4>1, <4>2
        <3> QED BY <3>1, <3>2, <3>3
    <2>3. CASE ~up' /\ FedMarked(t)' /\ FeedsPlain(t)'
        BY <2>3
    <2> QED BY <1>1, <2>1, <2>2, <2>3 DEF Kept
<1>2. LiveFedByOne'
    BY <1>1 DEF LiveFedByOne, FeedInv
<1> QED BY <1>1, <1>2 DEF FeedInv

\* Nothing the properties of the feeders speak of changes.
LEMMA FeedSame ==
    ASSUME FeedInv, UNCHANGED <<marked, bridge, ref, at, up>>
    PROVE  FeedInv'
BY DEF FeedInv, FedMarked, FeedsPlain, Feeds, LiveBridgesMarked, RtcOwned,
       SrtPlain, NoPair, StartQuiet, OwnRtc, RtcBusyHasPublisher, LiveFedByOne, Publishing

Fresh(X) == X \in SUBSET Source /\ \A x \in X : x \in pool \/ x \notin Referenced

\* What sessions refer to keeps its marks and bridges in a fetch.
LEMMA Frame ==
    ASSUME LockInv, NEW X, Fresh(X), NEW t \in Session, at[t] # "idle",
           NEW y \in {ref[t]} \cup bridge[ref[t]]
    PROVE  (y \in marked => y \in Marks(X)) /\ Bridges(X)[y] = bridge[y]
           /\ y \in Source
<1>1. ref[t] \in Source /\ ref[t] # None
    BY ProtocolAssumption, SourceAssumption DEF LockInv, OwnSources, Source
<1>2. bridge[ref[t]] \subseteq Source
    BY <1>1, ShapeHolds DEF Shape
<1> DEFINE held == pool \cup ({ref[s] : s \in Session} \ {None})
<1>3. ref[t] \in held
    BY <1>1
<1>4. y \in WithBridged(held)
    BY <1>3 DEF WithBridged
<1>5. Referenced = WithBridged(WithBridged(WithBridged(held)))
    BY DEF Referenced
<1> HIDE DEF held
<1>6. y \in Referenced
    BY <1>4, <1>5 DEF WithBridged
<1> QED BY <1>1, <1>2, <1>6 DEF Fresh, Marks, Bridges


\* A fetch by a session that feeds nothing, before and after.
LEMMA QuietFeed ==
    ASSUME LockInv, LockInv', FeedInv, up, NEW s \in Session, NEW X, Fresh(X),
           marked' = Marks(X), bridge' = Bridges(X),
           Aside(at[s]), Aside(at'[s]),
           \A t \in Session : t # s => at'[t] = at[t] /\ ref'[t] = ref[t]
    PROVE  FeedInv'
<1>0. Shape
    BY ShapeHolds
<1>1. \A y \in Source : bridge'[y] \in {{}, bridge[y]}
    BY <1>0, FetchTypes DEF Fresh
<1>2. \A t \in Session : t # s => Kept(t)
    BY Frame DEF Kept, Aside
<1>3. FedMarked(s)' /\ FeedsPlain(s)' /\ Feeds(s)' = {}
    BY DEF FedMarked, FeedsPlain, Feeds, Aside
<1>4. LiveBridgesMarked'
    BY DEF Marks, Bridges, LiveBridgesMarked, FeedInv, Source
<1>5. RtcOwned'
    <2>1. s \in Rtc => at[s] = "idle"
        BY DEF LockInv, Places, Aside
    <2>2. \A c \in Rtc : at[c] # "idle" => at'[c] # "idle" /\ ref'[c] = ref[c]
        BY <1>0, <2>1 DEF Shape
    <2>3. \A r \in RtcSrc : bridge'[r] \in {{}, bridge[r]}
        BY <1>1 DEF Source
    <2> QED BY <2>2, <2>3 DEF RtcOwned, FeedInv
<1>6. NoPair' /\ SrtPlain'
    <2>1. \A y \in LiveSrc \cup RtcSrc : bridge'[y] \in {{}, bridge[y]}
        BY <1>1 DEF Source
    <2>2. SrtPlain'
        BY <1>1 DEF SrtPlain, FeedInv, Source
    <2> QED BY <2>1, <2>2 DEF NoPair, FeedInv
<1>7. StartQuiet' /\ OwnRtc'
    <2>1. marked' \subseteq marked
        BY DEF Marks
    <2>2. \A t \in Session : at'[t] = "starting" => at[t] = "starting"
        BY <1>0 DEF Shape, Aside
    <2>3. s \in Rtc => at'[s] = "idle"
        BY DEF LockInv, Places, Aside
    <2> QED BY <1>0, <2>1, <2>2, <2>3 DEF StartQuiet, OwnRtc, FeedInv, Shape
<1>8. RtcBusyHasPublisher'
    <2>1. \A t \in Session : Publishing(t) => t # s /\ ~Aside(at[t])
        BY DEF Publishing, Aside
    <2>2. \A t \in Session : Publishing(t) =>
              Publishing(t)' /\ ref'[t] = ref[t] /\ bridge'[ref[t]] = bridge[ref[t]]
        BY <1>2, <2>1 DEF Publishing, Kept
    <2>3. marked' \subseteq marked
        BY DEF Marks
    <2> QED BY <2>2, <2>3 DEF RtcBusyHasPublisher, FeedInv
<1> QED BY <1>2, <1>3, <1>4, <1>5, <1>6, <1>7, <1>8, FeedStep

\* A session that does not publish is aside, or an RTC session that is being
\* freed and has still to unpublish a live source.
LEMMA ClosingFeeds ==
    ASSUME LockInv, FeedInv, up, NEW t \in Session, ~Publishing(t), ~Aside(at[t])
    PROVE  /\ t \in Rtc /\ at[t] = "closing" /\ ref[t] \in RtcSrc
           /\ Feeds(t) = bridge[ref[t]] /\ bridge[ref[t]] \subseteq LiveSrc \cap marked
<1>1. t \in Rtc /\ at[t] = "closing"
    BY ProtocolAssumption DEF LockInv, Places, Publishing, Aside
<1>2. ref[t] \in RtcSrc
    BY <1>1 DEF LockInv, OwnSources
<1>3. bridge[ref[t]] \subseteq LiveSrc /\ bridge[ref[t]] \subseteq marked
    BY <1>1, <1>2 DEF LockInv, Kinds, FeedInv, FedMarked
<1>4. Feeds(t) = bridge[ref[t]]
    BY <1>1, <1>2, <1>3, SourceAssumption DEF Feeds
<1> QED BY <1>1, <1>2, <1>3, <1>4

\* A session that publishes marks what it feeds, or just moves on.
LEMMA MarkFeed ==
    ASSUME LockInv, LockInv', FeedInv, up, NEW s \in Session,
           Publishing(s), Publishing(s)', at'[s] = "starting" => s \in Rtc,
           UNCHANGED <<bridge, ref>>,
           marked \subseteq marked',
           marked' \subseteq marked \cup {ref[s]} \cup bridge[ref[s]],
           FedMarked(s)',
           \A t \in Session : t # s => at'[t] = at[t]
    PROVE  FeedInv'
<1>1. \A t \in Session : t # s => Kept(t)
    BY DEF Kept
<1>2. Feeds(s)' = Feeds(s)
    BY DEF Feeds, Publishing
<1>3. FeedsPlain(s)'
    BY <1>2 DEF FeedsPlain, FeedInv
<1>4. up' => \A t \in Session : t # s => Feeds(s)' \cap Feeds(t) = {}
    BY <1>2 DEF FeedInv, LiveFedByOne
<1>5. LiveBridgesMarked' /\ NoPair' /\ SrtPlain'
    BY DEF LiveBridgesMarked, NoPair, SrtPlain, FeedInv
<1>6. at[s] # "idle" /\ at'[s] # "idle"
    BY DEF Publishing
<1>a. \A t \in Rtmp \cup Srt \cup Rtc : t \in Session
    BY ShapeHolds DEF Shape
<1>7. RtcOwned' /\ OwnRtc'
    <2>1. \A t \in Rtc : at'[t] # "idle" <=> at[t] # "idle"
        BY <1>6, <1>a
    <2>2. OwnRtc'
        BY <2>1 DEF OwnRtc, FeedInv
    <2>3. RtcOwned'
        BY <2>1 DEF RtcOwned, FeedInv
    <2> QED BY <2>2, <2>3
<1>8. StartQuiet'
    <2>1. \A t \in Rtmp \cup Srt : at'[t] # "starting"
        <3>1. \A t \in Rtmp \cup Srt : at[t] = "starting" => t = s
            BY <1>a DEF LockInv, AtMostOne, Publishing
        <3> QED BY <1>a, <3>1, ProtocolAssumption
    <2> QED BY <2>1 DEF StartQuiet
<1>9. RtcBusyHasPublisher'
    <2>1. \A t \in Session : Publishing(t) => Publishing(t)'
        BY DEF Publishing
    <2> QED BY <2>1 DEF RtcBusyHasPublisher, FeedInv
<1> QED BY <1>1, <1>3, <1>4, <1>5, <1>7, <1>8, <1>9, FeedStep

\* A session takes the marks Y back, of what it feeds and of its own source.
LEMMA TearFeed ==
    ASSUME LockInv, LockInv', FeedInv, up, NEW s \in Session, NEW Y,
           \/ Publishing(s) /\ Y \subseteq {ref[s]} \cup bridge[ref[s]]
           \/ s \in Rtc /\ at[s] = "closing" /\ Y \subseteq bridge[ref[s]],
           marked' = marked \ Y,
           bridge' = bridge \/ bridge' = [bridge EXCEPT ![ref[s]] = {}],
           ref[s] \in Y \cap LiveSrc => bridge'[ref[s]] = {},
           s \in Rtc /\ at'[s] = "idle" => bridge'[ref[s]] = {},
           \/ Aside(at'[s])
           \/ at'[s] = "closing" /\ ref'[s] = ref[s] /\ bridge' = bridge,
           FedMarked(s)',
           \A t \in Session : t # s => at'[t] = at[t] /\ ref'[t] = ref[t],
           \/ RtcSrc \cap ({ref[s]} \cup bridge[ref[s]]) \subseteq Y
           \/ RtcSrc \cap marked = {}
           \/ s \in Rtc /\ at[s] = "closing"
           \/ Publishing(s)' /\ bridge' = bridge
    PROVE  FeedInv'
<1>0. Shape /\ \A t \in Rtmp \cup Srt \cup Rtc : t \in Session
    BY ShapeHolds DEF Shape
<1>a. ref[s] \in Source /\ ~Aside(at[s])
    <2>1. at[s] # "idle" /\ ~Aside(at[s])
        BY DEF Publishing, Aside
    <2> QED BY <2>1, ProtocolAssumption DEF LockInv, OwnSources, Source
<1>b. \A y \in Source : bridge'[y] \in {{}, bridge[y]}
    BY <1>0 DEF Shape
<1>c. Feeds(s) = LiveSrc \cap ({ref[s]} \cup bridge[ref[s]])
    BY DEF Feeds, Publishing
<1>1. ASSUME NEW t \in Session, t # s, ~Aside(at[t])
      PROVE  /\ ref[t] # ref[s]
             /\ bridge[ref[t]] \cap Y = {}
             /\ Publishing(t) => ref[t] \notin Y
    <2>1. Feeds(s) \cap Feeds(t) = {}
        BY <1>1 DEF FeedInv, LiveFedByOne
    <2>2. CASE Publishing(s)
        <3>1. ~Publishing(t)
            BY <1>1, <2>2 DEF LockInv, AtMostOne
        <3>2. /\ t \in Rtc /\ at[t] = "closing" /\ ref[t] \in RtcSrc
              /\ Feeds(t) = bridge[ref[t]] /\ bridge[ref[t]] \subseteq LiveSrc
            BY <1>1, <3>1, ClosingFeeds
        <3>3. ref[t] # ref[s]
            <4>1. CASE s \in Rtc
                BY <1>1, <1>a, <3>2, <4>1 DEF FeedInv, OwnRtc, Aside
            <4>2. CASE s \notin Rtc
                BY <1>a, <3>2, <4>2, ProtocolAssumption, SourceAssumption
                DEF LockInv, OwnSources, Aside
            <4> QED BY <4>1, <4>2
        <3> QED BY <1>c, <2>1, <2>2, <3>1, <3>2, <3>3, ProtocolAssumption
                DEF Publishing
    <2>3. CASE s \in Rtc /\ at[s] = "closing" /\ Y \subseteq bridge[ref[s]]
        <3>1. ref[s] \in RtcSrc /\ bridge[ref[s]] \subseteq LiveSrc
            BY <2>3 DEF LockInv, OwnSources, Kinds
        <3>2. Feeds(t) = LiveSrc \cap ({ref[t]} \cup bridge[ref[t]])
            <4>1. at[t] \in {"created", "starting", "stalled", "publishing",
                             "closing"}
                BY <1>1, ProtocolAssumption DEF LockInv, Places, Aside
            <4> QED BY <4>1 DEF Feeds
        <3>3. ref[t] # ref[s]
            <4>1. CASE t \in Rtc
                BY <1>1, <1>a, <2>3, <4>1 DEF FeedInv, OwnRtc, Aside
            <4>2. CASE t \notin Rtc
                BY <1>1, <3>1, <4>2, ProtocolAssumption, SourceAssumption
                DEF LockInv, OwnSources, Aside
            <4> QED BY <4>1, <4>2
        <3> QED BY <1>c, <2>1, <2>3, <3>1, <3>2, <3>3
    <2> QED BY <2>2, <2>3
<1>2. ASSUME NEW t \in Session, t # s
      PROVE  Kept(t)
    <2>1. CASE Aside(at[t])
        BY <1>2, <2>1 DEF Kept
    <2>2. CASE ~Aside(at[t])
        <3>1. ref[t] \in Source /\ bridge[ref[t]] \subseteq Source
            BY <1>0, <2>2, ProtocolAssumption
            DEF LockInv, OwnSources, Source, Aside, Shape
        <3> QED BY <1>0, <1>1, <1>2, <1>b, <2>2, <3>1 DEF Kept, Shape
    <2> QED BY <2>1, <2>2
<1>3. Feeds(s)' \subseteq Feeds(s)
    BY <1>c DEF Feeds, Aside
<1>4. FeedsPlain(s)'
    <2>1. \A l \in LiveSrc : bridge[l] = {} => bridge'[l] = {}
        BY <1>b DEF Source
    <2>2. Feeds(s) \subseteq LiveSrc
        BY <1>c
    <2> QED BY <1>3, <2>1, <2>2 DEF FeedsPlain, FeedInv
<1>5. up' => \A t \in Session : t # s => Feeds(s)' \cap Feeds(t) = {}
    BY <1>3 DEF FeedInv, LiveFedByOne
<1>6. LiveBridgesMarked'
    <2>1. ASSUME NEW l \in LiveSrc, bridge'[l] # {}, l \in Y
          PROVE  FALSE
        <3>1. bridge[l] # {} /\ l # ref[s]
            BY <1>b, <2>1 DEF Source
        <3>2. l \in bridge[ref[s]] /\ l \in Feeds(s)
            BY <1>c, <2>1, <3>1
        <3>3. s \in Rtmp => bridge[ref[s]] \subseteq RtcSrc
            BY <1>a DEF LockInv, OwnSources, Kinds, Aside
        <3> QED BY <3>1, <3>2, <3>3, SourceAssumption DEF FeedInv, FeedsPlain
    <2>2. \A l \in LiveSrc : bridge'[l] # {} => bridge[l] # {}
        BY <1>b DEF Source
    <2> QED BY <2>1, <2>2 DEF LiveBridgesMarked, FeedInv
<1>7. RtcOwned'
    <2>1. ASSUME NEW r \in RtcSrc, bridge'[r] # {}
          PROVE  RtcToRtmp /\ \E c \in Rtc : at'[c] # "idle" /\ ref'[c] = r
        <3>1. PICK c \in Rtc : at[c] # "idle" /\ ref[c] = r
            BY <1>b, <2>1 DEF RtcOwned, FeedInv, Source
        <3>2. RtcToRtmp
            BY <1>b, <2>1 DEF RtcOwned, FeedInv, Source
        <3>3. CASE c # s
            BY <1>0, <3>1, <3>2, <3>3
        <3>4. CASE c = s
            <4>1. at'[s] # "idle"
                BY <2>1, <3>1, <3>4
            <4>2. at'[s] = "closing" /\ ref'[s] = ref[s]
                BY <3>1, <3>4, <4>1 DEF LockInv, Places, Aside
            <4> QED BY <3>1, <3>2, <3>4, <4>1, <4>2
        <3> QED BY <3>3, <3>4
    <2>2. \A r \in RtcSrc : bridge'[r] \subseteq bridge[r]
        BY <1>b DEF Source
    <2> QED BY <2>1, <2>2 DEF RtcOwned, FeedInv
<1>8. NoPair' /\ SrtPlain'
    <2>1. \A y \in LiveSrc \cup RtcSrc : bridge'[y] \subseteq bridge[y]
        BY <1>b DEF Source
    <2>2. SrtPlain'
        BY <1>b DEF SrtPlain, FeedInv, Source
    <2> QED BY <2>1, <2>2 DEF NoPair, FeedInv
<1>9. StartQuiet' /\ OwnRtc'
    <2>1. \A t \in Session : at'[t] = "starting" => at[t] = "starting"
        BY DEF Aside
    <2>2. StartQuiet'
        BY <1>0, <2>1 DEF StartQuiet, FeedInv
    <2>3. \A t \in Rtc : at'[t] # "idle" => at[t] # "idle" /\ ref'[t] = ref[t]
        <3>1. s \in Rtc /\ at'[s] # "idle" => at[s] # "idle" /\ ref'[s] = ref[s]
            BY <1>a DEF LockInv, Places, Aside
        <3> QED BY <1>0, <3>1
    <2>4. OwnRtc'
        BY <2>3 DEF OwnRtc, FeedInv
    <2> QED BY <2>2, <2>4
<1>10. RtcBusyHasPublisher'
    <2> SUFFICES ASSUME NEW r \in RtcSrc, r \in marked'
                 PROVE  \E t \in Session :
                            Publishing(t)' /\ r \in {ref'[t]} \cup bridge'[ref'[t]]
        BY DEF RtcBusyHasPublisher
    <2>1. PICK t \in Session : Publishing(t) /\ r \in {ref[t]} \cup bridge[ref[t]]
        BY DEF RtcBusyHasPublisher, FeedInv
    <2>2. CASE t # s
        <3>1. ~Aside(at[t])
            BY <2>1 DEF Publishing, Aside
        <3>2. Publishing(t)'
            BY <2>1, <2>2 DEF Publishing
        <3> QED BY <1>2, <2>1, <2>2, <3>1, <3>2 DEF Kept
    <2>3. CASE t = s
        <3>1. Publishing(s)' /\ bridge' = bridge
            BY <2>1, <2>3 DEF Publishing
        <3>2. ref'[s] = ref[s]
            BY <3>1 DEF Publishing, Aside
        <3> QED BY <2>1, <2>3, <3>1, <3>2
    <2> QED BY <2>2, <2>3
<1> QED BY <1>2, <1>4, <1>5, <1>6, <1>7, <1>8, <1>9, <1>10, FeedStep
-----------------------------------------------------------------------------
(***************************************************************************)
(* The acquisitions: nobody publishes, and what is fetched is not marked.  *)
(***************************************************************************)
\* The session s fetches X, sets what its own source f feeds, and marks M.
\* The live sources it is to publish, f or those that f feeds, are open.
LEMMA AcquireFeed ==
    ASSUME LockInv, LockInv', FeedInv, up, NEW s \in Session, NEW X, Fresh(X),
           \A t \in Session : ~Publishing(t),
           Aside(at[s]),
           NEW f \in Source, ref'[s] = f,
           \A y \in Source : y # f => bridge'[y] = Bridges(X)[y],
           NEW M, marked' = Marks(X) \cup M, f \in M,
           LiveSrc \cap ({f} \cup bridge'[f]) \cap Marks(X) = {},
           f \in LiveSrc => s \in Rtmp,
           f \in SrtSrc /\ ~SrtToRtmp => bridge'[f] \subseteq bridge[f],
           f \in RtcSrc => /\ s \in Rtc /\ at'[s] = "created"
                           /\ \A l, m \in bridge'[f] : l = m
                           /\ bridge'[f] # {} => RtcToRtmp,
           \A t \in Rtc : at[t] = "closing" /\ ref[t] = f =>
                              ~up' /\ bridge'[f] # {},
           M \cap RtcSrc \subseteq {f},
           FedMarked(s)',
           \A t \in Session : t # s => at'[t] = at[t] /\ ref'[t] = ref[t]
    PROVE  FeedInv'
<1> DEFINE N == LiveSrc \cap ({f} \cup bridge'[f])
<1>0. Shape /\ \A t \in Rtmp \cup Srt \cup Rtc : t \in Session
    BY ShapeHolds DEF Shape
<1>a. \A y \in Source : /\ Bridges(X)[y] \in {{}, bridge[y]}
                        /\ Bridges(X)[y] # {} /\ y \in marked => y \in Marks(X)
    BY <1>0 DEF Fresh, Shape, Marks, Bridges
<1>b. ASSUME NEW t \in Session, ~Aside(at[t])
      PROVE  /\ t # s /\ t \in Rtc /\ at[t] = "closing" /\ ref[t] \in RtcSrc
             /\ Feeds(t) = bridge[ref[t]] /\ bridge[ref[t]] \subseteq LiveSrc
             /\ bridge[ref[t]] \subseteq Marks(X)
             /\ Bridges(X)[ref[t]] = bridge[ref[t]]
             /\ \A y \in bridge[ref[t]] : Bridges(X)[y] = bridge[y]
    <2>1. /\ t # s /\ t \in Rtc /\ at[t] = "closing" /\ ref[t] \in RtcSrc
          /\ Feeds(t) = bridge[ref[t]] /\ bridge[ref[t]] \subseteq LiveSrc \cap marked
        BY <1>b, ClosingFeeds
    <2> QED BY <2>1, Frame
<1>c. \A l \in N : l # f => bridge'[l] = {}
    <2>1. \A l \in LiveSrc : bridge[l] # {} => l \in marked
        BY DEF FeedInv, LiveBridgesMarked
    <2> QED BY <1>a, <2>1 DEF Source
<1>d. Feeds(s)' \subseteq N
    BY DEF Feeds
<1>1. ASSUME NEW t \in Session, t # s
      PROVE  Kept(t) \/ (~up' /\ FedMarked(t)' /\ FeedsPlain(t)')
    <2>1. CASE Aside(at[t])
        BY <1>1, <2>1 DEF Kept
    <2>2. CASE ~Aside(at[t]) /\ ref[t] # f
        <3>1. bridge'[ref[t]] = bridge[ref[t]]
            BY <1>b, <2>2 DEF Source
        <3>2. \A y \in bridge[ref[t]] : bridge'[y] = bridge[y]
            BY <1>b, <2>2 DEF Source
        <3> QED BY <1>1, <1>b, <2>2, <3>1, <3>2 DEF Kept
    <2>3. CASE ~Aside(at[t]) /\ ref[t] = f
        <3>1. t \in Rtc /\ at[t] = "closing" /\ f \in RtcSrc
            BY <1>b, <2>3
        <3>2. ~up' /\ bridge'[f] # {} /\ at'[t] = "closing" /\ ref'[t] = f
            BY <1>1, <2>3, <3>1
        <3>3. FedMarked(t)'
            BY <3>1, <3>2, ProtocolAssumption DEF FedMarked
        <3>4. Feeds(t)' \subseteq N /\ f \notin LiveSrc
            BY <3>1, <3>2, SourceAssumption DEF Feeds
        <3>5. FeedsPlain(t)'
            BY <1>c, <3>4 DEF FeedsPlain
        <3> QED BY <3>2, <3>3, <3>5
    <2> QED BY <2>1, <2>2, <2>3
<1>2. FeedsPlain(s)'
    BY <1>c, <1>d DEF FeedsPlain
<1>3. \A t \in Session : t # s => Feeds(s)' \cap Feeds(t) = {}
    <2>1. \A t \in Session : Aside(at[t]) => Feeds(t) = {}
        BY DEF Feeds, Aside
    <2> QED BY <1>b, <1>d, <2>1
<1>4. LiveBridgesMarked'
    <2>1. \A l \in LiveSrc : bridge[l] # {} => l \in marked
        BY DEF FeedInv, LiveBridgesMarked
    <2> QED BY <1>a, <2>1 DEF LiveBridgesMarked, Source
<1>5. s \in Rtc => at[s] = "idle"
    BY DEF LockInv, Places, Aside
<1>6. RtcOwned'
    <2>1. ASSUME NEW r \in RtcSrc, r # f
          PROVE  /\ \A l, m \in bridge'[r] : l = m
                 /\ bridge'[r] # {} =>
                      RtcToRtmp /\ \E c \in Rtc : at'[c] # "idle" /\ ref'[c] = r
        <3>1. bridge'[r] \in {{}, bridge[r]}
            BY <1>a, <2>1 DEF Source
        <3>2. \A c \in Rtc : at[c] # "idle" => at'[c] # "idle" /\ ref'[c] = ref[c]
            BY <1>0, <1>5
        <3> QED BY <3>1, <3>2 DEF RtcOwned, FeedInv
    <2>2. f \in RtcSrc =>
              /\ \A l, m \in bridge'[f] : l = m
              /\ bridge'[f] # {} =>
                   RtcToRtmp /\ \E c \in Rtc : at'[c] # "idle" /\ ref'[c] = f
        OBVIOUS
    <2> QED BY <2>1, <2>2 DEF RtcOwned
<1>7. SrtPlain'
    BY <1>a DEF SrtPlain, FeedInv, Source
<1>8. NoPair'
    <2> SUFFICES ASSUME NEW l \in LiveSrc, NEW r \in RtcSrc,
                        r \in bridge'[l], l \in bridge'[r]
                 PROVE  FALSE
        BY DEF NoPair
    <2>1. CASE r = f
        BY <1>c, <2>1, SourceAssumption
    <2>2. CASE l = f
        <3>1. l \in bridge[r]
            BY <1>a, <2>2, SourceAssumption DEF Source
        <3>2. PICK c \in Rtc : at[c] # "idle" /\ ref[c] = r
            BY <3>1 DEF FeedInv, RtcOwned
        <3>3. ~Aside(at[c])
            BY <3>2 DEF LockInv, Places, Aside
        <3>4. l \in Marks(X)
            BY <1>0, <1>b, <3>1, <3>2, <3>3
        <3> QED BY <2>2, <3>4
    <2>3. CASE r # f /\ l # f
        BY <1>a, <2>3 DEF NoPair, FeedInv, Source
    <2> QED BY <2>1, <2>2, <2>3
<1>9. RtcSrc \cap marked = {}
    BY DEF FeedInv, RtcBusyHasPublisher
<1>10. StartQuiet'
    <2>1. \A t \in Session : t # s => at'[t] # "starting"
        BY DEF Publishing
    <2>2. at'[s] = "starting" => RtcSrc \cap marked' = {}
        BY <1>9 DEF Marks
    <2> QED BY <1>0, <2>1, <2>2 DEF StartQuiet
<1>11. RtcBusyHasPublisher'
    <2>1. \A r \in RtcSrc \cap marked' : r = f /\ at'[s] = "created"
        BY <1>9 DEF Marks
    <2> QED BY <2>1 DEF RtcBusyHasPublisher, Publishing
<1>12. OwnRtc'
    <2>1. ASSUME up', NEW t \in Rtc, NEW u \in Rtc, t # u,
                 at'[t] # "idle", at'[u] # "idle", u # s
          PROVE  ref'[t] # ref'[u]
        <3>1. ref'[u] = ref[u] /\ at[u] # "idle" /\ at[u] = "closing"
            <4>1. ref'[u] = ref[u] /\ at[u] # "idle"
                BY <1>0, <2>1
            <4>2. ~Aside(at[u])
                BY <4>1 DEF LockInv, Places, Aside
            <4> QED BY <1>0, <1>b, <4>1, <4>2
        <3>2. CASE t = s
            BY <2>1, <3>1, <3>2
        <3>3. CASE t # s
            BY <1>0, <2>1, <3>1, <3>3 DEF OwnRtc, FeedInv
        <3> QED BY <3>2, <3>3
    <2> QED BY <2>1 DEF OwnRtc
<1> QED BY <1>1, <1>2, <1>3, <1>4, <1>6, <1>7, <1>8, <1>10, <1>11, <1>12, FeedStep
-----------------------------------------------------------------------------
LEMMA FetchFresh ==
    ASSUME LockInv
    PROVE  /\ Fresh({}) /\ Marks({}) = marked /\ Bridges({}) = bridge
           /\ \A x \in FetchOrCreate(LiveSrc) \cup FetchOrCreate(RtcSrc)
                       \cup FetchOrCreate(SrtSrc) :
                x \in Source /\ (x \in pool \/ x \notin Referenced)
<1>1. \A x \in FetchOrCreate(LiveSrc) \cup FetchOrCreate(RtcSrc)
               \cup FetchOrCreate(SrtSrc) :
          x \in Source /\ (x \in pool \/ x \notin Referenced)
    BY FetchFacts DEF Source
<1> QED BY <1>1, ShapeHolds DEF Fresh, Marks, Bridges, Shape

\* A session finds the RTC source open: nobody publishes.
LEMMA NobodyPublishes ==
    ASSUME LockInv, NEW s \in Rtmp \cup Srt, at[s] = "hooks",
           NEW r \in FetchOrCreate(RtcSrc), NEW X \in SUBSET Source,
           X \cap RtcSrc \subseteq {r}, r \notin Marks(X)
    PROVE  \A t \in Session : ~Publishing(t)
<1>1. \A t \in Rtc : ~Publishing(t)
    BY FetchRtc
<1>2. \A t \in Rtmp \cup Srt : t # s => at[t] = "idle"
    BY ShapeHolds, SessionAssumption DEF LockInv, Tokens, Shape
<1> QED BY <1>1, <1>2, ProtocolAssumption DEF Publishing

LEMMA RtmpFeed ==
    ASSUME LockInv, LockInv', FeedInv, up, NEW s \in Rtmp, RtmpStep(s)
    PROVE  FeedInv'
<1>0. Shape /\ s \in Session /\ s \notin Rtc /\ s \notin Srt
    BY ShapeHolds, ProtocolAssumption DEF Shape
<1>a. FedMarked(s) /\ FeedsPlain(s)
    BY <1>0 DEF FeedInv
<1>b. ref[s] \in LiveSrc \/ at[s] = "idle"
    BY DEF LockInv, OwnSources
<1>c. ref[s] \in LiveSrc => bridge[ref[s]] \subseteq RtcSrc /\ ref[s] \in Source
                            /\ ref[s] \notin RtcSrc
    BY SourceAssumption DEF LockInv, Kinds, Source
<1>1. CASE RtmpEnter(s)
    <2>1. PICK x \in FetchOrCreate(LiveSrc) :
              Fetched({x}) /\ ref' = [ref EXCEPT ![s] = x]
        BY <1>1 DEF RtmpEnter, Enter
    <2>2. Fresh({x})
        BY FetchFresh DEF Fresh
    <2>3. at' = [at EXCEPT ![s] = "hooks"] /\ Aside(at[s])
        BY <1>1 DEF RtmpEnter, Enter, Goto, Aside
    <2> QED BY <1>0, <2>1, <2>2, <2>3, QuietFeed DEF Shape, Fetched, Aside
<1>2. CASE RtmpHookFails(s) \/ RtmpBusy(s) \/ Left(s)
    <2>1. PICK X \in SUBSET Source :
              Fresh(X) /\ marked' = Marks(X) /\ bridge' = Bridges(X)
        <3>1. \A r \in FetchOrCreate(RtcSrc) : Fresh({r})
            BY FetchFresh DEF Fresh
        <3> QED BY <1>2, <3>1, FetchFresh
                DEF RtmpHookFails, RtmpBusy, Left, Fetched, Fresh
    <2>2. Leave(s) /\ Aside(at[s])
        BY <1>2 DEF RtmpHookFails, RtmpBusy, Left, Aside
    <2> QED BY <1>0, <2>1, <2>2, QuietFeed DEF Shape, Leave, Goto, Aside
<1>3. CASE RtmpAcquire(s)
    <2>1. PICK r \in FetchOrCreate(RtcSrc), x \in FetchOrCreate(SrtSrc) :
              /\ {ref[s], r, x} \cap Marks({r, x}) = {}
              /\ marked' = Marks({r, x}) \cup {ref[s]}
              /\ bridge' = [Bridges({r, x}) EXCEPT
                              ![ref[s]] = IF RtmpToRtc THEN {r} ELSE {}]
        BY <1>3 DEF RtmpAcquire
    <2>2. at' = [at EXCEPT ![s] = "starting"] /\ at[s] = "hooks" /\ ref' = ref
        BY <1>3 DEF RtmpAcquire, Goto
    <2>3. r \in RtcSrc /\ r \notin LiveSrc /\ x \in SrtSrc /\ {r, x} \in SUBSET Source
          /\ {r, x} \cap RtcSrc \subseteq {r} /\ Fresh({r, x})
        BY FetchFacts, FetchFresh, SourceAssumption DEF Fresh
    <2>4. \A t \in Session : ~Publishing(t)
        BY <2>1, <2>2, <2>3, NobodyPublishes
    <2>5. ref[s] \in LiveSrc /\ ref[s] \in Source /\ ref[s] \notin RtcSrc
          /\ ref[s] \notin SrtSrc
        BY <1>b, <1>c, <2>2, SourceAssumption
    <2>6. /\ bridge'[ref[s]] \subseteq {r}
          /\ \A y \in Source : y # ref[s] => bridge'[y] = Bridges({r, x})[y]
        BY <2>1, <2>5 DEF Bridges
    <2>7. FedMarked(s)'
        <3>1. Feeds(s)' \subseteq {ref[s]}
            BY <2>2, <2>3, <2>6 DEF Feeds
        <3> QED BY <1>0, <2>1, <2>2, <3>1 DEF FedMarked, Shape
    <2>8. \A t \in Rtc : at[t] = "closing" => ref[t] # ref[s]
        BY <2>5 DEF LockInv, OwnSources
    <2>9. LiveSrc \cap ({ref[s]} \cup bridge'[ref[s]]) \cap Marks({r, x}) = {}
        BY <2>1, <2>6
    <2>10. ref'[s] = ref[s] /\ Aside(at[s])
           /\ \A t \in Session : t # s => at'[t] = at[t] /\ ref'[t] = ref[t]
        BY <1>0, <2>2 DEF Shape, Aside
    <2> DEFINE M == {ref[s]}
    <2>11. marked' = Marks({r, x}) \cup M /\ ref[s] \in M /\ M \cap RtcSrc \subseteq {ref[s]}
        BY <2>1
    <2> HIDE DEF M
    <2> QED BY <1>0, <2>3, <2>4, <2>5, <2>6, <2>7, <2>8, <2>9, <2>10, <2>11,
               AcquireFeed
<1>4. CASE RtmpStartFails(s)
    <2>1. Leave(s) /\ at[s] = "starting" /\ UNCHANGED <<marked, bridge>>
        BY <1>4 DEF RtmpStartFails
    <2>2. RtcSrc \cap marked = {}
        BY <2>1 DEF FeedInv, StartQuiet
    <2>3. at'[s] = "idle" /\ Publishing(s)
          /\ \A t \in Session : t # s => at'[t] = at[t] /\ ref'[t] = ref[t]
        BY <1>0, <2>1 DEF Leave, Goto, Shape, Publishing
    <2>4. FedMarked(s)' /\ Aside(at'[s])
        BY <2>3 DEF FedMarked, Aside
    <2>5. marked' = marked \ {}
        BY <2>1
    <2> QED BY <1>0, <2>1, <2>2, <2>3, <2>4, <2>5, TearFeed
<1>5. CASE RtmpStarted(s) \/ RtmpUnpublish(s)
    <2>1. Publishing(s) /\ ref[s] \in marked /\ UNCHANGED <<bridge, ref>>
        BY <1>5, <1>a DEF RtmpStarted, RtmpUnpublish, Publishing, FedMarked
    <2>2. at'[s] \in {"publishing", "closing"}
          /\ \A t \in Session : t # s => at'[t] = at[t]
        BY <1>0, <1>5, <2>1 DEF RtmpStarted, RtmpUnpublish, Goto, Shape
    <2>3. marked' = marked \cup bridge[ref[s]]
        BY <1>5, <1>a DEF RtmpStarted, RtmpUnpublish, FedMarked
    <2>4. FedMarked(s)' /\ Publishing(s)'
        BY <1>0, <2>1, <2>2, <2>3 DEF FedMarked, Publishing
    <2> QED BY <1>0, <2>1, <2>2, <2>3, <2>4, MarkFeed
<1>6. CASE RtmpUnpublished(s)
    <2>1. at[s] = "closing" /\ marked' = marked \ ({ref[s]} \cup bridge[ref[s]])
          /\ bridge' = [bridge EXCEPT ![ref[s]] = {}] /\ ref' = ref
          /\ at' = [at EXCEPT ![s] = "leaving"]
        BY <1>6 DEF RtmpUnpublished, Goto
    <2>2. Publishing(s) /\ bridge'[ref[s]] = {}
        BY <1>0, <1>b, <1>c, <2>1 DEF Publishing, Shape
    <2>3. at'[s] = "leaving"
          /\ \A t \in Session : t # s => at'[t] = at[t] /\ ref'[t] = ref[t]
        BY <1>0, <2>1 DEF Shape
    <2>4. FedMarked(s)' /\ Aside(at'[s])
        BY <2>3 DEF FedMarked, Aside
    <2> DEFINE Y == {ref[s]} \cup bridge[ref[s]]
    <2>5. RtcSrc \cap Y \subseteq Y /\ Y \subseteq Y
        OBVIOUS
    <2> QED BY <1>0, <2>1, <2>2, <2>3, <2>4, <2>5, TearFeed
<1> QED BY <1>1, <1>2, <1>3, <1>4, <1>5, <1>6 DEF RtmpStep

LEMMA SrtFeed ==
    ASSUME LockInv, LockInv', FeedInv, up, NEW s \in Srt, SrtStep(s)
    PROVE  FeedInv'
<1>0. Shape /\ s \in Session /\ s \notin Rtc /\ s \notin Rtmp
    BY ShapeHolds, ProtocolAssumption DEF Shape
<1>a. FedMarked(s) /\ FeedsPlain(s)
    BY <1>0 DEF FeedInv
<1>b. ref[s] \in SrtSrc \/ at[s] = "idle"
    BY DEF LockInv, OwnSources
<1>c. ref[s] \in SrtSrc => /\ bridge[ref[s]] \subseteq LiveSrc \cup RtcSrc
                           /\ ref[s] \in Source
                           /\ ref[s] \notin LiveSrc \cup RtcSrc
    BY SourceAssumption DEF LockInv, Kinds, Source
<1>1. CASE SrtEnter(s)
    <2>1. PICK x \in FetchOrCreate(SrtSrc) :
              Fetched({x}) /\ ref' = [ref EXCEPT ![s] = x]
        BY <1>1 DEF SrtEnter, Enter
    <2>2. Fresh({x})
        BY FetchFresh DEF Fresh
    <2>3. at' = [at EXCEPT ![s] = "hooks"] /\ Aside(at[s])
        BY <1>1 DEF SrtEnter, Enter, Goto, Aside
    <2> QED BY <1>0, <2>1, <2>2, <2>3, QuietFeed DEF Shape, Fetched, Aside
<1>2. CASE SrtHookFails(s) \/ SrtBusy(s) \/ Left(s)
    <2>1. PICK X \in SUBSET Source :
              Fresh(X) /\ marked' = Marks(X) /\ bridge' = Bridges(X)
        <3>1. \A l \in FetchOrCreate(LiveSrc) : Fresh({l})
            BY FetchFresh DEF Fresh
        <3> QED BY <1>2, <3>1, FetchFresh
                DEF SrtHookFails, SrtBusy, Left, Fetched, Fresh
    <2>2. Aside(at[s]) /\ (Leave(s) \/ (Goto(s, "leaving") /\ ref' = ref))
        BY <1>2 DEF SrtHookFails, SrtBusy, Left, Aside
    <2> QED BY <1>0, <2>1, <2>2, QuietFeed DEF Shape, Leave, Goto, Aside
<1>3. CASE SrtAcquire(s) \/ SrtBuilderFails(s)
    <2>a. PICK l \in FetchOrCreate(LiveSrc), r \in FetchOrCreate(RtcSrc) :
              \E X \in {{ref[s], l}, {ref[s]}} :
                  /\ SrtPublish(s, l, r, X)
                  /\ SrtToRtmp /\ at' = [at EXCEPT ![s] = "starting"] => l \in X
        <3>1. CASE SrtAcquire(s)
            BY <3>1 DEF SrtAcquire
        <3>2. CASE SrtBuilderFails(s)
            BY <1>0, <3>2 DEF SrtBuilderFails, Goto, Shape
        <3> QED BY <1>3, <3>1, <3>2
    <2>b. PICK M \in {{ref[s], l}, {ref[s]}} :
              /\ SrtPublish(s, l, r, M)
              /\ SrtToRtmp /\ at' = [at EXCEPT ![s] = "starting"] => l \in M
        BY <2>a
    <2>1. /\ {ref[s], l, r} \cap Marks({l, r}) = {}
          /\ marked' = Marks({l, r}) \cup M
          /\ bridge' = [Bridges({l, r}) EXCEPT
                          ![ref[s]] = IF ~SrtToRtmp THEN @
                                      ELSE IF RtmpToRtc THEN {l, r} ELSE {l}]
          /\ ref' = ref
        BY <2>b DEF SrtPublish
    <2>2. /\ at[s] = "hooks"
          /\ \/ at' = [at EXCEPT ![s] = "starting"] /\ SrtToRtmp
             \/ at' = [at EXCEPT ![s] = "publishing"] /\ ~SrtToRtmp
             \/ at' = [at EXCEPT ![s] = "leaving"]
        BY <1>3 DEF SrtAcquire, SrtBuilderFails, Goto
    <2>3. r \in RtcSrc /\ l \in LiveSrc /\ {l, r} \in SUBSET Source
          /\ {l, r} \cap RtcSrc \subseteq {r} /\ Fresh({l, r})
        BY FetchFacts, FetchFresh, SourceAssumption DEF Fresh
    <2>4. \A t \in Session : ~Publishing(t)
        BY <2>1, <2>2, <2>3, NobodyPublishes
    <2>5. ref[s] \in SrtSrc /\ ref[s] \in Source /\ ref[s] \notin RtcSrc
          /\ ref[s] \notin LiveSrc
        BY <1>b, <1>c, <2>2
    <2>6. /\ SrtToRtmp => bridge'[ref[s]] \subseteq {l, r}
          /\ ~SrtToRtmp => bridge'[ref[s]] = {}
          /\ \A y \in Source : y # ref[s] => bridge'[y] = Bridges({l, r})[y]
        <3>1. ~SrtToRtmp => bridge[ref[s]] = {}
            BY <2>5 DEF FeedInv, SrtPlain
        <3>2. Bridges({l, r}) \in [Source -> SUBSET Source]
              /\ (~SrtToRtmp => Bridges({l, r})[ref[s]] = {})
            BY <1>0, <2>3, <2>5, <3>1, FetchTypes
        <3> QED BY <2>1, <2>5, <3>2
    <2>7. FedMarked(s)'
        <3>1. at'[s] = "starting" => Feeds(s)' \subseteq marked'
            <4>1. at'[s] = "starting" =>
                      SrtToRtmp /\ at' = [at EXCEPT ![s] = "starting"]
                BY <1>0, <2>2 DEF Shape
            <4>2. SrtToRtmp => Feeds(s)' \subseteq {l}
                BY <2>1, <2>3, <2>5, <2>6, SourceAssumption DEF Feeds
            <4> QED BY <2>1, <2>b, <4>1, <4>2
        <3>2. at'[s] \in {"starting", "publishing", "leaving"}
              /\ (at'[s] = "publishing" => ~SrtToRtmp)
            BY <1>0, <2>2 DEF Shape
        <3> QED BY <2>1, <2>6, <3>1, <3>2 DEF FedMarked
    <2>8. \A t \in Rtc : at[t] = "closing" => ref[t] # ref[s]
        BY <2>5 DEF LockInv, OwnSources
    <2>9. LiveSrc \cap ({ref[s]} \cup bridge'[ref[s]]) \cap Marks({l, r}) = {}
        BY <2>1, <2>5, <2>6
    <2>10. ref'[s] = ref[s] /\ Aside(at[s])
           /\ \A t \in Session : t # s => at'[t] = at[t] /\ ref'[t] = ref[t]
        BY <1>0, <2>1, <2>2 DEF Shape, Aside
    <2>11. ref[s] \in M /\ M \cap RtcSrc \subseteq {ref[s]}
        BY <2>3, SourceAssumption
    <2> QED BY <1>0, <2>1, <2>3, <2>4, <2>5, <2>6, <2>7, <2>8, <2>9, <2>10,
               <2>11, AcquireFeed
<1>4. CASE SrtStartFails(s)
    <2>1. at' = [at EXCEPT ![s] = "leaving"] /\ at[s] = "starting"
          /\ UNCHANGED <<marked, bridge, ref>>
        BY <1>4 DEF SrtStartFails, Goto
    <2>2. RtcSrc \cap marked = {}
        BY <2>1 DEF FeedInv, StartQuiet
    <2>3. at'[s] = "leaving" /\ Publishing(s)
          /\ \A t \in Session : t # s => at'[t] = at[t] /\ ref'[t] = ref[t]
        BY <1>0, <2>1 DEF Shape, Publishing
    <2>4. FedMarked(s)' /\ Aside(at'[s])
        BY <2>3 DEF FedMarked, Aside
    <2>5. marked' = marked \ {}
        BY <2>1
    <2>6. ref[s] \notin {} \cap LiveSrc
        OBVIOUS
    <2> QED BY <1>0, <2>1, <2>2, <2>3, <2>4, <2>5, <2>6, TearFeed
<1>5. CASE SrtStarted(s)
    <2>1. Publishing(s) /\ ref[s] \in marked /\ UNCHANGED <<bridge, ref>>
          /\ marked' = marked \cup bridge[ref[s]]
        BY <1>5, <1>a DEF SrtStarted, Publishing, FedMarked
    <2>2. at'[s] = "publishing" /\ \A t \in Session : t # s => at'[t] = at[t]
        BY <1>0, <1>5 DEF SrtStarted, Goto, Shape
    <2>3. FedMarked(s)' /\ Publishing(s)'
        BY <2>1, <2>2 DEF FedMarked, Publishing
    <2> QED BY <1>0, <2>1, <2>2, <2>3, MarkFeed
<1>6. CASE SrtUnpublish(s)
    <2>1. /\ at[s] = "publishing" /\ marked' = marked \ {ref[s]}
          /\ UNCHANGED <<bridge, ref>>
          /\ at' = [at EXCEPT ![s] = IF ref[s] \in marked /\ bridge[ref[s]] # {}
                                     THEN "closing" ELSE "leaving"]
        BY <1>6 DEF SrtUnpublish, Goto
    <2>2. Publishing(s) /\ ref[s] \in marked /\ bridge[ref[s]] \subseteq marked
          /\ ref[s] \notin bridge[ref[s]] /\ ref[s] \notin LiveSrc
        BY <1>a, <1>b, <1>c, <2>1 DEF Publishing, FedMarked
    <2>3. /\ \/ at'[s] = "leaving" /\ bridge[ref[s]] = {}
             \/ at'[s] = "closing"
          /\ \A t \in Session : t # s => at'[t] = at[t] /\ ref'[t] = ref[t]
        BY <1>0, <2>1, <2>2 DEF Shape
    <2>4. FedMarked(s)' /\ (Aside(at'[s]) \/ at'[s] = "closing")
        BY <1>0, <2>1, <2>2, <2>3 DEF FedMarked, Aside
    <2> DEFINE Y == {ref[s]}
    <2>5. \/ RtcSrc \cap ({ref[s]} \cup bridge[ref[s]]) \subseteq Y
          \/ Publishing(s)' /\ bridge' = bridge
        BY <1>0, <2>1, <2>3 DEF Publishing
    <2>6. marked' = marked \ Y /\ Y \subseteq {ref[s]} \cup bridge[ref[s]]
          /\ ref[s] \notin Y \cap LiveSrc
        BY <2>1, <2>2
    <2> HIDE DEF Y
    <2> QED BY <1>0, <2>1, <2>2, <2>3, <2>4, <2>5, <2>6, TearFeed
<1>7. CASE SrtUnpublished(s)
    <2>1. at[s] = "closing" /\ marked' = marked \ bridge[ref[s]]
          /\ bridge' = [bridge EXCEPT ![ref[s]] = {}] /\ ref' = ref
          /\ at' = [at EXCEPT ![s] = "leaving"]
        BY <1>7 DEF SrtUnpublished, Goto
    <2>2. Publishing(s) /\ ref[s] \notin LiveSrc \cup RtcSrc
        BY <1>0, <1>b, <1>c, <2>1 DEF Publishing
    <2>3. at'[s] = "leaving"
          /\ \A t \in Session : t # s => at'[t] = at[t] /\ ref'[t] = ref[t]
        BY <1>0, <2>1 DEF Shape
    <2>4. FedMarked(s)' /\ Aside(at'[s])
        BY <2>3 DEF FedMarked, Aside
    <2> DEFINE Y == bridge[ref[s]]
    <2>5. RtcSrc \cap ({ref[s]} \cup bridge[ref[s]]) \subseteq Y
          /\ Y \subseteq {ref[s]} \cup bridge[ref[s]] /\ ref[s] \notin Y \cap LiveSrc
        BY <2>2
    <2> QED BY <1>0, <2>1, <2>2, <2>3, <2>4, <2>5, TearFeed
<1> QED BY <1>1, <1>2, <1>3, <1>4, <1>5, <1>6, <1>7 DEF SrtStep

LEMMA RtcCreateFeed ==
    ASSUME LockInv, LockInv', FeedInv, up, NEW s \in Rtc, RtcCreate(s)
    PROVE  FeedInv'
<1>0. Shape /\ s \in Session /\ s \notin Rtmp
    BY ShapeHolds, ProtocolAssumption DEF Shape
<1>1. PICK r \in FetchOrCreate(RtcSrc), x \in FetchOrCreate(SrtSrc),
           L \in IF RtcToRtmp THEN {{l} : l \in FetchOrCreate(LiveSrc)} ELSE {{}} :
         LET X == {r, x} \cup L
         IN  /\ (X \cup (pool \cap LiveSrc)) \cap Marks(X) = {}
             /\ pool' = pool \cup X
             /\ marked' = Marks(X) \cup {r}
             /\ bridge' = [Bridges(X) EXCEPT ![r] = IF RtcToRtmp THEN L ELSE @]
             /\ up' = (RtcToRtmp => Bridges(X)[r] = {})
             /\ ref' = [ref EXCEPT ![s] = r]
    BY DEF RtcCreate
<1> DEFINE X == {r, x} \cup L
           M == {r}
<1>2. r \in RtcSrc /\ r \in Source /\ r \notin LiveSrc \cup SrtSrc
      /\ L \subseteq LiveSrc /\ X \in SUBSET Source /\ Fresh(X)
    BY FetchFacts, FetchFresh, SourceAssumption DEF Fresh
<1>3. /\ X \cap Marks(X) = {} /\ L \subseteq X
      /\ marked' = Marks(X) \cup M
      /\ bridge' = [Bridges(X) EXCEPT ![r] = IF RtcToRtmp THEN L ELSE @]
      /\ up' = (RtcToRtmp => Bridges(X)[r] = {})
      /\ ref' = [ref EXCEPT ![s] = r]
      /\ r \in M /\ M \cap RtcSrc \subseteq {r}
      /\ RtcToRtmp => \E l \in Source : L = {l}
    BY <1>1, FetchFacts DEF Source
<1> HIDE DEF X, M
<1>4. at[s] = "idle" /\ Aside(at[s]) /\ at' = [at EXCEPT ![s] = "created"]
    BY DEF RtcCreate, Goto, Aside
<1>5. \A t \in Session : ~Publishing(t)
    BY RtcCreateLock
<1>6. at'[s] = "created" /\ ref'[s] = r
      /\ \A t \in Session : t # s => at'[t] = at[t] /\ ref'[t] = ref[t]
    BY <1>0, <1>3, <1>4 DEF Shape
<1>7. ~RtcToRtmp => bridge[r] = {}
    BY <1>2 DEF FeedInv, RtcOwned
<1>8. /\ Bridges(X) \in [Source -> SUBSET Source]
      /\ ~RtcToRtmp => Bridges(X)[r] = {}
    BY <1>0, <1>2, <1>7, FetchTypes
<1>9. /\ RtcToRtmp => bridge'[r] = L
      /\ ~RtcToRtmp => bridge'[r] = {}
      /\ \A y \in Source : y # r => bridge'[y] = Bridges(X)[y]
    BY <1>2, <1>3, <1>8
<1>10. LiveSrc \cap ({r} \cup bridge'[r]) \cap Marks(X) = {}
    BY <1>2, <1>3, <1>9
<1>11. \A l, m \in bridge'[r] : l = m
    BY <1>3, <1>9
<1>12. ASSUME NEW t \in Rtc, at[t] = "closing", ref[t] = r
       PROVE  ~up' /\ bridge'[r] # {}
    <2>1. bridge[r] # {}
        BY <1>0, <1>12 DEF FeedInv, FedMarked, Shape
    <2>2. RtcToRtmp
        BY <1>7, <2>1
    <2>3. Bridges(X)[r] = bridge[r]
        BY <1>0, <1>2, <1>12, Frame DEF Shape
    <2> QED BY <1>3, <1>9, <2>1, <2>2, <2>3
<1>13. FedMarked(s)'
    BY <1>6 DEF FedMarked
<1> QED BY <1>0, <1>2, <1>3, <1>4, <1>5, <1>6, <1>9, <1>10, <1>11, <1>12,
           <1>13, AcquireFeed

LEMMA RtcFeed ==
    ASSUME LockInv, LockInv', FeedInv, up, NEW s \in Rtc, RtcStep(s)
    PROVE  FeedInv'
<1>0. Shape /\ s \in Session /\ s \notin Rtmp /\ s \notin Srt
    BY ShapeHolds, ProtocolAssumption DEF Shape
<1>a. FedMarked(s) /\ FeedsPlain(s)
    BY <1>0 DEF FeedInv
<1>b. ref[s] \in RtcSrc \/ at[s] = "idle"
    BY DEF LockInv, OwnSources
<1>c. ref[s] \in RtcSrc => bridge[ref[s]] \subseteq LiveSrc
                           /\ ref[s] \in Source /\ ref[s] \notin LiveSrc
    BY SourceAssumption DEF LockInv, Kinds, Source
<1>1. CASE RtcCreate(s)
    BY <1>1, RtcCreateFeed
<1>2. CASE RtcRefused(s)
    <2>1. PICK r \in FetchOrCreate(RtcSrc) : Fetched({r})
        BY <1>2 DEF RtcRefused
    <2>2. Fresh({r})
        BY FetchFresh DEF Fresh
    <2>3. at' = at /\ ref' = ref /\ Aside(at[s])
        BY <1>2 DEF RtcRefused, Aside
    <2> QED BY <1>0, <2>1, <2>2, <2>3, QuietFeed DEF Fetched
<1>3. CASE RtcStart(s) \/ RtcBuilderFails(s)
    <2>1. Publishing(s) /\ UNCHANGED <<bridge, ref>> /\ marked \subseteq marked'
          /\ marked' \subseteq marked \cup {ref[s]} \cup bridge[ref[s]]
          /\ ref[s] \in marked'
        BY <1>3 DEF RtcStart, RtcBuilderFails, Publishing
    <2>2. at'[s] \in {"starting", "publishing", "stalled"}
          /\ (at'[s] # "stalled" => bridge[ref[s]] \subseteq marked')
          /\ \A t \in Session : t # s => at'[t] = at[t]
        BY <1>0, <1>3 DEF RtcStart, RtcBuilderFails, Goto, Shape
    <2>3. FedMarked(s)' /\ Publishing(s)'
        BY <2>1, <2>2 DEF FedMarked, Publishing, Feeds
    <2> QED BY <1>0, <2>1, <2>2, <2>3, MarkFeed
<1>4. CASE RtcStartFails(s) \/ RtcStarted(s)
    <2>1. Publishing(s) /\ at[s] = "starting" /\ UNCHANGED <<bridge, ref, marked>>
        BY <1>4 DEF RtcStartFails, RtcStarted, Publishing
    <2>2. at'[s] \in {"publishing", "stalled"}
          /\ \A t \in Session : t # s => at'[t] = at[t]
        BY <1>0, <1>4 DEF RtcStartFails, RtcStarted, Goto, Shape
    <2>3. bridge[ref[s]] \subseteq marked /\ ref[s] \in marked
        BY <1>a, <1>b, <1>c, <2>1 DEF FedMarked, Feeds
    <2>4. FedMarked(s)' /\ Publishing(s)'
        BY <2>1, <2>2, <2>3 DEF FedMarked, Publishing
    <2> QED BY <1>0, <2>1, <2>2, <2>4, MarkFeed
<1>5. CASE RtcDispose(s)
    BY <1>5, FeedSame DEF RtcDispose
<1>6. CASE RtcFree(s)
    <2>1. at[s] # "idle" /\ Publishing(s)
        BY <1>0, <1>6 DEF RtcFree, LockInv, Places, Publishing
    <2>2. ref[s] \in marked /\ ref[s] \in RtcSrc
        BY <1>b, <2>1 DEF LockInv, RtcHeld
    <2> DEFINE Y == {ref[s]}
               switches == bridge[ref[s]] \cap marked # {}
    <2>3. marked' = marked \ Y
        BY <1>6 DEF RtcFree
    <2>4. CASE switches
        <3>1. bridge' = bridge /\ ref' = ref /\ at' = [at EXCEPT ![s] = "closing"]
            BY <1>0, <1>6, <2>2, <2>4 DEF RtcFree, Goto, Shape
        <3>2. bridge[ref[s]] \subseteq marked /\ ref[s] \notin bridge[ref[s]]
            BY <1>c, <2>2, <2>4 DEF FeedInv, RtcOwned
        <3>3. at'[s] = "closing"
              /\ \A t \in Session : t # s => at'[t] = at[t] /\ ref'[t] = ref[t]
            BY <1>0, <3>1 DEF Shape
        <3>4. FedMarked(s)'
            BY <1>0, <2>3, <2>4, <3>1, <3>2, <3>3 DEF FedMarked
        <3>5. RtcSrc \cap ({ref[s]} \cup bridge[ref[s]]) \subseteq Y
              /\ Y \subseteq {ref[s]} \cup bridge[ref[s]] /\ ref[s] \notin Y \cap LiveSrc
            BY <1>c, <2>2, SourceAssumption
        <3> HIDE DEF Y
        <3> QED BY <1>0, <2>1, <2>3, <3>1, <3>3, <3>4, <3>5, TearFeed
    <2>5. CASE ~switches
        <3>1. bridge' = [bridge EXCEPT ![ref[s]] = {}]
              /\ at' = [at EXCEPT ![s] = "idle"] /\ ref' = [ref EXCEPT ![s] = None]
            BY <1>6, <2>2, <2>5 DEF RtcFree, Goto
        <3>2. at'[s] = "idle" /\ bridge'[ref[s]] = {}
              /\ \A t \in Session : t # s => at'[t] = at[t] /\ ref'[t] = ref[t]
            BY <1>0, <1>c, <2>2, <3>1 DEF Shape
        <3>3. FedMarked(s)' /\ Aside(at'[s])
            BY <3>2 DEF FedMarked, Aside
        <3>4. RtcSrc \cap ({ref[s]} \cup bridge[ref[s]]) \subseteq Y
              /\ Y \subseteq {ref[s]} \cup bridge[ref[s]] /\ ref[s] \notin Y \cap LiveSrc
            BY <1>c, <2>2, SourceAssumption
        <3> HIDE DEF Y
        <3> QED BY <1>0, <2>1, <2>3, <3>1, <3>2, <3>3, <3>4, TearFeed
    <2> QED BY <2>4, <2>5
<1>7. CASE RtcFreed(s)
    <2> DEFINE Y == bridge[ref[s]]
    <2>1. at[s] = "closing" /\ marked' = marked \ Y
          /\ bridge' = [bridge EXCEPT ![ref[s]] = {}]
          /\ ref' = [ref EXCEPT ![s] = None] /\ at' = [at EXCEPT ![s] = "idle"]
        BY <1>7 DEF RtcFreed, Goto
    <2>2. at'[s] = "idle" /\ bridge'[ref[s]] = {} /\ Y \subseteq bridge[ref[s]]
          /\ \A t \in Session : t # s => at'[t] = at[t] /\ ref'[t] = ref[t]
        BY <1>0, <1>b, <1>c, <2>1 DEF Shape
    <2>3. FedMarked(s)' /\ Aside(at'[s])
        BY <2>2 DEF FedMarked, Aside
    <2> HIDE DEF Y
    <2> QED BY <1>0, <2>1, <2>2, <2>3, TearFeed
<1> QED BY <1>1, <1>2, <1>3, <1>4, <1>5, <1>6, <1>7 DEF RtcStep
-----------------------------------------------------------------------------
LEMMA FeedInit == CrossInit => FeedInv
<1> SUFFICES ASSUME CrossInit PROVE FeedInv
    OBVIOUS
<1>1. \A s \in Session : at[s] = "idle"
    BY DEF CrossInit
<1>2. \A x \in Source : bridge[x] = {}
    BY DEF CrossInit
<1>3. \A s \in Session : FedMarked(s) /\ FeedsPlain(s) /\ Feeds(s) = {}
    BY <1>1 DEF FedMarked, FeedsPlain, Feeds
<1>4. \A s \in Rtmp \cup Srt \cup Rtc : s \in Session
    BY ProtocolAssumption
<1>5. StartQuiet /\ OwnRtc /\ LiveFedByOne
    BY <1>1, <1>3, <1>4 DEF StartQuiet, OwnRtc, LiveFedByOne
<1>6. LiveBridgesMarked /\ RtcOwned /\ SrtPlain /\ NoPair
    BY <1>2 DEF LiveBridgesMarked, RtcOwned, SrtPlain, NoPair, Source
<1> QED BY <1>3, <1>5, <1>6 DEF CrossInit, FeedInv, RtcBusyHasPublisher

LEMMA FeedNext == LockInv /\ LockInv' /\ FeedInv /\ [CrossNext]_cvars => FeedInv'
<1> SUFFICES ASSUME LockInv, LockInv', FeedInv, [CrossNext]_cvars
             PROVE  FeedInv'
    OBVIOUS
<1>1. CASE UNCHANGED cvars \/ LiveNotify \/ RtcNotify \/ SrtNotify
    BY <1>1, FeedSame DEF cvars, LiveNotify, RtcNotify, SrtNotify, Dies
<1>2. CASE CrossNext
    BY <1>1, <1>2, RtmpFeed, SrtFeed, RtcFeed DEF CrossNext
<1> QED BY <1>1, <1>2

LEMMA FeedInvariance == CrossSpec => [](LockInv /\ FeedInv)
<1>1. CrossInit => LockInv /\ FeedInv
    BY LockInit, FeedInit
<1>2. LockInv /\ FeedInv /\ [CrossNext]_cvars => (LockInv /\ FeedInv)'
    BY LockNext, FeedNext
<1> QED BY <1>1, <1>2, PTL DEF CrossSpec

\* The sources are never bridged in a circle.
THEOREM BridgesDoNotCycle == CrossSpec => []NoBridgeCycle
<1>1. LockInv /\ FeedInv => NoBridgeCycle
    <2> SUFFICES ASSUME LockInv, FeedInv, NEW x \in Source,
                        x \in WithBridged(WithBridged(bridge[x]))
                 PROVE  FALSE
        BY DEF NoBridgeCycle
    <2>1. Kinds /\ NoPair
        BY DEF LockInv, FeedInv
    <2>2. CASE x \in LiveSrc
        BY <2>1, <2>2, SourceAssumption DEF WithBridged, Kinds, NoPair
    <2>3. CASE x \in RtcSrc
        BY <2>1, <2>3, SourceAssumption DEF WithBridged, Kinds, NoPair
    <2>4. CASE x \in SrtSrc
        BY <2>1, <2>4, SourceAssumption DEF WithBridged, Kinds
    <2> QED BY <2>2, <2>3, <2>4 DEF Source
<1> QED BY <1>1, FeedInvariance, PTL

\* The sources a session feeds stay marked as published.
THEOREM FeedersStayMarked == CrossSpec => []FeedersMarked
<1>1. FeedInv => FeedersMarked
    BY DEF FeedInv, FedMarked, FeedersMarked
<1> QED BY <1>1, FeedInvariance, PTL

\* An RTC source that is marked has a publisher.
THEOREM RtcSourceRecovers == CrossSpec => []RtcBusyHasPublisher
<1>1. FeedInv => RtcBusyHasPublisher
    BY DEF FeedInv
<1> QED BY <1>1, FeedInvariance, PTL

\* No live source is fed by two sessions, a dying one included.
THEOREM OneFeederPerLive == CrossSpec => []LiveFedByOne
<1>1. FeedInv => LiveFedByOne
    BY DEF FeedInv
<1> QED BY <1>1, FeedInvariance, PTL
=============================================================================
