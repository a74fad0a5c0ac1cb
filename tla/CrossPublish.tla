---------------------------- MODULE CrossPublish ----------------------------
(***************************************************************************)
(* One stream published by RTMP, WebRTC or SRT.  Each protocol has its own *)
(* source object for the stream with its own "can publish" flag, and       *)
(* bridges feed the other sources: RTC to RTMP, RTMP to RTC, SRT to both.  *)
(* Only one session may publish, whatever its protocol: the sessions rely  *)
(* on the publish token, on their own flag and on those of the others.     *)
(*                                                                         *)
(* Each protocol keeps the sources in a pool that a timer sweeps.  The     *)
(* timer takes a source nobody publishes away from those who fetched it    *)
(* and have not marked it yet; they go on with a source nobody else finds. *)
(* Viewers can only delay the timer, which is free to come at any moment.  *)
(*                                                                         *)
(* A step is what a coroutine does without a switch.  hub_ of the live     *)
(* source may switch in on_publish and on_unpublish, so whoever publishes  *)
(* or unpublishes a live source, be it through a bridge, takes two steps.  *)
(*                                                                         *)
(* The build is one that has all three protocols: the checks of the RTC    *)
(* and SRT sources are compiled under SRS_AUTO_RTC_USE, SRS_AUTO_SRT_USE.  *)
(* The bridges to and from RTC need SRS_FFMPEG_FIT as well: without it     *)
(* RtcToRtmp and RtmpToRtc are FALSE.                                      *)
(***************************************************************************)
EXTENDS StreamToken

CONSTANTS
    Stream,         \* the URL all the sessions publish
    Rtmp, Rtc, Srt, \* the sessions of each protocol
    LiveSrc, RtcSrc, SrtSrc,    \* the objects the sources are made of
    RtcToRtmp,      \* rtc_to_rtmp of the vhost
    RtmpToRtc,      \* rtc_from_rtmp of the vhost
    SrtToRtmp       \* srt_to_rtmp of the vhost

Source == LiveSrc \cup RtcSrc \cup SrtSrc

ASSUME StreamAssumption == Stream \in Url
ASSUME ProtocolAssumption ==
    /\ Session = Rtmp \cup Rtc \cup Srt
    /\ Rtmp \cap Rtc = {} /\ Rtmp \cap Srt = {} /\ Rtc \cap Srt = {}
ASSUME SourceAssumption ==
    /\ None \notin Source
    /\ LiveSrc \cap RtcSrc = {} /\ LiveSrc \cap SrtSrc = {}
    /\ RtcSrc \cap SrtSrc = {}
ASSUME BridgeAssumption ==
    RtcToRtmp \in BOOLEAN /\ RtmpToRtc \in BOOLEAN /\ SrtToRtmp \in BOOLEAN

VARIABLES
    pool,       \* the pool_ of the three managers: the source of the stream
    marked,     \* sources with can_publish_ FALSE, RTC: with is_created_ TRUE
    bridge,     \* the sources that bridge_ of a source feeds, {} for NULL
    ref,        \* the source a session fetched first, its own
    at,         \* where each session is
    disposing,  \* RTC sessions removed from, but not yet freed by, the manager
    up          \* FALSE after a use of a null or a freed object

cvars == <<tokens, pool, marked, bridge, ref, at, disposing, up>>

Pc == {"idle", "hooks", "created", "starting", "stalled", "publishing",
       "stopping", "closing", "leaving"}

CrossTypeOK ==
    /\ TokenTypeOK
    /\ pool \subseteq Source
    /\ marked \subseteq Source
    /\ bridge \in [Source -> SUBSET Source]
    /\ ref \in [Session -> Source \cup {None}]
    /\ at \in [Session -> Pc]
    /\ disposing \subseteq Rtc
    /\ up \in BOOLEAN

CrossInit ==
    /\ TokenInit
    /\ pool = {}
    /\ marked = {}
    /\ bridge = [x \in Source |-> {}]
    /\ ref = [s \in Session |-> None]
    /\ at = [s \in Session |-> "idle"]
    /\ disposing = {}
    /\ up = TRUE

Goto(s, pc) == at' = [at EXCEPT ![s] = pc]
-----------------------------------------------------------------------------
(***************************************************************************)
(* The pools.  A source is destroyed with the last reference to it, and    *)
(* its memory may become another source.                                   *)
(***************************************************************************)
WithBridged(X) == X \cup UNION {bridge[x] : x \in X}

Referenced ==
    LET held == pool \cup ({ref[s] : s \in Session} \ {None})
    IN  WithBridged(WithBridged(WithBridged(held)))

\* What fetch_or_create of the manager of Kind may return.
FetchOrCreate(Kind) ==
    IF pool \cap Kind # {} THEN pool \cap Kind ELSE Kind \ Referenced

\* The flags and bridges once the sources X were fetched or created.
Marks(X) == marked \ (X \ pool)
Bridges(X) == [x \in Source |-> IF x \in X \ pool THEN {} ELSE bridge[x]]

Fetched(X) ==
    /\ pool' = pool \cup X
    /\ marked' = Marks(X)
    /\ bridge' = Bridges(X)

\* Mutation: stream_is_dead does not ask whether somebody publishes.
DiesPublished(x) ==
    /\ x \in pool
    /\ pool' = pool \ {x}
    /\ UNCHANGED <<tokens, marked, bridge, ref, at, disposing, up>>

\* The timer of a manager finds the source dead: nobody publishes it, and
\* either nobody ever used it or the last one left long ago.
Dies(x) ==
    /\ x \in pool \ marked
    /\ pool' = pool \ {x}
    /\ UNCHANGED <<tokens, marked, bridge, ref, at, disposing, up>>

LiveNotify == \E x \in LiveSrc : Dies(x)
RtcNotify == \E x \in RtcSrc : Dies(x)
SrtNotify == \E x \in SrtSrc : Dies(x)

\* on_publish and on_unpublish of the sources that a bridge feeds.  An RTC
\* source that keeps a bridge of its own then has lost its frame_builder_.
BridgeBuilt(x) == \A r \in bridge[x] \cap RtcSrc : bridge[r] = {}

\* The service cycle ends: the token is released, the source let go.
Leave(s) ==
    /\ ReleaseToken(Stream)
    /\ ref' = [ref EXCEPT ![s] = None]
    /\ Goto(s, "idle")
-----------------------------------------------------------------------------
(***************************************************************************)
(* RTMP: SrsRtmpConn.                                                      *)
(***************************************************************************)
\* The token is held, and the source of the session's own protocol fetched,
\* before the hooks.
Enter(s, Kind) ==
    /\ at[s] = "idle"
    /\ AcquireToken(s, Stream)
    /\ \E x \in FetchOrCreate(Kind) :
         /\ Fetched({x})
         /\ ref' = [ref EXCEPT ![s] = x]
    /\ Goto(s, "hooks")
    /\ UNCHANGED <<disposing, up>>

RtmpEnter(s) == Enter(s, LiveSrc)

\* A hook fails.
RtmpHookFails(s) ==
    /\ at[s] = "hooks"
    /\ Leave(s)
    /\ UNCHANGED <<pool, marked, bridge, disposing, up>>

\* acquire_publish finds one of the sources busy; a marked source is pooled.
RtmpBusy(s) ==
    /\ at[s] = "hooks"
    /\ \/ ref[s] \in marked /\ Fetched({})
       \/ \E r \in FetchOrCreate(RtcSrc) :
            /\ ref[s] \notin marked
            /\ r \in Marks({r}) \/ pool \cap SrtSrc \cap marked # {}
            /\ Fetched({r})
    /\ Leave(s)
    /\ UNCHANGED <<disposing, up>>

\* Mutation: acquire_publish looks at its own source only.
RtmpAcquireLocal(s) ==
    /\ at[s] = "hooks"
    /\ \E r \in FetchOrCreate(RtcSrc), x \in FetchOrCreate(SrtSrc) :
         /\ ref[s] \notin marked
         /\ pool' = pool \cup {r, x}
         /\ marked' = Marks({r, x}) \cup {ref[s]}
         /\ bridge' = [Bridges({r, x}) EXCEPT
                         ![ref[s]] = IF RtmpToRtc THEN {r} ELSE {}]
    /\ Goto(s, "starting")
    /\ UNCHANGED <<tokens, ref, disposing, up>>

\* acquire_publish up to the switch in the hub.
RtmpAcquire(s) ==
    /\ at[s] = "hooks"
    /\ \E r \in FetchOrCreate(RtcSrc), x \in FetchOrCreate(SrtSrc) :
         /\ {ref[s], r, x} \cap Marks({r, x}) = {}
         /\ pool' = pool \cup {r, x}
         /\ marked' = Marks({r, x}) \cup {ref[s]}
         /\ bridge' = [Bridges({r, x}) EXCEPT
                         ![ref[s]] = IF RtmpToRtc THEN {r} ELSE {}]
    /\ Goto(s, "starting")
    /\ UNCHANGED <<tokens, ref, disposing, up>>

\* The hub or the HTTP mount fails: no source is opened again.
RtmpStartFails(s) ==
    /\ at[s] = "starting"
    /\ Leave(s)
    /\ UNCHANGED <<pool, marked, bridge, disposing, up>>

RtmpStarted(s) ==
    /\ at[s] = "starting"
    /\ marked' = marked \cup bridge[ref[s]]
    /\ up' = BridgeBuilt(ref[s])
    /\ Goto(s, "publishing")
    /\ UNCHANGED <<tokens, pool, bridge, ref, disposing>>

\* do_publishing returns, release_publish calls on_unpublish of the source,
\* which does nothing if the source is open already.
RtmpUnpublish(s) ==
    /\ at[s] = "publishing"
    /\ Goto(s, IF ref[s] \in marked THEN "closing" ELSE "leaving")
    /\ UNCHANGED <<tokens, pool, marked, bridge, ref, disposing, up>>

\* Mutation: the bridge is freed without telling it of the unpublish.
RtmpUnpublishedSilently(s) ==
    /\ at[s] = "closing"
    /\ marked' = marked \ {ref[s]}
    /\ bridge' = [bridge EXCEPT ![ref[s]] = {}]
    /\ Goto(s, "leaving")
    /\ UNCHANGED <<tokens, pool, ref, disposing, up>>

\* The rest of on_unpublish, after the switch in the hub.
RtmpUnpublished(s) ==
    /\ at[s] = "closing"
    /\ marked' = marked \ ({ref[s]} \cup bridge[ref[s]])
    /\ bridge' = [bridge EXCEPT ![ref[s]] = {}]
    /\ Goto(s, "leaving")
    /\ UNCHANGED <<tokens, pool, ref, disposing, up>>

\* The on_unpublish hook answered.
Left(s) ==
    /\ at[s] = "leaving"
    /\ Leave(s)
    /\ UNCHANGED <<pool, marked, bridge, disposing, up>>
-----------------------------------------------------------------------------
(***************************************************************************)
(* SRT: SrsMpegtsSrtConn.  The connection keeps srt_source_ a while longer *)
(* than the token; nobody reaches the source through it any more.          *)
(***************************************************************************)
SrtEnter(s) == Enter(s, SrtSrc)

\* The on_connect hook fails, or what comes before acquire_publish: in that
\* case the on_close hook still runs with the token held.
SrtHookFails(s) ==
    /\ at[s] = "hooks"
    /\ \/ Leave(s)
       \/ Goto(s, "leaving") /\ UNCHANGED <<tokens, ref>>
    /\ UNCHANGED <<pool, marked, bridge, disposing, up>>

\* acquire_publish finds one of the sources busy.
SrtBusy(s) ==
    /\ at[s] = "hooks"
    /\ \/ /\ ({ref[s]} \cup (pool \cap LiveSrc)) \cap marked # {}
          /\ Fetched({})
       \/ \E l \in FetchOrCreate(LiveSrc), r \in pool \cap RtcSrc \cap marked :
            /\ {ref[s], l} \cap Marks({l}) = {}
            /\ Fetched({l})
    /\ Goto(s, "leaving")
    /\ UNCHANGED <<tokens, ref, disposing, up>>

\* acquire_publish up to SrsSrtSource::on_publish, which marks X.
SrtPublish(s, l, r, X) ==
    /\ {ref[s], l, r} \cap Marks({l, r}) = {}
    /\ pool' = pool \cup {l, r}
    /\ marked' = Marks({l, r}) \cup X
    /\ bridge' = [Bridges({l, r}) EXCEPT
                    ![ref[s]] = IF ~SrtToRtmp THEN @
                                ELSE IF RtmpToRtc THEN {l, r} ELSE {l}]
    /\ UNCHANGED <<tokens, ref, disposing, up>>

\* Mutation: acquire_publish does not look at the RTC source.
SrtAcquireUnchecked(s) ==
    /\ at[s] = "hooks"
    /\ \E l \in FetchOrCreate(LiveSrc), r \in FetchOrCreate(RtcSrc) :
         /\ {ref[s], l} \cap Marks({l, r}) = {}
         /\ pool' = pool \cup {l, r}
         /\ marked' = Marks({l, r}) \cup {ref[s], l}
         /\ bridge' = [Bridges({l, r}) EXCEPT ![ref[s]] = {l, r}]
    /\ Goto(s, "starting")
    /\ UNCHANGED <<tokens, ref, disposing, up>>

\* Without a bridge it is done at once, else it publishes the live source and
\* may switch in its hub.
SrtAcquire(s) ==
    /\ at[s] = "hooks"
    /\ \E l \in FetchOrCreate(LiveSrc), r \in FetchOrCreate(RtcSrc) :
         SrtPublish(s, l, r, IF SrtToRtmp THEN {ref[s], l} ELSE {ref[s]})
    /\ Goto(s, IF SrtToRtmp THEN "starting" ELSE "publishing")

\* frame_builder_ cannot be initialized: the bridge is not published.
SrtBuilderFails(s) ==
    /\ at[s] = "hooks"
    /\ SrtToRtmp
    /\ \E l \in FetchOrCreate(LiveSrc), r \in FetchOrCreate(RtcSrc) :
         SrtPublish(s, l, r, {ref[s]})
    /\ Goto(s, "leaving")

\* The hub or the HTTP mount fails: no source is opened again.
SrtStartFails(s) ==
    /\ at[s] = "starting"
    /\ Goto(s, "leaving")
    /\ UNCHANGED <<tokens, pool, marked, bridge, ref, disposing, up>>

\* The live source is published, then the RTC source.
SrtStarted(s) ==
    /\ at[s] = "starting"
    /\ marked' = marked \cup bridge[ref[s]]
    /\ up' = BridgeBuilt(ref[s])
    /\ Goto(s, "publishing")
    /\ UNCHANGED <<tokens, pool, bridge, ref, disposing>>

\* do_publishing returns; on_unpublish opens the SRT source, then unpublishes
\* the bridge, which may switch in the hub of the live source.
SrtUnpublish(s) ==
    /\ at[s] = "publishing"
    /\ marked' = marked \ {ref[s]}
    /\ Goto(s, IF ref[s] \in marked /\ bridge[ref[s]] # {}
               THEN "closing" ELSE "leaving")
    /\ UNCHANGED <<tokens, pool, bridge, ref, disposing, up>>

SrtUnpublished(s) ==
    /\ at[s] = "closing"
    /\ marked' = marked \ bridge[ref[s]]
    /\ bridge' = [bridge EXCEPT ![ref[s]] = {}]
    /\ Goto(s, "leaving")
    /\ UNCHANGED <<tokens, pool, ref, disposing, up>>
-----------------------------------------------------------------------------
(***************************************************************************)
(* RTC: SrsRtcSessionManager, SrsRtcConnection and SrsRtcPublishStream.    *)
(***************************************************************************)

\* Mutation: SrsRtcPublishStream::initialize does not look at the others.
RtcCreateUnchecked(s) ==
    /\ at[s] = "idle"
    /\ tokens[Stream] = None
    /\ \E r \in FetchOrCreate(RtcSrc), l \in FetchOrCreate(LiveSrc),
          x \in FetchOrCreate(SrtSrc) :
         /\ r \notin Marks({r, l, x})
         /\ pool' = pool \cup {r, l, x}
         /\ marked' = Marks({r, l, x}) \cup {r}
         /\ bridge' = [Bridges({r, l, x}) EXCEPT ![r] = {l}]
         /\ ref' = [ref EXCEPT ![s] = r]
    /\ Goto(s, "created")
    /\ UNCHANGED <<tokens, disposing, up>>

\* create_rtc_session takes the token and gives it back within the step.  The
\* live source is only fetched to be looked at, or created for the bridge.
\* set_bridge frees the bridge that may be there: a session that is being
\* freed is still inside its on_unpublish.
RtcCreate(s) ==
    /\ at[s] = "idle"
    /\ tokens[Stream] = None
    /\ \E r \in FetchOrCreate(RtcSrc), x \in FetchOrCreate(SrtSrc),
          L \in IF RtcToRtmp THEN {{l} : l \in FetchOrCreate(LiveSrc)} ELSE {{}} :
         LET X == {r, x} \cup L
         IN  /\ (X \cup (pool \cap LiveSrc)) \cap Marks(X) = {}
             /\ pool' = pool \cup X
             /\ marked' = Marks(X) \cup {r}
             /\ bridge' = [Bridges(X) EXCEPT ![r] = IF RtcToRtmp THEN L ELSE @]
             /\ up' = (RtcToRtmp => Bridges(X)[r] = {})
             /\ ref' = [ref EXCEPT ![s] = r]
    /\ Goto(s, "created")
    /\ UNCHANGED <<tokens, disposing>>

\* initialize finds the live or the SRT source busy, and the publisher is
\* freed: its destructor unpublishes the RTC source, which was marked for an
\* instant.  If a bridge is there, it is that of a session that is being
\* freed, and frame_builder_ is null.
RtcRefused(s) ==
    /\ at[s] = "idle"
    /\ tokens[Stream] = None
    /\ pool \cap (LiveSrc \cup SrtSrc) \cap marked # {}
    /\ \E r \in FetchOrCreate(RtcSrc) :
         /\ r \notin Marks({r})
         /\ Fetched({r})
         /\ up' = (Bridges({r})[r] = {})
    /\ UNCHANGED <<tokens, ref, at, disposing>>

\* DTLS is done: publish the RTC source, and the live source through the
\* bridge, which may switch in its hub.  on_publish does not look at the flag.
RtcStart(s) ==
    /\ at[s] = "created"
    /\ s \notin disposing
    /\ marked' = marked \cup {ref[s]} \cup bridge[ref[s]]
    /\ Goto(s, IF bridge[ref[s]] # {} THEN "starting" ELSE "publishing")
    /\ UNCHANGED <<tokens, pool, bridge, ref, disposing, up>>

\* The audio transcoder cannot be created: the bridge is not published.
RtcBuilderFails(s) ==
    /\ at[s] = "created"
    /\ s \notin disposing
    /\ bridge[ref[s]] # {}
    /\ marked' = marked \cup {ref[s]}
    /\ Goto(s, "stalled")
    /\ UNCHANGED <<tokens, pool, bridge, ref, disposing, up>>

\* The hub or the HTTP mount fails: the session waits for its timeout.
RtcStartFails(s) ==
    /\ at[s] = "starting"
    /\ Goto(s, "stalled")
    /\ UNCHANGED <<tokens, pool, marked, bridge, ref, disposing, up>>

RtcStarted(s) ==
    /\ at[s] = "starting"
    /\ Goto(s, "publishing")
    /\ UNCHANGED <<tokens, pool, marked, bridge, ref, disposing, up>>

\* The session timed out or was expired by the API: remove it.
RtcDispose(s) ==
    /\ at[s] \in {"created", "starting", "stalled", "publishing"}
    /\ s \notin disposing
    /\ disposing' = disposing \cup {s}
    /\ UNCHANGED <<tokens, pool, marked, bridge, ref, at, up>>

\* The manager frees the session, and with it the publisher, whose destructor
\* opens the RTC source first and then unpublishes the bridge, which switches
\* in the hub if the live source was published.  A start that is still in the
\* hub returns to a freed session.
RtcFree(s) ==
    LET r == ref[s]
        switches == r \in marked /\ bridge[r] \cap marked # {}
    IN  /\ s \in disposing
        /\ at[s] # "closing"
        /\ up' = (at[s] # "starting")
        /\ marked' = marked \ {r}
        /\ bridge' = [bridge EXCEPT ![r] = IF r \in marked /\ ~switches
                                           THEN {} ELSE @]
        /\ IF switches
           THEN Goto(s, "closing") /\ UNCHANGED <<ref, disposing>>
           ELSE /\ Goto(s, "idle")
                /\ ref' = [ref EXCEPT ![s] = None]
                /\ disposing' = disposing \ {s}
        /\ UNCHANGED <<tokens, pool>>

RtcFreed(s) ==
    /\ at[s] = "closing"
    /\ marked' = marked \ bridge[ref[s]]
    /\ bridge' = [bridge EXCEPT ![ref[s]] = {}]
    /\ disposing' = disposing \ {s}
    /\ ref' = [ref EXCEPT ![s] = None]
    /\ Goto(s, "idle")
    /\ UNCHANGED <<tokens, pool, up>>
-----------------------------------------------------------------------------
RtmpStep(s) ==
    \/ RtmpEnter(s) \/ RtmpHookFails(s) \/ RtmpBusy(s) \/ RtmpAcquire(s)
    \/ RtmpStartFails(s) \/ RtmpStarted(s)
    \/ RtmpUnpublish(s) \/ RtmpUnpublished(s) \/ Left(s)

SrtStep(s) ==
    \/ SrtEnter(s) \/ SrtHookFails(s) \/ SrtBusy(s) \/ SrtAcquire(s)
    \/ SrtBuilderFails(s) \/ SrtStartFails(s) \/ SrtStarted(s)
    \/ SrtUnpublish(s) \/ SrtUnpublished(s) \/ Left(s)

RtcStep(s) ==
    \/ RtcCreate(s) \/ RtcRefused(s)
    \/ RtcStart(s) \/ RtcBuilderFails(s) \/ RtcStartFails(s) \/ RtcStarted(s)
    \/ RtcDispose(s) \/ RtcFree(s) \/ RtcFreed(s)

CrossNext ==
    /\ up
    /\ \/ \E s \in Rtmp : RtmpStep(s)
       \/ \E s \in Srt : SrtStep(s)
       \/ \E s \in Rtc : RtcStep(s)
       \/ LiveNotify \/ RtcNotify \/ SrtNotify

CrossSpec == CrossInit /\ [][CrossNext]_cvars
-----------------------------------------------------------------------------
(***************************************************************************)
(* Properties.                                                             *)
(***************************************************************************)

\* The session has passed the checks of its publish, and its own source has
\* not been opened again.  RTMP opens its source last, and SRT sessions keep
\* the token; an RTC session that is being freed has opened its source and is
\* no longer counted, though it may still unpublish its bridge.
Publishing(s) ==
    \/ at[s] \in {"created", "starting", "stalled", "publishing"}
    \/ at[s] = "closing" /\ s \notin Rtc

PublisherOf ==
    [u \in Url |-> IF u = Stream /\ \E s \in Session : Publishing(s)
                   THEN CHOOSE s \in Session : Publishing(s)
                   ELSE None]

Lock == INSTANCE PublishLock WITH publisher <- PublisherOf

\* At most one session publishes the stream, whatever the protocols, bridges,
\* failures and teardowns in progress, and whatever the timers remove.
ImplementsLock == Lock!LockSpec

\* No chain of bridges leads from a source back to it: on_publish of either
\* would recurse for ever.
NoBridgeCycle ==
    \A x \in Source : x \notin WithBridged(WithBridged(bridge[x]))

\* The sources a session feeds stay marked as published until the session has
\* torn them down: no refused or dying session of another protocol opens them.
FeedersMarked ==
    \A s \in Session :
        /\ at[s] = "publishing" => {ref[s]} \cup bridge[ref[s]] \subseteq marked
        /\ at[s] = "closing" /\ up => bridge[ref[s]] \subseteq marked

\* The RTC source is marked only while a session that feeds it publishes the
\* stream: unlike the live and the SRT source it recovers from a publish that
\* fails half way.
RtcBusyHasPublisher ==
    \A r \in RtcSrc \cap marked :
        \E s \in Session : Publishing(s) /\ r \in {ref[s]} \cup bridge[ref[s]]

\* The live sources a session publishes into, or is still to unpublish.
Feeds(s) ==
    IF at[s] \in {"created", "starting", "stalled", "publishing", "closing"}
    THEN LiveSrc \cap ({ref[s]} \cup bridge[ref[s]])
    ELSE {}

\* Two sessions never feed one live source, not even while one of them is
\* being freed after its own RTC source was opened to the other.
LiveFedByOne ==
    up => \A s, t \in Session : s # t => Feeds(s) \cap Feeds(t) = {}

\* "should never set to unpublish before any other handler is done": nobody
\* enters a source whose bridge is being unpublished, so that no unpublish
\* finds the objects of another one freed.
TornDownOnce ==
    [][\A s \in Rtc : RtcCreate(s) \/ RtcRefused(s) => up']_cvars

=============================================================================
