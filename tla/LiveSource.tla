----------------------------- MODULE LiveSource -----------------------------
(***************************************************************************)
(* The life of a stream on an origin server: the pool of live sources, the *)
(* RTMP publishers that feed them, the RTMP players and HTTP-FLV viewers   *)
(* that consume them, and the timer that cleans dead sources up.           *)
(*                                                                         *)
(* SRS runs every connection as a coroutine of one thread, so a step is    *)
(* what a connection does between two points where it may switch: an HTTP  *)
(* hook, I/O with the peer, joining a thread, a sub-step of the hub.  The  *)
(* bridges to RTC and RTSP are left out here.                              *)
(***************************************************************************)
EXTENDS StreamToken, HttpMount

CONSTANTS
    Source,     \* live source objects
    Player,     \* RTMP play connections
    Asks        \* the streams each connection may ask for

Client == Player \cup Viewer

ASSUME SourceAssumption == None \notin Source
ASSUME ClientAssumption == Player \cap Viewer = {}
ASSUME AsksAssumption == Asks \in [Session \cup Client -> SUBSET Url]

VARIABLES
    pool,   \* pool_: the source of each URL, or None
    live,   \* the fields of each source
    pub,    \* the publish connections: where they are, on which source
    cli     \* the play connections, likewise

lvars == <<tokens, entry, enabled, destroyQ, running, viewers, up,
           pool, live, pub, cli>>

(***************************************************************************)
(* Clock readings are abstracted to what the code asks of them: dying is   *)
(* "now < stream_die_at_ + cleanup delay" (false for stream_die_at_ = 0),  *)
(* idle is "publisher_idle_at_ is set".                                    *)
(***************************************************************************)
SourceRec == [can_publish : BOOLEAN,            \* can_publish_
              source_id   : Session \cup {None},\* _source_id
              active      : BOOLEAN,            \* hub_->is_active_
              consumers   : SUBSET Client,      \* consumers_
              dying       : BOOLEAN,
              idle        : BOOLEAN]

PubPc == {"idle", "hooks", "starting", "publishing", "stopping", "closing",
          "leaving"}
CliPc == {"idle", "hooks", "playing", "stopping"}

PubRec == [pc : PubPc, url : Url \cup {None}, src : Source \cup {None}]
CliRec == [pc : CliPc, url : Url \cup {None}, src : Source \cup {None}]

LiveTypeOK ==
    /\ TokenTypeOK
    /\ HttpTypeOK
    /\ pool \in [Url -> Source \cup {None}]
    /\ live \in [Source -> SourceRec]
    /\ pub \in [Session -> PubRec]
    /\ cli \in [Client -> CliRec]

\* SrsLiveSource::SrsLiveSource: a source that never lived has
\* stream_die_at_ = 0.
NewSource == [can_publish |-> TRUE, source_id |-> None, active |-> FALSE,
              consumers |-> {}, dying |-> FALSE, idle |-> FALSE]

Gone == [pc |-> "idle", url |-> None, src |-> None]

LiveInit ==
    /\ TokenInit
    /\ HttpInit
    /\ pool = [u \in Url |-> None]
    /\ live = [x \in Source |-> NewSource]
    /\ pub = [s \in Session |-> Gone]
    /\ cli = [c \in Client |-> Gone]
-----------------------------------------------------------------------------
(***************************************************************************)
(* Sources.                                                                *)
(***************************************************************************)

\* No SrsSharedPtr refers to the source: not the pool's, not a connection's.
Unreferenced(x) ==
    /\ \A u \in Url : pool[u] # x
    /\ \A s \in Session : pub[s].src # x
    /\ \A c \in Client : cli[c].src # x

\* fetch_or_create answers x for the URL: the pooled source, or a new one.
Fetchable(u, x) ==
    \/ pool[u] = x
    \/ pool[u] = None /\ Unreferenced(x)

\* The sources after fetch_or_create answered x.
Fetched(u, x) ==
    IF pool[u] = x THEN live ELSE [live EXCEPT ![x] = NewSource]

FetchOrCreate(u, x) ==
    /\ Fetchable(u, x)
    /\ pool' = [pool EXCEPT ![u] = x]

\* Mutation: create_consumer does not reset publisher_idle_at_.
WithIdleConsumer(L, x, c) ==
    [L EXCEPT ![x].consumers = @ \cup {c}, ![x].dying = FALSE]

\* The sources L after create_consumer: the consumer cancels the death and
\* the idleness of the source.
WithConsumer(L, x, c) ==
    [L EXCEPT ![x].consumers = @ \cup {c},
              ![x].dying = FALSE,
              ![x].idle = FALSE]

\* Mutation: on_consumer_destroy forgets the erase.
WithoutErase(x, c) ==
    [live EXCEPT ![x].dying = TRUE, ![x].idle = TRUE]

\* on_consumer_destroy: the last consumer leaves the source idle, and dying
\* when it is not published either.
WithoutConsumer(x, c) ==
    LET rest == live[x].consumers \ {c}
    IN  [live EXCEPT ![x].consumers = rest,
                     ![x].dying = @ \/ (rest = {} /\ live[x].can_publish),
                     ![x].idle = @ \/ rest = {}]

\* Mutation: stream_is_dead forgets the publisher.
IsDeadUnwatched(x) == live[x].consumers = {} /\ ~live[x].dying

\* Mutation: stream_is_dead compares the delay the wrong way round.
IsDeadTooSoon(x) ==
    /\ live[x].can_publish
    /\ live[x].consumers = {}
    /\ live[x].dying

\* SrsLiveSource::stream_is_dead.
IsDead(x) ==
    /\ live[x].can_publish
    /\ live[x].consumers = {}
    /\ ~live[x].dying
-----------------------------------------------------------------------------
(***************************************************************************)
(* A publish connection s, from stream_service_cycle on.                   *)
(***************************************************************************)
httpUnchanged == UNCHANGED httpVars

\* The connection leaves stream_service_cycle: its SrsUniquePtr releases the
\* token and its reference to the source is dropped.
LeaveCycle(s) ==
    /\ ReleaseToken(pub[s].url)
    /\ pub' = [pub EXCEPT ![s] = Gone]

\* Identified as a publisher of u: acquire the token, fetch the source, and
\* go on to the on_publish hook.
StartCycle(s, u, x) ==
    /\ pub[s].pc = "idle"
    /\ AcquireToken(s, u)
    /\ FetchOrCreate(u, x)
    /\ live' = Fetched(u, x)
    /\ pub' = [pub EXCEPT ![s] = [pc |-> "hooks", url |-> u, src |-> x]]
    /\ UNCHANGED cli
    /\ httpUnchanged

\* The publish handshake, the referer check or the on_publish hook failed, or
\* acquire_publish finds the stream busy.
PublishRejected(s) ==
    /\ pub[s].pc = "hooks"
    /\ LeaveCycle(s)
    /\ UNCHANGED <<pool, live, cli>>
    /\ httpUnchanged

\* acquire_publish up to hub_->on_publish of the source, where the
\* connection may switch (the on_forward hook, the encoders).
AcquirePublish(s) ==
    LET x == pub[s].src
    IN  /\ pub[s].pc = "hooks"
        /\ live[x].can_publish
        /\ live' = [live EXCEPT ![x].can_publish = FALSE,
                                ![x].source_id = s]
        /\ pub' = [pub EXCEPT ![s].pc = "starting"]
        /\ UNCHANGED <<tokens, pool, cli>>
        /\ httpUnchanged

\* A component of the hub refuses the stream: on_publish fails, and
\* publishing() does not release what it did not acquire.
HubFails(s) ==
    /\ pub[s].pc = "starting"
    /\ LeaveCycle(s)
    /\ UNCHANGED <<pool, live, cli>>
    /\ httpUnchanged

\* The hub is published, but the HTTP entry cannot be mounted: on_publish fails
\* the same way.
MountFails(s) ==
    /\ pub[s].pc = "starting"
    /\ MountError(pub[s].url)
    /\ live' = [live EXCEPT ![pub[s].src].active = TRUE]
    /\ LeaveCycle(s)
    /\ UNCHANGED <<pool, cli, destroyQ, running, viewers, up>>

\* The HTTP entry has no mux entry, because an earlier mount failed half way.
MountCrashes(s) ==
    /\ pub[s].pc = "starting"
    /\ MountCrash(pub[s].url)
    /\ UNCHANGED <<tokens, pool, live, pub, cli>>

\* The hub is published, the HTTP entry mounted, and the source is idle until
\* somebody plays it.
Published(s) ==
    LET x == pub[s].src
    IN  /\ pub[s].pc = "starting"
        /\ Mount(pub[s].url)
        /\ live' = [live EXCEPT ![x].active = TRUE,
                                ![x].idle = @ \/ live[x].consumers = {}]
        /\ pub' = [pub EXCEPT ![s].pc = "publishing"]
        /\ UNCHANGED <<tokens, pool, cli, destroyQ, running, viewers, up>>

\* do_publishing returns: the peer closed or timed out, or an API kicked it.
EndPublishing(s) ==
    /\ pub[s].pc = "publishing"
    /\ pub' = [pub EXCEPT ![s].pc = "stopping"]
    /\ UNCHANGED <<tokens, pool, live, cli>>
    /\ httpUnchanged

\* do_publishing returns because the source was idle for too long.
KickedForIdle(s) ==
    /\ EndPublishing(s)
    /\ live[pub[s].src].idle

\* Mutation: on_unpublish frees the source first, as if no handler switched.
BeginUnpublishFreed(s) ==
    /\ pub[s].pc = "stopping"
    /\ pub' = [pub EXCEPT ![s].pc = "closing"]
    /\ live' = [live EXCEPT ![pub[s].src].active = FALSE,
                            ![pub[s].src].can_publish = TRUE]
    /\ UNCHANGED <<tokens, pool, cli>>
    /\ httpUnchanged

\* release_publish, once the receive thread is joined: on_unpublish does
\* nothing if the source is not published, else it stops the hub, which
\* joins the threads of the forwarders and encoders.
BeginUnpublish(s) ==
    LET x == pub[s].src
    IN  /\ pub[s].pc = "stopping"
        /\ IF live[x].can_publish
           THEN /\ pub' = [pub EXCEPT ![s].pc = "leaving"]
                /\ UNCHANGED live
           ELSE /\ pub' = [pub EXCEPT ![s].pc = "closing"]
                /\ live' = [live EXCEPT ![x].active = FALSE]
        /\ UNCHANGED <<tokens, pool, cli>>
        /\ httpUnchanged

\* Mutation: on_unpublish forgets its handler.
FinishUnpublishMounted(s) ==
    /\ pub[s].pc = "closing"
    /\ live' = [live EXCEPT ![pub[s].src].source_id = None,
                            ![pub[s].src].dying = TRUE,
                            ![pub[s].src].can_publish = TRUE]
    /\ pub' = [pub EXCEPT ![s].pc = "leaving"]
    /\ UNCHANGED <<tokens, pool, cli>>
    /\ httpUnchanged

\* The rest of on_unpublish: the handler unmounts the entry, an unwatched
\* source starts to die, and only then the source may be published again.
FinishUnpublish(s) ==
    LET x == pub[s].src
    IN  /\ pub[s].pc = "closing"
        /\ Unmount(pub[s].url)
        /\ live' = [live EXCEPT ![x].source_id = None,
                                ![x].dying = @ \/ live[x].consumers = {},
                                ![x].can_publish = TRUE]
        /\ pub' = [pub EXCEPT ![s].pc = "leaving"]
        /\ UNCHANGED <<tokens, pool, cli>>

\* The on_unpublish hook answered: publishing() returns.
EndCycle(s) ==
    /\ pub[s].pc = "leaving"
    /\ LeaveCycle(s)
    /\ UNCHANGED <<pool, live, cli>>
    /\ httpUnchanged
-----------------------------------------------------------------------------
(***************************************************************************)
(* The play connections: RTMP players and HTTP-FLV viewers.                *)
(***************************************************************************)

\* An RTMP player fetches the source, then calls the on_play hook.
PlayerFetch(c, u, x) ==
    /\ cli[c].pc = "idle"
    /\ FetchOrCreate(u, x)
    /\ live' = Fetched(u, x)
    /\ cli' = [cli EXCEPT ![c] = [pc |-> "hooks", url |-> u, src |-> x]]
    /\ UNCHANGED <<tokens, pub>>
    /\ httpUnchanged

\* The hook fails, or the referer is refused.
PlayerRejected(c) ==
    /\ cli[c].pc = "hooks"
    /\ cli' = [cli EXCEPT ![c] = Gone]
    /\ UNCHANGED <<tokens, pool, live, pub>>
    /\ httpUnchanged

\* playing: create a consumer of the source fetched before the hook.
PlayerStart(c) ==
    /\ cli[c].pc = "hooks"
    /\ live' = WithConsumer(live, cli[c].src, c)
    /\ cli' = [cli EXCEPT ![c].pc = "playing"]
    /\ UNCHANGED <<tokens, pool, pub>>
    /\ httpUnchanged

\* do_playing returns and playing() frees the consumer; the connection keeps its
\* reference to the source through the on_stop hook.
PlayerStop(c) ==
    /\ cli[c].pc = "playing"
    /\ live' = WithoutConsumer(cli[c].src, c)
    /\ cli' = [cli EXCEPT ![c].pc = "stopping"]
    /\ UNCHANGED <<tokens, pool, pub>>
    /\ httpUnchanged

\* The hook answered: stream_service_cycle returns.
PlayerLeft(c) ==
    /\ cli[c].pc = "stopping"
    /\ cli' = [cli EXCEPT ![c] = Gone]
    /\ UNCHANGED <<tokens, pool, live, pub>>
    /\ httpUnchanged

\* serve_http of an HTTP viewer, up to its on_play hook.
ViewerRequest(c, u) ==
    /\ cli[c].pc = "idle"
    /\ ViewerEnter(c, u)
    /\ cli' = [cli EXCEPT ![c] = [pc |-> "hooks", url |-> u, src |-> None]]
    /\ UNCHANGED <<tokens, pool, live, pub>>

\* After the hook the entry is checked, then the source fetched and a
\* consumer created without a switch in between.
ViewerStart(c, x) ==
    LET u == cli[c].url
    IN  /\ cli[c].pc = "hooks"
        /\ enabled[u]
        /\ FetchOrCreate(u, x)
        /\ live' = WithConsumer(Fetched(u, x), x, c)
        /\ cli' = [cli EXCEPT ![c].pc = "playing", ![c].src = x]
        /\ UNCHANGED <<tokens, pub>>
        /\ httpUnchanged

\* serve_http returns: at the hook, or from serving, when the consumer and the
\* source, held through the on_stop hook, are freed before the viewer leaves
\* the entry.
ViewerQuit(c) ==
    /\ cli[c].pc # "idle"
    /\ ViewerLeave(c, cli[c].url)
    /\ live' = IF cli[c].pc = "playing"
               THEN WithoutConsumer(cli[c].src, c) ELSE live
    /\ cli' = [cli EXCEPT ![c] = Gone]
    /\ UNCHANGED <<tokens, pool, pub>>
-----------------------------------------------------------------------------
(***************************************************************************)
(* Timers and workers.                                                     *)
(***************************************************************************)

\* The cleanup delay of a source is over.
DelayElapses(x) ==
    /\ live[x].dying
    /\ live' = [live EXCEPT ![x].dying = FALSE]
    /\ UNCHANGED <<tokens, pool, pub, cli>>
    /\ httpUnchanged

\* SrsLiveSourceManager::notify at the stream u: once cycle() of its source is
\* back, the source leaves the pool if it is dead.  The timer may switch in the
\* cycle() of each source, so the streams are visited in steps of their own.
CleanupTick(u) ==
    /\ pool[u] # None
    /\ IsDead(pool[u])
    /\ pool' = [pool EXCEPT ![u] = None]
    /\ UNCHANGED <<tokens, live, pub, cli>>
    /\ httpUnchanged

\* The async worker.
WorkerStep == DestroyStep /\ UNCHANGED <<tokens, pool, live, pub, cli>>

PubStep(s) ==
    \/ \E u \in Asks[s], x \in Source : StartCycle(s, u, x)
    \/ PublishRejected(s)
    \/ AcquirePublish(s)
    \/ HubFails(s)
    \/ MountFails(s)
    \/ MountCrashes(s)
    \/ Published(s)
    \/ EndPublishing(s)
    \/ KickedForIdle(s)
    \/ BeginUnpublish(s)
    \/ FinishUnpublish(s)
    \/ EndCycle(s)

PlayerStep(c) ==
    \/ \E u \in Asks[c], x \in Source : PlayerFetch(c, u, x)
    \/ PlayerRejected(c)
    \/ PlayerStart(c)
    \/ PlayerStop(c)
    \/ PlayerLeft(c)

ViewerStep(c) ==
    \/ \E u \in Asks[c] : ViewerRequest(c, u)
    \/ \E u \in Asks[c] : /\ ViewerRefused(u)
                         /\ UNCHANGED <<tokens, pool, live, pub, cli>>
    \/ \E x \in Source : ViewerStart(c, x)
    \/ ViewerQuit(c)

LiveNext ==
    /\ up
    /\ \/ \E s \in Session : PubStep(s)
       \/ \E c \in Player : PlayerStep(c)
       \/ \E c \in Viewer : ViewerStep(c)
       \/ \E x \in Source : DelayElapses(x)
       \/ \E u \in Url : CleanupTick(u)
       \/ WorkerStep

LiveSpec == LiveInit /\ [][LiveNext]_lvars

(***************************************************************************)
(* A connection that tears a publish down is a coroutine nobody blocks for *)
(* ever: it joins threads it interrupted and calls hooks with a timeout.   *)
(* The cleanup timer ticks every 3s, and the worker runs while it has a    *)
(* task.  Nothing obliges a peer to publish, to play or to close.          *)
(***************************************************************************)
LiveFairness ==
    /\ \A s \in Session : /\ WF_lvars(up /\ BeginUnpublish(s))
                          /\ WF_lvars(up /\ FinishUnpublish(s))
                          /\ WF_lvars(up /\ EndCycle(s))
    /\ \A x \in Source : WF_lvars(up /\ DelayElapses(x))
    /\ \A u \in Url : WF_lvars(up /\ CleanupTick(u))
    /\ WF_lvars(up /\ WorkerStep)

LiveFairSpec == LiveSpec /\ LiveFairness
-----------------------------------------------------------------------------
(***************************************************************************)
(* Properties.                                                             *)
(***************************************************************************)

\* The session feeds its source: between acquire_publish and the end of
\* release_publish.
Feeding(s) == pub[s].pc \in {"starting", "publishing", "stopping", "closing"}

\* From the fetch of the source to the end of stream_service_cycle a publish
\* connection holds the token of its URL, so that no two connections are ever
\* inside together and release_token always finds its entry.
TokenHeld ==
    \A s \in Session : pub[s].pc # "idle" => tokens[pub[s].url] = s

\* Each source object is fed by one session: the source is marked as published
\* and carries the id of the session until the session has torn it down.
\* Two sessions that fed one source would interleave their frames.
FeederOwnsSource ==
    \A s \in Session : Feeding(s) =>
        LET x == live[pub[s].src]
        IN  ~x.can_publish /\ x.source_id = s

\* The HTTP entry of a stream that is published is never disposing nor
\* disabled, whatever the destroy task of an earlier publish still does.
PublishedIsMounted ==
    \A s \in Session :
        /\ pub[s].pc \in {"publishing", "stopping", "closing"}
        /\ pub[s].url \in RemuxUrl
        => entry[pub[s].url] = "mounted" /\ enabled[pub[s].url]

\* The consumers_ of a source are the connections that play it: a consumer
\* that outlives its connection, or is not listed, would dangle or starve.
ConsumersAttached ==
    \A c \in Client :
        /\ cli[c].pc = "playing" => c \in live[cli[c].src].consumers
        /\ \A x \in Source : c \in live[x].consumers =>
               cli[c].pc = "playing" /\ cli[c].src = x

\* "Idle means no players": a publisher somebody plays is never kicked.
IdleMeansUnwatched ==
    \A x \in Source : live[x].idle => live[x].consumers = {}

\* Sessions that publish at the same time feed distinct sources: two streams
\* are never mixed in one.
FeederSourcesDistinct ==
    \A s, t \in Session : Feeding(s) /\ Feeding(t) /\ s # t =>
        pub[s].src # pub[t].src

RemovesUnused ==
    \A u \in Url : pool[u] # None /\ pool'[u] # pool[u] =>
        /\ live[pool[u]].consumers = {}
        /\ ~\E s \in Session : Feeding(s) /\ pub[s].src = pool[u]

\* The timer never takes away a source that is published or played, nor one
\* whose publisher is still tearing it down.
RemovedWhenUnused == [][RemovesUnused]_lvars

\* A source may be published again only when every handler of the publish that
\* ends is done: its hub is off, and its HTTP entry disposing or gone.
FreedAfterHandlers ==
    [][\A s \in Session : Feeding(s) /\ live'[pub[s].src].can_publish =>
           /\ ~live'[pub[s].src].active
           /\ entry'[pub[s].url] # "mounted" ]_lvars

\* A source that cannot be published is published by some session.
BusyHasPublisher ==
    \A x \in Source : ~live[x].can_publish /\ ~Unreferenced(x) =>
        \E s \in Session : Feeding(s) /\ pub[s].src = x

AllGone ==
    /\ \A s \in Session : pub[s].pc = "idle"
    /\ \A c \in Client : cli[c].pc = "idle"

\* A server that every connection has left for good forgets every stream: no
\* source stays in the pool (or is freed with consumers), unless a publish
\* failed half way and left its source busy, or the server is gone too.
IdleServerForgets ==
    ([](up /\ BusyHasPublisher) /\ <>[]AllGone)
        => <>[](\A u \in Url : pool[u] = None)

\* The publisher of a URL in the sense of PublishLock.
PublisherOf ==
    [u \in Url |-> IF \E s \in Session : Feeding(s) /\ pub[s].url = u
                   THEN CHOOSE s \in Session : Feeding(s) /\ pub[s].url = u
                   ELSE None]

Lock == INSTANCE PublishLock WITH publisher <- PublisherOf

\* At most one session publishes a stream, over all source objects the URL
\* ever has.
ImplementsLock == Lock!LockSpec

=============================================================================
