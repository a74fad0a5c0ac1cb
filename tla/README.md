# A TLA+ model of the SRS media server

This directory models the core of SRS (`src/trunk/src`): the life of a stream
on an origin server, from the session that publishes it to the connections that
play it, and what these rest on: coroutines, the resources that come and go
with connections, and the recovery of lost packets. Modules are checked with
TLC on small instances; the properties that matter most are proved with TLAPS
for every value of the constants.

1. [Inventory](#1-inventory): the parts of the system and what is hard in them
2. [Modules](#2-modules): what models what
3. [Runs](#3-runs): what TLC checks, with which bounds
4. [Fairness](#4-fairness)
5. [Proofs](#5-proofs)
6. [Where the code differs from what it says](#6-where-the-code-differs-from-what-it-says)
7. [Not modelled](#7-not-modelled)
8. [Plan](#8-plan)

## 1. Inventory

SRS is a media server. Sessions publish streams (RTMP, WebRTC, SRT, GB28181),
others play them (RTMP, HTTP-FLV, WebRTC, SRT, RTSP, HLS). A stream is named by
its URL, vhost/app/stream. Every connection is a coroutine of **one** thread
(State Threads), so there are no data races; but a coroutine switches to others
whenever it does I/O, sleeps, waits on a condition, joins another coroutine or
calls an HTTP hook, and what it read before the switch may be stale after it.
Most of what is hard in SRS is there.

| Component | State | Operations | Talks to | What makes it correct |
|---|---|---|---|---|
| Publish tokens (`app/srs_app_stream_token`) | holder of each URL | acquire, release | every publisher | one holder per URL; release by the holder |
| Live source and pool (`app/srs_app_rtmp_source`) | pool URL -> source; can_publish, source id, hub active, consumers, idle and die times | fetch_or_create, on_publish, on_unpublish, create_consumer, on_consumer_destroy, cleanup timer | RTMP connections, HTTP streams, bridges, hub | one publisher per source; a source in use is not freed; an unused one is |
| Live consumer (same file, `app/srs_app_recv_thread`) | queue, jitter, paused, waiting | enqueue, wait, dump_packets, wakeup, pause | the source, the player's coroutine and its receive thread | no lost wakeup; a bounded queue that keeps the sequence headers |
| RTMP connection (`app/srs_app_rtmp_conn`) | where its cycle is | publish, play | all of the above, hooks | acquire and release are paired on every path |
| RTC source and connection (`app/srs_app_rtc_*`) | is_created, bridge, frame builder; session state | create, DTLS done, publish, timeout, dispose | live source through a bridge, session manager | as for the live source, and no use of a removed session |
| SRT source and connection (`app/srs_app_srt_*`) | can_publish, bridge | publish, unpublish | live and RTC source through a bridge | as for the live source |
| Bridges (`app/srs_app_stream_bridge`) | target source | on_publish, on_unpublish | the sources | no cycle; a refused publish does not end another's |
| HTTP-FLV streams (`app/srs_app_http_stream`) | entries, viewers, destroy tasks | mount, unmount, dynamic match, destroy | the source's handler, async worker, viewers | an entry is freed once, after its viewers, whatever is queued before it; a live stream is mounted |
| Resource manager (`kernel/srs_kernel_resource`) | connections, zombies, the batch being freed, maps by name, id and fast id, level-0 cache | add, find, remove, dispose, clear | every connection | freed once, after every subscriber was told; a find never answers what is gone |
| Coroutines (`app/srs_app_st`) | started, disposed, interrupted, the flag of the thread | start, stop, interrupt, pull, end of the cycle | everything | stop joins exactly once, and the join succeeds |
| Async call worker (`app/srs_app_async_call`) | task list, the copy the worker is in | execute, stop | HTTP streams, HLS, DVR, RTC | every task is called once, and none is lost when the worker is stopped |
| HLS (`app/srs_app_hls`) | enabled, disposable, unpublishing, the open segment | publish, unpublish, frames, cycle and dispose | hub, timer of the live sources, async worker, hooks | closed once, by the publisher or the timer; a frame that is taken has a segment; every segment is announced |
| Publish receive thread (`app/srs_app_recv_thread`) | message counts, condition, error | consume, wait, timeout, stop | the publisher's coroutine, the source | it is joined before the source is released; its error is never slept on |
| RTC NACK and ring buffer (`kernel/srs_kernel_rtc_queue`) | packets by 16-bit sequence number, NACK list | set, notify_drop, insert, check_queue | RTC tracks | wraparound; bounded list; a packet that came is not asked for |
| RTC network and DTLS (`app/srs_app_rtc_network`, `_dtls`) | handshake state, timer; who owns the TCP network | packets, retransmission, TCP connections | RTC session, resource manager | the handshake ends or fails; no pointer outlives its object |
| Edge, forwarder (`app/srs_app_edge`, `_forward`) | ingest or publish state | start, stop, cycle | source, upstream | one upstream at a time |
| GOP cache, mix queue (`app/srs_app_rtmp_source`) | cached packets | cache, dump, pop | source, consumers | starts at a keyframe; bounded; monotone |
| RTSP, GB28181, DVR/DASH, processes, circuit breaker, server | see `PROJECT.json` | | | |

**Hard behaviours.** *Interleaving*: two publishers of one URL in their hooks;
a cleanup timer that runs between the fetch and the use of a source; a viewer
that enters an entry while it is destroyed. *Partial failure*: `on_publish`
that fails in its third sub-step. *Ordering*: an unpublish whose handlers
switch while a flag already lets the next publisher in; destroy tasks that run
after the stream is published again. *Stale state*: `is dead` computed from a
time that was never set, and a source fetched before a switch and no longer in
its pool after it; a session found by an address after it was removed.
*Interruption*: a coroutine expired by the API while it joins another.
*Removal during a destructor*: the manager frees one object, whose destructor
waits, and others remove it meanwhile. *Unreliable delivery*: packets lost,
repeated and reordered across the wrap of 16-bit sequence numbers. *Resource
bounds*: a paused player whose queue fills; a list of lost packets that
overflows.
*Liveness*: a consumer asleep with work in its queue; an entry that is never
destroyed; a source that is never forgotten. `PROJECT.json` lists each hazard
at its line with the properties that cover it, or the reason why none does.

## 2. Modules

```
            Streams ------------------- PublishLock   (abstract: one publisher
           /       \                     ^       ^      per stream)
     StreamToken   HttpMount             |       |
       |    \       /     \              |       |
       |    LiveSource     HttpMountProofs       |      LiveConsumer
       |     |  |  \______ implements ___|__     |           |
       | MCLiveSource (for TLC)                 |       LiveConsumerProofs
   CrossPublish | ------------------ implements-+
       |        |
CrossPublishProofs  LiveSourceProofs (uses HttpMountProofs)

             Coroutine                ResourceManager         RtcNack
            /         \                     | (INSTANCE)          |
  PublishLoop      AsyncCallWorker     RtcResources         RtcNackProofs
      |                  |                  |
PublishLoopProofs   HlsPublish        RtcResourcesProofs
                         |
                  HlsPublishProofs
```

**A step** is what a coroutine does between two points where it may switch.
The places `pub[s].pc`, `cli[c].pc`, `pc`, `rpc`, `inside` and `at` are those
switch points.

### The life of a stream

`Streams` declares the URLs and the value that stands for NULL. `StreamToken`
models `SrsStreamPublishTokenManager`; its two handlers run under a mutex and
do not switch, so they are one step each.

`PublishLock` is the abstract specification of the server: a stream is handed
to a session only when no session publishes it, and the session publishes it
until it opens its own source again. It knows nothing of tokens or bridges.

`HttpMount` models `SrsHttpStreamServer` for HTTP-FLV: `http_mount` (`Mount`,
and `MountError` for each of its error returns, two of which leave a listed
entry behind), `http_unmount`, `dynamic_match` (in `ViewerEnter` and
`ViewerRefused`), and `SrsHttpStreamDestroy::call` in two steps, before and
after its polls of the viewers. The worker runs one `call()` at a time. It polls
for 300 s and then, if a viewer is still there, fails an assertion
(`DestroyGivesUp`). `up` becomes FALSE there, and where the code would use the
NULL `entry` of a stream the mux refused (`MountCrash`). Of the fast cache of an
entry only the start, which may fail, is modelled.

`LiveSource` composes tokens and HTTP entries with the pool of live sources.
`pub[s]` follows `SrsRtmpConn::stream_service_cycle` and `publishing`:

| `pc` | in the code |
|---|---|
| hooks | token held, source fetched, in the handshake or the on_publish hook |
| starting | `acquire_publish` closed the source; inside `hub_->on_publish` |
| publishing | `do_publishing` |
| stopping | out of `do_publishing`, joining the receive thread |
| closing | `on_unpublish`, inside `hub_->on_unpublish` |
| leaving | `on_unpublish` done, in the on_unpublish hook |

Clock readings are reduced to what the code asks of them: `dying` is
`now < stream_die_at_ + delay` (FALSE for a `stream_die_at_` that was never
set, which is what makes a new source dead at once), `idle` is
`publisher_idle_at_ # 0`. A player is at hooks with the source it fetched,
playing, or stopping: its consumer is gone, and it holds the source through the
on_stop hook. The timer visits the streams in steps of their own
(`CleanupTick(u)`), as it may switch in the `cycle()` of each source, and stop
there for this tick. `MCLiveSource` only says which streams each connection of
the instance may ask for.

`CrossPublish` follows one stream over RTMP, RTC and SRT, with the source
objects of each protocol, their flags and their bridges. `pool` is what the
three managers would find for the stream; their timers (`LiveNotify`,
`RtcNotify`, `SrtNotify`) may take a source that is not published out of it at
any moment, as a source that was fetched but never lived is dead at once. A
session goes on with the source it holds (`ref`), and a bridge with the one it
was built for, while whoever comes next gets a new one; a source nobody refers
to may be made anew. `closing` and `starting` are the switches inside the hub of
the live source, reached directly or through a bridge; `leaving` is the last
hook, with the token still held; `stalled` is an RTC session whose publish
failed and that waits for its timeout. `up` becomes FALSE when the code would
use a null or freed object. The build is one with all protocols
(`SRS_AUTO_RTC_USE`, `SRS_AUTO_SRT_USE`); one without `SRS_FFMPEG_FIT` has the
bridges from and to RTC off (`RtcToRtmp`, `RtmpToRtc` FALSE).

### The way to a player, and from a publisher

`LiveConsumer` models one player: `SrsLiveConsumer` with `SrsMessageQueue` and
the FULL algorithm of `SrsRtmpJitter`, `SrsRtmpConn::do_playing`, and the
receive thread (`SrsRecvThread`, `SrsQueueRecvThread`). A message is its kind
(metadata, one of the two sequence headers, anything else) and its timestamp.

`Coroutine` is a coroutine as a record, and what `start`, `interrupt`, `stop`
and the end of the cycle of `SrsFastCoroutine` do to it. The flag is that of
the State Threads thread: set by an interrupt, it makes the blocking call the
thread is in, or its next one, fail with EINTR; a join is such a call.

`PublishLoop` has two coroutines: that of the connection (`SrsRtmpConn`,
`do_publishing`) and the receive thread of each publish
(`SrsPublishRecvThread` over `SrsRecvThread`).

| `pc` (connection) | in the code |
|---|---|
| serving | `identify_client` and the publish handshake, reading the socket |
| acquiring | the hooks and `acquire_publish` |
| responding | receive thread started, the peer is answered |
| waiting | in `wait()` of the receive thread |
| joining | in the join of `stop()` |
| releasing | `release_publish` and the hooks |
| gone, aborted | `cycle()` returned; an assertion failed |

`rpc` is where the receive thread is: none, pulling (top of `do_cycle`),
receiving (`recv_message`), handling (`consume`). `signalled` is the condition
the connection waits on: it counts only when somebody waits, as in the library.

### Callbacks of HLS

`AsyncCallWorker` models `SrsAsyncCallWorker`: the list `tasks`, and the
coroutine that takes the whole list (`taken`) and calls its tasks one by one.
`wpc` is where it is: none (not started, or ended), top (created, not yet
scheduled), waiting on the condition, calling a task. Tasks are numbered as
they are queued; `calls` counts the calls of each and is a history variable.
`HttpMount` does not use this module, as the worker of HTTP streams is never
stopped while the server runs.

`HlsPublish` composes it with `SrsHls` and the muxer of one live source, which
share a worker with nobody. Two coroutines may close HLS: that of the publisher
and the timer of the live sources. `at[a]` is where closer `a` is in `stop()`
of the worker, out of it, calling the tasks it found (`mine[a]`), or in the
join.

| `pub` | in the code |
|---|---|
| idle | nobody publishes |
| starting | `on_publish`, in the join of the worker the last publish left |
| publishing | frames arrive |
| feeding | HLS failed on a frame and `hls_on_error` says to go on: inside `on_unpublish` |
| leaving | it failed and `hls_on_error` says to disconnect |
| closing | the publisher ended: inside `on_unpublish` |
| failed | `on_publish` failed, the live source stays closed (section 6) |
| aborted, unopened | an assertion failed: of a join, of the muxer's segment |

`silent` is that `hls_dispose` has elapsed since the last frame.

### Resources

`ResourceManager` is `SrsResourceManager` as a record, its operations as
operators from one record to the next, as none of them but `clear` switches.
It has no variables: it is instantiated.

`RtcResources` instantiates it for the objects of WebRTC: sessions, and for
each RTC-over-TCP connection the executor coroutine and the handle that shares
the connection (`SrsSharedResource`). Whatever removes or finds them is there:
the API that creates and kicks, UDP packets, bindings and alerts, the timer of
the server, the TCP coroutine from its accept to its end. `life[r]` goes from
unborn through alive and (for a session, whose destructor joins the coroutines
of its streams) dying to freed. `owner`, `tcp[t].session` and `tcp[t].running`
are the raw pointers of the code; `crashed` becomes TRUE when a freed object
would be touched. `inside` is the session the UDP listener found and the call
it is in, which may switch. RTC over TCP is compiled where `SRS_AUTO_RTC_USE`
is defined, as `src/trunk/ide/srs_msvc/CMakeLists.txt:336` does for the Windows
build; `auto_headers.sh` defines `SRS_RTC` only, so this module is of that
build.

### Lost packets

`RtcNack` models `SrsRtpRingBuffer` (its interval of sequence numbers) and
`SrsRtpNackForReceiver` as `SrsRtcRecvTrack::on_nack` and `do_check_send_nacks`
use them. A packet is its number in the stream, which does not wrap; the code
sees `n % Width`. `packet` in an entry of the list, `span` and `missing` are
history variables: what the code cannot see, and the properties are about.
`recounts` is another: a list that overflows clears the buffer but not its count
of wraps, and it becomes TRUE when the buffer then starts again before the last
wrap it counted (section 6). The network loses, repeats and reorders; the
circuit breaker is an arbitrary answer.

Definitions that start with "Mutation:" or "Mutant:" in their comment are
plausible bugs; no specification uses them. They show that each property would
notice.

## 3. Runs

| Run | Module | What it shows |
|---|---|---|
| `live_source` | MCLiveSource | Two URLs, two publishers, a player and a viewer: exclusive publishing, the entry of a live stream is mounted, consumers attached, a source freed only when unused and reopened only after its handlers; implements `PublishLock`; an entry is freed once, without viewers, and in the end, behind another one in the queue too, or the server has aborted; when everyone left, the pool empties. |
| `live_source_busy` | MCLiveSource | Violation, see section 6. |
| `cross_publish` | CrossPublish | Two sessions of each protocol, all bridges, timers that take fetched sources: one publisher at a time; implements `PublishLock`; no two sessions feed one live source; no bridge cycle; marks survive others' failures. |
| `cross_teardown` | CrossPublish | Violation, see section 6. |
| `live_consumer` | LiveConsumer | A player under every interleaving with the source, its peer and `expire`: never asleep on work, bounded queue, headers kept, commands served, an expired player leaves. |
| `live_consumer_meta` | LiveConsumer | Violation, see section 6. |
| `publish_loop` | PublishLoop | A publisher that publishes again, closes, falls silent or is expired: the receive thread is joined before its source is released, its error is never slept on, the connection ends without the help of a timeout, or, silent, with it. |
| `publish_join` | PublishLoop | Violation, see section 6. |
| `hls_publish` | HlsPublish | HLS closed by its publisher and by a timer, opened again, failing anywhere: each callback is called, and once, though who stops the worker and the worker itself call tasks of one list; the stop returns, and leaves nothing; a frame finds a segment. |
| `rtc_resources` | RtcResources | Two sessions whose addresses collide in the cache, one TCP connection: queued for removal once, found until disposed of and never after, no pointer outlives its object, all that is removed is freed, a freed session takes its TCP connection along. |
| `rtc_removed_late` | RtcResources | Violation, see section 6. |
| `rtc_nack` | RtcNack | Loss, repetition and reordering across the wrap: what is missing is listed until it arrives or is given up, the highest sequence number of receiver reports is never ahead, and the list empties. |

**Bounds.**

* `live_source`: two publishers are enough for one to be in any phase of its
  publish while the other is at any point of its own. Both streams have HTTP
  remux, so two entries can wait for the one destroy worker, the second behind
  one that a viewer keeps; u1 has a fast cache that may not start, and the mux
  may refuse the path of u2. One publisher may ask for both streams; the other,
  the player and the viewer ask for u1 (`MCAsks`). Two source objects allow one
  in the pool and one kept alive by a connection after the timer took it out,
  or one for each stream, which may mix them up. The run has liveness, so no
  symmetry: about 820,000 states. That entries are freed once and without
  viewers is also proved for all URLs and viewers (`DestroyedOnce`,
  `NoViewerOfFreedEntry`).
* `cross_publish`: two sessions of each protocol, so that each protocol can
  meet itself and both others in any phase. Three live and three RTC sources:
  one held by each of two sessions after the timer took it from the pool, and
  the one in the pool. One SRT source, as only the session with the token holds
  one and nothing is bridged to it. About 456,000 states.
* `live_consumer`: `MaxMsgs` (3) bounds the queue and `MaxTime` (5) the
  timestamps. The queue holds 3 units of time and a jitter of 2 is let through,
  so that three messages may span more than the queue. With a player that waits
  for more than one message, the queue overflows, shrinks, and is dumped before
  and after. `Batch` is 1, as with `send_min_interval`: each dump
  leaves messages behind, which is the interesting case. `Steady` restricts the
  publisher to timestamps that do not go back; the bound of the queue is
  promised for those only. Publishers that start over, or send out of order,
  are in no run, as they make the corrected times grow without bound; what
  holds of the time of those is proved (`TimeIsSmooth`, section 5). About
  1,200,000 states.
* `publish_loop`: `MaxSends` (5) is enough for publish, media, unpublish,
  publish again and one more; `MaxInbox` (2) leaves a message unread when the
  thread is stopped. About 37,000 states. `publish_join` needs 2 sends.
* `hls_publish`: a segment announces itself with two tasks, so `MaxTasks` (6) is
  three segments: one whose tasks the worker is in, one whose tasks the closer
  calls, and one of the next publish. About 5,700 states.
* `rtc_resources`: two peer addresses share the only slot of the cache, and
  each session can learn both. The TCP connection serves either session. About
  247,000 states. `rtc_removed_late` has one session and two TCP connections.
* `rtc_nack`: `Width` 16 stands for 65536, and the packets 7 to 22 cross the
  wrap. The list is full at 4, an entry expires after 3 ticks or 1 request,
  requests are 1 or 2 ticks apart as the round trip time varies; packets come
  up to 2 late and up to 2 in a row are lost. The first packet is far enough
  from the wrap for a late one to be compared with an old begin, so that packets
  are listed that do not exist yet, and near enough for the list to overflow
  just after the wrap, so that it is counted twice. About 287,000 states.
  `Arrives` also asks that less than half the numbers, less `MaxQueue`, pass
  while one is listed: at 16 bits, 32102 packets within the life of an entry.

Deadlock is not checked where the system stops: `LiveSource`, `CrossPublish` and
`RtcResources` when the code would abort or crash (and the last when all is
freed),
`LiveConsumer` when the player left, `PublishLoop` when the connection ended or
aborted, `RtcNack` when the stream ended and its list is empty, `HlsPublish`
when a publish failed, as the source stays closed, or an assertion did.

Type invariants are theorems (section 5) and in no run, except that of
`RtcNack`, which holds the bound of the list.

Each property of a passing run has a mutant: a change of one action or helper,
of the kind a patch could introduce, that violates it.

## 4. Fairness

`LiveSource`: a connection that tears down a publish makes progress (the
threads it joins were interrupted, hooks have a timeout); the cleanup delay
passes and the timer, every 3 s, comes to each stream (a `cycle()` that fails
ends the sweep of one tick; that it fails for ever on a stream before this one
is excluded); the async worker runs while it has tasks, and polls a bounded
number of times. Nothing obliges a peer to publish, to play, to close or, for a
viewer that was expired, to leave: hence `DisposingEnds` is that the entry is
destroyed or the server has aborted, and no third thing.
`IdleServerForgets` assumes that every connection is gone for good, that no
publish failed half way (section 6 says why), and that the server is up.

`LiveConsumer`: the player's coroutine is scheduled when it can run, and a send
ends, at the latest by its timeout. Asleep, it is *not* scheduled: that
somebody wakes it up is what is checked. Source, peer and API are free.

`PublishLoop`: the two coroutines are scheduled when they can go on. Timeouts
are actions of their own without fairness, so `DoneLeaves` holds without them;
`SilentLeaves` assumes that they elapse. A peer that falls silent is what the
bound `MaxSends` makes of it.

`HlsPublish`: the worker is scheduled and a callback ends, at the latest by its
timeout; who joins the worker is scheduled when it has ended. Publisher and
timer are free. `AllCalled` excludes publishers who come and fail for ever,
each stopping the worker of the one before that was never scheduled: a hook
gives it time to run, but a publish that fails in the hub need not wait for
one.

`RtcResources`: the manager's coroutine runs; the coroutine of a TCP connection
returns from its call and, interrupted, from its read. Nobody is obliged to
time out, kick or close.

`RtcNack`: time passes and the shared timer of the server calls the track,
which assumes that the circuit breaker is not at high water for ever.
`ListEmpties` excludes a network that repeats packets for ever: each repetition
may list a number anew and hold back the walk over the list (section 6).

## 5. Proofs

All theorems hold for any sets of URLs, sessions, sources, players, viewers,
addresses and connections, any bounds and any configuration; their assumptions
are the named `ASSUME`s of the modules (NULL is not a URL, the protocols'
sessions are disjoint, sizes are natural numbers, batches are not empty, the
cache of the manager has a slot, a fast id is a positive number, and the window
of sequence numbers is wide for the list and the network, see below).

**HttpMountProofs** (`HttpTypeCorrect`, `DestroyedOnce`,
`NoViewerOfFreedEntry`, `MountedCanBeMatched`). The property that a disposing
entry has exactly one task is not inductive as it stands: `FinishDestroy` takes
the head of the queue, and only if no other task has the same URL does the
entry it leaves have none. `QueueOK` says so. `EnabledOK` adds that the entry
of the running task is disabled: nothing mounts, so nothing enables, a
disposing entry, hence no viewer enters between the poll that finds it empty
and the moment it is freed.

**LiveSourceProofs** (`TokenIsHeld`, `SourceIsOwned`, `SourcesAreDistinct`,
`RemovalIsSafe`, `LiveSourceIsLock`, `LiveTypeCorrect`,
`PublishedStaysMounted`). `LiveInv` is the shape of connections and pool, the
token held from the fetch of the source to the end of the cycle, and the mark
of the feeder on its source. The token gives one connection per URL inside the
cycle, but not one per source: two URLs could share one. That the source is
closed *and carries the feeder's id* settles it, as a second feeder could not
have found it open. The refinement of `PublishLock` follows as each step moves
one connection: into `starting` under a token, hence while nobody feeds the
stream; out of it; or neither. Every step is also a step of `HttpMount` or
leaves its variables alone (`LiveSourceIsMount`), so the theorems of
`HttpMountProofs` hold of the composed server (`LiveDestroysOnce`,
`LiveViewersAreSafe`). Which streams a connection asks for plays no part:
`NextIsAny` weakens the next-state relation to one where it may ask for any.

The second half of the module (`ConsumersAreAttached`, `IdleIsUnwatched`,
`HandlersEndFirst`) extends the invariant to those who watch. A fresh
source has no consumers because nobody refers to it (`RemovalIsSafe` gave that
back), and the steps of publishers leave the references of players and viewers
alone (`SamePlays`, `SameWatch`). For `FreedAfterHandlers`, `ClosingIsOff` says
that a source in its teardown has its hub off, and only the feeding session
opens its source or switches its hub on: by `SourceIsOwned` there is no second
one.

**CrossPublishProofs** (`CrossTypeCorrect`, `CrossPublishIsLock`,
`OneFeederPerLive`, `BridgesDoNotCycle`, `FeedersStayMarked`,
`RtcSourceRecovers`). A source in a pool is no help by itself, as the timers may
take it. `LockInv` says what the lock rests on. RTMP and SRT sessions hold the
token from end to end, so there is one of them at most. An RTC session gives
the token back when it is created, but it marked its *RTC* source in that very
step, and the timer takes no marked source: until the session opens it
(`RtcHeld`) every newcomer finds it in the pool, closed. Conversely an RTC
session that is created finds the token free, so no RTMP or SRT session is
past its own entry. The live source an RTC session fetched has no part in this,
and may go.

`FeedInv` is about what the sessions feed, which is where that live source
matters: an RTC session that is being freed has opened its RTC source and may
have a live source, pooled or not, still to unpublish, while a newcomer
publishes. `LiveFedByOne` says that the newcomer's is another one: a live source
being unpublished is marked (`FedMarked`), and whoever fetches one that is
marked is refused, or gets a fresh one, to which nobody refers. `RtcOwned` says
that a bridge of an RTC source belongs to a session that has not been freed,
`StartQuiet` and `NoPair` exclude the cycle. The teardown itself is not safe all
the same (section 6).

**LiveConsumerProofs** (`ConsumerTypeCorrect`, `PlayerIsWoken`,
`QueueIsBounded`, `TimeIsSmooth`, `HeadersAreKept`). The bound of the queue needs the most:
`SpanBounded` speaks of the messages, the code compares the two ends it keeps,
and dumps and shrinks move the start. `OrderedQueue` ties them: timed packets
are in order, between start and end; the start lies after the end only if it is
the time of metadata, which is 0 and makes the queue shrink too early, never
too late. `TimeIsSmooth` bounds how far the time of a player moves from a packet
to the next, for publishers that are steady, send out of order or start over;
it allows steps back of up to a jitter, which is what the code does and less
than its comments say (section 6). `SmoothQueue` is the invariant behind it: the
last timed packet is at the end of the queue, and the end is the
last corrected time, unless that has stopped at 0 since, from a time near
enough; so the next packet, or the headers a shrink moves to the end, follow
without a jump.

**PublishLoopProofs** (`PublishTypeCorrect`, `RecvStopsBeforeRelease`,
`ErrorIsNoticed`). `RecvTied` ties the record of the receive coroutine to the
place of the connection: running, or ended and not yet joined, while the
connection responds, waits or joins; joined or never started elsewhere; stopped
by nobody but the connection. With it `RecvStopsFirst`
follows, and the signal of a thread that ends while the connection waits is the
one the connection waits for.

**HlsPublishProofs** (`HlsTypeCorrect`, `CallbacksCalledOnce`,
`SegmentIsOpen`, `StopIsComplete`). `Split` says that each queued task is in
one place of one list (the worker's, the closers', what is not taken yet) and
not called, or in none and called once. The lists move in three ways only: a
task is appended, the head of one is called, or one is handed over to an empty
one (`SplitGrows`, `SplitCalls`, `SplitSwaps`). `ClosersTied` has one closer at
a time, and an empty list until it is out, as `unpublishing_` shuts out the
frames that would queue more; `WorkerTied` ties the coroutine to where it is.
Together they give that a stop leaves nothing behind.

**RtcResourcesProofs** (`ResourcesTypeCorrect`, `QueuedOnce`,
`LookupsAreExact`, `PointersStayAlive`). `ResourcesInv` adds to the types
`QueueInv` (nothing is queued twice or in the batch twice, and what is there
was created), `TcpInv` (which objects live in which phase of a TCP connection),
`MapsInv` (the maps point at connections only) and `PointerInv`. `MapsInv`
shows something the code does not say: the item of the level-0 cache is never
`available` for sessions, since they are added under an id only after their
fast id took the slot, so the level-0 cache answers nothing and every lookup
goes to the map. Exactness of `FindByFastId` holds in both cases.

**RtcNackProofs** (`NackInvariance`, `NackTypeCorrect`, `MissingAreListed`,
`NeverReportsAhead`). The code compares numbers modulo `Width`; the properties
are about packets. The first part of the module is modular arithmetic for any
even `Width`: numbers of packets less than a round apart are equal only if the
packets are (`SeqUnique`), the signed distance of two numbers is that of the
packets if these are less than half a round apart (`DistanceIs`), a range of
numbers is that of the packets between (`BetweenIs`) and has as many elements
(`RangeCardinality`), and wraps are not over-counted by steps shorter than a
round (`WrapsCount`). `NackInv` then says which packets the numbers of the state
stand for: the end of the buffer for `e`, its begin for `b`, a listed number for
the packet in its entry; and that all of them but `b` stay near the newest
packet (`Bounds`). So every comparison the code makes is one of packets, except
those with `begin_`, which may be arbitrarily old: a late packet compared with it
may list a range that reaches ahead of the stream. This is what makes
`MissingIsListed` not inductive: when such a packet arrives it is found on the
list, so the buffer is not updated and the range it shows missing is not
inserted. `AheadIsListed` says that this range is on the list already, all of it;
and for that to survive `Check`, `AheadAges` says that of the entries ahead the
later ones are no younger and were requested no less, so that the walk reaches
all of them or none (`WalkTogether`) and drops no first one without the rest
(`DroppedTogether`). The bound of the list uses that a range is counted before
it is kept.

`WidthAssumption` is what these arguments ask of the constants. In the code the
list is full at 666 entries (66 for audio; two thirds of the buffer) and `Width` is
65536, so it says that the network is less than 32102 packets late, loses at most
that many in a row, and the two are together below 32768.

**Checked by TLC only.** Liveness (`DisposingEnds`, `IdleServerForgets`,
`CommandServed`, `ExpiredLeaves`, `DoneLeaves`, `SilentLeaves`, `AllCalled`,
`CloserReturns`, `RemovedIsFreed`, `FreedSessionClosesTcp`, `ListEmpties`) is out of the
prover's reach. Every invariant and every action property of the passing runs
is a theorem. `SourcesAreDistinct` and `MountedCanBeMatched` are proved and
in no run, as they follow from what the runs check; so is `TimeIsSmooth`, as its
streams are infinite (section 3).

## 6. Where the code differs from what it says

Each is a run that TLC ends with a counterexample; `PROJECT.json` quotes the
texts.

* `live_source_busy`: `on_publish` closes the source first; when the hub, the
  HTTP mount or a bridge then fails, nobody opens it again and the stream stays
  busy. (The SRT source has the same defect.)
* `cross_teardown`: the RTC source is reopened before its bridge is told of the
  unpublish; a session that enters in between unpublishes it a second time and
  finds its frame builder gone.
* `live_consumer_meta`: after metadata was the last message given to a player,
  its queue is taken to start at time 0, and the next packet is dropped.
* `publish_join`: a connection that joins its receive thread is expired by the
  API; the join fails with EINTR and the assertion in `stop()` ends the process
  (`app/srs_app_st.cpp:202`).
* `rtc_removed_late`: the manager forgets the objects it disposes of
  (`kernel/srs_kernel_resource.cpp:361`) before it runs their destructors, and
  that of an RTC session waits; who removes the session again meanwhile puts it
  back in the queue, and it is freed twice.

More were met without a run of their own.

* A new source has `stream_die_at_ = 0`, so the timer finds it dead and takes it
  out of the pool while its publisher is still in a hook; a player who comes
  then gets another source and never sees the stream (`dying` FALSE in
  `LiveSource`). A unit test, `utest/srs_utest_source_lock.cpp:336`, expects of
  concurrent fetches that there are "no duplicates created". A player of a
  stream that never lived loses its source to the timer in the same way.
* The same timer takes the live source that an RTC session fetched for its
  bridge (`app/srs_app_rtc_conn.cpp:1223`) and publishes only when DTLS is done
  (`LiveNotify`): the session then feeds a source that RTMP and HTTP players do
  not find.
* A publish overlaps with the end of the one before it: an RTC session that is
  freed opens its RTC source, then unpublishes its live source, which switches
  in the hub. If the timer took that live source before the session started, a
  newcomer passes all checks and publishes on a fresh one. The two never feed
  one source (`LiveFedByOne`), but, by reading only, the late unpublish reaches
  what is keyed by URL: `http_unmount` disposes of the newcomer's HTTP entry.
* A newcomer that creates an RTC session in that gap replaces, and frees, the
  bridge the old one is still inside (`set_bridge`,
  `app/srs_app_rtc_source.cpp:581`); one fed through a bridge of another source
  finds `bridge_` set and `frame_builder_` null (`BridgeBuilt`).
* An `http_mount` that fails after `streamHandlers_[sid] = entry`
  (`app/srs_app_http_stream.cpp:1112`) leaves the entry listed. When the mux
  refused its path the stream has no mux entry, and the next mount or match of
  the URL dereferences NULL (`MountCrash`), unless an unmount comes first.
* A viewer that is still inside 300 s after its entry's destroy task started,
  whatever keeps it, makes the task fail its assertion, which aborts the server
  (`DestroyGivesUp`, `app/srs_app_http_stream.cpp:1363`).
* An RTC session can be removed, and freed, while the coroutine that finished
  its handshake is still inside its start (`app/srs_app_rtc_conn.cpp:1936`).
* `SrsRtmpJitter` lets a negative delta of up to 250 ms through, though its
  comments promise to "enforce the time monotonically"
  (`app/srs_app_rtmp_source.cpp:113`) (`Advanced`, with `Steady` FALSE;
  `MostBackwards` in `LiveConsumerProofs`).
* An HTTP viewer of a stream nobody publishes mounts an entry on an origin,
  which a comment reserves to an edge (`ViewerEnter`).
* The publish token of an RTC session is given back at once, though the token
  is documented as exclusive over all protocols (`RtcCreate`).
* The ring buffer does not count the wrap when 65535 is followed by 0 in order,
  and reports one less than 0 for the highest number while `end_` is 0: the
  extended sequence number of a receiver report falls behind, or underflows
  (`Wraps`, and the second condition of `ExtendedNeverAhead`).
* `notify_nack_list_full` clears the buffer but keeps its count of wraps
  (`kernel/srs_kernel_rtc_queue.cpp:133`). When the list overflows just after a
  wrap, and the next packet is a late one from before it, the extended sequence
  number of receiver reports is 65536 ahead at once, and stays so where the same
  wrap is counted again; the count is documented as "Increase one when uint16 flip
  back" (`kernel/srs_kernel_rtc_queue.hpp:38`). Without the first condition of
  `ExtendedNeverAhead`, TLC shows it.
* A packet before the first that the buffer saw is put on the list itself, as
  the range that `update()` reports starts at it: it is requested though it came
  (`RangeOf`, `Between`).
* `begin_` of the ring buffer moves only when a number is given up; after 32768
  packets without a loss, a repeated packet counts as one before the first
  (`Updated`, `RangeOf`).
* The timer closes HLS that was silent for `hls_dispose` and waits in `stop()`.
  A publisher that comes meanwhile finds `enabled_` still TRUE, so `on_publish`
  returns at once; then it becomes FALSE and the files are removed: the new
  stream has no HLS until it is published again. Nor has a publisher that was
  silent for so long and sends again. `conf/full.conf:1424` speaks of removal
  "If there is no incoming packets" only (`Publish`, `StopJoined`).
* The join of the worker in `on_unpublish` can be interrupted like that of
  `publish_join`, with the same assertion (`JoinInterrupted`).
* Callbacks may be called out of order: `stop()` calls the last ones while the
  worker is in earlier ones (`BeginStop`).
* The walk over the NACK list stops at the first number that is too young, so a
  network that repeats old packets can keep others from being given up.

## 7. Not modelled

Frames, and what transforms them (codecs, containers, RTP and RTMP encodings),
the configuration, statistics and the stateless HTTP handlers are left out, as
no property here depends on them. Most of the 237,000 lines of the repository's
own code are of these kinds, a third-party HTTP parser included, or unit tests:
the modules cover the part that has state shared by coroutines, a small share
of the lines.

In `LiveSource` the hub is one switch point that may fail, and the consumer
that a fast cache has of its source is left out. In `CrossPublish`
the timers are free to come at any moment, which stands for the delays and the
consumers that hold them back; the bridge to RTSP is left out as nobody publishes
through it. In `RtcResources` the index of the level-0 cache is the id modulo
the size, without the folding of its two halves (`SlotOf`). In `LiveConsumer`
the stream is not ATC and the jitter algorithm is the default one;
`send_min_interval`, the duration limit and the statistics of the loop are left
out. In `PublishLoop` merged reads are left out, and the publish of an edge. In
`RtcResources` the streams inside a session are the wait in its destructor, and
the destructor of the manager is left out, as the server never runs it while
coroutines run. In `RtcNack` the ring buffer of a send track, whose slots alias
when a packet is older than the buffer, is left out.

In `HlsPublish` the window of segments, the playlist, the durations and the
encryption are left out. So is the controller of fMP4, which does not work
alike: it opens its segment on the first frame, not on the publish, and queues
tasks of its own for init.mp4 (`app/srs_app_hls.cpp:569`). So are the destructor of
the worker, which drops tasks when the source is freed, and the reload of HLS,
which nothing in the repository calls.

`PROJECT.json` names every component with the reason.

## 8. Plan

Done: `PublishLock`, `StreamToken`, `HttpMount`, `LiveSource`, `CrossPublish`,
`LiveConsumer`, `Coroutine`, `PublishLoop`, `AsyncCallWorker`, `HlsPublish`,
`ResourceManager`, `RtcResources`, `RtcNack`, and the proofs of every safety
property that a passing run checks.

Left, in this order:

1. DTLS retransmission and the hourglass timers: a handshake under loss that
   ends or fails
2. `Edge` and `Forwarder`: one upstream at a time; the edge's play and publish
   states under a source that comes and goes
3. `GopCache` and `MixQueue`: pure operators, checked against references
4. The send track's ring buffer, with the lemmas about sequence numbers of
   `RtcNackProofs`
5. Child processes (start, stop, kill), the window of HLS fragments
6. RTSP and GB28181 sessions, in the way of `RtcResources`
7. The shutdown of the server
