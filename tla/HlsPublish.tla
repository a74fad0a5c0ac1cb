----------------------------- MODULE HlsPublish ------------------------------
(***************************************************************************)
(* SrsHls of one live source, which its publisher opens, feeds and closes, *)
(* and which a timer disposes of when it was silent for too long.  Closing *)
(* it announces the last segment and stops the worker that calls the HTTP  *)
(* callbacks: it calls those that are queued, and joins the worker.  Both  *)
(* switch coroutines, in the publisher's or in that of the timer.          *)
(*                                                                         *)
(* A step is what a coroutine does between two calls that may switch.      *)
(*                                                                         *)
(* The segments are those of the MPEG-TS controller, the default.  That of *)
(* fMP4, which opens a segment on the first frame instead of on publish    *)
(* and also announces its init.mp4, is left out.                           *)
(***************************************************************************)
EXTENDS AsyncCallWorker

VARIABLES
    enabled,        \* enabled_
    disposable,     \* disposable_
    unpublishing,   \* unpublishing_
    silent,         \* hls_dispose has passed since last_update_time_
    segment,        \* current_ of the muxer
    pub,            \* where the publisher is
    conn,           \* its coroutine
    at,             \* where in stop() the publisher and the timer are
    mine            \* the tasks that they call there

hlsVars == <<enabled, disposable, unpublishing, segment>>
vars == <<workerVars, hlsVars, silent, pub, conn, at, mine>>

\* "idle": nobody publishes; "starting": on_publish joins a worker that the
\* last one left; "publishing"; "failed": on_publish failed, and the source
\* stays closed; "leaving": after an error; "feeding": inside on_unpublish
\* because HLS failed, which hls_on_error ignores; "closing": inside
\* on_unpublish; "aborted": a join failed; "unopened": a frame met no segment.
Pub == {"idle", "starting", "publishing", "failed", "leaving", "feeding",
        "closing", "aborted", "unopened"}

Closer == {"publisher", "timer"}

StopPc == {"out", "calling", "joining"}

HlsTypeOK ==
    /\ WorkerTypeOK
    /\ enabled \in BOOLEAN /\ disposable \in BOOLEAN /\ unpublishing \in BOOLEAN
    /\ silent \in BOOLEAN /\ segment \in BOOLEAN
    /\ pub \in Pub
    /\ conn \in CoroutineRec
    /\ at \in [Closer -> StopPc]
    /\ mine \in [Closer -> Seq(Task)]

HlsInit ==
    /\ WorkerInit
    /\ enabled = FALSE /\ disposable = FALSE /\ unpublishing = FALSE
    /\ silent = FALSE /\ segment = FALSE
    /\ pub = "idle" /\ conn = NewCoroutine
    /\ at = [a \in Closer |-> "out"]
    /\ mine = [a \in Closer |-> <<>>]

Over == pub \in {"aborted", "unopened"}
-----------------------------------------------------------------------------
(***************************************************************************)
(* on_publish.                                                             *)
(***************************************************************************)

\* The worker starts, then update_config and segment_open of the TS muxer, which
\* may fail; and so may a later component of the hub.  A segment that was left
\* open remains.
Open ==
    /\ NewWorker
    /\ \/ /\ enabled' = TRUE /\ disposable' = TRUE /\ unpublishing' = FALSE
          /\ segment' = TRUE
          /\ pub' \in {"publishing", "failed"}
       \/ /\ segment' \in {segment, TRUE}
          /\ pub' = "failed"
          /\ UNCHANGED <<enabled, disposable, unpublishing>>

\* SrsAsyncCallWorker::start joins the coroutine of the worker first, if
\* nobody did.  HLS that is still enabled is left as it is.
Publish ==
    /\ pub = "idle"
    /\ conn' = Started(NewCoroutine)
    /\ silent' = FALSE
    /\ \/ /\ enabled
          /\ pub' \in {"publishing", "failed"}
          /\ UNCHANGED <<trd, wpc, hlsVars>>
       \/ /\ ~enabled /\ trd.thread \in {"none", "joined"}
          /\ Open
       \/ /\ ~enabled /\ trd.thread \notin {"none", "joined"}
          /\ trd' = Stopping(trd)
          /\ pub' = "starting"
          /\ UNCHANGED <<wpc, hlsVars>>
    /\ UNCHANGED <<tasks, queued, taken, signalled, calls, at, mine>>

Start ==
    /\ pub = "starting"
    /\ Joinable(trd) /\ ~conn.flag
    /\ Open
    /\ UNCHANGED <<tasks, queued, taken, signalled, calls, silent, conn, at, mine>>
-----------------------------------------------------------------------------
(***************************************************************************)
(* on_unpublish, by the publisher or by the timer.                         *)
(***************************************************************************)

\* Where on_unpublish returns to in place p.
Back(p) == IF p = "feeding" THEN "publishing" ELSE IF p = "closing" THEN "idle" ELSE p

\* Who disposes goes on to free the segment.
Left(a, seg) == seg /\ a # "timer"

\* Mutant: the list is left to the worker.
BeginStopOnly(a, list) ==
    /\ tasks' = list
    /\ trd' = Stopping(trd)
    /\ signalled' = (signalled \/ wpc = "waiting")
    /\ at' = [at EXCEPT ![a] = "joining"]
    /\ UNCHANGED mine

\* Mutant: the worker is signalled and not interrupted.
BeginStopQuietly(a, list) ==
    /\ tasks' = <<>>
    /\ IF list # <<>>
       THEN mine' = [mine EXCEPT ![a] = list] /\ at' = [at EXCEPT ![a] = "calling"]
       ELSE at' = [at EXCEPT ![a] = "joining"] /\ UNCHANGED mine
    /\ signalled' = (signalled \/ wpc = "waiting")
    /\ UNCHANGED trd

\* stop() of the worker: call the tasks of the list, if any, and then signal,
\* interrupt and join its coroutine.
BeginStop(a, list) ==
    /\ tasks' = <<>>
    /\ IF list # <<>>
       THEN /\ mine' = [mine EXCEPT ![a] = list]
            /\ at' = [at EXCEPT ![a] = "calling"]
            /\ Signal(list)
            /\ UNCHANGED trd
       ELSE /\ trd' = Stopping(trd)
            /\ at' = [at EXCEPT ![a] = "joining"]
            /\ signalled' = (signalled \/ wpc = "waiting")
            /\ UNCHANGED mine

\* Closing a segment queues on_hls and on_hls_notify, unless it is too short or
\* cannot be renamed.
Closings(list, seg) ==
    {list} \union {l \in {Executed(Executed(list))} : seg /\ CanExecute(list, 2)}

\* Mutant: it does not look at unpublishing_.
UnpublishAgain(a, p, list, seg) ==
    \/ /\ ~enabled
       /\ tasks' = list /\ Queue(list) /\ Signal(list)
       /\ segment' = Left(a, seg) /\ pub' = Back(p)
       /\ UNCHANGED <<enabled, unpublishing, trd, at, mine>>
    \/ /\ enabled
       /\ \E l \in Closings(list, seg) : Queue(l) /\ BeginStop(a, l)
       /\ unpublishing' = TRUE /\ segment' = FALSE /\ pub' = p
       /\ UNCHANGED enabled

\* The caller is in place p, list are the tasks and seg the segment it left.
Unpublish(a, p, list, seg) ==
    \/ \* It is off, or somebody is closing it.
       /\ ~enabled \/ unpublishing
       /\ tasks' = list /\ Queue(list) /\ Signal(list)
       /\ segment' = Left(a, seg) /\ pub' = Back(p)
       /\ UNCHANGED <<enabled, unpublishing, trd, at, mine>>
    \/ \* The last audio or the segment fails, and the worker is not stopped.
       /\ enabled /\ ~unpublishing
       /\ \E l \in Closings(list, seg) : tasks' = l /\ Queue(l) /\ Signal(l)
       /\ segment' \in {FALSE, Left(a, seg /\ tasks' = list)}
       /\ enabled' = FALSE /\ pub' = Back(p)
       /\ UNCHANGED <<unpublishing, trd, at, mine>>
    \/ /\ enabled /\ ~unpublishing
       /\ \E l \in Closings(list, seg) : Queue(l) /\ BeginStop(a, l)
       /\ unpublishing' = TRUE /\ segment' = FALSE /\ pub' = p
       /\ UNCHANGED enabled

\* A blocking call of the closer returns.
Awake(a) == conn' = IF a = "publisher" THEN Woken(conn) ELSE conn

\* A call of stop() returned.
StopCalled(a) ==
    /\ at[a] = "calling"
    /\ Called(mine[a])
    /\ mine' = [mine EXCEPT ![a] = Tail(@)]
    /\ IF Len(mine[a]) > 1 THEN UNCHANGED <<trd, at, signalled>>
       ELSE /\ trd' = Stopping(trd)
            /\ at' = [at EXCEPT ![a] = "joining"]
            /\ signalled' = (signalled \/ wpc = "waiting")
    /\ Awake(a)
    /\ UNCHANGED <<tasks, queued, wpc, taken, hlsVars, silent, pub>>

\* The worker is joined, and on_unpublish returns.
StopJoined(a) ==
    /\ at[a] = "joining"
    /\ Joinable(trd)
    /\ a = "publisher" => ~conn.flag
    /\ trd' = Stopped(trd)
    /\ at' = [at EXCEPT ![a] = "out"]
    /\ enabled' = FALSE /\ unpublishing' = FALSE
    /\ segment' = Left(a, segment)
    /\ pub' = IF a = "publisher" THEN Back(pub) ELSE pub
    /\ UNCHANGED <<tasks, queued, wpc, taken, signalled, calls, disposable,
                   silent, conn, mine>>

\* A join of the publisher fails with EINTR, and stop() asserts that it does not.
JoinInterrupted ==
    /\ conn.flag
    /\ pub = "starting" \/ at["publisher"] = "joining"
    /\ pub' = "aborted"
    /\ UNCHANGED <<workerVars, hlsVars, silent, conn, at, mine>>
-----------------------------------------------------------------------------
(***************************************************************************)
(* The publisher feeds HLS.                                                *)
(***************************************************************************)

\* Mutant: on_audio and on_video do not look at unpublishing_.
AcceptsClosing == enabled

\* Whether on_audio and on_video take a frame; others are ignored.
Accepts == enabled /\ ~unpublishing

\* A frame is written to the segment, or ends it and begins another.
Frame ==
    /\ pub = "publishing" /\ Accepts
    /\ silent' = FALSE
    /\ IF ~segment THEN pub' = "unopened" /\ UNCHANGED <<tasks, queued, signalled>>
       ELSE /\ \E l \in Closings(tasks, TRUE) : tasks' = l /\ Queue(l) /\ Signal(l)
            /\ UNCHANGED pub
    /\ UNCHANGED <<trd, wpc, taken, calls, hlsVars, conn, at, mine>>

\* It fails, and another segment is open: by hls_on_error HLS is closed, or the
\* publisher, whose coroutines end with an error.
FrameFails ==
    /\ pub = "publishing" /\ Accepts /\ segment
    /\ silent' = FALSE
    /\ \E l \in Closings(tasks, TRUE) :
          \/ Unpublish("publisher", "feeding", l, TRUE)
          \/ /\ tasks' = l /\ Queue(l) /\ Signal(l)
             /\ pub' = "leaving"
             /\ UNCHANGED <<enabled, unpublishing, segment, trd, at, mine>>
    /\ UNCHANGED <<wpc, taken, calls, disposable, conn>>

\* The publisher ends, for whatever reason.
Leave ==
    /\ pub \in {"publishing", "leaving"}
    /\ Unpublish("publisher", "closing", tasks, segment)
    /\ conn' = Woken(conn)
    /\ UNCHANGED <<wpc, taken, calls, disposable, silent>>

\* The API expires the publisher; its receive thread, which feeds HLS, is then
\* interrupted as well.
Expire ==
    /\ pub \in {"starting", "publishing", "leaving", "feeding", "closing"}
    /\ conn' = Interrupted(conn)
    /\ UNCHANGED <<workerVars, hlsVars, silent, pub, at, mine>>
-----------------------------------------------------------------------------
(***************************************************************************)
(* The timer of the live sources.                                          *)
(***************************************************************************)

TimePasses ==
    /\ ~silent
    /\ silent' = TRUE
    /\ UNCHANGED <<workerVars, hlsVars, pub, conn, at, mine>>

\* cycle(): HLS that was silent is disposed of once for each time it was opened.
Cycle ==
    /\ at["timer"] = "out"
    /\ silent /\ ~unpublishing
    /\ silent' = FALSE
    /\ disposable' = FALSE
    /\ \/ /\ disposable /\ enabled
          /\ Unpublish("timer", pub, tasks, segment)
       \/ /\ ~(disposable /\ enabled)
          /\ segment' = (segment /\ ~disposable)
          /\ UNCHANGED <<tasks, queued, signalled, trd, enabled, unpublishing, pub,
                         at, mine>>
    /\ UNCHANGED <<wpc, taken, calls, conn>>
-----------------------------------------------------------------------------
CloserStep == \E a \in Closer : StopCalled(a) \/ StopJoined(a)

PublisherStep == Publish \/ Start \/ Frame \/ FrameFails \/ Leave \/ Expire

HlsNext ==
    /\ ~Over
    /\ \/ PublisherStep
       \/ CloserStep \/ JoinInterrupted
       \/ WorkerStep /\ UNCHANGED <<hlsVars, silent, pub, conn, at, mine>>
       \/ TimePasses \/ Cycle

(***************************************************************************)
(* The worker is scheduled, callbacks end, at the latest by their timeout, *)
(* and who waits for the worker is scheduled when it has ended.            *)
(***************************************************************************)
HlsFairness ==
    /\ WF_vars(~Over /\ WorkerStep /\ UNCHANGED <<hlsVars, silent, pub, conn, at, mine>>)
    /\ \A a \in Closer : WF_vars(~Over /\ (StopCalled(a) \/ StopJoined(a)))
    /\ WF_vars(~Over /\ (Start \/ JoinInterrupted))

HlsSpec == HlsInit /\ [][HlsNext]_vars /\ HlsFairness
-----------------------------------------------------------------------------
\* No callback is called twice, although the worker and who stops it take tasks
\* from the same list, each without waiting for the other.
CalledOnce == \A t \in Task : calls[t] <= 1

\* None is lost: each is called in the end, also when HLS is closed or opened
\* again, or fails, while the worker is busy; unless publishers come and fail
\* for ever, and each stops the worker of the last before that ran at all.
AllCalled ==
    \/ []<>(pub = "starting" /\ wpc = "top")
    \/ \A t \in Task : queued >= t ~> (calls[t] > 0 \/ Over)

\* Whoever stops the worker comes back, wherever the worker is: before its first
\* step, in its wait, or in a call after which it would take more.
CloserReturns == \A a \in Closer : at[a] # "out" ~> (at[a] = "out" \/ Over)

\* A frame that is not ignored finds a segment to be written to, as the muxer
\* asserts (current_), although the timer may close HLS under the publisher.
FramesFindSegment ==
    /\ pub # "unopened"
    /\ enabled /\ ~unpublishing => segment

\* When stop() returns, its worker has ended and every callback was called:
\* nothing was queued while it called the tasks and waited.
StopLeavesNothing ==
    [][\A a \in Closer : at[a] = "joining" /\ at'[a] = "out" =>
           /\ wpc' = "none" /\ trd'.thread = "joined"
           /\ \A t \in Task : queued' >= t => calls'[t] > 0]_vars
=============================================================================
