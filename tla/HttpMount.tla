------------------------------ MODULE HttpMount ------------------------------
(***************************************************************************)
(* SrsHttpStreamServer: the HTTP-FLV entry of each stream.  A publish      *)
(* mounts the entry at once; an unpublish only marks it as disposing and   *)
(* queues a SrsHttpStreamDestroy task, because the entry may be destroyed  *)
(* only when no viewer is left in it.  The single async worker runs the    *)
(* tasks one after the other; each waits 300s for the viewers to leave,    *)
(* and aborts the server when they do not.                                 *)
(***************************************************************************)
EXTENDS Streams, Integers, Sequences

CONSTANTS
    RemuxUrl,   \* the URLs whose vhost has an HTTP remux template
    Clash,      \* those whose mount path the mux may refuse: another stream,
                \* left out of the model, may have registered it
    FastCache,  \* those whose vhost has a fast_cache, read by a coroutine
    Viewer      \* HTTP-FLV connections

ASSUME RemuxAssumption ==
    /\ RemuxUrl \subseteq Url
    /\ Clash \subseteq RemuxUrl
    /\ FastCache \subseteq RemuxUrl

VARIABLES
    entry,      \* streamHandlers_: the entry's state, EntryState
    enabled,    \* the mux entry's enabled flag
    destroyQ,   \* SrsHttpStreamDestroy tasks of the async worker, in order
    running,    \* the worker is inside call() of the first task
    viewers,    \* viewers_ of the SrsLiveStream of each entry
    up          \* FALSE once an assertion failed or a NULL was dereferenced

httpVars == <<entry, enabled, destroyQ, running, viewers, up>>

\* "unhandled": listed in streamHandlers_, but the mux refused its path, so its
\* stream has no mux entry.
EntryState == {"none", "unhandled", "mounted", "disposing"}

HttpTypeOK ==
    /\ entry \in [Url -> EntryState]
    /\ enabled \in [Url -> BOOLEAN]
    /\ destroyQ \in Seq(Url)
    /\ running \in BOOLEAN
    /\ viewers \in [Url -> SUBSET Viewer]
    /\ up \in BOOLEAN

HttpInit ==
    /\ entry = [u \in Url |-> "none"]
    /\ enabled = [u \in Url |-> FALSE]
    /\ destroyQ = <<>>
    /\ running = FALSE
    /\ viewers = [u \in Url |-> {}]
    /\ up = TRUE
-----------------------------------------------------------------------------
\* The entry and its enabled flag, when http_mount mounts the stream.
Mounted(u) ==
    /\ entry' = [entry EXCEPT ![u] = "mounted"]
    /\ enabled' = [enabled EXCEPT ![u] = TRUE]

\* Mutation: http_mount reuses a disposing entry.
MountDisposing(u) ==
    /\ entry[u] # "unhandled"
    /\ IF u \in RemuxUrl THEN Mounted(u) ELSE UNCHANGED <<entry, enabled>>

\* http_mount succeeds: nothing without a template, a new entry, or the entry
\* that exists, enabled again.
Mount(u) ==
    /\ entry[u] \in {"none", "mounted"}
    /\ IF u \in RemuxUrl THEN Mounted(u) ELSE UNCHANGED <<entry, enabled>>

\* http_mount returns an error: the entry is disposing, or it is new and stays
\* listed although the mux refused its path, or although the thread of its fast
\* cache did not start (its mux entry is enabled from birth).
MountError(u) ==
    \/ entry[u] = "disposing" /\ UNCHANGED <<entry, enabled>>
    \/ /\ entry[u] = "none" /\ u \in Clash
       /\ entry' = [entry EXCEPT ![u] = "unhandled"]
       /\ UNCHANGED enabled
    \/ entry[u] = "none" /\ u \in FastCache /\ Mounted(u)

\* http_mount, or dynamic_match before it, reads entry->enabled of a stream
\* that has no mux entry.
MountCrash(u) ==
    /\ entry[u] = "unhandled"
    /\ up' = FALSE
    /\ UNCHANGED <<entry, enabled, destroyQ, running, viewers>>

\* http_unmount.
Unmount(u) ==
    /\ IF entry[u] \in {"unhandled", "mounted"}
       THEN /\ entry' = [entry EXCEPT ![u] = "disposing"]
            /\ destroyQ' = Append(destroyQ, u)
       ELSE UNCHANGED <<entry, destroyQ>>
    /\ UNCHANGED <<enabled, running, viewers, up>>

\* SrsHttpStreamDestroy::call up to the wait: disable the entry and expire the
\* viewers, who leave when their coroutines run; the coroutine of the fast cache
\* is joined.
StartDestroy ==
    /\ destroyQ # <<>>
    /\ ~running
    /\ running' = TRUE
    /\ enabled' = [enabled EXCEPT ![Head(destroyQ)] = FALSE]
    /\ UNCHANGED <<entry, destroyQ, viewers, up>>

\* Mutation: call() does not wait for the viewers.
FinishDestroyAtOnce ==
    /\ running
    /\ running' = FALSE
    /\ entry' = [entry EXCEPT ![Head(destroyQ)] = "none"]
    /\ destroyQ' = Tail(destroyQ)
    /\ UNCHANGED <<enabled, viewers, up>>

\* The rest of call(): a poll sees no viewer alive, erases and frees.
FinishDestroy ==
    /\ running
    /\ viewers[Head(destroyQ)] = {}
    /\ running' = FALSE
    /\ entry' = [entry EXCEPT ![Head(destroyQ)] = "none"]
    /\ destroyQ' = Tail(destroyQ)
    /\ UNCHANGED <<enabled, viewers, up>>

\* Mutation: the polls have no limit.
PollForEver == FALSE /\ UNCHANGED httpVars

\* 3000 polls, 300s, saw a viewer alive: srs_assert(false).
DestroyGivesUp ==
    /\ running
    /\ viewers[Head(destroyQ)] # {}
    /\ up' = FALSE
    /\ UNCHANGED <<entry, enabled, destroyQ, running, viewers>>

\* The mux matches an enabled entry of the URL, whether it is disposing or
\* not; without one, dynamic_match mounts it on demand.  serve_http then
\* pushes the connection to viewers_.
ViewerEnter(v, u) ==
    /\ u \in RemuxUrl
    /\ \A w \in Url : v \notin viewers[w]
    /\ \/ enabled[u] /\ UNCHANGED <<entry, enabled>>
       \/ ~enabled[u] /\ Mount(u)
    /\ viewers' = [viewers EXCEPT ![u] = @ \cup {v}]
    /\ UNCHANGED <<destroyQ, running, up>>

\* The mount on demand fails, and no viewer enters.
ViewerRefused(u) ==
    /\ ~enabled[u]
    /\ \/ MountError(u) /\ UNCHANGED <<destroyQ, running, viewers, up>>
       \/ MountCrash(u)

\* serve_http_impl returns, because the client closed, a hook or a send
\* failed, or the entry was disabled, and serve_http erases the connection.
ViewerLeave(v, u) ==
    /\ v \in viewers[u]
    /\ viewers' = [viewers EXCEPT ![u] = @ \ {v}]
    /\ UNCHANGED <<entry, enabled, destroyQ, running, up>>
-----------------------------------------------------------------------------
DestroyStep == StartDestroy \/ FinishDestroy \/ DestroyGivesUp

HttpNext ==
    /\ up
    /\ \/ \E u \in Url : /\ Mount(u) \/ MountError(u)
                         /\ UNCHANGED <<destroyQ, running, viewers, up>>
       \/ \E u \in Url : MountCrash(u) \/ Unmount(u) \/ ViewerRefused(u)
       \/ DestroyStep
       \/ \E u \in Url, v \in Viewer : ViewerEnter(v, u) \/ ViewerLeave(v, u)

(***************************************************************************)
(* The worker is a coroutine that runs whenever it has a task, and polls a *)
(* bounded number of times.  Nothing is assumed of the viewers.            *)
(***************************************************************************)
HttpFairness == WF_httpVars(up /\ DestroyStep)

HttpSpec == HttpInit /\ [][HttpNext]_httpVars /\ HttpFairness
-----------------------------------------------------------------------------
QueuedFor(u) == {i \in 1..Len(destroyQ) : destroyQ[i] = u}

\* A disposing entry has exactly one destroy task and no other entry has any,
\* so call() always finds the entry it was queued for, still disposing
\* (srs_assert(entry->disposing_)), and frees it once.
OneDestroyPerEntry ==
    /\ \A u \in Url : (entry[u] = "disposing") <=> (QueuedFor(u) # {})
    /\ \A i, j \in 1..Len(destroyQ) :
           destroyQ[i] = destroyQ[j] => i = j

\* A viewer is only ever inside an entry that exists and that the mux knows:
\* ~SrsLiveStream asserts viewers_.empty(), and a viewer served by a freed
\* stream, or by one without a mux entry, would crash.
ViewersHaveEntry ==
    \A u \in Url : viewers[u] # {} => entry[u] \in {"mounted", "disposing"}

\* Only an entry that is being destroyed is disabled: a mounted entry that the
\* mux skips would refuse every viewer of a live stream.
MountedIsEnabled == \A u \in Url : entry[u] = "mounted" => enabled[u]

\* Whatever the order in which streams are unpublished, and whatever their
\* viewers do, a disposing entry is destroyed in the end, so that the URL can be
\* mounted again: a viewer that never leaves blocks the one worker, and every
\* task behind it, only until the server aborts.
DisposingEnds ==
    \A u \in Url : (entry[u] = "disposing") ~> (entry[u] = "none" \/ ~up)
=============================================================================
