----------------------------- MODULE PublishLoop -----------------------------
(***************************************************************************)
(* An RTMP publisher from its identification to its end: the coroutine of  *)
(* the connection, which waits and watches, and the receive thread it      *)
(* starts for each publish, which reads the socket and feeds the source.   *)
(* The peer may publish again after it unpublished, fall silent or close;  *)
(* an API call may expire the connection at any time.                      *)
(*                                                                         *)
(* A step is what a coroutine does between two calls that may switch.      *)
(***************************************************************************)
EXTENDS Coroutine, Integers, Sequences

CONSTANTS
    MaxSends,   \* bound: messages the peer sends over its whole life
    MaxInbox    \* bound: messages the peer is ahead of the server

ASSUME PublishAssumption == MaxSends \in Nat /\ MaxInbox \in Nat

VARIABLES
    conn,       \* the coroutine of the connection, trd_ of SrsRtmpConn
    recv,       \* the coroutine of the receive thread of this publish
    pc,         \* where the connection is
    rpc,        \* where the receive thread is
    inbox,      \* messages on the way from the peer
    nsent,      \* how many the peer sent
    open,       \* the peer has not closed
    handling,   \* the message consume() is in
    got,        \* _nb_msgs of the receive thread
    seen,       \* nb_msgs of do_publishing
    recvError,  \* recv_error_
    signalled,  \* error_ was signalled while the connection waited on it
    outcome     \* what publishing() will return

lane == <<pc, outcome, seen>>
link == <<inbox, nsent, open>>
feed == <<rpc, handling, got, recvError, signalled>>
vars == <<conn, recv, lane, link, feed>>

Message == {"publish", "media", "unpublish"}

\* "serving": in identify_client and the publish handshake, reading the
\* socket; "acquiring": the hooks and acquire_publish; "responding": the
\* receive thread is started and the peer told so; "waiting": in wait() of the
\* receive thread; "joining": in the join of its stop(); "releasing":
\* release_publish and the hooks; "gone": cycle() returned; "aborted": an
\* assertion failed.
Pc == {"serving", "acquiring", "responding", "waiting", "joining",
       "releasing", "gone", "aborted"}

\* "none": not started or ended; "pulling": at the top of do_cycle;
\* "receiving": in recv_message; "handling": in consume.
RecvPc == {"none", "pulling", "receiving", "handling"}

Failure == {"none", "republish", "fatal"}

PublishTypeOK ==
    /\ conn \in CoroutineRec /\ recv \in CoroutineRec
    /\ pc \in Pc /\ rpc \in RecvPc
    /\ inbox \in Seq(Message) /\ nsent \in 0..MaxSends /\ open \in BOOLEAN
    /\ handling \in Message
    /\ got \in Nat /\ seen \in Nat
    /\ recvError \in Failure /\ outcome \in Failure
    /\ signalled \in BOOLEAN

PublishInit ==
    /\ conn = Started(NewCoroutine) /\ recv = NewCoroutine
    /\ pc = "serving" /\ rpc = "none"
    /\ inbox = <<>> /\ nsent = 0 /\ open = TRUE
    /\ handling = "media"
    /\ got = 0 /\ seen = 0
    /\ recvError = "none" /\ outcome = "none" /\ signalled = FALSE
-----------------------------------------------------------------------------
(***************************************************************************)
(* The peer and the API.                                                   *)
(***************************************************************************)

Send(m) ==
    /\ open /\ nsent < MaxSends /\ Len(inbox) < MaxInbox
    /\ inbox' = Append(inbox, m)
    /\ nsent' = nsent + 1
    /\ UNCHANGED <<conn, recv, lane, open, feed>>

Close ==
    /\ open
    /\ open' = FALSE
    /\ UNCHANGED <<conn, recv, lane, inbox, nsent, feed>>

\* The API finds the client in the statistics, where its first publish puts
\* it, and expires the connection.
Expire ==
    /\ pc \notin {"gone", "aborted"}
    /\ pc = "serving" => outcome = "republish"
    /\ conn' = Interrupted(conn)
    /\ UNCHANGED <<recv, lane, link, feed>>
-----------------------------------------------------------------------------
(***************************************************************************)
(* The connection.                                                         *)
(***************************************************************************)

\* do_cycle returns an error: cycle() asks the manager to remove the
\* connection, and returns success.
EndConn ==
    /\ pc' = "gone"
    /\ conn' = Ended(conn, TRUE)

\* identify_client, or the handshake of a publish, fails: the peer closed, was
\* silent for too long, or the connection was expired.
ServeFails ==
    /\ pc = "serving"
    /\ EndConn
    /\ UNCHANGED <<recv, outcome, seen, link, feed>>

ServeEnds == ServeFails /\ (conn.flag \/ (~open /\ inbox = <<>>))

\* identify_client reads on until the peer publishes.
Serve ==
    /\ pc = "serving"
    /\ inbox # <<>>
    /\ ~conn.flag
    /\ inbox' = Tail(inbox)
    /\ pc' = IF Head(inbox) = "publish" THEN "acquiring" ELSE pc
    /\ UNCHANGED <<conn, recv, outcome, seen, nsent, open, feed>>

\* A hook or acquire_publish fails, which no republish follows.
AcquireFails ==
    /\ pc = "acquiring"
    /\ EndConn
    /\ UNCHANGED <<recv, outcome, seen, link, feed>>

\* acquire_publish succeeds: a new SrsPublishRecvThread, and do_publishing
\* starts its coroutine and answers the peer.
Acquire ==
    /\ pc = "acquiring"
    /\ conn' = Woken(conn)
    /\ recv' = Started(NewCoroutine)
    /\ rpc' = "pulling"
    /\ got' = 0 /\ seen' = 0
    /\ recvError' = "none" /\ signalled' = FALSE
    /\ pc' = "responding"
    /\ UNCHANGED <<outcome, link, handling>>

\* Mutation: stop() interrupts the receive thread and does not join it.
QuitUnjoined(error) ==
    /\ outcome' = error
    /\ recv' = Stopping(recv)
    /\ pc' = "releasing"

\* do_publishing returns an error, and rtrd.stop() interrupts and joins the
\* receive thread, which is over at once if the thread has ended.
Quit(error) ==
    /\ outcome' = error
    /\ IF Joinable(recv)
       THEN recv' = Stopped(Stopping(recv)) /\ pc' = "releasing"
       ELSE recv' = Stopping(recv) /\ pc' = "joining"

\* Mutation: wait() does not look at recv_error_.
WatchUnchecked(idle) ==
    \/ (~Pulled(conn) \/ idle) /\ Quit("fatal")
    \/ Pulled(conn) /\ ~idle /\ pc' = "waiting" /\ UNCHANGED <<outcome, recv>>

\* The top of the loop of do_publishing.  The connection quits when it was
\* expired, and when the source was idle for too long; wait() answers at once
\* when the receive thread has failed, and error_code() then ends the loop.
Watch(idle) ==
    IF ~Pulled(conn) \/ idle THEN Quit("fatal")
    ELSE IF recvError # "none" THEN Quit(recvError)
    ELSE pc' = "waiting" /\ UNCHANGED <<outcome, recv>>

\* The peer is answered: the loop begins.
Respond(idle) ==
    /\ pc = "responding"
    /\ conn' = Woken(conn)
    /\ Watch(idle)
    /\ UNCHANGED <<seen, link, feed>>

\* The answer cannot be sent.
RespondFails ==
    /\ pc = "responding"
    /\ conn' = Woken(conn)
    /\ Quit("fatal")
    /\ UNCHANGED <<seen, link, feed>>

\* Mutation: do_publishing lets a count that did not move pass.
ResumeUncounted(idle) ==
    /\ pc = "waiting"
    /\ conn' = Woken(conn)
    /\ signalled' = FALSE
    /\ seen' = got
    /\ Watch(idle)
    /\ UNCHANGED <<link, rpc, handling, got, recvError>>

\* wait() returned: look at the error of the receive thread, then at its
\* count, which must have moved, and go on.
Resume(idle) ==
    /\ pc = "waiting"
    /\ conn' = Woken(conn)
    /\ signalled' = FALSE
    /\ \/ recvError # "none" /\ Quit(recvError) /\ UNCHANGED seen
       \/ recvError = "none" /\ got <= seen /\ Quit("fatal") /\ UNCHANGED seen
       \/ recvError = "none" /\ got > seen /\ seen' = got /\ Watch(idle)
    /\ UNCHANGED <<link, rpc, handling, got, recvError>>

\* wait() returns because error_ was signalled, or with EINTR.
WokenUp(idle) == (signalled \/ conn.flag) /\ Resume(idle)

\* The receive thread has ended: stop() returns, and so do those of its
\* destructors.  release_publish is called.
Join ==
    /\ pc = "joining"
    /\ Joinable(recv)
    /\ ~conn.flag
    /\ recv' = Stopped(recv)
    /\ pc' = "releasing"
    /\ UNCHANGED <<conn, outcome, seen, link, feed>>

\* st_thread_join fails with EINTR: stop() asserts that it does not.
JoinInterrupted ==
    /\ pc = "joining"
    /\ conn.flag
    /\ pc' = "aborted"
    /\ UNCHANGED <<conn, recv, outcome, seen, link, feed>>

\* on_unpublish and the hooks are done.  A client that unpublished may publish
\* again, any other error ends the connection, and so does an expiration.
Release ==
    /\ pc = "releasing"
    /\ IF outcome = "republish" /\ Pulled(conn)
       THEN pc' = "serving" /\ UNCHANGED conn
       ELSE EndConn
    /\ UNCHANGED <<recv, outcome, seen, link, feed>>
-----------------------------------------------------------------------------
(***************************************************************************)
(* The receive thread.                                                     *)
(***************************************************************************)

RecvEnds(ok) ==
    /\ rpc' = "none"
    /\ recv' = Ended(recv, ok)
    /\ signalled' = (signalled \/ pc = "waiting")   \* on_stop

\* do_cycle: pull() fails and the thread ends without a word to the pumper,
\* or the next message is received.
Pull ==
    /\ rpc = "pulling"
    /\ IF Pulled(recv)
       THEN rpc' = "receiving" /\ UNCHANGED <<recv, signalled>>
       ELSE RecvEnds(FALSE)
    /\ UNCHANGED <<conn, lane, link, handling, got, recvError>>

\* Mutation: nobody signals error_, neither interrupt nor on_stop.
FailQuietly(error) ==
    /\ recvError' = error
    /\ rpc' = "none"
    /\ recv' = Ended(Interrupted(recv), FALSE)
    /\ UNCHANGED signalled

\* An error of recv_message or of consume: the thread interrupts itself, the
\* pumper keeps the error and signals it, and the thread ends.
Fail(error) ==
    /\ recvError' = error
    /\ rpc' = "none"
    /\ recv' = Ended(Interrupted(recv), FALSE)
    /\ signalled' = (signalled \/ pc = "waiting")

ReceiveFails ==
    /\ rpc = "receiving"
    /\ recv.flag \/ (~open /\ inbox = <<>>)
    /\ Fail("fatal")
    /\ UNCHANGED <<conn, lane, link, handling, got>>

\* A message is received and handed to consume, which counts it first.
Receive ==
    /\ rpc = "receiving"
    /\ ~recv.flag
    /\ inbox # <<>>
    /\ inbox' = Tail(inbox)
    /\ handling' = Head(inbox)
    /\ got' = got + 1
    /\ rpc' = "handling"
    /\ UNCHANGED <<conn, recv, lane, nsent, open, recvError, signalled>>

\* handle_publish_message took the message, commands other than unpublish
\* being ignored; it, or the yield of consume, may have switched.
Handled ==
    /\ rpc = "handling"
    /\ handling # "unpublish"
    /\ rpc' = "pulling"
    /\ UNCHANGED <<conn, recv, lane, link, handling, got, recvError, signalled>>

\* The source refuses the message, or the peer unpublished and was answered,
\* or could not be.
HandleFails ==
    /\ rpc = "handling"
    /\ Fail("fatal") \/ (handling = "unpublish" /\ Fail("republish"))
    /\ UNCHANGED <<conn, lane, link, handling, got>>
-----------------------------------------------------------------------------
PeerStep == (\E m \in Message : Send(m)) \/ Close

ConnStep ==
    \/ ServeEnds \/ Serve
    \/ AcquireFails \/ Acquire
    \/ RespondFails \/ (\E idle \in BOOLEAN : Respond(idle))
    \/ \E idle \in BOOLEAN : WokenUp(idle)
    \/ Join \/ JoinInterrupted
    \/ Release

RecvStep ==
    \/ Pull
    \/ Receive \/ ReceiveFails
    \/ Handled \/ HandleFails

\* The timeouts of identify_client and of do_publishing.
Timeout == ServeFails \/ Resume(FALSE)

\* After a wait, the source turns out to be idle for too long.
KickedForIdle == Resume(TRUE)

PublishNext ==
    PeerStep \/ Expire \/ ConnStep \/ RecvStep \/ Timeout \/ KickedForIdle

(***************************************************************************)
(* A coroutine that can go on is scheduled.  Nothing is asked of the peer, *)
(* of the API or, here, of the timeouts.                                   *)
(***************************************************************************)
PublishFairness == WF_vars(ConnStep) /\ WF_vars(RecvStep)

PublishSpec == PublishInit /\ [][PublishNext]_vars /\ PublishFairness
-----------------------------------------------------------------------------
(***************************************************************************)
(* Properties.                                                             *)
(***************************************************************************)

\* The receive thread runs only between its start and its join, so it never
\* feeds a source that is being unpublished or that the connection no longer
\* holds, and never reads the socket together with identify_client.
RecvStopsFirst ==
    /\ rpc # "none" => pc \in {"responding", "waiting", "joining", "aborted"}
    /\ pc \in {"serving", "acquiring", "releasing", "gone"} =>
           ~recv.stopping /\ recv.thread \in {"none", "joined"}

\* The connection never waits for a receive thread that has ended without the
\* signal that wakes it up: the error may come before, while and after the
\* connection looks for it.
NoLostError == pc = "waiting" /\ rpc = "none" => signalled

Over == pc \in {"gone", "aborted"}

\* A publisher that closes, or that is expired, is served to its end and no
\* longer, without the help of any timeout.
DoneLeaves == (~open \/ conn.interrupted) ~> Over

\* A publisher that falls silent (as the bound on its messages makes it do)
\* is timed out, if the timeouts elapse.
SilentLeaves == WF_vars(Timeout) => <>Over

\* stop() asserts, for every errno it can think of, that the join of the
\* receive thread succeeds.
JoinSucceeds == pc # "aborted"
=============================================================================
