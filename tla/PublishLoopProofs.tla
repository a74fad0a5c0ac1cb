-------------------------- MODULE PublishLoopProofs --------------------------
(***************************************************************************)
(* The receive thread of a publisher runs only between its start and its   *)
(* join, and its error is never lost.                                      *)
(***************************************************************************)
EXTENDS PublishLoop, TLAPS

\* What ties the receive thread to where the connection is.  While the
\* connection responds or waits the thread was not told to stop, so it can end
\* only through Fail, which leaves an error behind; while the connection joins
\* the thread is live, or a zombie.
RecvTied ==
    /\ pc \in {"serving", "acquiring", "releasing", "gone"} =>
           /\ rpc = "none"
           /\ ~recv.stopping
           /\ recv.thread \in {"none", "joined"}
    /\ rpc # "none" => recv.thread = "live"
    /\ pc \in {"responding", "waiting", "joining"} /\ rpc = "none" =>
           recv.thread = "zombie"
    /\ pc \in {"responding", "waiting"} =>
           /\ ~recv.disposed
           /\ rpc # "none" => ~recv.interrupted
           /\ rpc = "none" => recvError # "none"

PInv == PublishTypeOK /\ RecvTied /\ NoLostError

\* The operators of Coroutine keep a coroutine a coroutine.
LEMMA CoroutineTypes ==
    /\ NewCoroutine \in CoroutineRec
    /\ \A r \in CoroutineRec :
           /\ Started(r) \in CoroutineRec
           /\ Interrupted(r) \in CoroutineRec
           /\ Woken(r) \in CoroutineRec
           /\ Stopping(r) \in CoroutineRec
           /\ Stopped(r) \in CoroutineRec
           /\ \A ok \in BOOLEAN : Ended(r, ok) \in CoroutineRec
<1>1. NewCoroutine \in CoroutineRec
  BY DEF NewCoroutine, CoroutineRec, ThreadState
<1>2. ASSUME NEW r \in CoroutineRec
      PROVE  /\ Started(r) \in CoroutineRec
             /\ Interrupted(r) \in CoroutineRec
             /\ Woken(r) \in CoroutineRec
             /\ Stopped(r) \in CoroutineRec
             /\ \A ok \in BOOLEAN : Ended(r, ok) \in CoroutineRec
  BY <1>2 DEF Started, Interrupted, Woken, Stopped, Ended, CoroutineRec,
              ThreadState
<1>3. ASSUME NEW r \in CoroutineRec
      PROVE  Stopping(r) \in CoroutineRec
  <2>1. [r EXCEPT !.disposed = TRUE, !.stopping = TRUE] \in CoroutineRec
    BY <1>3 DEF CoroutineRec
  <2> QED
    BY <1>2, <1>3, <2>1 DEF Stopping
<1> QED
  BY <1>1, <1>2, <1>3

\* stop() of a fresh or running thread that nobody stopped before marks it, and
\* leaves its thread alone.
LEMMA StoppingThread ==
    ASSUME NEW r \in CoroutineRec
    PROVE  Stopping(r).thread = r.thread
PROOF BY DEF Stopping, Interrupted, CoroutineRec

\* Quitting leaves a thread that is joined, or one the connection joins.
LEMMA QuitTied ==
    ASSUME PInv, NEW error \in {"republish", "fatal"},
           pc \in {"responding", "waiting"},
           Quit(error), UNCHANGED <<rpc, recvError>>
    PROVE  /\ recv' \in CoroutineRec /\ pc' \in Pc /\ outcome' \in Failure
           /\ RecvTied' /\ pc' # "waiting"
<1> USE DEF PInv, PublishTypeOK
<1>1. Stopping(recv) \in CoroutineRec /\ Stopping(recv).thread = recv.thread
  BY CoroutineTypes, StoppingThread
<1>2. Stopped(Stopping(recv)) \in CoroutineRec
  BY <1>1, CoroutineTypes
<1>3. CASE Joinable(recv)
  <2>1. recv' = Stopped(Stopping(recv)) /\ pc' = "releasing"
    BY <1>3 DEF Quit
  <2>2. recv.thread = "zombie" /\ rpc = "none"
    BY <1>3 DEF Joinable, RecvTied
  <2>3. ~recv'.stopping /\ recv'.thread = "joined"
    BY <1>1, <2>1, <2>2 DEF Stopped, CoroutineRec
  <2> QED
    BY <1>2, <2>1, <2>2, <2>3 DEF RecvTied, Quit, Pc, Failure
<1>4. CASE ~Joinable(recv)
  <2>1. recv' = Stopping(recv) /\ pc' = "joining"
    BY <1>4 DEF Quit
  <2>2. recv.thread = "live" /\ rpc # "none"
    BY <1>4 DEF Joinable, RecvTied
  <2> QED
    BY <1>1, <2>1, <2>2 DEF RecvTied, Quit, Pc, Failure
<1> QED
  BY <1>3, <1>4

\* The top of the loop quits, or waits for a thread that has not failed.
LEMMA WatchTied ==
    ASSUME PInv, NEW idle \in BOOLEAN,
           pc \in {"responding", "waiting"},
           Watch(idle), UNCHANGED <<rpc, recvError>>
    PROVE  /\ recv' \in CoroutineRec /\ pc' \in Pc /\ outcome' \in Failure
           /\ RecvTied' /\ (pc' = "waiting" => rpc # "none")
<1> USE DEF PInv, PublishTypeOK
<1>1. CASE ~Pulled(conn) \/ idle
  BY <1>1, QuitTied DEF Watch
<1>2. CASE ~(~Pulled(conn) \/ idle) /\ recvError # "none"
  BY <1>2, QuitTied DEF Watch, Failure
<1>3. CASE ~(~Pulled(conn) \/ idle) /\ recvError = "none"
  <2>1. pc' = "waiting" /\ outcome' = outcome /\ recv' = recv
    BY <1>3 DEF Watch
  <2>2. rpc # "none"
    BY <1>3 DEF RecvTied
  <2> QED
    BY <2>1, <2>2 DEF RecvTied, Pc
<1> QED
  BY <1>1, <1>2, <1>3

\* The receive thread fails: it leaves its error and the signal.
LEMMA FailTied ==
    ASSUME PInv, NEW error \in {"republish", "fatal"},
           rpc # "none", Fail(error), UNCHANGED pc
    PROVE  /\ recv' \in CoroutineRec /\ rpc' \in RecvPc
           /\ recvError' \in Failure /\ signalled' \in BOOLEAN
           /\ RecvTied' /\ NoLostError'
<1> USE DEF PInv, PublishTypeOK
<1>1. Interrupted(recv) \in CoroutineRec
  BY CoroutineTypes
<1>2. recv' \in CoroutineRec /\ recv'.thread = "zombie"
  <2>1. recv' = Ended(Interrupted(recv), FALSE)
    BY DEF Fail
  <2>2. Ended(Interrupted(recv), FALSE) \in CoroutineRec
    BY <1>1, CoroutineTypes
  <2>3. Ended(Interrupted(recv), FALSE).thread = "zombie"
    BY <1>1 DEF Ended, CoroutineRec
  <2> QED
    BY <2>1, <2>2, <2>3
<1>4. recv'.disposed = recv.disposed
  BY <1>1 DEF Fail, Ended, Interrupted, CoroutineRec
<1>3. pc \notin {"serving", "acquiring", "releasing", "gone"}
  BY DEF RecvTied
<1>5. RecvTied'
  BY <1>2, <1>3, <1>4 DEF Fail, RecvTied
<1> QED
  BY <1>2, <1>5 DEF Fail, NoLostError, RecvPc, Failure

THEOREM InitPInv == PublishInit => PInv
<1> SUFFICES ASSUME PublishInit PROVE PInv
  OBVIOUS
<1>1. conn \in CoroutineRec /\ recv \in CoroutineRec
  BY CoroutineTypes DEF PublishInit
<1>4. inbox \in Seq(Message) /\ nsent \in 0..MaxSends
  BY PublishAssumption DEF PublishInit
<1>3. PublishTypeOK
  BY <1>1, <1>4 DEF PublishInit, PublishTypeOK, Pc, RecvPc, Failure, Message
<1>2. RecvTied /\ NoLostError
  BY DEF PublishInit, RecvTied, NoLostError, NewCoroutine
<1> QED
  BY <1>2, <1>3 DEF PInv

\* One step: by who takes it.
THEOREM NextPInv == PInv /\ [PublishNext]_vars => PInv'
<1> SUFFICES ASSUME PInv, [PublishNext]_vars PROVE PInv'
  OBVIOUS
<1> USE DEF PInv
<1>1. CASE UNCHANGED vars
  BY <1>1 DEF vars, lane, link, feed, PublishTypeOK, RecvTied, NoLostError
<1>2. ASSUME NEW m \in Message, Send(m) PROVE PInv'
  BY <1>2, PublishAssumption
     DEF Send, lane, feed, PublishTypeOK, RecvTied, NoLostError
<1>3. CASE Close
  BY <1>3 DEF Close, lane, feed, PublishTypeOK, RecvTied, NoLostError
<1>4. CASE Expire
  <2>1. conn' \in CoroutineRec
    BY <1>4, CoroutineTypes DEF Expire, PublishTypeOK
  <2> QED
    BY <1>4, <2>1
       DEF Expire, lane, link, feed, PublishTypeOK, RecvTied, NoLostError
<1>5. ASSUME EndConn, pc \in {"serving", "acquiring", "releasing"},
             UNCHANGED <<recv, outcome, seen, link, feed>>
      PROVE  PInv'
  <2>1. conn' \in CoroutineRec
    BY <1>5, CoroutineTypes DEF EndConn, PublishTypeOK
  <2> QED
    BY <1>5, <2>1
       DEF EndConn, link, feed, PublishTypeOK, RecvTied, NoLostError, Pc
<1>6. CASE ServeFails
  BY <1>5, <1>6 DEF ServeFails
<1>7. CASE Serve
  <2>1. inbox' \in Seq(Message)
    BY <1>7 DEF Serve, PublishTypeOK
  <2> QED
    BY <1>7, <2>1
       DEF Serve, feed, PublishTypeOK, RecvTied, NoLostError, Pc
<1>8. CASE AcquireFails
  BY <1>5, <1>8 DEF AcquireFails
<1>9. CASE Acquire
  <2>1. conn' \in CoroutineRec /\ recv' \in CoroutineRec
    BY <1>9, CoroutineTypes DEF Acquire, PublishTypeOK
  <2>2. recv'.thread = "live" /\ ~recv'.disposed /\ ~recv'.interrupted
    BY <1>9 DEF Acquire, Started, NewCoroutine
  <2> QED
    BY <1>9, <2>1, <2>2
       DEF Acquire, link, PublishTypeOK, RecvTied, NoLostError, Pc, RecvPc,
           Failure
<1>10. ASSUME NEW idle \in BOOLEAN, Respond(idle) PROVE PInv'
  <2>1. conn' \in CoroutineRec
    BY <1>10, CoroutineTypes DEF Respond, PublishTypeOK
  <2>2. pc = "responding" /\ Watch(idle) /\ UNCHANGED <<rpc, recvError>>
    BY <1>10 DEF Respond, feed
  <2>3. /\ recv' \in CoroutineRec /\ pc' \in Pc /\ outcome' \in Failure
        /\ RecvTied' /\ (pc' = "waiting" => rpc # "none")
    BY <2>2, WatchTied
  <2> QED
    BY <1>10, <2>1, <2>3
       DEF Respond, link, feed, PublishTypeOK, NoLostError
<1>11. CASE RespondFails
  <2>1. conn' \in CoroutineRec
    BY <1>11, CoroutineTypes DEF RespondFails, PublishTypeOK
  <2>2. /\ pc = "responding" /\ Quit("fatal")
        /\ UNCHANGED <<rpc, recvError>>
    BY <1>11 DEF RespondFails, feed
  <2>3. /\ recv' \in CoroutineRec /\ pc' \in Pc /\ outcome' \in Failure
        /\ RecvTied' /\ pc' # "waiting"
    BY <2>2, QuitTied
  <2> QED
    BY <1>11, <2>1, <2>3
       DEF RespondFails, link, feed, PublishTypeOK, NoLostError
<1>12. ASSUME NEW idle \in BOOLEAN, Resume(idle) PROVE PInv'
  <2>1. conn' \in CoroutineRec
    BY <1>12, CoroutineTypes DEF Resume, PublishTypeOK
  <2>2. pc = "waiting" /\ UNCHANGED <<rpc, recvError>>
    BY <1>12 DEF Resume
  <2>3. \/ (\E error \in {"republish", "fatal"} : Quit(error)) /\ seen' = seen
        \/ Watch(idle) /\ seen' = got
    BY <1>12 DEF Resume, PublishTypeOK, Failure
  <2>4. /\ recv' \in CoroutineRec /\ pc' \in Pc /\ outcome' \in Failure
        /\ RecvTied' /\ (pc' = "waiting" => rpc # "none")
    BY <2>2, <2>3, QuitTied, WatchTied
  <2> QED
    BY <1>12, <2>1, <2>2, <2>3, <2>4
       DEF Resume, link, PublishTypeOK, NoLostError
<1>13. CASE Join
  <2>1. recv' \in CoroutineRec
    BY <1>13, CoroutineTypes DEF Join, PublishTypeOK
  <2>2. recv.thread = "zombie" /\ rpc = "none"
    BY <1>13 DEF Join, Joinable, RecvTied
  <2>3. ~recv'.stopping /\ recv'.thread = "joined"
    BY <1>13, <2>2 DEF Join, Stopped, CoroutineRec, PublishTypeOK
  <2> QED
    BY <1>13, <2>1, <2>2, <2>3
       DEF Join, link, feed, PublishTypeOK, RecvTied, NoLostError, Pc
<1>14. CASE JoinInterrupted
  BY <1>14
     DEF JoinInterrupted, link, feed, PublishTypeOK, RecvTied, NoLostError, Pc
<1>15. CASE Release
  <2>1. CASE EndConn
    BY <1>5, <1>15, <2>1 DEF Release
  <2>2. CASE pc' = "serving" /\ UNCHANGED conn
    BY <1>15, <2>2
       DEF Release, link, feed, PublishTypeOK, RecvTied, NoLostError, Pc
  <2> QED
    BY <1>15, <2>1, <2>2 DEF Release
<1>16. CASE Pull
  <2>1. CASE Pulled(recv)
    BY <1>16, <2>1
       DEF Pull, lane, link, PublishTypeOK, RecvTied, NoLostError, RecvPc
  <2>2. CASE ~Pulled(recv)
    <3>1. pc \in {"joining", "aborted"}
      BY <1>16, <2>2 DEF Pull, Pulled, RecvTied, PublishTypeOK, Pc
    <3>2. recv' \in CoroutineRec /\ recv'.thread = "zombie"
      <4>1. recv' = Ended(recv, FALSE)
        BY <1>16, <2>2 DEF Pull, RecvEnds
      <4> QED
        BY <4>1, CoroutineTypes DEF Ended, CoroutineRec, PublishTypeOK
    <3>3. rpc' = "none" /\ signalled' \in BOOLEAN
      BY <1>16, <2>2 DEF Pull, RecvEnds, PublishTypeOK
    <3> QED
      BY <1>16, <3>1, <3>2, <3>3
         DEF Pull, lane, link, PublishTypeOK, RecvTied, NoLostError, RecvPc
  <2> QED
    BY <2>1, <2>2
<1>17. CASE Receive
  <2>1. inbox' \in Seq(Message) /\ handling' \in Message
    BY <1>17 DEF Receive, PublishTypeOK
  <2> QED
    BY <1>17, <2>1
       DEF Receive, lane, PublishTypeOK, RecvTied, NoLostError, RecvPc
<1>18. ASSUME NEW error \in {"republish", "fatal"}, Fail(error), rpc # "none",
              UNCHANGED <<conn, lane, link, handling, got>>
       PROVE  PInv'
  BY <1>18, FailTied DEF lane, link, PublishTypeOK
<1>19. CASE ReceiveFails
  BY <1>18, <1>19 DEF ReceiveFails
<1>20. CASE Handled
  BY <1>20
     DEF Handled, lane, link, PublishTypeOK, RecvTied, NoLostError, RecvPc
<1>21. CASE HandleFails
  BY <1>18, <1>21 DEF HandleFails
<1>22. CASE PeerStep
  BY <1>2, <1>3, <1>22 DEF PeerStep
<1>23. CASE ConnStep
  BY <1>6, <1>7, <1>8, <1>9, <1>10, <1>11, <1>12, <1>13, <1>14, <1>15, <1>23
     DEF ConnStep, ServeEnds, WokenUp
<1>24. CASE RecvStep
  BY <1>16, <1>17, <1>19, <1>20, <1>21, <1>24 DEF RecvStep
<1>25. CASE Timeout \/ KickedForIdle
  BY <1>6, <1>12, <1>25 DEF Timeout, KickedForIdle
<1> QED
  BY <1>1, <1>4, <1>22, <1>23, <1>24, <1>25 DEF PublishNext

\* The inductive invariant of every reachable state.
THEOREM PublishInvariance == PublishSpec => []PInv
<1>1. PublishInit => PInv
  BY InitPInv
<1>2. PInv /\ [PublishNext]_vars => PInv'
  BY NextPInv
<1> QED
  BY <1>1, <1>2, PTL DEF PublishSpec

\* Every variable of PublishLoop keeps its type.
THEOREM PublishTypeCorrect == PublishSpec => []PublishTypeOK
<1>1. PInv => PublishTypeOK
  BY DEF PInv
<1> QED
  BY <1>1, PublishInvariance, PTL

\* The receive thread runs only between its start and its join.
THEOREM RecvStopsBeforeRelease == PublishSpec => []RecvStopsFirst
<1>1. PInv => RecvStopsFirst
  BY DEF PInv, PublishTypeOK, RecvTied, RecvStopsFirst, Pc
<1> QED
  BY <1>1, PublishInvariance, PTL

\* The connection is always told of the end of the receive thread.
THEOREM ErrorIsNoticed == PublishSpec => []NoLostError
<1>1. PInv => NoLostError
  BY DEF PInv
<1> QED
  BY <1>1, PublishInvariance, PTL
=============================================================================
