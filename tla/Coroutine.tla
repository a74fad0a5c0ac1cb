------------------------------ MODULE Coroutine ------------------------------
(***************************************************************************)
(* SrsFastCoroutine over a thread of the state-threads library: what       *)
(* start, interrupt, stop and the end of the cycle do to one coroutine.    *)
(*                                                                         *)
(* A coroutine is interrupted through a flag of its thread: the blocking   *)
(* call it is in, or the next one it makes, fails with EINTR and clears    *)
(* the flag.  st_thread_join is such a call.                               *)
(***************************************************************************)

\* "none": no thread; "live": it runs or waits; "zombie": its function
\* returned and nobody joined it yet; "joined": it is gone.
ThreadState == {"none", "live", "zombie", "joined"}

CoroutineRec == [started     : BOOLEAN,     \* started_
                 interrupted : BOOLEAN,     \* interrupted_
                 disposed    : BOOLEAN,     \* disposed_
                 stopping    : BOOLEAN,     \* stopping_
                 done        : BOOLEAN,     \* cycle_done_
                 flag        : BOOLEAN,     \* _ST_FL_INTERRUPT of the thread
                 thread      : ThreadState] \* trd_

NewCoroutine ==
    [started |-> FALSE, interrupted |-> FALSE, disposed |-> FALSE,
     stopping |-> FALSE, done |-> FALSE, flag |-> FALSE, thread |-> "none"]

\* start() of a coroutine that was never started.
Started(r) == [r EXCEPT !.started = TRUE, !.thread = "live"]

\* pull() of a coroutine that runs: an error once it was interrupted.
Pulled(r) == ~r.interrupted

\* interrupt().
Interrupted(r) ==
    IF ~r.started \/ r.interrupted \/ r.done THEN r
    ELSE [r EXCEPT !.interrupted = TRUE,
                   !.flag = @ \/ r.thread = "live"]

\* A blocking call that failed with EINTR.
Woken(r) == [r EXCEPT !.flag = FALSE]

\* The handler's cycle returned, with an error unless ok, and the thread ends.
Ended(r, ok) == [r EXCEPT !.done = ok, !.flag = FALSE, !.thread = "zombie"]

\* stop() up to the join.
Stopping(r) ==
    IF r.disposed THEN r
    ELSE Interrupted([r EXCEPT !.disposed = TRUE, !.stopping = TRUE])

\* st_thread_join returns at once, or when the thread ends.
Joinable(r) == r.thread \in {"none", "zombie"}

\* stop() after the join.
Stopped(r) == [r EXCEPT !.stopping = FALSE,
                        !.thread = IF @ = "zombie" THEN "joined" ELSE @]
=============================================================================
