--------------------------- MODULE AsyncCallWorker ---------------------------
(***************************************************************************)
(* SrsAsyncCallWorker: a list of tasks, and a coroutine that takes the     *)
(* whole list and calls its tasks one after the other.  A task is an HTTP  *)
(* callback: its call switches coroutines, so the list may grow meanwhile, *)
(* and the worker may be told to stop.  Who stops it first calls the tasks *)
(* of the list itself.                                                     *)
(*                                                                         *)
(* Tasks are numbered in the order in which they are queued.               *)
(***************************************************************************)
EXTENDS Coroutine, Integers, Sequences

CONSTANT MaxTasks   \* bound: tasks that are ever queued

ASSUME TasksAssumption == MaxTasks \in Nat

Task == 1..MaxTasks

VARIABLES
    tasks,      \* tasks_
    queued,     \* how many tasks were queued
    trd,        \* the coroutine of the worker
    wpc,        \* where it is
    taken,      \* the copy it is in, from the task it calls
    signalled,  \* wait_ was signalled while the worker waited
    calls       \* how often each task was called

workerVars == <<tasks, queued, trd, wpc, taken, signalled, calls>>

\* "none": not started or ended; "top": created, and not scheduled yet;
\* "waiting" on the condition; "calling" a task.
WorkerPc == {"none", "top", "waiting", "calling"}

WorkerTypeOK ==
    /\ tasks \in Seq(Task) /\ taken \in Seq(Task)
    /\ queued \in 0..MaxTasks
    /\ trd \in CoroutineRec
    /\ wpc \in WorkerPc
    /\ signalled \in BOOLEAN
    /\ calls \in [Task -> Nat]

WorkerInit ==
    /\ tasks = <<>> /\ taken = <<>>
    /\ queued = 0
    /\ trd = NewCoroutine /\ wpc = "none"
    /\ signalled = FALSE
    /\ calls = [t \in Task |-> 0]
-----------------------------------------------------------------------------
\* The list with one more task.
Executed(list) == Append(list, queued + Len(list) - Len(tasks) + 1)

\* Bound: k more.
CanExecute(list, k) == queued + Len(list) - Len(tasks) + k <= MaxTasks

\* Some of tasks were queued, list is what there is then.
Queue(list) == queued' = queued + Len(list) - Len(tasks)

\* execute() signals the condition for each.
Signal(list) == signalled' = (signalled \/ (list # tasks /\ wpc = "waiting"))

Called(list) == calls' = [calls EXCEPT ![Head(list)] = @ + 1]

\* start() where no coroutine is left.
NewWorker ==
    /\ trd' = Started(NewCoroutine)
    /\ wpc' = "top"

\* Mutant: flush_tasks does not clear the list.
TakeCopied ==
    /\ taken' = tasks
    /\ wpc' = "calling"
    /\ UNCHANGED tasks

\* flush_tasks of a list that is not empty, up to its first call.
Take ==
    /\ taken' = tasks
    /\ tasks' = <<>>
    /\ wpc' = "calling"

\* The loop of cycle() from its top, for the coroutine t.
Loop(t) ==
    IF ~Pulled(t)
    THEN trd' = Ended(t, FALSE) /\ wpc' = "none" /\ taken' = <<>> /\ UNCHANGED tasks
    ELSE /\ trd' = t
         /\ \/ tasks = <<>> /\ wpc' = "waiting" /\ taken' = <<>> /\ UNCHANGED tasks
            \/ tasks # <<>> /\ Take

WorkerBegins ==
    /\ wpc = "top"
    /\ Loop(trd)
    /\ UNCHANGED <<queued, signalled, calls>>

\* The wait is over: it looks at the tasks before it looks at pull().
WorkerWakes ==
    /\ wpc = "waiting"
    /\ signalled \/ trd.flag
    /\ signalled' = FALSE
    /\ IF tasks = <<>> THEN Loop(Woken(trd)) ELSE Take /\ trd' = Woken(trd)
    /\ UNCHANGED <<queued, calls>>

\* A call returned, possibly with an error, which is ignored.
WorkerCalled ==
    /\ wpc = "calling"
    /\ Called(taken)
    /\ IF Len(taken) > 1
       THEN taken' = Tail(taken) /\ trd' = Woken(trd) /\ UNCHANGED <<tasks, wpc>>
       ELSE Loop(Woken(trd))
    /\ UNCHANGED <<queued, signalled>>

WorkerStep == WorkerBegins \/ WorkerWakes \/ WorkerCalled
=============================================================================
