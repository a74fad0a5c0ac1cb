-------------------------- MODULE HlsPublishProofs ---------------------------
(***************************************************************************)
(* The callbacks of HLS: none is called twice, and none is left when the   *)
(* worker was stopped, for every number of callbacks.                      *)
(***************************************************************************)
EXTENDS HlsPublish, SequenceTheorems, TLAPS

\* The task t is in the list s.
Has(s, t) == \E i \in DOMAIN s : s[i] = t

\* What the lists left and right hold of q tasks, with the calls c so far: each
\* task in one place of one list, or called, and called once.
Split(left, right, c, q) ==
    /\ \A i, j \in DOMAIN left : left[i] = left[j] => i = j
    /\ \A i, j \in DOMAIN right : right[i] = right[j] => i = j
    /\ \A i \in DOMAIN left, j \in DOMAIN right : left[i] # right[j]
    /\ \A i \in DOMAIN left : left[i] <= q /\ c[left[i]] = 0
    /\ \A i \in DOMAIN right : right[i] <= q /\ c[right[i]] = 0
    /\ \A t \in Task : c[t] <= 1
    /\ \A t \in Task : t > q => c[t] = 0
    /\ \A t \in Task : t <= q => c[t] = 1 \/ Has(left, t) \/ Has(right, t)

\* What the worker has not taken: the list, or what is left of it with who
\* stops the worker.
Rest == IF at["publisher"] = "calling" THEN mine["publisher"]
        ELSE IF at["timer"] = "calling" THEN mine["timer"] ELSE tasks

\* One closer at a time: until it is out HLS is closing, and the list is empty.
ClosersTied ==
    /\ \A a \in Closer : at[a] # "out" => enabled /\ unpublishing /\ tasks = <<>>
    /\ \A a \in Closer : at[a] = "calling" <=> mine[a] # <<>>
    /\ at["publisher"] = "out" \/ at["timer"] = "out"
    /\ unpublishing => \E a \in Closer : at[a] # "out"
    /\ pub \in {"feeding", "closing"} => at["publisher"] # "out"
    /\ pub = "starting" => ~enabled

\* Where the worker is, and what it holds.
WorkerTied ==
    /\ wpc = "none" <=> trd.thread # "live"
    /\ wpc = "calling" <=> taken # <<>>
    /\ enabled => trd.thread # "none"

HInv ==
    /\ HlsTypeOK
    /\ ClosersTied
    /\ WorkerTied
    /\ FramesFindSegment
    /\ Split(Rest, taken, calls, queued)

-----------------------------------------------------------------------------
(***************************************************************************)
(* Lists that grow, move and are called.                                   *)
(***************************************************************************)

\* l is list with the tasks that are queued after the first q.
Grown(l, list, q) ==
    /\ l \in Seq(Task)
    /\ Len(l) >= Len(list)
    /\ q + Len(l) - Len(list) <= MaxTasks
    /\ \A i \in 1..Len(list) : l[i] = list[i]
    /\ \A i \in 1..Len(l) : i > Len(list) => l[i] = q + i - Len(list)

\* Which of the two lists is which does not matter.
LEMMA SplitSwaps ==
    ASSUME NEW left \in Seq(Task), NEW right \in Seq(Task),
           NEW c \in [Task -> Nat], NEW q \in 0..MaxTasks,
           Split(left, right, c, q)
    PROVE  Split(right, left, c, q)
PROOF BY DEF Split

\* A list may take what is queued anew.
LEMMA SplitGrows ==
    ASSUME NEW left \in Seq(Task), NEW right \in Seq(Task),
           NEW c \in [Task -> Nat], NEW q \in 0..MaxTasks,
           Split(left, right, c, q),
           NEW l, Grown(l, left, q)
    PROVE  Split(l, right, c, q + Len(l) - Len(left))
<1> DEFINE n == q + Len(l) - Len(left)
<1> USE TasksAssumption
<1>1. /\ l \in Seq(Task) /\ n \in 0..MaxTasks /\ n >= q
      /\ DOMAIN l = 1..Len(l) /\ DOMAIN left = 1..Len(left)
      /\ DOMAIN right = 1..Len(right)
      /\ Len(l) \in Nat /\ Len(left) \in Nat /\ Len(right) \in Nat
  BY DEF Grown
<1>2. \A i \in 1..Len(l) : l[i] \in Nat /\ l[i] \in 1..MaxTasks
  BY <1>1 DEF Task
<1>3. \A i \in 1..Len(l) : i \in 1..Len(left) => l[i] = left[i] /\ l[i] <= q
  BY <1>1 DEF Grown, Split
<1>10. \A i \in 1..Len(l) :
          i \notin 1..Len(left) => l[i] = q + i - Len(left) /\ l[i] > q /\ l[i] <= n
  BY <1>1 DEF Grown
<1>11. /\ \A i, j \in 1..Len(left) : left[i] = left[j] => i = j
       /\ \A i \in 1..Len(left) : c[left[i]] = 0
       /\ \A i \in 1..Len(left), j \in 1..Len(right) : left[i] # right[j]
       /\ \A j \in 1..Len(right) : right[j] <= q
       /\ \A t \in 1..MaxTasks : t > q => c[t] = 0
  BY <1>1 DEF Split, Task
<1>4. \A i, j \in DOMAIN l : l[i] = l[j] => i = j
  <2>1. ASSUME NEW i \in 1..Len(l), NEW j \in 1..Len(l), l[i] = l[j]
        PROVE  i = j
    <3>1. CASE i \in 1..Len(left) /\ j \in 1..Len(left)
      BY <1>3, <1>11, <2>1, <3>1
    <3>2. CASE i \notin 1..Len(left) /\ j \notin 1..Len(left)
      BY <1>1, <1>10, <2>1, <3>2
    <3>3. CASE i \in 1..Len(left) /\ j \notin 1..Len(left)
      BY <1>1, <1>2, <1>3, <1>10, <2>1, <3>3
    <3>4. CASE i \notin 1..Len(left) /\ j \in 1..Len(left)
      BY <1>1, <1>2, <1>3, <1>10, <2>1, <3>4
    <3> QED
      BY <3>1, <3>2, <3>3, <3>4
  <2> QED
    BY <1>1, <2>1
<1>5. \A i \in DOMAIN l, j \in DOMAIN right : l[i] # right[j]
  <2>1. ASSUME NEW i \in 1..Len(l), NEW j \in 1..Len(right)
        PROVE  l[i] # right[j]
    <3>1. CASE i \in 1..Len(left)
      BY <1>3, <1>11, <3>1
    <3>2. CASE i \notin 1..Len(left)
      <4>1. l[i] > q /\ right[j] <= q
        BY <1>1, <1>10, <1>11, <3>2
      <4>2. right[j] \in 1..MaxTasks
        BY <1>1 DEF Task
      <4> QED
        BY <1>1, <1>2, <4>1, <4>2
    <3> QED
      BY <3>1, <3>2
  <2> QED
    BY <1>1, <2>1
<1>6. \A i \in DOMAIN l : l[i] <= n /\ c[l[i]] = 0
  <2>1. ASSUME NEW i \in 1..Len(l)
        PROVE  l[i] <= n /\ c[l[i]] = 0
    <3>1. CASE i \in 1..Len(left)
      BY <1>1, <1>2, <1>3, <1>11, <3>1
    <3>2. CASE i \notin 1..Len(left)
      BY <1>1, <1>2, <1>10, <1>11, <3>2
    <3> QED
      BY <3>1, <3>2
  <2> QED
    BY <1>1, <2>1
<1>7. \A i \in DOMAIN right : right[i] <= n /\ c[right[i]] = 0
  BY <1>1 DEF Split, Task
<1>8. \A t \in Task : t > n => c[t] = 0
  BY <1>1 DEF Split, Task
<1>9. ASSUME NEW t \in Task, t <= n
      PROVE  c[t] = 1 \/ Has(l, t) \/ Has(right, t)
  <2>1. CASE t <= q
    <3>1. Has(left, t) => Has(l, t)
      BY <1>1 DEF Has, Grown
    <3> QED
      BY <2>1, <3>1 DEF Split
  <2>2. CASE t > q
    <3>1. t - q + Len(left) \in 1..Len(l) /\ t - q + Len(left) > Len(left)
      BY <1>1, <1>9, <2>2 DEF Task
    <3>2. l[t - q + Len(left)] = q + (t - q + Len(left)) - Len(left)
      BY <3>1 DEF Grown
    <3>3. l[t - q + Len(left)] = t
      BY <1>1, <3>2 DEF Task
    <3> QED
      BY <1>1, <3>1, <3>3 DEF Has
  <2> QED
    BY <1>1, <2>1, <2>2 DEF Task
<1> QED
  BY <1>4, <1>5, <1>6, <1>7, <1>8, <1>9 DEF Split

\* The first task of a list is called.
LEMMA SplitCalls ==
    ASSUME NEW left \in Seq(Task), NEW right \in Seq(Task),
           NEW c \in [Task -> Nat], NEW q \in 0..MaxTasks,
           Split(left, right, c, q), left # <<>>
    PROVE  /\ [c EXCEPT ![Head(left)] = @ + 1] \in [Task -> Nat]
           /\ Split(Tail(left), right, [c EXCEPT ![Head(left)] = @ + 1], q)
<1> DEFINE h == Head(left)
           rest == Tail(left)
           d == [c EXCEPT ![h] = @ + 1]
<1>1. /\ h = left[1] /\ h \in Task
      /\ rest \in Seq(Task) /\ Len(rest) = Len(left) - 1
      /\ \A i \in 1..Len(rest) : rest[i] = left[i + 1]
      /\ DOMAIN left = 1..Len(left) /\ DOMAIN rest = 1..Len(rest)
      /\ DOMAIN right = 1..Len(right)
      /\ Len(left) \in Nat \ {0}
  OBVIOUS
<1>2. d \in [Task -> Nat] /\ d[h] = 1 /\ \A t \in Task : t # h => d[t] = c[t]
  <2>1. c[h] = 0
    BY <1>1 DEF Split
  <2> QED
    BY <1>1, <2>1
<1>3. \A i \in 1..Len(rest) : rest[i] # h /\ rest[i] \in Task
  BY <1>1 DEF Split
<1>4. \A i, j \in DOMAIN rest : rest[i] = rest[j] => i = j
  <2>1. ASSUME NEW i \in 1..Len(rest), NEW j \in 1..Len(rest), rest[i] = rest[j]
        PROVE  i = j
    <3>1. i + 1 \in 1..Len(left) /\ j + 1 \in 1..Len(left)
      BY <1>1
    <3>2. left[i + 1] = left[j + 1]
      BY <1>1, <2>1
    <3>3. i + 1 = j + 1
      BY <1>1, <3>1, <3>2 DEF Split
    <3> QED
      BY <3>3
  <2> QED
    BY <1>1, <2>1
<1>5. \A i \in DOMAIN rest, j \in DOMAIN right : rest[i] # right[j]
  <2>1. \A i \in 1..Len(rest) : i + 1 \in 1..Len(left)
    BY <1>1
  <2> QED
    BY <1>1, <2>1 DEF Split
<1>6. \A i \in DOMAIN rest : rest[i] <= q /\ d[rest[i]] = 0
  <2>1. \A i \in 1..Len(rest) : i + 1 \in 1..Len(left)
    BY <1>1
  <2> QED
    BY <1>1, <1>2, <1>3, <2>1 DEF Split
<1>7. \A i \in DOMAIN right : right[i] <= q /\ d[right[i]] = 0
  <2>1. \A i \in 1..Len(right) : right[i] \in Task /\ right[i] # h
    BY <1>1 DEF Split
  <2> QED
    BY <1>1, <1>2, <2>1 DEF Split
<1>8. \A t \in Task : d[t] <= 1 /\ (t > q => d[t] = 0)
  <2>1. h <= q
    BY <1>1 DEF Split
  <2> QED
    BY <1>2, <2>1, TasksAssumption DEF Split, Task
<1>9. ASSUME NEW t \in Task, t <= q
      PROVE  d[t] = 1 \/ Has(rest, t) \/ Has(right, t)
  <2>1. CASE t = h
    BY <1>2, <2>1
  <2>2. CASE t # h /\ Has(left, t)
    <3>1. PICK i \in 1..Len(left) : left[i] = t
      BY <1>1, <2>2 DEF Has
    <3>2. i - 1 \in 1..Len(rest) /\ rest[i - 1] = t
      BY <1>1, <2>2, <3>1
    <3> QED
      BY <1>1, <3>2 DEF Has
  <2>3. CASE t # h /\ ~Has(left, t)
    BY <1>2, <1>9, <2>3 DEF Split
  <2> QED
    BY <2>1, <2>2, <2>3
<1> QED
  BY <1>2, <1>4, <1>5, <1>6, <1>7, <1>8, <1>9 DEF Split

\* The rest of a list.
LEMMA TailFacts ==
    ASSUME NEW s \in Seq(Task), s # <<>>
    PROVE  /\ Tail(s) \in Seq(Task)
           /\ Tail(s) # <<>> <=> Len(s) > 1
<1>1. Len(s) \in Nat \ {0} /\ Tail(s) \in Seq(Task) /\ Len(Tail(s)) = Len(s) - 1
  OBVIOUS
<1>2. Tail(s) # <<>> => Len(Tail(s)) # 0
  BY <1>1, EmptySeq
<1>3. Len(<<>>) = 0
  OBVIOUS
<1>4. Tail(s) = <<>> => Len(Tail(s)) = 0
  BY <1>3, Zenon
<1> QED
  BY <1>1, <1>2, <1>4

\* Closing a segment adds to what was queued.
LEMMA ClosingsGrow ==
    ASSUME tasks \in Seq(Task), queued \in 0..MaxTasks,
           NEW list, Grown(list, tasks, queued),
           NEW seg \in BOOLEAN, NEW l \in Closings(list, seg)
    PROVE  Grown(l, tasks, queued)
<1> USE TasksAssumption
<1>1. CASE l = list
  BY <1>1
<1>2. CASE l = Executed(Executed(list)) /\ CanExecute(list, 2)
  <2> DEFINE n == queued + Len(list) - Len(tasks)
             k == Append(list, n + 1)
  <2>1. /\ list \in Seq(Task) /\ n \in Nat /\ n + 2 <= MaxTasks
        /\ Len(list) \in Nat /\ Len(tasks) \in Nat
    BY <1>2 DEF Grown, CanExecute
  <2>2. k \in Seq(Task) /\ Len(k) = Len(list) + 1
    BY <2>1 DEF Task
  <2>3. Executed(list) = k /\ Executed(k) = Append(k, n + 2)
    BY <2>1, <2>2 DEF Executed
  <2>4. l = Append(k, n + 2)
    BY <1>2, <2>3
  <2>5. l \in Seq(Task) /\ Len(l) = Len(list) + 2
    BY <2>1, <2>2, <2>4 DEF Task
  <2>6. \A i \in 1..Len(list) : l[i] = list[i]
    BY <2>1, <2>2, <2>4
  <2>7. l[Len(list) + 1] = n + 1 /\ l[Len(list) + 2] = n + 2
    BY <2>1, <2>2, <2>4
  <2>8. \A i \in 1..Len(l) : i \in 1..Len(list) \/ i = Len(list) + 1 \/ i = Len(list) + 2
    BY <2>1, <2>5
  <2>9. \A i \in 1..Len(l) : i > Len(tasks) => l[i] = queued + i - Len(tasks)
    <3>1. \A i \in 1..Len(list) : i > Len(tasks) => list[i] = queued + i - Len(tasks)
      BY DEF Grown
    <3>2. /\ n + 1 = queued + (Len(list) + 1) - Len(tasks)
          /\ n + 2 = queued + (Len(list) + 2) - Len(tasks)
      BY <2>1
    <3> HIDE DEF n
    <3> QED
      BY <2>6, <2>7, <2>8, <3>1, <3>2
  <2>10. \A i \in 1..Len(tasks) : l[i] = tasks[i]
    BY <2>1, <2>6 DEF Grown
  <2> QED
    BY <2>1, <2>5, <2>9, <2>10 DEF Grown
<1> QED
  BY <1>1, <1>2 DEF Closings

LEMMA TasksGrow ==
    ASSUME tasks \in Seq(Task), queued \in 0..MaxTasks
    PROVE  Grown(tasks, tasks, queued)
PROOF BY TasksAssumption DEF Grown

-----------------------------------------------------------------------------
(***************************************************************************)
(* The worker.                                                             *)
(***************************************************************************)

\* The operators of Coroutine keep a coroutine a coroutine, and stop() leaves
\* its thread alone until it is joined.
LEMMA CoroutineOps ==
    /\ NewCoroutine \in CoroutineRec
    /\ \A r \in CoroutineRec :
           /\ Started(r) \in CoroutineRec /\ Started(r).thread = "live"
           /\ Interrupted(r) \in CoroutineRec
           /\ Woken(r) \in CoroutineRec /\ Woken(r).thread = r.thread
           /\ Stopping(r) \in CoroutineRec /\ Stopping(r).thread = r.thread
           /\ Ended(r, FALSE) \in CoroutineRec /\ Ended(r, FALSE).thread = "zombie"
           /\ Stopped(r) \in CoroutineRec
           /\ Stopped(r).thread = (IF r.thread = "zombie" THEN "joined" ELSE r.thread)
<1>1. NewCoroutine \in CoroutineRec
  BY DEF NewCoroutine, CoroutineRec, ThreadState
<1>2. ASSUME NEW r \in CoroutineRec
      PROVE  /\ Started(r) \in CoroutineRec /\ Started(r).thread = "live"
             /\ Interrupted(r) \in CoroutineRec /\ Interrupted(r).thread = r.thread
             /\ Woken(r) \in CoroutineRec /\ Woken(r).thread = r.thread
             /\ Ended(r, FALSE) \in CoroutineRec /\ Ended(r, FALSE).thread = "zombie"
             /\ Stopped(r) \in CoroutineRec
             /\ Stopped(r).thread = (IF r.thread = "zombie" THEN "joined" ELSE r.thread)
  BY <1>2 DEF Started, Interrupted, Woken, Stopped, Ended, CoroutineRec,
              ThreadState
<1>3. ASSUME NEW r \in CoroutineRec
      PROVE  Stopping(r) \in CoroutineRec /\ Stopping(r).thread = r.thread
  <2>1. /\ [r EXCEPT !.disposed = TRUE, !.stopping = TRUE] \in CoroutineRec
        /\ [r EXCEPT !.disposed = TRUE, !.stopping = TRUE].thread = r.thread
    BY <1>3 DEF CoroutineRec
  <2> QED
    BY <1>2, <1>3, <2>1 DEF Stopping
<1> QED
  BY <1>1, <1>2, <1>3

\* What the worker has not taken is a list; it is that of the worker unless
\* somebody calls the tasks.
LEMMA RestFacts ==
    ASSUME HlsTypeOK
    PROVE  /\ Rest \in Seq(Task)
           /\ (\A a \in Closer : at[a] = "out") => Rest = tasks
PROOF BY DEF HlsTypeOK, WorkerTypeOK, Rest, Closer

\* The loop of cycle() by a worker that holds no task, after calls c.
LEMMA LoopTied ==
    ASSUME HlsTypeOK, ClosersTied, enabled => trd.thread # "none",
           NEW c \in [Task -> Nat], Split(Rest, <<>>, c, queued),
           NEW t \in CoroutineRec, t.thread = "live",
           \/ Loop(t)
           \/ tasks # <<>> /\ Take /\ trd' = t,
           UNCHANGED <<queued, hlsVars, pub, at, mine>>
    PROVE  /\ tasks' \in Seq(Task) /\ taken' \in Seq(Task)
           /\ trd' \in CoroutineRec /\ wpc' \in WorkerPc
           /\ ClosersTied' /\ WorkerTied'
           /\ Split(Rest', taken', c, queued')
<1> USE DEF HlsTypeOK, WorkerTypeOK
<1>1. CASE ~Pulled(t) /\ Loop(t)
  <2>1. /\ trd' = Ended(t, FALSE) /\ wpc' = "none" /\ taken' = <<>> /\ tasks' = tasks
    BY <1>1 DEF Loop
  <2>2. trd' \in CoroutineRec /\ trd'.thread = "zombie"
    BY <2>1, CoroutineOps
  <2>3. Rest' = Rest
    BY <2>1 DEF Rest
  <2>4. ClosersTied'
    BY <2>1 DEF ClosersTied, hlsVars
  <2>5. WorkerTied'
    BY <2>1, <2>2 DEF WorkerTied
  <2>6. Split(Rest', taken', c, queued')
    <3>1. queued' = queued
      OBVIOUS
    <3> QED
      BY <2>1, <2>3, <3>1
  <2>7. tasks' \in Seq(Task) /\ taken' \in Seq(Task) /\ wpc' \in WorkerPc
    BY <2>1 DEF WorkerPc
  <2> QED
    BY <2>2, <2>4, <2>5, <2>6, <2>7
<1>2. CASE Pulled(t) /\ Loop(t) /\ tasks = <<>>
  <2>1. trd' = t /\ wpc' = "waiting" /\ taken' = <<>> /\ tasks' = tasks
    BY <1>2 DEF Loop
  <2>2. Rest' = Rest
    BY <2>1 DEF Rest
  <2>3. ClosersTied' /\ WorkerTied'
    BY <2>1 DEF ClosersTied, WorkerTied, hlsVars
  <2> QED
    BY <2>1, <2>2, <2>3 DEF WorkerPc
<1>3. CASE tasks # <<>> /\ Take /\ trd' = t
  <2>1. taken' = tasks /\ tasks' = <<>> /\ wpc' = "calling"
    BY <1>3 DEF Take
  <2>2. \A a \in Closer : at[a] = "out"
    BY <1>3 DEF ClosersTied
  <2>3. Rest = tasks /\ Rest' = <<>>
    BY <2>1, <2>2 DEF Rest, Closer
  <2>4. Split(<<>>, tasks, c, queued)
    <3>1. Split(tasks, <<>>, c, queued)
      BY <2>3
    <3>2. tasks \in Seq(Task) /\ <<>> \in Seq(Task) /\ queued \in 0..MaxTasks
      OBVIOUS
    <3> QED
      BY <3>1, <3>2, SplitSwaps
  <2>5. ClosersTied' /\ WorkerTied'
    BY <1>3, <2>1, <2>2 DEF ClosersTied, WorkerTied, hlsVars
  <2> QED
    BY <1>3, <2>1, <2>3, <2>4, <2>5 DEF WorkerPc
<1> QED
  BY <1>1, <1>2, <1>3 DEF Loop

\* The steps of the worker keep the invariant.
LEMMA WorkerKeeps ==
    ASSUME HInv, WorkerStep,
           UNCHANGED <<hlsVars, silent, pub, conn, at, mine>>
    PROVE  HInv'
<1> USE DEF HInv
<1>1. /\ tasks \in Seq(Task) /\ taken \in Seq(Task) /\ queued \in 0..MaxTasks
      /\ trd \in CoroutineRec /\ calls \in [Task -> Nat]
      /\ Rest \in Seq(Task)
  BY RestFacts DEF HlsTypeOK, WorkerTypeOK
<1>2. Woken(trd) \in CoroutineRec /\ Woken(trd).thread = trd.thread
  BY <1>1, CoroutineOps
<1>3. FramesFindSegment'
  BY DEF FramesFindSegment, hlsVars
<1>4. ASSUME tasks' \in Seq(Task), taken' \in Seq(Task), trd' \in CoroutineRec,
             wpc' \in WorkerPc, signalled' \in BOOLEAN, calls' \in [Task -> Nat],
             queued' = queued
      PROVE  HlsTypeOK'
  BY <1>4 DEF HlsTypeOK, WorkerTypeOK, hlsVars
<1>5. CASE WorkerBegins
  <2>1. taken = <<>> /\ trd.thread = "live"
    BY <1>5 DEF WorkerBegins, WorkerTied
  <2>2. Split(Rest, <<>>, calls, queued)
    BY <2>1
  <2>3. /\ tasks' \in Seq(Task) /\ taken' \in Seq(Task)
        /\ trd' \in CoroutineRec /\ wpc' \in WorkerPc
        /\ ClosersTied' /\ WorkerTied'
        /\ Split(Rest', taken', calls, queued')
    BY <1>1, <1>5, <2>1, <2>2, LoopTied DEF WorkerBegins, WorkerTied
  <2>4. HlsTypeOK'
    BY <1>4, <1>5, <2>3 DEF WorkerBegins, HlsTypeOK, WorkerTypeOK
  <2> QED
    BY <1>3, <1>5, <2>3, <2>4 DEF WorkerBegins
<1>6. CASE WorkerWakes
  <2>1. taken = <<>> /\ trd.thread = "live"
    BY <1>6 DEF WorkerWakes, WorkerTied
  <2>2. Split(Rest, <<>>, calls, queued)
    BY <2>1
  <2>3. /\ tasks' \in Seq(Task) /\ taken' \in Seq(Task)
        /\ trd' \in CoroutineRec /\ wpc' \in WorkerPc
        /\ ClosersTied' /\ WorkerTied'
        /\ Split(Rest', taken', calls, queued')
    BY <1>1, <1>2, <1>6, <2>1, <2>2, LoopTied DEF WorkerWakes, WorkerTied
  <2>4. HlsTypeOK'
    BY <1>4, <1>6, <2>3 DEF WorkerWakes, HlsTypeOK, WorkerTypeOK
  <2> QED
    BY <1>3, <1>6, <2>3, <2>4 DEF WorkerWakes
<1>7. CASE WorkerCalled
  <2>1. taken # <<>> /\ trd.thread = "live"
    BY <1>7 DEF WorkerCalled, WorkerTied
  <2>2. Split(taken, Rest, calls, queued)
    BY <1>1, SplitSwaps
  <2>3. calls' = [calls EXCEPT ![Head(taken)] = @ + 1]
    BY <1>7 DEF WorkerCalled, Called
  <2>4. calls' \in [Task -> Nat] /\ Split(Tail(taken), Rest, calls', queued)
    BY <1>1, <2>1, <2>2, <2>3, SplitCalls
  <2>5. Tail(taken) \in Seq(Task) /\ Len(Tail(taken)) = Len(taken) - 1
    BY <1>1, <2>1
  <2>6. Split(Rest, Tail(taken), calls', queued)
    BY <1>1, <2>4, <2>5, SplitSwaps
  <2>7. CASE Len(taken) > 1
    <3>1. /\ taken' = Tail(taken) /\ trd' = Woken(trd) /\ tasks' = tasks
          /\ wpc' = wpc /\ queued' = queued /\ signalled' = signalled
      BY <1>7, <2>7 DEF WorkerCalled
    <3>2. taken' # <<>>
      BY <1>1, <2>1, <2>7, <3>1, TailFacts
    <3>3. Rest' = Rest
      BY <3>1 DEF Rest
    <3>4. ClosersTied' /\ WorkerTied'
      BY <1>2, <2>1, <3>1, <3>2 DEF ClosersTied, WorkerTied, hlsVars
    <3>5. HlsTypeOK'
      BY <1>1, <1>2, <1>4, <2>4, <2>5, <3>1 DEF HlsTypeOK, WorkerTypeOK
    <3> QED
      BY <1>3, <2>6, <3>1, <3>3, <3>4, <3>5
  <2>8. CASE ~(Len(taken) > 1)
    <3>1. Tail(taken) = <<>>
      BY <1>1, <2>1, <2>5, <2>8
    <3>2. Loop(Woken(trd)) /\ queued' = queued /\ signalled' = signalled
      BY <1>7, <2>8 DEF WorkerCalled
    <3>3. Split(Rest, <<>>, calls', queued)
      BY <2>6, <3>1
    <3>4. /\ tasks' \in Seq(Task) /\ taken' \in Seq(Task)
          /\ trd' \in CoroutineRec /\ wpc' \in WorkerPc
          /\ ClosersTied' /\ WorkerTied'
          /\ Split(Rest', taken', calls', queued')
      BY <1>1, <1>2, <2>1, <2>4, <3>2, <3>3, LoopTied DEF WorkerTied
    <3>5. HlsTypeOK'
      BY <1>4, <2>4, <3>2, <3>4 DEF HlsTypeOK, WorkerTypeOK
    <3> QED
      BY <1>3, <3>4, <3>5
  <2> QED
    BY <2>7, <2>8
<1> QED
  BY <1>5, <1>6, <1>7 DEF WorkerStep

-----------------------------------------------------------------------------
(***************************************************************************)
(* The publisher and the timer.                                            *)
(***************************************************************************)

\* on_unpublish, up to where it returns or waits.
LEMMA UnpublishTied ==
    ASSUME HInv, NEW a \in Closer, NEW p, NEW list, NEW seg \in BOOLEAN,
           Grown(list, tasks, queued), list = tasks \/ Accepts,
           \/ a = "publisher" /\ p \in {"feeding", "closing"} /\ pub \in {"publishing", "leaving"}
           \/ a = "timer" /\ p = pub /\ ~unpublishing,
           Unpublish(a, p, list, seg), UNCHANGED <<wpc, taken, calls>>
    PROVE  /\ tasks' \in Seq(Task) /\ queued' \in 0..MaxTasks
           /\ trd' \in CoroutineRec /\ signalled' \in BOOLEAN
           /\ enabled' \in BOOLEAN /\ unpublishing' \in BOOLEAN
           /\ segment' \in BOOLEAN /\ pub' \in Pub
           /\ at' \in [Closer -> StopPc] /\ mine' \in [Closer -> Seq(Task)]
           /\ ClosersTied' /\ WorkerTied' /\ FramesFindSegment'
           /\ Split(Rest', taken', calls', queued')
<1> USE TasksAssumption
<1>1. /\ tasks \in Seq(Task) /\ taken \in Seq(Task) /\ queued \in 0..MaxTasks
      /\ trd \in CoroutineRec /\ calls \in [Task -> Nat] /\ signalled \in BOOLEAN
      /\ enabled \in BOOLEAN /\ unpublishing \in BOOLEAN /\ segment \in BOOLEAN
      /\ pub \in Pub /\ at \in [Closer -> StopPc] /\ mine \in [Closer -> Seq(Task)]
  BY DEF HInv, HlsTypeOK, WorkerTypeOK
<1>2. /\ ClosersTied /\ WorkerTied /\ pub # "unopened"
      /\ Split(Rest, taken, calls, queued) /\ Rest \in Seq(Task)
      /\ (\A b \in Closer : at[b] = "out") => Rest = tasks
  BY RestFacts DEF HInv, FramesFindSegment
<1>3. /\ p \in Pub \ {"unopened"} /\ Back(p) \in Pub \ {"unopened"}
      /\ Back(p) \notin {"feeding", "closing"}
      /\ p = "starting" \/ Back(p) = "starting" => pub = "starting"
      /\ p \in {"feeding", "closing"} => a = "publisher"
  <2>1. CASE a = "publisher" /\ p \in {"feeding", "closing"}
    BY <2>1 DEF Back, Pub
  <2>2. CASE a = "timer" /\ p = pub /\ ~unpublishing
    <3>1. pub \notin {"feeding", "closing"}
      BY <1>2, <2>2 DEF ClosersTied, Closer
    <3>2. Back(p) = p
      BY <2>2, <3>1 DEF Back
    <3> QED
      BY <1>1, <1>2, <2>2, <3>1, <3>2
  <2> QED
    BY <2>1, <2>2
<1>4. Left(a, seg) \in BOOLEAN
  BY DEF Left
<1>5. ASSUME NEW l, Grown(l, tasks, queued), Queue(l)
      PROVE  /\ l \in Seq(Task) /\ queued' \in 0..MaxTasks
             /\ (\A b \in Closer : at[b] = "out") => Split(l, taken, calls, queued')
  <2>1. l \in Seq(Task) /\ queued' = queued + Len(l) - Len(tasks) /\ queued' \in 0..MaxTasks
    BY <1>1, <1>5 DEF Grown, Queue
  <2> QED
    BY <1>1, <1>2, <1>5, <2>1, SplitGrows
<1>6. ~unpublishing => \A b \in Closer : at[b] = "out"
  BY <1>2 DEF ClosersTied
<1>7. CASE \* It is off, or somebody is closing it.
           /\ ~enabled \/ unpublishing
           /\ tasks' = list /\ Queue(list) /\ Signal(list)
           /\ segment' = Left(a, seg) /\ pub' = Back(p)
           /\ UNCHANGED <<enabled, unpublishing, trd, at, mine>>
  <2>1. list = tasks
    BY <1>7 DEF Accepts
  <2>2. queued' = queued /\ tasks' = tasks /\ Rest' = Rest
    BY <1>1, <1>7, <2>1 DEF Queue, Rest
  <2>3. signalled' \in BOOLEAN
    BY <1>1, <1>7 DEF Signal
  <2>4. ClosersTied'
    BY <1>2, <1>3, <1>7, <2>2 DEF ClosersTied
  <2>5. WorkerTied' /\ FramesFindSegment'
    BY <1>2, <1>3, <1>7 DEF WorkerTied, FramesFindSegment
  <2>6. Split(Rest', taken', calls', queued')
    BY <1>2, <2>2
  <2> QED
    BY <1>1, <1>3, <1>4, <1>7, <2>2, <2>3, <2>4, <2>5, <2>6
<1>8. CASE \* The worker is not stopped.
           /\ enabled /\ ~unpublishing
           /\ \E l \in Closings(list, seg) : tasks' = l /\ Queue(l) /\ Signal(l)
           /\ segment' \in {FALSE, Left(a, seg /\ tasks' = list)}
           /\ enabled' = FALSE /\ pub' = Back(p)
           /\ UNCHANGED <<unpublishing, trd, at, mine>>
  <2>1. Grown(tasks', tasks, queued) /\ Queue(tasks') /\ signalled' \in BOOLEAN
    BY <1>1, <1>8, ClosingsGrow DEF Signal
  <2>2. tasks' \in Seq(Task) /\ queued' \in 0..MaxTasks /\ Split(tasks', taken, calls, queued')
    BY <1>5, <1>6, <1>8, <2>1
  <2>3. Rest' = tasks'
    BY <1>6, <1>8 DEF Rest, Closer
  <2>4. ClosersTied'
    BY <1>2, <1>3, <1>6, <1>8 DEF ClosersTied
  <2>5. WorkerTied' /\ FramesFindSegment'
    BY <1>2, <1>3, <1>8 DEF WorkerTied, FramesFindSegment
  <2>6. Left(a, seg /\ tasks' = list) \in BOOLEAN
    BY DEF Left
  <2>7. Split(Rest', taken', calls', queued')
    BY <2>2, <2>3
  <2> QED
    BY <1>1, <1>3, <1>8, <2>1, <2>2, <2>4, <2>5, <2>6, <2>7
<1>9. CASE /\ enabled /\ ~unpublishing
           /\ \E l \in Closings(list, seg) : Queue(l) /\ BeginStop(a, l)
           /\ unpublishing' = TRUE /\ segment' = FALSE /\ pub' = p
           /\ UNCHANGED enabled
  <2>1. PICK l \in Closings(list, seg) : Queue(l) /\ BeginStop(a, l)
    BY <1>9
  <2>2. Grown(l, tasks, queued)
    BY <1>1, ClosingsGrow
  <2>3. l \in Seq(Task) /\ queued' \in 0..MaxTasks /\ Split(l, taken, calls, queued')
    BY <1>5, <1>6, <1>9, <2>1, <2>2
  <2>4. \A b \in Closer : at[b] = "out" /\ mine[b] = <<>>
    BY <1>2, <1>6, <1>9 DEF ClosersTied
  <2>5. Stopping(trd) \in CoroutineRec /\ Stopping(trd).thread = trd.thread
    BY <1>1, CoroutineOps
  <2>6. p \in {"feeding", "closing"} => a = "publisher"
    BY <1>3
  <2>7. p # "starting"
    BY <1>2, <1>9 DEF ClosersTied
  <2>8. CASE l # <<>>
    <3>1. /\ tasks' = <<>> /\ mine' = [mine EXCEPT ![a] = l]
          /\ at' = [at EXCEPT ![a] = "calling"] /\ trd' = trd
          /\ signalled' \in BOOLEAN
      BY <1>1, <2>1, <2>8 DEF BeginStop, Signal
    <3>2. /\ at' \in [Closer -> StopPc] /\ mine' \in [Closer -> Seq(Task)]
          /\ at'[a] = "calling" /\ mine'[a] = l
          /\ \A b \in Closer \ {a} : at'[b] = "out" /\ mine'[b] = <<>>
      BY <1>1, <2>3, <2>4, <3>1 DEF StopPc
    <3>3. Rest' = l
      BY <3>1, <3>2 DEF Rest, Closer
    <3>4. ClosersTied'
      BY <1>9, <2>6, <2>7, <2>8, <3>1, <3>2 DEF ClosersTied, Closer
    <3>5. WorkerTied' /\ FramesFindSegment'
      BY <1>2, <1>3, <1>9, <3>1 DEF WorkerTied, FramesFindSegment
    <3>6. Split(Rest', taken', calls', queued')
      BY <2>3, <3>3
    <3>7. tasks' \in Seq(Task)
      BY <3>1
    <3> QED
      BY <1>1, <1>3, <1>9, <2>3, <3>1, <3>2, <3>4, <3>5, <3>6, <3>7
  <2>9. CASE l = <<>>
    <3>1. /\ tasks' = <<>> /\ mine' = mine
          /\ at' = [at EXCEPT ![a] = "joining"] /\ trd' = Stopping(trd)
          /\ signalled' \in BOOLEAN
      BY <1>1, <2>1, <2>9 DEF BeginStop
    <3>2. /\ at' \in [Closer -> StopPc]
          /\ at'[a] = "joining"
          /\ \A b \in Closer \ {a} : at'[b] = "out"
          /\ \A b \in Closer : mine'[b] = <<>>
      BY <1>1, <2>4, <3>1 DEF StopPc
    <3>3. Rest' = l
      BY <2>9, <3>1, <3>2 DEF Rest, Closer
    <3>4. ClosersTied'
      BY <1>9, <2>6, <2>7, <3>1, <3>2 DEF ClosersTied, Closer
    <3>5. WorkerTied' /\ FramesFindSegment'
      BY <1>2, <1>3, <1>9, <2>5, <3>1 DEF WorkerTied, FramesFindSegment
    <3>6. Split(Rest', taken', calls', queued')
      BY <2>3, <3>3
    <3>7. tasks' \in Seq(Task)
      BY <2>3, <2>9, <3>1
    <3> QED
      BY <1>1, <1>3, <1>9, <2>3, <2>5, <3>1, <3>2, <3>4, <3>5, <3>6, <3>7
  <2> QED
    BY <2>8, <2>9
<1> QED
  BY <1>7, <1>8, <1>9 DEF Unpublish

\* A callback that stop() called returned.
LEMMA StopCalledKeeps ==
    ASSUME HInv, NEW a \in Closer, StopCalled(a)
    PROVE  HInv'
<1>1. /\ tasks \in Seq(Task) /\ taken \in Seq(Task) /\ queued \in 0..MaxTasks
      /\ trd \in CoroutineRec /\ calls \in [Task -> Nat] /\ signalled \in BOOLEAN
      /\ conn \in CoroutineRec
      /\ at \in [Closer -> StopPc] /\ mine \in [Closer -> Seq(Task)]
  BY DEF HInv, HlsTypeOK, WorkerTypeOK
<1>2. ClosersTied /\ WorkerTied /\ Split(Rest, taken, calls, queued)
  BY DEF HInv
<1>3. /\ at[a] = "calling" /\ mine[a] # <<>> /\ tasks = <<>>
      /\ \A b \in Closer \ {a} : at[b] = "out" /\ mine[b] = <<>>
  BY <1>2 DEF StopCalled, ClosersTied, Closer
<1>4. Rest = mine[a] /\ mine[a] \in Seq(Task)
  BY <1>1, <1>3 DEF Rest, Closer
<1>5. /\ calls' = [calls EXCEPT ![Head(mine[a])] = @ + 1]
      /\ mine' = [mine EXCEPT ![a] = Tail(@)]
      /\ UNCHANGED <<tasks, queued, wpc, taken, enabled, disposable, unpublishing,
                     segment, silent, pub>>
  BY DEF StopCalled, Called, hlsVars
<1>6. calls' \in [Task -> Nat] /\ Split(Tail(mine[a]), taken, calls', queued')
  BY <1>1, <1>2, <1>3, <1>4, <1>5, SplitCalls
<1>7. /\ Tail(mine[a]) \in Seq(Task)
      /\ Tail(mine[a]) # <<>> <=> Len(mine[a]) > 1
  BY <1>3, <1>4, TailFacts
<1>8. /\ mine' \in [Closer -> Seq(Task)] /\ mine'[a] = Tail(mine[a])
      /\ \A b \in Closer \ {a} : mine'[b] = <<>>
  BY <1>1, <1>3, <1>5, <1>7
<1>9. conn' \in CoroutineRec
  BY <1>1, CoroutineOps DEF StopCalled, Awake
<1>10. FramesFindSegment'
  BY <1>5 DEF HInv, FramesFindSegment
<1>13. ASSUME trd' \in CoroutineRec, at' \in [Closer -> StopPc], signalled' \in BOOLEAN
       PROVE  HlsTypeOK'
  <2>1. UNCHANGED <<tasks, queued, wpc, taken, enabled, disposable, unpublishing,
                    segment, silent, pub>>
    BY <1>5
  <2>2. HlsTypeOK
    BY DEF HInv
  <2> QED
    BY <1>6, <1>8, <1>9, <1>13, <2>1, <2>2 DEF HlsTypeOK, WorkerTypeOK
<1>11. CASE Len(mine[a]) > 1
  <2>1. trd' = trd /\ at' = at /\ signalled' = signalled
    BY <1>11 DEF StopCalled
  <2>2. Rest' = Tail(mine[a])
    BY <1>3, <1>8, <2>1 DEF Rest, Closer
  <2>3. ClosersTied'
    BY <1>2, <1>3, <1>5, <1>7, <1>8, <1>11, <2>1 DEF ClosersTied, Closer
  <2>4. WorkerTied'
    BY <1>2, <1>5, <2>1 DEF WorkerTied
  <2>5. HlsTypeOK'
    <3>1. trd' \in CoroutineRec /\ at' \in [Closer -> StopPc] /\ signalled' \in BOOLEAN
      BY <1>1, <2>1
    <3> QED
      BY <1>13, <3>1, Zenon
  <2>6. Split(Rest', taken', calls', queued')
    BY <1>5, <1>6, <2>2
  <2> QED
    BY <1>10, <2>3, <2>4, <2>5, <2>6 DEF HInv
<1>12. CASE ~(Len(mine[a]) > 1)
  <2>1. /\ trd' = Stopping(trd) /\ at' = [at EXCEPT ![a] = "joining"]
        /\ signalled' \in BOOLEAN
    BY <1>1, <1>12 DEF StopCalled
  <2>2. /\ at' \in [Closer -> StopPc] /\ at'[a] = "joining"
        /\ \A b \in Closer \ {a} : at'[b] = "out"
    BY <1>1, <1>3, <2>1 DEF StopPc
  <2>3. Tail(mine[a]) = <<>>
    BY <1>7, <1>12
  <2>4. Rest' = Tail(mine[a])
    BY <1>3, <1>5, <2>2, <2>3 DEF Rest, Closer
  <2>5. trd' \in CoroutineRec /\ trd'.thread = trd.thread
    BY <1>1, <2>1, CoroutineOps
  <2>6. ClosersTied'
    BY <1>2, <1>3, <1>5, <1>8, <2>2, <2>3 DEF ClosersTied, Closer
  <2>7. WorkerTied'
    BY <1>2, <1>5, <2>5 DEF WorkerTied
  <2>8. HlsTypeOK'
    BY <1>13, <2>1, <2>2, <2>5, Zenon
  <2>9. Split(Rest', taken', calls', queued')
    BY <1>5, <1>6, <2>4
  <2> QED
    BY <1>10, <2>6, <2>7, <2>8, <2>9 DEF HInv
<1> QED
  BY <1>11, <1>12

\* The worker is joined: it holds no task, and nobody else does.
LEMMA JoinedIsDone ==
    ASSUME HInv, NEW a \in Closer, StopJoined(a)
    PROVE  /\ wpc = "none" /\ trd.thread = "zombie"
           /\ Rest = <<>> /\ taken = <<>> /\ tasks = <<>>
           /\ \A b \in Closer \ {a} : at[b] = "out"
<1>1. ClosersTied /\ WorkerTied
  BY DEF HInv
<1>2. at[a] = "joining" /\ trd.thread \in {"none", "zombie"}
  BY DEF StopJoined, Joinable
<1>3. enabled /\ tasks = <<>> /\ \A b \in Closer \ {a} : at[b] = "out"
  BY <1>1, <1>2 DEF ClosersTied, Closer
<1>4. trd.thread = "zombie" /\ wpc = "none" /\ taken = <<>>
  BY <1>1, <1>2, <1>3 DEF WorkerTied
<1>5. Rest = tasks
  BY <1>2, <1>3 DEF Rest, Closer
<1> QED
  BY <1>3, <1>4, <1>5

LEMMA StopJoinedKeeps ==
    ASSUME HInv, NEW a \in Closer, StopJoined(a)
    PROVE  HInv'
<1>1. /\ trd \in CoroutineRec /\ segment \in BOOLEAN /\ pub \in Pub
      /\ at \in [Closer -> StopPc] /\ mine \in [Closer -> Seq(Task)]
  BY DEF HInv, HlsTypeOK, WorkerTypeOK
<1>2. ClosersTied /\ WorkerTied /\ Split(Rest, taken, calls, queued) /\ pub # "unopened"
  BY DEF HInv, FramesFindSegment
<1>3. /\ wpc = "none" /\ trd.thread = "zombie"
      /\ Rest = <<>> /\ taken = <<>> /\ tasks = <<>>
      /\ \A b \in Closer \ {a} : at[b] = "out"
  BY JoinedIsDone
<1>4. /\ at[a] = "joining"
      /\ trd' = Stopped(trd) /\ at' = [at EXCEPT ![a] = "out"]
      /\ enabled' = FALSE /\ unpublishing' = FALSE /\ segment' = Left(a, segment)
      /\ pub' = (IF a = "publisher" THEN Back(pub) ELSE pub)
      /\ UNCHANGED <<tasks, queued, wpc, taken, signalled, calls, disposable,
                     silent, conn, mine>>
  BY DEF StopJoined
<1>5. trd' \in CoroutineRec /\ trd'.thread = "joined"
  BY <1>1, <1>3, <1>4, CoroutineOps
<1>6. at' \in [Closer -> StopPc] /\ \A b \in Closer : at'[b] = "out"
  BY <1>1, <1>3, <1>4 DEF StopPc
<1>7. \A b \in Closer : mine[b] = <<>>
  BY <1>2, <1>3, <1>4 DEF ClosersTied
<1>8. pub' \in Pub \ {"unopened"} /\ pub' \notin {"feeding", "closing"}
  <2>1. a = "timer" => pub \notin {"feeding", "closing"}
    BY <1>2, <1>3 DEF ClosersTied, Closer
  <2> QED
    BY <1>1, <1>2, <1>4, <2>1 DEF Back, Pub, Closer
<1>9. Rest' = <<>>
  BY <1>3, <1>4, <1>6 DEF Rest, Closer
<1>10. ClosersTied'
  BY <1>4, <1>6, <1>7, <1>8 DEF ClosersTied, Closer
<1>11. WorkerTied' /\ FramesFindSegment'
  BY <1>3, <1>4, <1>5, <1>8 DEF WorkerTied, FramesFindSegment
<1>12. HlsTypeOK'
  BY <1>1, <1>4, <1>5, <1>6, <1>8 DEF HInv, HlsTypeOK, WorkerTypeOK, Left
<1>13. Split(Rest', taken', calls', queued')
  BY <1>2, <1>3, <1>4, <1>9
<1> QED
  BY <1>10, <1>11, <1>12, <1>13 DEF HInv

\* on_publish of HLS that is off starts a worker where none is left.
LEMMA OpenKeeps ==
    ASSUME HInv, ~enabled, wpc = "none", Open,
           UNCHANGED <<tasks, queued, taken, signalled, calls, at, mine>>,
           silent' \in BOOLEAN, conn' \in CoroutineRec
    PROVE  HInv'
<1>1. ClosersTied /\ WorkerTied /\ Split(Rest, taken, calls, queued) /\ segment \in BOOLEAN
  BY DEF HInv, HlsTypeOK
<1>2. /\ trd' = Started(NewCoroutine) /\ wpc' = "top"
      /\ pub' \in {"publishing", "failed"}
      /\ segment' \in BOOLEAN
      /\ \/ enabled' = TRUE /\ disposable' = TRUE /\ unpublishing' = FALSE /\ segment' = TRUE
         \/ UNCHANGED <<enabled, disposable, unpublishing>>
  BY <1>1 DEF Open, NewWorker
<1>3. trd' \in CoroutineRec /\ trd'.thread = "live"
  BY <1>2, CoroutineOps
<1>4. \A a \in Closer : at[a] = "out"
  BY <1>1 DEF ClosersTied
<1>5. ~unpublishing
  BY <1>1, <1>4 DEF ClosersTied
<1>6. Rest' = Rest
  BY DEF Rest
<1>7. ClosersTied'
  BY <1>1, <1>2, <1>4, <1>5 DEF ClosersTied, Closer
<1>8. WorkerTied'
  BY <1>1, <1>2, <1>3 DEF WorkerTied
<1>9. FramesFindSegment'
  BY <1>2 DEF FramesFindSegment
<1>10. HlsTypeOK'
  BY <1>2, <1>3 DEF HInv, HlsTypeOK, WorkerTypeOK, WorkerPc, Pub
<1>11. Split(Rest', taken', calls', queued')
  BY <1>1, <1>6
<1> QED
  BY <1>7, <1>8, <1>9, <1>10, <1>11 DEF HInv

\* Every step of the publisher keeps the invariant.
LEMMA PublisherKeeps ==
    ASSUME HInv, PublisherStep
    PROVE  HInv'
<1>1. /\ tasks \in Seq(Task) /\ taken \in Seq(Task) /\ queued \in 0..MaxTasks
      /\ trd \in CoroutineRec /\ calls \in [Task -> Nat] /\ conn \in CoroutineRec
      /\ silent \in BOOLEAN /\ segment \in BOOLEAN /\ signalled \in BOOLEAN
      /\ disposable \in BOOLEAN /\ wpc \in WorkerPc
  BY DEF HInv, HlsTypeOK, WorkerTypeOK
<1>2. ClosersTied /\ WorkerTied /\ Split(Rest, taken, calls, queued) /\ FramesFindSegment
  BY DEF HInv
<1>3. Grown(tasks, tasks, queued)
  BY <1>1, TasksGrow
<1>4. CASE Publish
  <2>1. conn' \in CoroutineRec /\ silent' = FALSE /\ pub = "idle"
    BY <1>4, CoroutineOps DEF Publish
  <2>2. UNCHANGED <<tasks, queued, taken, signalled, calls, at, mine>>
    BY <1>4 DEF Publish
  <2>3. CASE enabled /\ pub' \in {"publishing", "failed"} /\ UNCHANGED <<trd, wpc, hlsVars>>
    <3>1. UNCHANGED <<trd, wpc, enabled, disposable, unpublishing, segment>>
      BY <2>3 DEF hlsVars
    <3>2. ClosersTied' /\ WorkerTied' /\ FramesFindSegment' /\ Rest' = Rest
      BY <1>2, <2>1, <2>2, <2>3, <3>1
         DEF ClosersTied, WorkerTied, FramesFindSegment, Rest, Closer
    <3>3. HlsTypeOK'
      BY <2>1, <2>2, <2>3, <3>1 DEF HInv, HlsTypeOK, WorkerTypeOK, Pub
    <3>4. Split(Rest', taken', calls', queued')
      BY <1>2, <2>2, <3>2
    <3> QED
      BY <3>2, <3>3, <3>4 DEF HInv
  <2>4. CASE ~enabled /\ trd.thread \in {"none", "joined"} /\ Open
    <3>1. wpc = "none"
      BY <1>2, <2>4 DEF WorkerTied
    <3> QED
      BY <2>1, <2>2, <2>4, <3>1, OpenKeeps
  <2>5. CASE /\ ~enabled /\ trd' = Stopping(trd) /\ pub' = "starting"
             /\ UNCHANGED <<wpc, hlsVars>>
    <3>1. UNCHANGED <<wpc, enabled, disposable, unpublishing, segment>>
      BY <2>5 DEF hlsVars
    <3>2. trd' \in CoroutineRec /\ trd'.thread = trd.thread
      BY <1>1, <2>5, CoroutineOps
    <3>3. ClosersTied' /\ WorkerTied' /\ FramesFindSegment' /\ Rest' = Rest
      BY <1>2, <2>1, <2>2, <2>5, <3>1, <3>2
         DEF ClosersTied, WorkerTied, FramesFindSegment, Rest, Closer
    <3>4. HlsTypeOK'
      BY <2>1, <2>2, <2>5, <3>1, <3>2 DEF HInv, HlsTypeOK, WorkerTypeOK, Pub
    <3>5. Split(Rest', taken', calls', queued')
      BY <1>2, <2>2, <3>3
    <3> QED
      BY <3>3, <3>4, <3>5 DEF HInv
  <2> QED
    BY <1>4, <2>3, <2>4, <2>5 DEF Publish
<1>5. CASE Start
  <2>1. ~enabled /\ wpc = "none"
    BY <1>2, <1>5 DEF Start, Joinable, ClosersTied, WorkerTied
  <2> QED
    BY <1>1, <1>5, <2>1, OpenKeeps DEF Start
<1>6. CASE Frame
  <2>1. enabled /\ ~unpublishing /\ segment /\ pub = "publishing"
    BY <1>2, <1>6 DEF Frame, Accepts, FramesFindSegment
  <2>2. /\ \E l \in Closings(tasks, TRUE) : tasks' = l /\ Queue(l) /\ Signal(l)
        /\ silent' = FALSE
        /\ UNCHANGED <<pub, trd, wpc, taken, calls, enabled, disposable, unpublishing,
                       segment, conn, at, mine>>
    BY <1>6, <2>1 DEF Frame, hlsVars
  <2>3. Grown(tasks', tasks, queued) /\ Queue(tasks') /\ signalled' \in BOOLEAN
    BY <1>1, <1>3, <2>2, ClosingsGrow DEF Signal
  <2>4. \A a \in Closer : at[a] = "out"
    BY <1>2, <2>1 DEF ClosersTied
  <2>5. Rest = tasks /\ Rest' = tasks'
    BY <2>2, <2>4 DEF Rest, Closer
  <2>6. queued' = queued + Len(tasks') - Len(tasks) /\ queued' \in 0..MaxTasks
        /\ tasks' \in Seq(Task)
    BY <1>1, <2>3, TasksAssumption DEF Queue, Grown
  <2>7. Split(Rest', taken', calls', queued')
    <3>1. Split(tasks', taken, calls, queued')
      BY <1>1, <1>2, <2>3, <2>5, <2>6, SplitGrows
    <3> QED
      BY <2>2, <2>5, <3>1
  <2>8. ClosersTied' /\ WorkerTied' /\ FramesFindSegment'
    BY <1>2, <2>1, <2>2, <2>4 DEF ClosersTied, WorkerTied, FramesFindSegment
  <2>9. HlsTypeOK'
    BY <2>2, <2>3, <2>6 DEF HInv, HlsTypeOK, WorkerTypeOK
  <2> QED
    BY <2>7, <2>8, <2>9 DEF HInv
<1>7. CASE FrameFails
  <2>1. enabled /\ ~unpublishing /\ segment /\ pub = "publishing"
    BY <1>7 DEF FrameFails, Accepts
  <2>2. /\ silent' = FALSE
        /\ UNCHANGED <<wpc, taken, calls, disposable, conn>>
    BY <1>7 DEF FrameFails
  <2>3. PICK l \in Closings(tasks, TRUE) :
          \/ Unpublish("publisher", "feeding", l, TRUE)
          \/ /\ tasks' = l /\ Queue(l) /\ Signal(l)
             /\ pub' = "leaving"
             /\ UNCHANGED <<enabled, unpublishing, segment, trd, at, mine>>
    BY <1>7 DEF FrameFails
  <2>4. Grown(l, tasks, queued)
    BY <1>1, <1>3, ClosingsGrow
  <2>5. CASE Unpublish("publisher", "feeding", l, TRUE)
    <3>1. "publisher" \in Closer
      BY DEF Closer
    <3>2. /\ tasks' \in Seq(Task) /\ queued' \in 0..MaxTasks
          /\ trd' \in CoroutineRec /\ signalled' \in BOOLEAN
          /\ enabled' \in BOOLEAN /\ unpublishing' \in BOOLEAN
          /\ segment' \in BOOLEAN /\ pub' \in Pub
          /\ at' \in [Closer -> StopPc] /\ mine' \in [Closer -> Seq(Task)]
          /\ ClosersTied' /\ WorkerTied' /\ FramesFindSegment'
          /\ Split(Rest', taken', calls', queued')
      BY <2>1, <2>2, <2>4, <2>5, <3>1, UnpublishTied DEF Accepts
    <3>3. HlsTypeOK'
      BY <1>1, <2>2, <3>2 DEF HlsTypeOK, WorkerTypeOK
    <3> QED
      BY <3>2, <3>3 DEF HInv
  <2>6. CASE /\ tasks' = l /\ Queue(l) /\ Signal(l)
             /\ pub' = "leaving"
             /\ UNCHANGED <<enabled, unpublishing, segment, trd, at, mine>>
    <3>1. \A a \in Closer : at[a] = "out"
      BY <1>2, <2>1 DEF ClosersTied
    <3>2. Rest = tasks /\ Rest' = tasks'
      BY <2>6, <3>1 DEF Rest, Closer
    <3>3. queued' = queued + Len(l) - Len(tasks) /\ queued' \in 0..MaxTasks
          /\ tasks' \in Seq(Task) /\ signalled' \in BOOLEAN
      BY <1>1, <2>4, <2>6, TasksAssumption DEF Queue, Grown, Signal
    <3>4. Split(Rest', taken', calls', queued')
      <4>1. Split(l, taken, calls, queued')
        BY <1>1, <1>2, <2>4, <3>2, <3>3, SplitGrows
      <4> QED
        BY <2>2, <2>6, <3>2, <4>1
    <3>5. ClosersTied' /\ WorkerTied' /\ FramesFindSegment'
      BY <1>2, <2>1, <2>2, <2>6, <3>1 DEF ClosersTied, WorkerTied, FramesFindSegment
    <3>6. HlsTypeOK'
      BY <2>2, <2>6, <3>3 DEF HInv, HlsTypeOK, WorkerTypeOK, Pub
    <3> QED
      BY <3>4, <3>5, <3>6 DEF HInv
  <2> QED
    BY <2>3, <2>5, <2>6
<1>8. CASE Leave
  <2>1. "publisher" \in Closer
    BY DEF Closer
  <2>2. /\ conn' = Woken(conn)
        /\ UNCHANGED <<wpc, taken, calls, disposable, silent>>
    BY <1>8 DEF Leave
  <2>3. /\ tasks' \in Seq(Task) /\ queued' \in 0..MaxTasks
        /\ trd' \in CoroutineRec /\ signalled' \in BOOLEAN
        /\ enabled' \in BOOLEAN /\ unpublishing' \in BOOLEAN
        /\ segment' \in BOOLEAN /\ pub' \in Pub
        /\ at' \in [Closer -> StopPc] /\ mine' \in [Closer -> Seq(Task)]
        /\ ClosersTied' /\ WorkerTied' /\ FramesFindSegment'
        /\ Split(Rest', taken', calls', queued')
    BY <1>1, <1>3, <1>8, <2>1, <2>2, UnpublishTied DEF Leave
  <2>4. conn' \in CoroutineRec
    BY <1>1, <2>2, CoroutineOps
  <2>5. HlsTypeOK'
    BY <1>1, <2>2, <2>3, <2>4 DEF HlsTypeOK, WorkerTypeOK
  <2> QED
    BY <2>3, <2>5 DEF HInv
<1>9. CASE Expire
  <2>1. /\ conn' \in CoroutineRec
        /\ UNCHANGED <<tasks, queued, trd, wpc, taken, signalled, calls, enabled,
                       disposable, unpublishing, segment, silent, pub, at, mine>>
    BY <1>1, <1>9, CoroutineOps DEF Expire, workerVars, hlsVars
  <2>2. ClosersTied' /\ WorkerTied' /\ FramesFindSegment' /\ Rest' = Rest
    BY <1>2, <2>1 DEF ClosersTied, WorkerTied, FramesFindSegment, Rest
  <2>3. HlsTypeOK'
    BY <2>1 DEF HInv, HlsTypeOK, WorkerTypeOK
  <2>4. Split(Rest', taken', calls', queued')
    BY <1>2, <2>1, <2>2
  <2> QED
    BY <2>2, <2>3, <2>4 DEF HInv
<1> QED
  BY <1>4, <1>5, <1>6, <1>7, <1>8, <1>9 DEF PublisherStep

\* The timer disposes of HLS that is silent.
LEMMA CycleKeeps ==
    ASSUME HInv, Cycle
    PROVE  HInv'
<1>1. /\ tasks \in Seq(Task) /\ taken \in Seq(Task) /\ queued \in 0..MaxTasks
      /\ calls \in [Task -> Nat] /\ conn \in CoroutineRec
      /\ segment \in BOOLEAN /\ wpc \in WorkerPc /\ disposable \in BOOLEAN
  BY DEF HInv, HlsTypeOK, WorkerTypeOK
<1>2. ClosersTied /\ WorkerTied /\ Split(Rest, taken, calls, queued) /\ FramesFindSegment
  BY DEF HInv
<1>3. /\ ~unpublishing /\ silent' = FALSE /\ disposable' = FALSE
      /\ UNCHANGED <<wpc, taken, calls, conn>>
  BY DEF Cycle
<1>4. CASE disposable /\ enabled /\ Unpublish("timer", pub, tasks, segment)
  <2>1. "timer" \in Closer
    BY DEF Closer
  <2>2. Grown(tasks, tasks, queued)
    BY <1>1, TasksGrow
  <2>3. /\ tasks' \in Seq(Task) /\ queued' \in 0..MaxTasks
        /\ trd' \in CoroutineRec /\ signalled' \in BOOLEAN
        /\ enabled' \in BOOLEAN /\ unpublishing' \in BOOLEAN
        /\ segment' \in BOOLEAN /\ pub' \in Pub
        /\ at' \in [Closer -> StopPc] /\ mine' \in [Closer -> Seq(Task)]
        /\ ClosersTied' /\ WorkerTied' /\ FramesFindSegment'
        /\ Split(Rest', taken', calls', queued')
    BY <1>1, <1>3, <1>4, <2>1, <2>2, UnpublishTied
  <2>4. HlsTypeOK'
    BY <1>1, <1>3, <2>3 DEF HlsTypeOK, WorkerTypeOK
  <2> QED
    BY <2>3, <2>4 DEF HInv
<1>5. CASE /\ ~(disposable /\ enabled)
           /\ segment' = (segment /\ ~disposable)
           /\ UNCHANGED <<tasks, queued, signalled, trd, enabled, unpublishing, pub,
                          at, mine>>
  <2>1. ClosersTied' /\ WorkerTied' /\ FramesFindSegment' /\ Rest' = Rest
    BY <1>2, <1>3, <1>5 DEF ClosersTied, WorkerTied, FramesFindSegment, Rest
  <2>2. HlsTypeOK'
    BY <1>1, <1>3, <1>5 DEF HInv, HlsTypeOK, WorkerTypeOK
  <2>3. Split(Rest', taken', calls', queued')
    BY <1>2, <1>3, <1>5, <2>1
  <2> QED
    BY <2>1, <2>2, <2>3 DEF HInv
<1> QED
  BY <1>4, <1>5 DEF Cycle

-----------------------------------------------------------------------------
(***************************************************************************)
(* The theorems.                                                           *)
(***************************************************************************)

LEMMA HlsInitEstablishes == HlsInit => HInv
<1> SUFFICES ASSUME HlsInit
             PROVE  HInv
  OBVIOUS
<1> USE DEF HlsInit, WorkerInit
<1>1. HlsTypeOK
  <2>1. NewCoroutine \in CoroutineRec
    BY CoroutineOps
  <2>2. 0 \in 0..MaxTasks
    BY TasksAssumption
  <2>3. tasks \in Seq(Task) /\ taken \in Seq(Task) /\ calls \in [Task -> Nat]
    OBVIOUS
  <2>4. at \in [Closer -> StopPc] /\ mine \in [Closer -> Seq(Task)]
    BY DEF StopPc
  <2> QED
    BY <2>1, <2>2, <2>3, <2>4 DEF HlsTypeOK, WorkerTypeOK, WorkerPc, Pub
<1>2. ClosersTied /\ FramesFindSegment
  BY DEF ClosersTied, FramesFindSegment, Closer
<1>3. WorkerTied
  BY DEF WorkerTied, NewCoroutine
<1>4. Rest = <<>>
  BY DEF Rest, Closer
<1>5. Split(Rest, taken, calls, queued)
  BY <1>4, TasksAssumption DEF Split, Task
<1> QED
  BY <1>1, <1>2, <1>3, <1>5 DEF HInv

LEMMA HlsStepKeeps ==
    ASSUME HInv, [HlsNext]_vars
    PROVE  HInv'
<1>1. CASE PublisherStep
  BY <1>1, PublisherKeeps
<1>2. CASE CloserStep
  BY <1>2, StopCalledKeeps, StopJoinedKeeps DEF CloserStep
<1>3. CASE WorkerStep /\ UNCHANGED <<hlsVars, silent, pub, conn, at, mine>>
  BY <1>3, WorkerKeeps
<1>4. CASE Cycle
  BY <1>4, CycleKeeps
<1>5. CASE JoinInterrupted \/ TimePasses \/ UNCHANGED vars
  <2>1. /\ UNCHANGED <<tasks, queued, trd, wpc, taken, signalled, calls, enabled,
                       disposable, unpublishing, segment, conn, at, mine>>
        /\ silent' \in BOOLEAN /\ pub' \in {pub, "aborted"}
    BY <1>5 DEF HInv, HlsTypeOK, JoinInterrupted, TimePasses, vars, workerVars, hlsVars
  <2>2. ClosersTied' /\ WorkerTied' /\ FramesFindSegment' /\ Rest' = Rest
    BY <2>1 DEF HInv, ClosersTied, WorkerTied, FramesFindSegment, Rest, Closer
  <2>3. HlsTypeOK'
    BY <2>1 DEF HInv, HlsTypeOK, WorkerTypeOK, Pub
  <2>4. Split(Rest', taken', calls', queued')
    BY <2>1, <2>2 DEF HInv
  <2> QED
    BY <2>2, <2>3, <2>4 DEF HInv
<1> QED
  BY <1>1, <1>2, <1>3, <1>4, <1>5 DEF HlsNext

\* In every reachable state each callback that was queued is in one place of one
\* list, or was called once, and the closers and the worker are where they say.
THEOREM HlsInvariance == HlsSpec => []HInv
BY HlsInitEstablishes, HlsStepKeeps, PTL DEF HlsSpec

\* Every variable of HlsPublish keeps its type.
THEOREM HlsTypeCorrect == HlsSpec => []HlsTypeOK
<1>1. HInv => HlsTypeOK
  BY DEF HInv
<1> QED
  BY <1>1, HlsInvariance, PTL

\* No callback is called twice, by the worker and by who stops it.
THEOREM CallbacksCalledOnce == HlsSpec => []CalledOnce
<1>1. HInv => CalledOnce
  BY DEF HInv, Split, CalledOnce
<1> QED
  BY <1>1, HlsInvariance, PTL

\* A frame that is taken finds an open segment.
THEOREM SegmentIsOpen == HlsSpec => []FramesFindSegment
<1>1. HInv => FramesFindSegment
  BY DEF HInv
<1> QED
  BY <1>1, HlsInvariance, PTL

\* When stop() returns, every callback that was queued was called, and nobody
\* will call another one.
THEOREM StopIsComplete == HlsSpec => StopLeavesNothing
<1> DEFINE A == \A a \in Closer : at[a] = "joining" /\ at'[a] = "out" =>
                   /\ wpc' = "none" /\ trd'.thread = "joined"
                   /\ \A t \in Task : queued' >= t => calls'[t] > 0
<1>1. ASSUME HInv, [HlsNext]_vars
      PROVE  [A]_vars
  <2> SUFFICES ASSUME HlsNext, NEW a \in Closer, at[a] = "joining", at'[a] = "out"
               PROVE  /\ wpc' = "none" /\ trd'.thread = "joined"
                      /\ \A t \in Task : queued' >= t => calls'[t] > 0
    BY <1>1
  <2>1. /\ enabled /\ unpublishing /\ at \in [Closer -> StopPc]
        /\ pub \notin {"starting"}
    BY <1>1 DEF HInv, ClosersTied, HlsTypeOK
  <2>2. StopJoined(a)
    <3>1. at' # at
      OBVIOUS
    <3>2. CASE CloserStep
      BY <2>1, <3>1, <3>2 DEF CloserStep, StopCalled, StopJoined
    <3>3. CASE PublisherStep
      BY <1>1, <2>1, <3>1, <3>3 DEF PublisherStep, Publish, Start, Frame, FrameFails,
             Leave, Expire, Unpublish, Accepts
    <3>4. CASE Cycle
      BY <2>1, <3>4 DEF Cycle
    <3> QED
      BY <3>1, <3>2, <3>3, <3>4 DEF HlsNext, JoinInterrupted, TimePasses
  <2>3. /\ wpc = "none" /\ trd.thread = "zombie"
        /\ Rest = <<>> /\ taken = <<>>
    BY <1>1, <2>2, JoinedIsDone
  <2>4. /\ wpc' = wpc /\ queued' = queued /\ calls' = calls /\ trd' = Stopped(trd)
    BY <2>2 DEF StopJoined
  <2>5. trd'.thread = "joined"
    BY <1>1, <2>3, <2>4, CoroutineOps DEF HInv, HlsTypeOK, WorkerTypeOK
  <2>6. ASSUME NEW t \in Task, queued >= t
        PROVE  calls[t] > 0
    <3>1. Split(<<>>, <<>>, calls, queued)
      BY <1>1, <2>3 DEF HInv
    <3>2. ~Has(<<>>, t)
      BY DEF Has
    <3>3. t <= queued
      BY <1>1, <2>6 DEF Task, HInv, HlsTypeOK, WorkerTypeOK
    <3>4. calls[t] = 1
      BY <3>1, <3>2, <3>3 DEF Split
    <3> QED
      BY <3>4
  <2> QED
    BY <2>3, <2>4, <2>5, <2>6
<1> QED
  BY <1>1, HlsInvariance, PTL DEF HlsSpec, StopLeavesNothing
=============================================================================
