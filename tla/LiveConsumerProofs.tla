------------------------- MODULE LiveConsumerProofs -------------------------
(***************************************************************************)
(* Proofs about LiveConsumer, for every size of queue and of batch, and    *)
(* every timestamp: what the helpers of the queue return, the inductive    *)
(* invariant, and the theorems that follow from it.                        *)
(***************************************************************************)
EXTENDS LiveConsumer, TLAPS

Queue == [msgs : Seq(Msg), start : Nat \cup {-1}, end : Nat \cup {-1}]

\* The queue of a steady stream: metadata has the time 0; the timed packets
\* are in order, between the start of the queue and its end, and they span no
\* more than the size of the queue; the start may only be after the end if it
\* is the time of metadata; c is the last corrected time.
OrderedQueue(q, c) ==
    /\ \A i \in DOMAIN q.msgs : q.msgs[i].kind = "meta" => q.msgs[i].ts = 0
    /\ \A i \in Timed(q) : /\ q.start # -1
                           /\ q.start <= q.msgs[i].ts
                           /\ q.msgs[i].ts <= q.end
    /\ \A i, j \in Timed(q) : i <= j => q.msgs[i].ts <= q.msgs[j].ts
    /\ q.start # 0 => q.start <= q.end
    /\ q.end <= c
    /\ QueueSize > 0 => ~SpanExceeds(q)

\* No message between the two has a time that counts.
Neighbours(q, i, j) ==
    /\ {i, j} \subseteq Timed(q) /\ i < j
    /\ \A k \in Timed(q) : ~(i < k /\ k < j)

\* The most that the corrected time moves at once, forwards and backwards.
MostForwards == IF MaxJitter < FrameTime THEN FrameTime ELSE MaxJitter
MostBackwards == IF Steady THEN 0 ELSE MaxJitter

\* From a packet with the time a to the next, with the time b.
Moves(a, b) == b - a \in -MaxJitter..MostForwards

\* The queue of any stream: from a timed packet to the next the time moves by
\* no more than a jitter that is let through, and the last of them is at the
\* end of the queue, which is the last corrected time; if packets with the
\* time 0 followed it, it is near to 0.
SmoothQueue(q, c) ==
    /\ \A i, j \in Timed(q) :
           Neighbours(q, i, j) => Moves(q.msgs[i].ts, q.msgs[j].ts)
    /\ \A i \in Timed(q) :
           (\A k \in Timed(q) : k <= i) => q.msgs[i].ts = q.end
    /\ q.end # -1 => q.end = c \/ (c = 0 /\ q.end <= MaxJitter)

ConsumerInv ==
    /\ ConsumerTypeOK
    /\ NoLostWakeup
    /\ SmoothQueue(queue, jitter.correct)
    /\ Steady => OrderedQueue(queue, jitter.correct)
-----------------------------------------------------------------------------
(***************************************************************************)
(* The queue.                                                              *)
(***************************************************************************)
LEMMA Constants ==
    /\ QueueSize \in Nat /\ MwMsgs \in Nat /\ MwDuration \in Nat
    /\ MaxJitter \in Nat /\ FrameTime \in Nat /\ MaxTime \in Nat
    /\ MaxMsgs \in Nat
BY SizeAssumption

LEMMA PushedType ==
    ASSUME NEW q \in Queue, NEW m \in Msg
    PROVE  /\ Pushed(q, m) \in Queue
           /\ Pushed(q, m).msgs = Append(q.msgs, m)
BY DEF Pushed, Queue, Msg

LEMMA HeaderType ==
    ASSUME NEW q \in Queue, q.end \in Nat, NEW kind \in Kind
    PROVE  /\ Header(q, kind) \in Seq(Msg)
           /\ Len(Header(q, kind)) \in {0, 1}
           /\ Holds(q, kind) => Len(Header(q, kind)) = 1
           /\ \A i \in DOMAIN Header(q, kind) :
                  Header(q, kind)[i] = [kind |-> kind, ts |-> q.end]
<1>1. [kind |-> kind, ts |-> q.end] \in Msg
  BY DEF Msg
<1>2. CASE Holds(q, kind)
  BY <1>1, <1>2 DEF Header
<1>3. CASE ~Holds(q, kind)
  BY <1>3 DEF Header
<1> QED BY <1>2, <1>3

LEMMA ShrunkType ==
    ASSUME NEW q \in Queue, q.end \in Nat
    PROVE  /\ Shrunk(q) \in Queue
           /\ Shrunk(q).start = q.end /\ Shrunk(q).end = q.end
           /\ \A i \in DOMAIN Shrunk(q).msgs :
                  /\ Shrunk(q).msgs[i].kind \in {"vsh", "ash"}
                  /\ Shrunk(q).msgs[i].ts = q.end
<1> DEFINE v == Header(q, "vsh")
           a == Header(q, "ash")
<1>1. /\ v \in Seq(Msg) /\ a \in Seq(Msg)
      /\ \A i \in DOMAIN v : v[i] = [kind |-> "vsh", ts |-> q.end]
      /\ \A i \in DOMAIN a : a[i] = [kind |-> "ash", ts |-> q.end]
  BY HeaderType DEF Kind
<1>2. Shrunk(q).msgs = v \o a
  BY DEF Shrunk
<1> HIDE DEF v, a
<1>3. v \o a \in Seq(Msg)
  BY <1>1
<1>4. ASSUME NEW i \in DOMAIN (v \o a)
      PROVE  (v \o a)[i] \in {[kind |-> "vsh", ts |-> q.end],
                              [kind |-> "ash", ts |-> q.end]}
  <2>1. CASE i <= Len(v)
    BY <1>1, <2>1
  <2>2. CASE i > Len(v)
    BY <1>1, <2>2
  <2> QED BY <1>1, <2>1, <2>2
<1>5. ASSUME NEW i \in DOMAIN (v \o a)
      PROVE  /\ (v \o a)[i].kind \in {"vsh", "ash"}
             /\ (v \o a)[i].ts = q.end
  BY <1>4, <1>5
<1>6. /\ Shrunk(q).start = q.end /\ Shrunk(q).end = q.end
      /\ Shrunk(q) \in Queue
  BY <1>2, <1>3 DEF Shrunk, Queue
<1> QED BY <1>2, <1>5, <1>6

\* A queue that overflows has an end.
LEMMA OverflowEnds ==
    ASSUME NEW q \in Queue, Overflows(q)
    PROVE  q.end \in Nat
BY Constants DEF Queue, Overflows, Duration

LEMMA EnqueuedType ==
    ASSUME NEW q \in Queue, NEW m \in Msg
    PROVE  Enqueued(q, m) \in Queue
BY PushedType, ShrunkType, OverflowEnds DEF Enqueued

LEMMA CountIs ==
    ASSUME NEW q \in Queue, q.msgs # <<>>
    PROVE  Count(q) \in 1..Len(q.msgs)
BY BatchAssumption DEF Count, Queue

LEMMA DumpedType ==
    ASSUME NEW q \in Queue
    PROVE  Dumped(q) \in Queue
<1>1. CASE q.msgs = <<>>
  BY <1>1 DEF Dumped
<1>2. CASE q.msgs # <<>>
  <2>1. Count(q) \in 1..Len(q.msgs)
    BY <1>2, CountIs
  <2>2. SubSeq(q.msgs, Count(q) + 1, Len(q.msgs)) \in Seq(Msg)
    BY <2>1 DEF Queue
  <2>3. q.msgs[Count(q)] \in Msg
    BY <2>1 DEF Queue
  <2>4. q.msgs[Count(q)].ts \in Nat
    BY <2>3 DEF Msg
  <2> QED BY <1>2, <2>2, <2>4 DEF Dumped, Queue
<1> QED BY <1>1, <1>2

\* A steady stream's packet goes to the end of an ordered queue.
LEMMA PushedOrdered ==
    ASSUME NEW q \in Queue, NEW m \in Msg,
           NEW c \in Nat \cup {-1}, NEW d \in Nat \cup {-1},
           OrderedQueue(q, c), c <= d,
           m.kind = "meta" => m.ts = 0,
           m.kind # "meta" => m.ts = d,
           ~Overflows(Pushed(q, m))
    PROVE  OrderedQueue(Pushed(q, m), d)
<1> DEFINE p == Pushed(q, m)
           n == Len(q.msgs) + 1
<1>1. /\ p \in Queue
      /\ p.msgs = Append(q.msgs, m)
  BY PushedType
<1>2. /\ n \in Nat /\ DOMAIN q.msgs = 1..(n - 1) /\ DOMAIN p.msgs = 1..n
      /\ \A i \in 1..(n - 1) : p.msgs[i] = q.msgs[i]
      /\ p.msgs[n] = m
  BY <1>1 DEF Queue
<1>3. \A i \in 1..(n - 1) : q.msgs[i] \in Msg /\ q.msgs[i].ts \in Nat
  <2>1. \A i \in 1..(n - 1) : q.msgs[i] \in Msg
    BY <1>2 DEF Queue
  <2> QED BY <2>1 DEF Msg
<1>4. q.end <= c /\ q.end <= d /\ q.end \in Int
  BY DEF OrderedQueue, Queue
<1>5. CASE n \notin Timed(p)
  <2>1. p.start = q.start /\ p.end = q.end
    BY <1>2, <1>5 DEF Timed, Pushed
  <2>2. Timed(p) = Timed(q)
    BY <1>2, <1>5 DEF Timed
  <2>3. \A i \in Timed(q) : i \in 1..(n - 1)
    BY <1>2 DEF Timed
  <2>4. ~SpanExceeds(q) => ~SpanExceeds(p)
    BY <1>2, <2>2, <2>3 DEF SpanExceeds
  <2>5. \A i \in DOMAIN p.msgs : p.msgs[i].kind = "meta" => p.msgs[i].ts = 0
    BY <1>2 DEF OrderedQueue
  <2> QED BY <1>2, <1>4, <2>1, <2>2, <2>3, <2>4, <2>5 DEF OrderedQueue
<1>6. CASE n \in Timed(p)
  <2>1. m.kind # "meta" /\ m.ts # 0 /\ m.ts = d /\ d \in Nat
    BY <1>2, <1>6 DEF Timed, Msg
  <2>2. /\ p.end = d
        /\ p.start = IF q.start = -1 THEN d ELSE q.start
    BY <2>1 DEF Pushed
  <2>3. Timed(p) = Timed(q) \cup {n} /\ Timed(q) \subseteq 1..(n - 1)
    BY <1>2, <1>6 DEF Timed
  <2>4. \A i \in Timed(p) : /\ p.start # -1
                            /\ p.start <= p.msgs[i].ts
                            /\ p.msgs[i].ts <= p.end
    <3>1. ASSUME NEW i \in Timed(q)
          PROVE  /\ p.start # -1
                 /\ p.start <= p.msgs[i].ts
                 /\ p.msgs[i].ts <= p.end
      <4>1. q.start # -1 /\ q.start <= q.msgs[i].ts /\ q.msgs[i].ts <= q.end
        BY DEF OrderedQueue
      <4>2. p.msgs[i] = q.msgs[i] /\ q.msgs[i].ts \in Nat
        BY <1>2, <1>3, <2>3
      <4> QED BY <1>4, <2>1, <2>2, <4>1, <4>2
    <3>2. /\ p.start # -1
          /\ p.start <= p.msgs[n].ts
          /\ p.msgs[n].ts <= p.end
      <4>1. CASE q.start = -1
        BY <1>2, <2>1, <2>2, <4>1
      <4>2. CASE q.start # -1
        <5>1. q.start \in Nat /\ (q.start # 0 => q.start <= q.end)
          BY <4>2 DEF OrderedQueue, Queue
        <5> QED BY <1>2, <1>4, <2>1, <2>2, <4>2, <5>1
      <4> QED BY <4>1, <4>2
    <3> QED BY <2>3, <3>1, <3>2
  <2>5. \A i, j \in Timed(p) : i <= j => p.msgs[i].ts <= p.msgs[j].ts
    <3> SUFFICES ASSUME NEW i \in Timed(p), NEW j \in Timed(p), i <= j
                 PROVE  p.msgs[i].ts <= p.msgs[j].ts
      OBVIOUS
    <3>1. CASE j = n
      BY <1>2, <2>1, <2>2, <2>4, <3>1
    <3>2. CASE j # n
      <4>1. i \in Timed(q) /\ j \in Timed(q)
        BY <1>2, <2>3, <3>2
      <4> QED BY <1>2, <2>3, <4>1 DEF OrderedQueue
    <3> QED BY <3>1, <3>2
  <2>6. QueueSize > 0 => ~SpanExceeds(p)
    <3> SUFFICES ASSUME QueueSize > 0, NEW i \in Timed(p), NEW j \in Timed(p)
                 PROVE  ~(p.msgs[j].ts - p.msgs[i].ts > QueueSize)
      BY DEF SpanExceeds
    <3>1. p.end - p.start <= QueueSize
      BY <1>1, Constants DEF Overflows, Duration, Queue
    <3>2. p.start <= p.msgs[i].ts /\ p.msgs[j].ts <= p.end
      BY <2>4
    <3>3. /\ p.msgs[i].ts \in Int /\ p.msgs[j].ts \in Int
          /\ p.start \in Int /\ p.end \in Int
      BY <1>1, <1>2, <1>3, <2>3 DEF Queue, Msg
    <3> QED BY <3>1, <3>2, <3>3, Constants
  <2>7. p.start # 0 => p.start <= p.end
    <3>1. q.start \in Int /\ (q.start # 0 => q.start <= q.end)
      BY DEF OrderedQueue, Queue
    <3> QED BY <1>4, <2>1, <2>2, <3>1
  <2>8. \A i \in DOMAIN p.msgs : p.msgs[i].kind = "meta" => p.msgs[i].ts = 0
    BY <1>2, <2>1 DEF OrderedQueue
  <2> QED BY <2>1, <2>2, <2>4, <2>5, <2>6, <2>7, <2>8 DEF OrderedQueue
<1> QED BY <1>5, <1>6

\* What is left of a queue that overflowed is ordered.
LEMMA ShrunkOrdered ==
    ASSUME NEW q \in Queue, q.end \in Nat,
           NEW d \in Nat \cup {-1}, q.end <= d
    PROVE  OrderedQueue(Shrunk(q), d)
<1> DEFINE s == Shrunk(q)
<1>1. /\ s.start = q.end /\ s.end = q.end
      /\ \A i \in DOMAIN s.msgs : s.msgs[i].kind # "meta" /\ s.msgs[i].ts = q.end
  BY ShrunkType
<1>2. Timed(s) \subseteq DOMAIN s.msgs
  BY DEF Timed
<1>3. ~SpanExceeds(s)
  <2> SUFFICES ASSUME NEW i \in Timed(s), NEW j \in Timed(s)
               PROVE  ~(s.msgs[j].ts - s.msgs[i].ts > QueueSize)
    BY DEF SpanExceeds
  <2> QED BY <1>1, <1>2, Constants
<1>4. /\ \A i \in Timed(s) : /\ s.start # -1
                             /\ s.start <= s.msgs[i].ts
                             /\ s.msgs[i].ts <= s.end
      /\ \A i, j \in Timed(s) : i <= j => s.msgs[i].ts <= s.msgs[j].ts
  BY <1>1, <1>2
<1>5. s.start <= s.end /\ s.end <= d
  BY <1>1
<1> HIDE DEF s
<1>6. OrderedQueue(s, d)
  BY <1>1, <1>3, <1>4, <1>5 DEF OrderedQueue
<1> QED BY <1>6 DEF s

LEMMA EnqueuedOrdered ==
    ASSUME NEW q \in Queue, NEW m \in Msg,
           NEW c \in Nat \cup {-1}, NEW d \in Nat \cup {-1},
           OrderedQueue(q, c), c <= d,
           m.kind = "meta" => m.ts = 0,
           m.kind # "meta" => m.ts = d
    PROVE  OrderedQueue(Enqueued(q, m), d)
<1> DEFINE p == Pushed(q, m)
<1>1. CASE ~Overflows(p)
  BY <1>1, PushedOrdered DEF Enqueued
<1>2. CASE Overflows(p)
  <2>1. p \in Queue /\ p.end \in Nat
    BY <1>2, PushedType, OverflowEnds
  <2>2. p.end <= d
    <3>1. q.end <= c /\ q.end \in Int
      BY DEF OrderedQueue, Queue
    <3> QED BY <3>1 DEF Pushed
  <2>3. OrderedQueue(Shrunk(p), d)
    BY <2>1, <2>2, ShrunkOrdered
  <2> QED BY <1>2, <2>3 DEF Enqueued
<1> QED BY <1>1, <1>2

\* A packet goes to the end of a smooth queue: the corrected time moved from
\* c to d.
LEMMA PushedSmooth ==
    ASSUME NEW q \in Queue, NEW m \in Msg,
           NEW c \in Nat \cup {-1}, NEW d \in Nat \cup {-1},
           SmoothQueue(q, c),
           m.kind = "meta" => m.ts = 0 /\ d = c,
           m.kind # "meta" =>
               /\ m.ts = d
               /\ \/ d # 0 /\ Moves(c, d)
                  \/ d = 0 /\ c <= MaxJitter
    PROVE  SmoothQueue(Pushed(q, m), d)
<1> DEFINE p == Pushed(q, m)
           n == Len(q.msgs) + 1
<1>1. /\ p \in Queue
      /\ p.msgs = Append(q.msgs, m)
  BY PushedType
<1>2. /\ n \in Nat /\ DOMAIN q.msgs = 1..(n - 1) /\ DOMAIN p.msgs = 1..n
      /\ \A i \in 1..(n - 1) : p.msgs[i] = q.msgs[i]
      /\ p.msgs[n] = m
  BY <1>1 DEF Queue
<1>3. \A i \in Timed(q) : i \in 1..(n - 1) /\ p.msgs[i] = q.msgs[i]
  BY <1>2 DEF Timed
<1>4. q.end \in Nat \cup {-1} /\ MaxJitter \in Nat /\ MostForwards \in Nat
      /\ MaxJitter <= MostForwards
  BY Constants DEF Queue, MostForwards
<1>5. CASE n \notin Timed(p)
  <2>1. Timed(p) = Timed(q)
    BY <1>2, <1>5 DEF Timed
  <2>2. p.end = q.end
    BY <1>2, <1>5 DEF Timed, Pushed
  <2>3. \A i, j \in Timed(p) : Neighbours(p, i, j) <=> Neighbours(q, i, j)
    BY <2>1 DEF Neighbours
  <2>4. \A i, j \in Timed(p) :
            Neighbours(p, i, j) => Moves(p.msgs[i].ts, p.msgs[j].ts)
    BY <1>3, <2>1, <2>3 DEF SmoothQueue
  <2>5. \A i \in Timed(p) :
            (\A k \in Timed(p) : k <= i) => p.msgs[i].ts = p.end
    BY <1>3, <2>1, <2>2 DEF SmoothQueue
  <2>6. d = c \/ (d = 0 /\ c <= MaxJitter)
    BY <1>2, <1>5 DEF Timed
  <2>7. p.end # -1 => p.end = d \/ (d = 0 /\ p.end <= MaxJitter)
    BY <1>4, <2>2, <2>6 DEF SmoothQueue
  <2> QED BY <2>4, <2>5, <2>7 DEF SmoothQueue
<1>6. CASE n \in Timed(p)
  <2>1. m.kind # "meta" /\ m.ts # 0 /\ m.ts = d /\ d \in Nat /\ Moves(c, d)
    BY <1>2, <1>6 DEF Timed, Msg
  <2>2. p.end = d
    BY <2>1 DEF Pushed
  <2>3. Timed(p) = Timed(q) \cup {n} /\ Timed(q) \subseteq 1..(n - 1)
    BY <1>2, <1>6 DEF Timed
  <2>4. ASSUME NEW i \in Timed(p), NEW j \in Timed(p), Neighbours(p, i, j)
        PROVE  Moves(p.msgs[i].ts, p.msgs[j].ts)
    <3>1. i \in Timed(q) /\ i < j
      BY <1>2, <2>3, <2>4 DEF Neighbours
    <3>2. CASE j # n
      <4>1. j \in Timed(q)
        BY <2>3, <3>2
      <4>2. Neighbours(q, i, j)
        BY <2>3, <2>4, <3>1, <4>1 DEF Neighbours
      <4> QED BY <1>3, <3>1, <4>1, <4>2 DEF SmoothQueue
    <3>3. CASE j = n
      <4>1. \A k \in Timed(q) : k <= i
        <5> SUFFICES ASSUME NEW k \in Timed(q) PROVE k <= i
          OBVIOUS
        <5>1. k \in Timed(p) /\ k < n /\ k \in Int /\ i \in Int
          BY <1>2, <2>3, <3>1
        <5>2. ~(i < k /\ k < j)
          BY <2>4, <5>1 DEF Neighbours
        <5> QED BY <3>3, <5>1, <5>2
      <4>2. p.msgs[i].ts = q.end /\ p.msgs[j].ts = d
        BY <1>2, <1>3, <2>1, <3>1, <3>3, <4>1 DEF SmoothQueue
      <4>3. p.msgs[i].ts \in Nat
        <5>1. p.msgs[i] \in Msg
          BY <1>1, <1>2, <1>3, <3>1 DEF Queue
        <5> QED BY <5>1 DEF Msg
      <4>4. q.end # -1
        BY <4>2, <4>3
      <4>5. q.end = c \/ (c = 0 /\ q.end <= MaxJitter)
        BY <4>4 DEF SmoothQueue
      <4>6. Moves(q.end, d)
        BY <1>4, <2>1, <4>2, <4>3, <4>5 DEF Moves
      <4> QED BY <4>2, <4>6
    <3> QED BY <3>2, <3>3
  <2>5. ASSUME NEW i \in Timed(p), \A k \in Timed(p) : k <= i
        PROVE  p.msgs[i].ts = p.end
    <3>1. i = n
      BY <1>2, <1>6, <2>3, <2>5
    <3> QED BY <1>2, <2>1, <2>2, <3>1
  <2> QED BY <2>2, <2>4, <2>5 DEF SmoothQueue
<1> QED BY <1>5, <1>6

\* What is left of a queue that overflowed is smooth: headers of one time.
LEMMA ShrunkSmooth ==
    ASSUME NEW q \in Queue, q.end \in Nat, NEW c, SmoothQueue(q, c)
    PROVE  SmoothQueue(Shrunk(q), c)
<1> DEFINE s == Shrunk(q)
<1>1. /\ s.end = q.end
      /\ \A i \in Timed(s) : s.msgs[i].ts = q.end
  BY ShrunkType DEF Timed
<1>2. Moves(q.end, q.end)
  BY Constants DEF Moves, MostForwards
<1>3. q.end # -1 => q.end = c \/ (c = 0 /\ q.end <= MaxJitter)
  BY DEF SmoothQueue
<1> HIDE DEF s
<1>4. SmoothQueue(s, c)
  BY <1>1, <1>2, <1>3 DEF SmoothQueue
<1> QED BY <1>4 DEF s

LEMMA EnqueuedSmooth ==
    ASSUME NEW q \in Queue, NEW m \in Msg,
           NEW c \in Nat \cup {-1}, NEW d \in Nat \cup {-1},
           SmoothQueue(q, c),
           m.kind = "meta" => m.ts = 0 /\ d = c,
           m.kind # "meta" =>
               /\ m.ts = d
               /\ \/ d # 0 /\ Moves(c, d)
                  \/ d = 0 /\ c <= MaxJitter
    PROVE  SmoothQueue(Enqueued(q, m), d)
<1> DEFINE p == Pushed(q, m)
<1>1. p \in Queue
  BY PushedType
<1>2. SmoothQueue(p, d)
  BY PushedSmooth
<1> HIDE DEF p
<1>3. Overflows(p) => SmoothQueue(Shrunk(p), d)
  BY <1>1, <1>2, OverflowEnds, ShrunkSmooth
<1>4. Enqueued(q, m) = IF Overflows(p) THEN Shrunk(p) ELSE p
  BY DEF Enqueued, p
<1> QED BY <1>2, <1>3, <1>4

\* The packets a dump leaves are ordered, and start where it ended.
LEMMA DumpedOrdered ==
    ASSUME NEW q \in Queue, NEW c \in Nat \cup {-1}, OrderedQueue(q, c)
    PROVE  OrderedQueue(Dumped(q), c)
<1>1. CASE q.msgs = <<>>
  BY <1>1 DEF Dumped
<1>2. CASE q.msgs # <<>>
  <2> DEFINE k == Count(q)
             n == Len(q.msgs)
             d == Dumped(q)
  <2>1. n \in Nat /\ k \in 1..n /\ DOMAIN q.msgs = 1..n
    BY <1>2, CountIs DEF Queue
  <2>2. /\ d.msgs = SubSeq(q.msgs, k + 1, n)
        /\ d.start = q.msgs[k].ts
        /\ d.end = q.end
    BY <1>2 DEF Dumped, Queue
  <2>3. /\ DOMAIN d.msgs = 1..(n - k)
        /\ \A i \in 1..(n - k) : d.msgs[i] = q.msgs[k + i]
    BY <2>1, <2>2 DEF Queue
  <2>4. \A i \in 1..n : q.msgs[i] \in Msg
    BY <2>1 DEF Queue
  <2>5. q.msgs[k].ts \in Nat /\ q.end \in Int
    BY <2>1, <2>4 DEF Msg, Queue
  <2> HIDE DEF k, n, d
  <2>6. \A i \in Timed(d) :
            k + i \in Timed(q) /\ d.msgs[i] = q.msgs[k + i] /\ i \in 1..(n - k)
    BY <2>1, <2>3 DEF Timed
  <2>7. k \in Timed(q) \/ q.msgs[k].ts = 0
    BY <2>1 DEF Timed, OrderedQueue
  <2>8. ASSUME NEW i \in Timed(d)
        PROVE  d.start # -1 /\ d.start <= d.msgs[i].ts /\ d.msgs[i].ts <= d.end
    <3>1. k + i \in Timed(q) /\ k <= k + i
      BY <2>1, <2>6
    <3>2. k \in Timed(q) => q.msgs[k].ts <= q.msgs[k + i].ts
      BY <3>1 DEF OrderedQueue
    <3>3. q.msgs[k + i].ts <= q.end
      BY <3>1 DEF OrderedQueue
    <3>4. q.msgs[k + i] \in Msg
      BY <2>1, <2>4, <2>6
    <3>5. q.msgs[k + i].ts \in Nat
      BY <3>4 DEF Msg
    <3>6. d.msgs[i].ts = q.msgs[k + i].ts
      BY <2>6
    <3>7. q.msgs[k].ts <= q.msgs[k + i].ts
      BY <2>7, <3>2, <3>5
    <3>8. d.start # -1
      BY <2>2, <2>5
    <3>9. d.start <= d.msgs[i].ts
      BY <2>2, <3>6, <3>7
    <3>10. d.msgs[i].ts <= d.end
      BY <2>2, <3>3, <3>6
    <3> QED BY <3>8, <3>9, <3>10
  <2>9. \A i, j \in Timed(d) : i <= j => d.msgs[i].ts <= d.msgs[j].ts
    <3> SUFFICES ASSUME NEW i \in Timed(d), NEW j \in Timed(d), i <= j
                 PROVE  d.msgs[i].ts <= d.msgs[j].ts
      OBVIOUS
    <3>1. k + i \in Timed(q) /\ k + j \in Timed(q) /\ k + i <= k + j
      BY <2>1, <2>6
    <3>2. q.msgs[k + i].ts <= q.msgs[k + j].ts
      BY <3>1 DEF OrderedQueue
    <3> QED BY <2>6, <3>2
  <2>10. d.start # 0 => d.start <= d.end
    BY <2>2, <2>7 DEF OrderedQueue
  <2>11. QueueSize > 0 => ~SpanExceeds(d)
    <3> SUFFICES ASSUME QueueSize > 0, NEW i \in Timed(d), NEW j \in Timed(d)
                 PROVE  ~(d.msgs[j].ts - d.msgs[i].ts > QueueSize)
      BY DEF SpanExceeds
    <3>1. k + i \in Timed(q) /\ k + j \in Timed(q)
      BY <2>6
    <3>2. ~(q.msgs[k + j].ts - q.msgs[k + i].ts > QueueSize)
      BY <3>1 DEF OrderedQueue, SpanExceeds
    <3> QED BY <2>6, <3>2
  <2>12. \A i \in DOMAIN d.msgs : d.msgs[i].kind = "meta" => d.msgs[i].ts = 0
    <3> SUFFICES ASSUME NEW i \in DOMAIN d.msgs, d.msgs[i].kind = "meta"
                 PROVE  d.msgs[i].ts = 0
      OBVIOUS
    <3>1. k + i \in DOMAIN q.msgs /\ d.msgs[i] = q.msgs[k + i]
      BY <2>1, <2>3
    <3> QED BY <3>1 DEF OrderedQueue
  <2>13. d.end <= c
    BY <2>2 DEF OrderedQueue
  <2>14. OrderedQueue(d, c)
    BY <2>8, <2>9, <2>10, <2>11, <2>12, <2>13 DEF OrderedQueue
  <2> QED BY <2>14 DEF d
<1> QED BY <1>1, <1>2

\* A dump leaves neighbours neighbours, and the last packet the last.
LEMMA DumpedSmooth ==
    ASSUME NEW q \in Queue, NEW c, SmoothQueue(q, c)
    PROVE  SmoothQueue(Dumped(q), c)
<1>1. CASE q.msgs = <<>>
  BY <1>1 DEF Dumped
<1>2. CASE q.msgs # <<>>
  <2> DEFINE k == Count(q)
             n == Len(q.msgs)
             d == Dumped(q)
  <2>1. n \in Nat /\ k \in 1..n /\ DOMAIN q.msgs = 1..n
    BY <1>2, CountIs DEF Queue
  <2>2. d.msgs = SubSeq(q.msgs, k + 1, n) /\ d.end = q.end
    BY <1>2 DEF Dumped, Queue
  <2>3. /\ DOMAIN d.msgs = 1..(n - k)
        /\ \A i \in 1..(n - k) : d.msgs[i] = q.msgs[k + i]
    BY <2>1, <2>2 DEF Queue
  <2> HIDE DEF k, n, d
  <2>4. \A i \in Timed(d) :
            k + i \in Timed(q) /\ d.msgs[i] = q.msgs[k + i] /\ i \in 1..(n - k)
    BY <2>1, <2>3 DEF Timed
  <2>5. \A l \in Timed(q) : l \in 1..n /\ (l > k => l - k \in Timed(d))
    <3> SUFFICES ASSUME NEW l \in Timed(q)
                 PROVE  l \in 1..n /\ (l > k => l - k \in Timed(d))
      OBVIOUS
    <3>1. l \in 1..n
      BY <2>1 DEF Timed
    <3>2. ASSUME l > k
          PROVE  l - k \in Timed(d)
      <4>1. l - k \in 1..(n - k) /\ k + (l - k) = l
        BY <2>1, <3>1, <3>2
      <4>2. d.msgs[l - k] = q.msgs[l]
        BY <2>3, <4>1
      <4> QED BY <2>3, <4>1, <4>2 DEF Timed
    <3> QED BY <3>1, <3>2
  <2>6. ASSUME NEW i \in Timed(d), NEW j \in Timed(d), Neighbours(d, i, j)
        PROVE  Moves(d.msgs[i].ts, d.msgs[j].ts)
    <3>1. k + i \in Timed(q) /\ k + j \in Timed(q) /\ k + i < k + j
      BY <2>1, <2>4, <2>6 DEF Neighbours
    <3>2. ASSUME NEW l \in Timed(q), k + i < l, l < k + j
          PROVE  FALSE
      <4>1. l \in 1..n /\ i \in 1..(n - k) /\ j \in 1..(n - k)
        BY <2>4, <2>5
      <4>2. l > k /\ i < l - k /\ l - k < j
        BY <2>1, <3>2, <4>1
      <4>3. l - k \in Timed(d)
        BY <2>5, <4>2
      <4> QED BY <2>6, <4>2, <4>3 DEF Neighbours
    <3>3. Neighbours(q, k + i, k + j)
      BY <3>1, <3>2 DEF Neighbours
    <3> QED BY <2>4, <3>1, <3>3 DEF SmoothQueue
  <2>7. ASSUME NEW i \in Timed(d), \A l \in Timed(d) : l <= i
        PROVE  d.msgs[i].ts = d.end
    <3>1. k + i \in Timed(q) /\ i \in 1..(n - k)
      BY <2>4
    <3>2. \A l \in Timed(q) : l <= k + i
      <4> SUFFICES ASSUME NEW l \in Timed(q) PROVE l <= k + i
        OBVIOUS
      <4>1. l \in 1..n /\ (l > k => l - k <= i)
        BY <2>5, <2>7
      <4> QED BY <2>1, <3>1, <4>1
    <3> QED BY <2>2, <2>4, <3>1, <3>2 DEF SmoothQueue
  <2>8. d.end # -1 => d.end = c \/ (c = 0 /\ d.end <= MaxJitter)
    BY <2>2 DEF SmoothQueue
  <2>9. SmoothQueue(d, c)
    BY <2>6, <2>7, <2>8 DEF SmoothQueue
  <2> QED BY <2>9 DEF d
<1> QED BY <1>1, <1>2

LEMMA Concatenated ==
    ASSUME NEW v \in Seq(Msg), NEW a \in Seq(Msg)
    PROVE  /\ \A i \in 1..Len(v) :
                  i \in DOMAIN (v \o a) /\ (v \o a)[i] = v[i]
           /\ \A i \in 1..Len(a) : /\ Len(v) + i \in DOMAIN (v \o a)
                                   /\ (v \o a)[Len(v) + i] = a[i]
OBVIOUS

\* An enqueue keeps the sequence headers, whether the queue overflows or not.
LEMMA EnqueuedKeeps ==
    ASSUME NEW q \in Queue, NEW m \in Msg, NEW kind \in {"vsh", "ash"},
           Holds(q, kind)
    PROVE  Holds(Enqueued(q, m), kind)
<1> DEFINE p == Pushed(q, m)
<1>1. p \in Queue /\ p.msgs = Append(q.msgs, m)
  BY PushedType
<1>2. Holds(p, kind)
  <2>1. PICK i \in DOMAIN q.msgs : q.msgs[i].kind = kind
    BY DEF Holds
  <2>2. i \in DOMAIN p.msgs /\ p.msgs[i] = q.msgs[i]
    BY <1>1 DEF Queue
  <2> QED BY <2>1, <2>2 DEF Holds
<1>3. CASE Overflows(p)
  <2> DEFINE v == Header(p, "vsh")
             a == Header(p, "ash")
  <2>1. p.end \in Nat
    BY <1>1, <1>3, OverflowEnds
  <2>2. /\ v \in Seq(Msg) /\ a \in Seq(Msg)
        /\ kind = "vsh" => Len(v) = 1 /\ v[1].kind = "vsh"
        /\ kind = "ash" => Len(a) = 1 /\ a[1].kind = "ash"
    <3>1. /\ v \in Seq(Msg) /\ a \in Seq(Msg)
          /\ \A i \in DOMAIN v : v[i] = [kind |-> "vsh", ts |-> p.end]
          /\ \A i \in DOMAIN a : a[i] = [kind |-> "ash", ts |-> p.end]
      BY <1>1, <2>1, HeaderType DEF Kind
    <3>2. /\ kind = "vsh" => Len(v) = 1
          /\ kind = "ash" => Len(a) = 1
      BY <1>1, <1>2, <2>1, HeaderType DEF Kind
    <3> QED BY <3>1, <3>2
  <2>3. Enqueued(q, m).msgs = v \o a
    BY <1>3 DEF Enqueued, Shrunk
  <2> HIDE DEF v, a
  <2>4. CASE kind = "vsh"
    <3>1. 1 \in DOMAIN (v \o a) /\ (v \o a)[1] = v[1]
      BY <2>2, <2>4, Concatenated
    <3> QED BY <2>2, <2>3, <2>4, <3>1 DEF Holds
  <2>5. CASE kind = "ash"
    <3>1. /\ Len(v) + 1 \in DOMAIN (v \o a)
          /\ (v \o a)[Len(v) + 1] = a[1]
      <4>1. v \in Seq(Msg) /\ a \in Seq(Msg) /\ Len(a) = 1
        BY <2>2, <2>5, Zenon
      <4>2. 1 \in 1..Len(a)
        BY <4>1
      <4> QED BY <4>1, <4>2, Concatenated, Zenon
    <3> QED BY <2>2, <2>3, <2>5, <3>1 DEF Holds
  <2> QED BY <2>4, <2>5
<1>4. CASE ~Overflows(p)
  BY <1>2, <1>4 DEF Enqueued
<1> QED BY <1>3, <1>4
-----------------------------------------------------------------------------
(***************************************************************************)
(* The invariant.                                                          *)
(***************************************************************************)

\* The corrected time is a natural number; it moves by no more than a jitter
\* that is let through, unless it stops at 0, and of a steady stream it only
\* grows.
LEMMA AdvancedIs ==
    ASSUME jitter \in [packet : Nat, correct : Nat \cup {-1}], NEW time \in Nat
    PROVE  /\ Advanced(time) \in [packet : Nat, correct : Nat]
           /\ time >= jitter.packet => jitter.correct <= Advanced(time).correct
           /\ \/ Advanced(time).correct # 0
                 /\ Moves(jitter.correct, Advanced(time).correct)
              \/ Advanced(time).correct = 0 /\ jitter.correct <= MaxJitter
<1>1. /\ jitter.packet \in Nat /\ jitter.correct \in Int
      /\ jitter.correct >= -1
  OBVIOUS
<1>2. /\ Delta(time) \in Int
      /\ time >= jitter.packet => Delta(time) >= 0
      /\ Delta(time) >= -MaxJitter /\ Delta(time) <= MostForwards
  BY <1>1, Constants DEF Delta, MostForwards
<1>3. MaxJitter \in Nat /\ MostForwards \in Nat
  BY Constants DEF MostForwards
<1>4. Advanced(time).correct = IF jitter.correct + Delta(time) < 0 THEN 0
                               ELSE jitter.correct + Delta(time)
  BY DEF Advanced
<1>5. \/ /\ Advanced(time).correct # 0
         /\ Moves(jitter.correct, Advanced(time).correct)
      \/ Advanced(time).correct = 0 /\ jitter.correct <= MaxJitter
  BY <1>1, <1>2, <1>3, <1>4 DEF Moves
<1>6. /\ Advanced(time) \in [packet : Nat, correct : Nat]
      /\ time >= jitter.packet => jitter.correct <= Advanced(time).correct
  BY <1>1, <1>2 DEF Advanced
<1> QED BY <1>5, <1>6

LEMMA CorrectedQueue ==
    ASSUME ConsumerInv, NEW kind \in Kind, NEW time \in Nat,
           Steady => time >= jitter.packet,
           Corrected(kind, time)
    PROVE  /\ jitter' \in [packet : Nat, correct : Nat \cup {-1}]
           /\ queue' \in Queue
           /\ SmoothQueue(queue', jitter'.correct)
           /\ Steady => OrderedQueue(queue', jitter'.correct)
           /\ \A k \in {"vsh", "ash"} : Holds(queue, k) => Holds(queue', k)
<1>1. /\ jitter \in [packet : Nat, correct : Nat \cup {-1}]
      /\ queue \in Queue
      /\ SmoothQueue(queue, jitter.correct)
      /\ Steady => OrderedQueue(queue, jitter.correct)
  BY DEF ConsumerInv, ConsumerTypeOK, Queue
<1>2. CASE kind = "meta"
  <2> DEFINE m == [kind |-> kind, ts |-> 0]
  <2>1. m \in Msg /\ m.kind = "meta" /\ m.ts = 0
    BY <1>2 DEF Msg
  <2>2. queue' = Enqueued(queue, m) /\ jitter' = jitter
    BY <1>2 DEF Corrected
  <2>3. jitter.correct \in Nat \cup {-1} /\ jitter.correct <= jitter.correct
    BY <1>1
  <2> HIDE DEF m
  <2>4. queue' \in Queue
    BY <1>1, <2>1, <2>2, EnqueuedType
  <2>5. Steady => OrderedQueue(queue', jitter'.correct)
    BY <1>1, <2>1, <2>2, <2>3, EnqueuedOrdered
  <2>6. \A k \in {"vsh", "ash"} : Holds(queue, k) => Holds(queue', k)
    BY <1>1, <2>1, <2>2, EnqueuedKeeps
  <2>7. SmoothQueue(queue', jitter'.correct)
    BY <1>1, <2>1, <2>2, <2>3, EnqueuedSmooth
  <2> QED BY <1>1, <2>2, <2>4, <2>5, <2>6, <2>7
<1>3. CASE kind # "meta"
  <2> DEFINE c == Advanced(time).correct
             m == [kind |-> kind, ts |-> c]
  <2>1. jitter' = Advanced(time) /\ queue' = Enqueued(queue, m)
    BY <1>3 DEF Corrected
  <2>2. /\ Advanced(time) \in [packet : Nat, correct : Nat]
        /\ c \in Nat
        /\ Steady => jitter.correct <= c
        /\ \/ c # 0 /\ Moves(jitter.correct, c)
           \/ c = 0 /\ jitter.correct <= MaxJitter
    BY <1>1, AdvancedIs
  <2>3. m \in Msg /\ m.kind # "meta" /\ m.ts = c
    BY <1>3, <2>2 DEF Msg
  <2>4. jitter.correct \in Nat \cup {-1} /\ c \in Nat \cup {-1}
    BY <1>1, <2>2
  <2>5. jitter' \in [packet : Nat, correct : Nat \cup {-1}] /\ jitter'.correct = c
    BY <2>1, <2>2
  <2> HIDE DEF m, c
  <2>6. queue' \in Queue
    BY <1>1, <2>1, <2>3, EnqueuedType
  <2>7. Steady => OrderedQueue(queue', c)
    BY <1>1, <2>1, <2>2, <2>3, <2>4, EnqueuedOrdered
  <2>8. \A k \in {"vsh", "ash"} : Holds(queue, k) => Holds(queue', k)
    BY <1>1, <2>1, <2>3, EnqueuedKeeps
  <2>9. SmoothQueue(queue', c)
    BY <1>1, <2>1, <2>2, <2>3, <2>4, EnqueuedSmooth
  <2> QED BY <2>5, <2>6, <2>7, <2>8, <2>9
<1> QED BY <1>2, <1>3

LEMMA PublishInv ==
    ASSUME ConsumerInv, NEW kind \in Kind, NEW time \in 0..MaxTime,
           Publish(kind, time)
    PROVE  ConsumerInv'
<1>1. time \in Nat
  BY Constants
<1>2. /\ jitter' \in [packet : Nat, correct : Nat \cup {-1}]
      /\ queue' \in Queue
      /\ SmoothQueue(queue', jitter'.correct)
      /\ Steady => OrderedQueue(queue', jitter'.correct)
  BY <1>1, CorrectedQueue DEF Publish
<1>3. /\ waiting \in BOOLEAN /\ paused' = paused /\ at \in At
      /\ command' = command /\ failed' = failed /\ expired' = expired
  BY DEF ConsumerInv, ConsumerTypeOK, Publish
<1>4. \/ waiting' = waiting /\ at' = at /\ ~(waiting /\ Enough(queue'))
      \/ /\ waiting /\ waiting' = FALSE
         /\ at' = IF waiting /\ at = "asleep" THEN "awake" ELSE at
  BY DEF Publish, Signal
<1>5. ConsumerTypeOK'
  BY <1>2, <1>3, <1>4 DEF ConsumerInv, ConsumerTypeOK, Queue, At
<1>6. NoLostWakeup'
  BY <1>3, <1>4 DEF ConsumerInv, NoLostWakeup, Enough
<1> QED BY <1>2, <1>5, <1>6 DEF ConsumerInv

\* Whoever hands the player a command or an error wakes it up.
LEMMA ReceiveInv ==
    ASSUME ConsumerInv,
           (\E c \in Command : Receive(c)) \/ ReceiveFails
    PROVE  ConsumerInv'
<1>1. /\ waiting' = FALSE
      /\ at' = IF waiting /\ at = "asleep" THEN "awake" ELSE at
      /\ queue' = queue /\ jitter' = jitter /\ paused' = paused
      /\ expired' = expired
      /\ command' \in Command \cup {NoCommand} /\ failed' \in BOOLEAN
  BY DEF Receive, ReceiveFails, Signal, ConsumerInv, ConsumerTypeOK
<1>2. ConsumerTypeOK'
  BY <1>1 DEF ConsumerInv, ConsumerTypeOK, At
<1>3. NoLostWakeup'
  BY <1>1 DEF ConsumerInv, NoLostWakeup
<1> QED BY <1>1, <1>2, <1>3 DEF ConsumerInv

LEMMA ExpireInv ==
    ASSUME ConsumerInv, Expire
    PROVE  ConsumerInv'
<1>1. ConsumerTypeOK'
  BY DEF Expire, ConsumerInv, ConsumerTypeOK, At
<1>2. at' # "asleep"
  BY DEF Expire
<1> QED BY <1>1, <1>2 DEF ConsumerInv, NoLostWakeup, Expire

\* The steps of the player that leave its queue alone.
LEMMA TurnInv ==
    ASSUME ConsumerInv,
           ProcessCommand \/ Quit \/ WaitPaused \/ Sent \/ Leave
    PROVE  ConsumerInv'
<1>1. at' \in At /\ at' # "asleep" /\ queue' = queue /\ jitter' = jitter
  BY DEF ProcessCommand, Quit, WaitPaused, Sent, Leave, At
<1>2. /\ waiting' \in BOOLEAN /\ paused' \in BOOLEAN /\ failed' \in BOOLEAN
      /\ expired' \in BOOLEAN /\ command' \in Command \cup {NoCommand}
  BY DEF ProcessCommand, Quit, WaitPaused, Sent, Leave, ConsumerInv,
         ConsumerTypeOK
<1>3. ConsumerTypeOK'
  BY <1>1, <1>2 DEF ConsumerInv, ConsumerTypeOK
<1> QED BY <1>1, <1>3 DEF ConsumerInv, NoLostWakeup

\* The player goes to sleep only on nothing to do.
LEMMA WaitInv ==
    ASSUME ConsumerInv, Wait
    PROVE  ConsumerInv'
<1>1. ConsumerTypeOK'
  BY DEF Wait, ConsumerInv, ConsumerTypeOK, At
<1>2. NoLostWakeup'
  BY DEF Wait, NoLostWakeup, Ready, Enough, Duration
<1> QED BY <1>1, <1>2 DEF ConsumerInv, Wait

LEMMA DumpInv ==
    ASSUME ConsumerInv, Dump
    PROVE  ConsumerInv'
<1>1. queue \in Queue /\ jitter.correct \in Nat \cup {-1}
  BY DEF ConsumerInv, ConsumerTypeOK, Queue
<1>2. queue' \in Queue
  BY <1>1, DumpedType DEF Dump
<1>3. Steady => OrderedQueue(queue', jitter.correct)
  BY <1>1, DumpedOrdered DEF Dump, ConsumerInv
<1>6. SmoothQueue(queue', jitter.correct)
  BY <1>1, DumpedSmooth DEF Dump, ConsumerInv
<1>4. ConsumerTypeOK'
  BY <1>2 DEF Dump, ConsumerInv, ConsumerTypeOK, Queue, At
<1>5. NoLostWakeup'
  BY DEF Dump, NoLostWakeup
<1> QED BY <1>3, <1>4, <1>5, <1>6 DEF ConsumerInv, Dump

LEMMA ConsumerInvariance == ConsumerSpec => []ConsumerInv
<1>1. ConsumerInit => ConsumerInv
  <2> SUFFICES ASSUME ConsumerInit PROVE ConsumerInv
    OBVIOUS
  <2>1. ConsumerTypeOK
    <3>1. queue \in [msgs : Seq(Msg), start : Nat \cup {-1},
                     end : Nat \cup {-1}]
      BY DEF ConsumerInit
    <3>2. jitter \in [packet : Nat, correct : Nat \cup {-1}]
      BY DEF ConsumerInit
    <3> QED BY <3>1, <3>2 DEF ConsumerInit, ConsumerTypeOK, At
  <2>2. NoLostWakeup
    BY DEF ConsumerInit, NoLostWakeup
  <2>3. OrderedQueue(queue, jitter.correct)
    BY DEF ConsumerInit, OrderedQueue, Timed, SpanExceeds
  <2>4. SmoothQueue(queue, jitter.correct)
    BY DEF ConsumerInit, SmoothQueue, Timed
  <2> QED BY <2>1, <2>2, <2>3, <2>4 DEF ConsumerInv
<1>2. ConsumerInv /\ [ConsumerNext]_pvars => ConsumerInv'
  <2> SUFFICES ASSUME ConsumerInv, [ConsumerNext]_pvars PROVE ConsumerInv'
    OBVIOUS
  <2>1. CASE \E kind \in Kind, time \in 0..MaxTime : Publish(kind, time)
    BY <2>1, PublishInv
  <2>2. CASE (\E c \in Command : Receive(c)) \/ ReceiveFails
    BY <2>2, ReceiveInv
  <2>3. CASE Expire
    BY <2>3, ExpireInv
  <2>4. CASE ProcessCommand \/ Quit \/ WaitPaused \/ Sent \/ Leave
    BY <2>4, TurnInv
  <2>5. CASE Wait
    BY <2>5, WaitInv
  <2>6. CASE WaitNot \/ WokenUp
    BY <2>6, DumpInv DEF WaitNot, WokenUp
  <2>7. CASE UNCHANGED pvars
    BY <2>7 DEF pvars, ConsumerInv, ConsumerTypeOK, NoLostWakeup, Enough,
                Duration
  <2> QED BY <2>1, <2>2, <2>3, <2>4, <2>5, <2>6, <2>7
          DEF ConsumerNext, PlayerStep
<1> QED BY <1>1, <1>2, PTL DEF ConsumerSpec
-----------------------------------------------------------------------------
(***************************************************************************)
(* The theorems.                                                           *)
(***************************************************************************)

\* The consumer never sleeps on a batch, a command, an error or an expiration,
\* whatever the sizes of batch and queue.
THEOREM PlayerIsWoken == ConsumerSpec => [](ConsumerTypeOK /\ NoLostWakeup)
<1>1. ConsumerInv => ConsumerTypeOK /\ NoLostWakeup
  BY DEF ConsumerInv
<1> QED BY <1>1, ConsumerInvariance, PTL

\* The queue of a steady stream spans no more than its size, whatever the
\* timestamps, the dumps and the pauses.
THEOREM QueueIsBounded == ConsumerSpec => []SpanBounded
<1>1. ConsumerInv => SpanBounded
  BY DEF ConsumerInv, OrderedQueue, SpanBounded
<1> QED BY <1>1, ConsumerInvariance, PTL

\* From a message with a time to the next in the queue, the time moves by no more
\* than the jitter that is let through, though a shrink moves headers to the end,
\* a dump moves the start and packets with the time 0 may lie between.  A
\* publisher that starts over makes it go back by MaxJitter at most, which is
\* less than the "monotonically" of SrsRtmpJitter says.
NoJumps ==
    \A i, j \in Timed(queue) :
        Neighbours(queue, i, j) =>
            queue.msgs[j].ts - queue.msgs[i].ts \in -MostBackwards..MostForwards

\* The player's time makes no jump, whatever the publisher's timestamps, the
\* dumps and the shrinks; of a steady stream it does not go back.
THEOREM TimeIsSmooth == ConsumerSpec => []NoJumps
<1>1. ASSUME ConsumerInv
      PROVE  NoJumps
  <2> SUFFICES ASSUME NEW i \in Timed(queue), NEW j \in Timed(queue),
                      Neighbours(queue, i, j)
               PROVE  queue.msgs[j].ts - queue.msgs[i].ts
                          \in -MostBackwards..MostForwards
    BY DEF NoJumps
  <2>1. Moves(queue.msgs[i].ts, queue.msgs[j].ts)
    BY <1>1 DEF ConsumerInv, SmoothQueue
  <2>2. CASE ~Steady
    BY <2>1, <2>2 DEF Moves, MostBackwards
  <2>3. CASE Steady
    <3>1. i < j /\ i \in Int /\ j \in Int
      BY <1>1 DEF Neighbours, Timed, ConsumerInv, ConsumerTypeOK
    <3>2. queue.msgs[i].ts <= queue.msgs[j].ts
      BY <1>1, <2>3, <3>1 DEF ConsumerInv, OrderedQueue
    <3>3. queue.msgs[i] \in Msg /\ queue.msgs[j] \in Msg
      BY <1>1 DEF Timed, ConsumerInv, ConsumerTypeOK
    <3>4. queue.msgs[i].ts \in Nat /\ queue.msgs[j].ts \in Nat
      BY <3>3 DEF Msg
    <3> QED BY <2>1, <2>3, <3>2, <3>4 DEF Moves, MostBackwards
  <2> QED BY <2>2, <2>3
<1> QED BY <1>1, ConsumerInvariance, PTL

\* A sequence header leaves the queue only in the step that begins to send it, of
\* any stream.
THEOREM HeadersAreKept == ConsumerSpec => HeadersKept
<1> DEFINE Lost == \E k \in {"vsh", "ash"} : Holds(queue, k) /\ ~Holds(queue', k)
<1>1. ASSUME ConsumerInv, [ConsumerNext]_pvars, Lost
      PROVE  at # "sending" /\ at' = "sending"
  <2>1. queue' # queue
    BY <1>1
  <2>2. CASE \E kind \in Kind, time \in 0..MaxTime : Publish(kind, time)
    <3>1. PICK kind \in Kind, time \in 0..MaxTime : Publish(kind, time)
      BY <2>2
    <3>2. time \in Nat /\ Corrected(kind, time)
          /\ (Steady => time >= jitter.packet)
      BY <3>1, Constants DEF Publish
    <3> QED BY <1>1, <3>2, CorrectedQueue
  <2>3. CASE WaitNot \/ WokenUp
    BY <2>1, <2>3 DEF WaitNot, WokenUp, Ready, Dump, Dumped
  <2>4. CASE \/ \E c \in Command : Receive(c)
             \/ ReceiveFails \/ Expire \/ ProcessCommand \/ Quit \/ WaitPaused
             \/ Wait \/ Sent \/ Leave \/ UNCHANGED pvars
    BY <2>1, <2>4 DEF Receive, ReceiveFails, Expire, ProcessCommand, Quit,
                      WaitPaused, Wait, Sent, Leave, pvars
  <2> QED BY <1>1, <2>2, <2>3, <2>4 DEF ConsumerNext, PlayerStep
<1>2. ConsumerInv /\ [ConsumerNext]_pvars
      => [\A k \in {"vsh", "ash"} :
              Holds(queue, k) /\ ~Holds(queue', k) =>
                  at # "sending" /\ at' = "sending"]_pvars
  BY <1>1
<1> QED BY <1>2, ConsumerInvariance, PTL DEF ConsumerSpec, HeadersKept

\* Every variable of the consumer and its player keeps its type.
THEOREM ConsumerTypeCorrect == ConsumerSpec => []ConsumerTypeOK
<1>1. ConsumerInv => ConsumerTypeOK
  BY DEF ConsumerInv
<1> QED BY <1>1, ConsumerInvariance, PTL
=============================================================================
