------------------------------- MODULE RtcNack -------------------------------
(***************************************************************************)
(* How a WebRTC publisher is asked for the packets that were lost.  Its    *)
(* receive track keeps the interval of sequence numbers it saw and the     *)
(* list of those it misses; a timer requests these until they arrive or    *)
(* are given up.                                                           *)
(*                                                                         *)
(* Sequence numbers wrap at Width.  A packet is its number in the stream,  *)
(* which does not wrap.  The network loses, repeats and reorders packets;  *)
(* one that arrives while the circuit breaker is at critical water is lost *)
(* to the track.  What the code cannot see, the packet behind a listed     *)
(* number and the packets that are missing, are history variables.         *)
(***************************************************************************)
EXTENDS Integers, FiniteSets

CONSTANTS
    Width,      \* sequence numbers are counted modulo Width, 2^16
    MaxQueue,   \* max_queue_size_, two thirds of the ring buffer
    MaxAlive,   \* max_alive_time_, in ticks
    Interval,   \* the intervals of requests of a number, in ticks
    MaxCount,   \* max_count_
    FirstNack,  \* first_nack_interval_, in ticks
    CheckEvery, \* nack_check_interval_, in ticks
    First,      \* number of the first packet of the stream
    MaxSeq,     \* bound: numbers of the stream
    Reorder,    \* bound: how late the network is
    Burst       \* bound: packets lost in a row

ASSUME NackAssumption ==
    /\ Width \in Nat /\ Width > 1 /\ Width % 2 = 0
    /\ MaxQueue \in Nat \ {0}
    /\ MaxAlive \in Nat /\ MaxCount \in Nat /\ FirstNack \in Nat
    /\ CheckEvery \in Nat \ {0}
    /\ Interval \subseteq Nat /\ \E t \in Interval : \A i \in Interval : i <= t
    /\ First \in 0..Width - 1 /\ MaxSeq \in Nat /\ First <= MaxSeq
    /\ Reorder \in Nat /\ Burst \in Nat

\* The list is small, and the network not too bad, for the width of a number: a
\* gap is never taken for a step back, nor a late packet for a new one.
ASSUME WidthAssumption ==
    /\ 2 * MaxQueue <= Width \div 2
    /\ MaxQueue + Burst <= Width \div 2
    /\ MaxQueue + Reorder < Width \div 2
    /\ Reorder + Burst < Width \div 2

VARIABLES
    buf,        \* the ring buffer of the receive track: what it saw
    nacks,      \* the list of the receive track, by sequence number
    since,      \* ticks since pre_check_time_
    newest,     \* the newest packet that arrived
    span,       \* the packets from the first to the last handled since the
                \* buffer was empty
    missing,    \* those of them that were neither received nor given up
    recounts    \* the buffer started again before a wrap that it had counted

vars == <<buf, nacks, since, newest, span, missing, recounts>>

Sequence == 0..Width - 1
Packet == First..MaxSeq

SeqOf(n) == n % Width

BufferRec == [begin : Sequence, end : Sequence, initialized : BOOLEAN,
              flips : Nat]

\* No two times further apart matter.
LongAgo == CHOOSE t \in Interval : \A i \in Interval : i <= t

\* What the list says of a number: the packet it stands for, the ticks since
\* it was listed and since it was requested, and how often that was.
InfoRec == [packet : Int, age : 0..MaxAlive + 1, idle : 0..LongAgo,
            count : 0..MaxCount + 1]

NackTypeOK ==
    /\ buf \in BufferRec
    /\ \E L \in SUBSET Sequence : nacks \in [L -> InfoRec]
    /\ Cardinality(DOMAIN nacks) < MaxQueue
    /\ since \in 0..CheckEvery
    /\ newest \in SUBSET Packet
    /\ span \in SUBSET Packet /\ missing \in SUBSET Packet
    /\ recounts \in BOOLEAN

Empty == [s \in {} |-> s]

NackInit ==
    /\ buf = [begin |-> 0, end |-> 0, initialized |-> FALSE, flips |-> 0]
    /\ nacks = Empty
    /\ since = 0
    /\ newest = {} /\ span = {} /\ missing = {}
    /\ recounts = FALSE
-----------------------------------------------------------------------------
(***************************************************************************)
(* Sequence numbers and the ring buffer.                                   *)
(***************************************************************************)

\* The signed difference, of the width of a sequence number.
Distance(prev, value) ==
    ((value - prev + Width \div 2) % Width) - Width \div 2

\* The numbers from first up to last, in steps of one.
Between(first, last) ==
    {SeqOf(first + i) : i \in 0..((last - first) % Width) - 1}

\* Mutant: a number that is the next one wraps as well.
WrapsOrNext(seq) == seq <= buf.end

\* Whether a number that is not before the end wrapped: not when it is 0 and
\* follows the greatest, whose successor 0 was the end.
Wraps(seq) == seq < buf.end

\* What update() makes of the buffer.
Updated(seq) ==
    IF ~buf.initialized
    THEN [buf EXCEPT !.initialized = TRUE, !.begin = seq, !.end = SeqOf(seq + 1)]
    ELSE IF Distance(buf.end, seq) >= 0
    THEN [buf EXCEPT !.flips = IF Wraps(seq) THEN @ + 1 ELSE @,
                     !.end = SeqOf(seq + 1)]
    ELSE IF Distance(seq, buf.begin) > 0
    THEN [buf EXCEPT !.begin = seq]
    ELSE buf

\* Mutant: a packet before the first one starts no range.
RangeForward(seq) ==
    IF buf.initialized /\ Distance(buf.end, seq) >= 0
    THEN Between(buf.end, seq)
    ELSE {}

\* And the range it reports, which the list takes in.
RangeOf(seq) ==
    IF ~buf.initialized THEN {}
    ELSE IF Distance(buf.end, seq) >= 0
    THEN IF Distance(buf.end, seq) > 0 THEN Between(buf.end, seq) ELSE {}
    ELSE IF Distance(seq, buf.begin) > 0
    THEN Between(seq, buf.begin)
    ELSE {}

\* Mutant: one more than the limit is allowed.
OverFull(list) == Cardinality(DOMAIN list) > MaxQueue

\* check_queue_size, and notify_nack_list_full.
Full(list) == Cardinality(DOMAIN list) >= MaxQueue

Reset(b) == [b EXCEPT !.begin = 0, !.end = 0, !.initialized = FALSE]
-----------------------------------------------------------------------------
(***************************************************************************)
(* The receive track handles a packet.                                     *)
(***************************************************************************)

\* The packet a number near that of packet n stands for.
PacketNear(n, s) == n + Distance(SeqOf(n), s)

Inserted(list, S, n) ==
    [s \in DOMAIN list \union S |->
        IF s \in S
        THEN [packet |-> PacketNear(n, s), age |-> 0, idle |-> LongAgo, count |-> 0]
        ELSE list[s]]

\* Mutant: nothing is erased.
ErasedNone(list, S) == list

Erased(list, S) == [s \in DOMAIN list \ S |-> list[s]]

\* The packets that n shows missing.
Gap(n) ==
    {m \in Packet \ span : \E a \in span : (a < m /\ m < n) \/ (n < m /\ m < a)}

\* The packet is on the list: it was requested, or is late.
OnNackListed(n) ==
    /\ SeqOf(n) \in DOMAIN nacks
    /\ nacks' = Erased(nacks, {SeqOf(n)})
    /\ span' = span \union Gap(n) \union {n}
    /\ missing' = (missing \union Gap(n)) \ {n}
    /\ UNCHANGED <<buf, recounts>>

\* It is not. The breaker at high water leaves the list alone; a full list is
\* cleared, and the buffer with it.
OnNackNew(n, breaker) ==
    LET S == IF breaker THEN {} ELSE RangeOf(SeqOf(n))
        list == Inserted(nacks, S, n)
    IN  /\ SeqOf(n) \notin DOMAIN nacks
        /\ IF S # {} /\ Full(list)
           THEN /\ buf' = Reset(Updated(SeqOf(n)))
                /\ nacks' = Empty
                /\ span' = {} /\ missing' = {}
           ELSE /\ buf' = Updated(SeqOf(n))
                /\ nacks' = list
                /\ span' = span \union Gap(n) \union {n}
                /\ missing' = (missing \union (IF breaker THEN {} ELSE Gap(n))) \ {n}
        /\ recounts' = (recounts \/ (~buf.initialized /\ n \div Width < buf.flips))

\* The bounds: how late and how lossy the network is; and that less than half
\* the sequence numbers pass while one is listed.
Arrives(n) ==
    /\ IF newest = {} THEN n \in First..First + Reorder
       ELSE \A m \in newest : n \in m - Reorder..m + Burst + 1
    /\ \A s \in DOMAIN nacks : n - nacks[s].packet < Width \div 2 - MaxQueue

\* A packet arrives, for the first time or again.
Receive(n) ==
    /\ Arrives(n)
    /\ newest' = IF \E m \in newest : m > n THEN newest ELSE {n}
    /\ OnNackListed(n) \/ \E breaker \in BOOLEAN : OnNackNew(n, breaker)
    /\ UNCHANGED since
-----------------------------------------------------------------------------
(***************************************************************************)
(* The timer.                                                              *)
(***************************************************************************)

Tick ==
    /\ nacks' = [s \in DOMAIN nacks |->
                    [nacks[s] EXCEPT !.age = IF @ <= MaxAlive THEN @ + 1 ELSE @,
                                     !.idle = IF @ < LongAgo THEN @ + 1 ELSE @]]
    /\ since' = IF since < CheckEvery THEN since + 1 ELSE since
    /\ UNCHANGED <<buf, newest, span, missing, recounts>>

Expired(info) == info.age > MaxAlive \/ info.count > MaxCount

Young(info) == ~Expired(info) /\ info.age < FirstNack

Requested(info) ==
    [info EXCEPT !.count = IF @ <= MaxCount THEN @ + 1 ELSE @, !.idle = 0]

\* The walk over the list, oldest number first, ends at one that is too young.
Walked ==
    {s \in DOMAIN nacks :
        \A y \in DOMAIN nacks : Young(nacks[y]) => Distance(s, y) > 0}

\* get_nack_seqs: of the numbers walked, those that expired are given up, and
\* those are requested whose last request is an interval ago, which follows the
\* round trip time.
Check ==
    LET dropped == {s \in Walked : Expired(nacks[s])} IN
        /\ since = CheckEvery
        /\ since' = 0
        /\ \E interval \in Interval :
              nacks' = Erased([s \in DOMAIN nacks |->
                                  IF s \in Walked /\ nacks[s].idle >= interval
                                  THEN Requested(nacks[s]) ELSE nacks[s]],
                              dropped)
        /\ \/ dropped = {} /\ UNCHANGED buf
           \/ \E last \in dropped :
                 /\ \A s \in dropped : Distance(s, last) >= 0
                 /\ buf' = [buf EXCEPT !.begin = SeqOf(last + 1)]
        /\ missing' = missing \ {nacks[s].packet : s \in dropped}
        /\ UNCHANGED <<newest, span, recounts>>
-----------------------------------------------------------------------------
NackNext == (\E n \in Packet : Receive(n)) \/ Tick \/ Check

NackSpec == NackInit /\ [][NackNext]_vars

\* Time passes, and the shared timer calls the track.
NackFairSpec == NackSpec /\ WF_vars(Tick) /\ WF_vars(Check)
-----------------------------------------------------------------------------
\* Every missing packet is listed until it arrives or is given up, whatever the
\* order of the packets, at the wrap and after the list was cleared.
MissingIsListed ==
    \A n \in missing : \E s \in DOMAIN nacks : nacks[s].packet = n

\* get_extended_highest_sequence: what a receiver report tells the publisher is
\* never ahead of its packets.  This is so until a full list clears the buffer
\* just after a wrap, and a late packet from before it starts the buffer again:
\* the same wrap is then counted twice.  The report underflows where the last
\* number seen is the greatest of the first round.
ExtendedNeverAhead ==
    buf.initialized /\ ~recounts /\ (buf.flips > 0 \/ buf.end > 0) =>
        \A n \in newest : buf.flips * Width + buf.end - 1 <= n

\* Unless the network repeats packets for ever, the list empties: each number
\* arrives or is given up, whatever was listed after it or again.
ListEmpties ==
    \/ []<><<\E n \in Packet : Receive(n)>>_vars
    \/ nacks # Empty ~> nacks = Empty
=============================================================================
