---------------------------- MODULE LiveConsumer ----------------------------
(***************************************************************************)
(* One RTMP player: its consumer, the queue the source fills, the loop     *)
(* that waits for the queue and sends it, and the receive thread that      *)
(* hands the player's commands over.  Source, player and receive thread    *)
(* are coroutines; the player sleeps on mw_wait_ until a batch is worth    *)
(* sending, so whoever makes a batch or a command ready must wake it up.   *)
(*                                                                         *)
(* The jitter algorithm is FULL, the default, and the stream is not ATC.   *)
(***************************************************************************)
EXTENDS Integers, Sequences

CONSTANTS
    QueueSize,      \* max_queue_size_, in units of time; 0 for no limit
    MwMsgs,         \* mw_msgs_: the messages that make a batch
    MwDuration,     \* mw_sleep_: the duration of a batch
    Batch,          \* messages sent at once: SRS_PERF_MW_MSGS, or 1
    MaxJitter,      \* CONST_MAX_JITTER_MS
    FrameTime,      \* DEFAULT_FRAME_TIME_MS
    Steady,         \* the publisher's timestamps never go back
    MaxTime,        \* bound: the last timestamp of the publisher
    MaxMsgs         \* bound: the messages the queue holds

ASSUME SizeAssumption ==
    {QueueSize, MwMsgs, MwDuration, MaxJitter, FrameTime, MaxTime, MaxMsgs}
        \subseteq Nat
ASSUME BatchAssumption == Batch \in Nat \ {0}
ASSUME SteadyAssumption == Steady \in BOOLEAN

Command == {"pause", "resume", "call", "close"}
NoCommand == "none"

Kind == {"meta", "vsh", "ash", "frame"}
Msg == [kind : Kind, ts : Nat]

VARIABLES
    queue,      \* SrsMessageQueue: msgs_, av_start_time_, av_end_time_
    jitter,     \* jitter_: last_pkt_time_ and last_pkt_correct_time_
    waiting,    \* mw_waiting_
    paused,     \* paused_
    at,         \* where the player's loop is
    command,    \* queue_ of the receive thread: it holds one message at most
    failed,     \* recv_error_ is set, and the receive thread has ended
    expired     \* the player's coroutine is interrupted

pvars == <<queue, jitter, waiting, paused, at, command, failed, expired>>

At == {"turn", "control", "asleep", "awake", "pulse", "sending", "quitting",
       "gone"}

ConsumerTypeOK ==
    /\ queue \in [msgs : Seq(Msg), start : Nat \cup {-1}, end : Nat \cup {-1}]
    /\ jitter \in [packet : Nat, correct : Nat \cup {-1}]
    /\ waiting \in BOOLEAN /\ paused \in BOOLEAN
    /\ at \in At
    /\ command \in Command \cup {NoCommand}
    /\ failed \in BOOLEAN /\ expired \in BOOLEAN

ConsumerInit ==
    /\ queue = [msgs |-> <<>>, start |-> -1, end |-> -1]
    /\ jitter = [packet |-> 0, correct |-> -1]
    /\ waiting = FALSE /\ paused = FALSE
    /\ at = "turn"
    /\ command = NoCommand
    /\ failed = FALSE /\ expired = FALSE
-----------------------------------------------------------------------------
(***************************************************************************)
(* SrsMessageQueue.                                                        *)
(***************************************************************************)
Duration(q) == q.end - q.start

Holds(q, kind) == \E i \in DOMAIN q.msgs : q.msgs[i].kind = kind

\* The sequence header of the queue, if it holds one, at the time of the last
\* packet.
Header(q, kind) ==
    IF Holds(q, kind) THEN <<[kind |-> kind, ts |-> q.end]>> ELSE <<>>

\* Mutation: shrink keeps the header of the video only.
ShrunkVideo(q) ==
    [msgs |-> Header(q, "vsh"), start |-> q.end, end |-> q.end]

\* shrink: only the sequence headers stay.
Shrunk(q) ==
    [msgs  |-> Header(q, "vsh") \o Header(q, "ash"),
     start |-> q.end,
     end   |-> q.end]

\* The queue with the message, before it is checked for overflow: messages
\* that are not audio or video, or have no timestamp, do not count.
Pushed(q, m) ==
    LET timed == m.kind # "meta" /\ m.ts # 0
    IN  [msgs  |-> Append(q.msgs, m),
         start |-> IF timed /\ q.start = -1 THEN m.ts ELSE q.start,
         end   |-> IF timed THEN m.ts ELSE q.end]

Overflows(q) == QueueSize > 0 /\ Duration(q) > QueueSize

\* enqueue; one shrink always ends the loop, as it makes the duration 0.
Enqueued(q, m) ==
    LET pushed == Pushed(q, m)
    IN  IF Overflows(pushed) THEN Shrunk(pushed) ELSE pushed

Count(q) == IF Len(q.msgs) < Batch THEN Len(q.msgs) ELSE Batch

\* Mutation: dump_packets takes the whole queue for dumped.
DumpedAll(q) ==
    IF q.msgs = <<>> THEN q
    ELSE [q EXCEPT !.msgs = SubSeq(@, Count(q) + 1, Len(@)), !.start = q.end]

\* dump_packets: the queue now starts at the last message it gave.
Dumped(q) ==
    IF q.msgs = <<>> THEN q
    ELSE [q EXCEPT !.msgs = SubSeq(@, Count(q) + 1, Len(@)),
                   !.start = q.msgs[Count(q)].ts]

\* The queue holds a batch worth sending.
Enough(q) == Len(q.msgs) > MwMsgs /\ Duration(q) > MwDuration
-----------------------------------------------------------------------------
(***************************************************************************)
(* The source.                                                             *)
(***************************************************************************)

\* The time since the last packet, or that of a frame if a jitter is detected.
Delta(time) ==
    LET delta == time - jitter.packet
    IN  IF delta < -MaxJitter \/ delta > MaxJitter THEN FrameTime ELSE delta

\* SrsRtmpJitter::correct, for audio and video.
Advanced(time) ==
    LET correct == jitter.correct + Delta(time)
    IN  [packet |-> time, correct |-> IF correct < 0 THEN 0 ELSE correct]

\* srs_cond_signal(mw_wait_), if the consumer waits.
Signal ==
    /\ waiting' = FALSE
    /\ at' = IF waiting /\ at = "asleep" THEN "awake" ELSE at

\* The jitter corrects a copy of the packet; the metadata gets the time 0.
Corrected(kind, time) ==
    IF kind = "meta"
    THEN /\ queue' = Enqueued(queue, [kind |-> kind, ts |-> 0])
         /\ UNCHANGED jitter
    ELSE /\ jitter' = Advanced(time)
         /\ queue' = Enqueued(queue, [kind |-> kind, ts |-> jitter'.correct])

\* Mutation: the duration is checked before the message is enqueued.
PublishLate(kind, time) ==
    /\ at # "gone"
    /\ Len(queue.msgs) < MaxMsgs
    /\ Steady => time >= jitter.packet
    /\ Corrected(kind, time)
    /\ IF waiting /\ Enough(queue) THEN Signal ELSE UNCHANGED <<waiting, at>>
    /\ UNCHANGED <<paused, command, failed, expired>>

\* enqueue of the consumer.
Publish(kind, time) ==
    /\ at # "gone"
    /\ Len(queue.msgs) < MaxMsgs
    /\ Steady => time >= jitter.packet
    /\ Corrected(kind, time)
    /\ IF waiting /\ Enough(queue') THEN Signal ELSE UNCHANGED <<waiting, at>>
    /\ UNCHANGED <<paused, command, failed, expired>>
-----------------------------------------------------------------------------
(***************************************************************************)
(* The receive thread.  It receives a message, then sleeps until the       *)
(* player took it, so that a message that ends the player is the last one. *)
(***************************************************************************)

\* Mutation: consume does not wake the player up.
ReceiveSilently(c) ==
    /\ ~failed /\ command = NoCommand /\ at # "gone"
    /\ command' = c
    /\ UNCHANGED <<queue, jitter, waiting, paused, at, failed, expired>>

Receive(c) ==
    /\ ~failed /\ command = NoCommand /\ at # "gone"
    /\ command' = c
    /\ Signal
    /\ UNCHANGED <<queue, jitter, paused, failed, expired>>

\* The peer closed: interrupt() tells the player.
ReceiveFails ==
    /\ ~failed /\ command = NoCommand /\ at # "gone"
    /\ failed' = TRUE
    /\ Signal
    /\ UNCHANGED <<queue, jitter, paused, command, expired>>
-----------------------------------------------------------------------------
(***************************************************************************)
(* The player's loop, do_playing.                                          *)
(***************************************************************************)

\* Mutation: the interrupt only sets the flag.
ExpireQuietly ==
    /\ at # "gone" /\ ~expired
    /\ expired' = TRUE
    /\ UNCHANGED <<queue, jitter, waiting, paused, at, command, failed>>

\* expire() interrupts the coroutine: whatever it sleeps on returns at once,
\* with mw_waiting_ as it was; a send fails.
Expire ==
    /\ at # "gone" /\ ~expired
    /\ expired' = TRUE
    /\ at' = CASE at = "asleep"  -> "awake"
               [] at = "control" -> "quitting"
               [] OTHER          -> at
    /\ UNCHANGED <<queue, jitter, waiting, paused, command, failed>>

\* The loop got past trd_->pull(), or processed a command since.
Ready == at \in {"turn", "control"} /\ ~expired

\* process_play_control_msg, which switches, and may fail, when it answers.
ProcessCommand ==
    /\ Ready
    /\ command # NoCommand
    /\ command' = NoCommand
    /\ \/ /\ command # "close"
          /\ at' = "control"
          /\ paused' = CASE command = "pause"  -> TRUE
                         [] command = "resume" -> FALSE
                         [] OTHER              -> paused
       \/ /\ at' = "quitting"
          /\ UNCHANGED paused
    /\ UNCHANGED <<queue, jitter, waiting, failed, expired>>

Quit ==
    /\ \/ at = "turn" /\ expired
       \/ Ready /\ command = NoCommand /\ failed
    /\ at' = "quitting"
    /\ UNCHANGED <<queue, jitter, waiting, paused, command, failed, expired>>

\* wait() of a paused consumer: sleep a pulse.
WaitPaused ==
    /\ Ready /\ command = NoCommand /\ ~failed /\ paused
    /\ at' = "pulse"
    /\ UNCHANGED <<queue, jitter, waiting, paused, command, failed, expired>>

\* wait() for a batch.
Wait ==
    /\ Ready /\ command = NoCommand /\ ~failed /\ ~paused
    /\ ~Enough(queue)
    /\ waiting' = TRUE
    /\ at' = "asleep"
    /\ UNCHANGED <<queue, jitter, paused, command, failed, expired>>

\* dump_packets of the consumer, and the messages are sent if there are any.
Dump ==
    /\ queue' = IF paused THEN queue ELSE Dumped(queue)
    /\ at' = IF paused \/ queue.msgs = <<>> THEN "turn" ELSE "sending"
    /\ UNCHANGED <<jitter, waiting, paused, command, failed, expired>>

\* wait() returns at once: there is a batch.
WaitNot ==
    /\ Ready /\ command = NoCommand /\ ~failed /\ ~paused
    /\ Enough(queue)
    /\ Dump

\* The player was woken up, or the pulse is over.
WokenUp == at \in {"awake", "pulse"} /\ Dump

Sent ==
    /\ at = "sending"
    /\ at' \in {"turn", "quitting"}
    /\ UNCHANGED <<queue, jitter, waiting, paused, command, failed, expired>>

\* playing() joins the receive thread and frees the consumer.
Leave ==
    /\ at = "quitting"
    /\ at' = "gone"
    /\ failed' = TRUE
    /\ UNCHANGED <<queue, jitter, waiting, paused, command, expired>>

PlayerStep ==
    ProcessCommand \/ Quit \/ WaitPaused \/ Wait \/ WaitNot \/ WokenUp \/ Sent
        \/ Leave

ConsumerNext ==
    \/ \E kind \in Kind, time \in 0..MaxTime : Publish(kind, time)
    \/ \E c \in Command : Receive(c)
    \/ ReceiveFails
    \/ Expire
    \/ PlayerStep

ConsumerSpec == ConsumerInit /\ [][ConsumerNext]_pvars

\* The player is scheduled, and a send ends, at the latest by its timeout.
ConsumerFairSpec == ConsumerSpec /\ WF_pvars(PlayerStep)
-----------------------------------------------------------------------------
(***************************************************************************)
(* Properties.                                                             *)
(***************************************************************************)

\* The player never sleeps on work: asleep, it has no command, no error, no
\* expiration and no batch to attend to, and whoever brings one finds
\* mw_waiting_ set and wakes it up.
NoLostWakeup ==
    at = "asleep" =>
        /\ waiting
        /\ command = NoCommand /\ ~failed /\ ~expired
        /\ ~Enough(queue)

Timed(q) == {i \in DOMAIN q.msgs : q.msgs[i].kind # "meta" /\ q.msgs[i].ts # 0}

SpanExceeds(q) ==
    \E i, j \in Timed(q) : q.msgs[j].ts - q.msgs[i].ts > QueueSize

\* However long the player is paused or slow, the queue of a steady stream
\* spans no more than its size, though shrink and dump_packets move its start:
\* a queue that grew without bound would take the server's memory.
SpanBounded == Steady /\ QueueSize > 0 => ~SpanExceeds(queue)

\* A sequence header leaves the queue only in the step that begins to send it: a
\* player that lost one when the queue shrank, be it while the player sends or is
\* paused, could not decode the frames that follow.
HeadersKept ==
    [][\A k \in {"vsh", "ash"} :
           Holds(queue, k) /\ ~Holds(queue', k) =>
               at # "sending" /\ at' = "sending"]_pvars

\* A command that was received is processed, or the player leaves, although
\* the player may be asleep, or sending, when it arrives.
CommandServed == command # NoCommand ~> command = NoCommand \/ at = "gone"

\* A player that expire() disconnects leaves, whatever it is doing.
ExpiredLeaves == expired ~> at = "gone"

\* "cause SRS to shrink and drop the keyframes even if there is not overflow
\* packets in queue ... so we must ignore the zero timestamps": a packet that
\* enters an empty queue stays in it.
DropsOnlyOnOverflow ==
    [][\A time \in 0..MaxTime :
           Publish("frame", time) /\ queue.msgs = <<>> => queue'.msgs # <<>>]_pvars
=============================================================================
