---------------------------- MODULE RtcResources -----------------------------
(***************************************************************************)
(* The connection manager of the server with what WebRTC hands to it: the  *)
(* sessions, which the API creates and which their timeout, their peer or  *)
(* the API removes; and the TCP connections, each a shared object with two *)
(* resources, the executor that runs it and the handle the executor owns.  *)
(* A session and the TCP connection it uses point at each other.  The      *)
(* other connections, whose coroutine removes them once as its last act,   *)
(* are to the manager what a handle is, and are left out.                  *)
(*                                                                         *)
(* A step is what a coroutine does between two calls that may switch.  A   *)
(* step that would touch a freed object crashes the process.               *)
(***************************************************************************)
EXTENDS Integers, Sequences, FiniteSets, Functions

CONSTANTS
    Session,    \* WebRTC sessions
    Tcp,        \* TCP connections of WebRTC
    Addr,       \* UDP peer addresses, as fast ids
    Slots       \* bound: slots of the level-0 cache

ASSUME ResourcesAssumption ==
    Slots \in Nat \ {0} /\ Addr \subseteq Nat \ {0} /\ IsFiniteSet(Addr)

SessionOf(s) == <<"session", s>>
ExecutorOf(t) == <<"executor", t>>
HandleOf(t) == <<"handle", t>>

Resource ==
    {SessionOf(s) : s \in Session}
        \union {ExecutorOf(t) : t \in Tcp} \union {HandleOf(t) : t \in Tcp}

NameOf(s) == <<"name", s>>
PeerOf(a) == <<"peer", a>>
Key == {NameOf(s) : s \in Session} \union {PeerOf(a) : a \in Addr}

M == INSTANCE ResourceManager WITH FastId <- Addr

VARIABLES
    mgr,        \* _srs_conn_manager
    life,       \* of each resource
    disposing,  \* sessions with disposing_ set
    started,    \* sessions whose streams started, and run coroutines
    peers,      \* peer_addresses_ of each session
    owner,      \* owner_ of the TCP network of each session
    up,         \* sessions whose TCP network is established
    tcp,        \* the TCP connections
    inside,     \* the method of a session the UDP listener is in
    crashed

vars == <<mgr, life, disposing, started, peers, owner, up, tcp, inside, crashed>>

\* "dying": in its destructor, which waits for the coroutines it stops.
Life == {"unborn", "alive", "dying", "freed"}

\* What a packet is doing in a session: it is "served", or it was the last of
\* the DTLS handshake and is "starting" the streams.
Call == [session : Session, kind : {"served", "starting"}]

\* "handshaking" and "reading" the socket; "inside" a method of the session.
\* session is session_, call the method it is in, running is
\* owner_coroutine_, flag that the coroutine was interrupted.
TcpRec == [pc      : {"none", "handshaking", "reading", "inside", "done"},
           session : SUBSET Session,
           call    : SUBSET Call,
           running : BOOLEAN,
           flag    : BOOLEAN]

ResourcesTypeOK ==
    /\ mgr \in M!Manager
    /\ life \in [Resource -> Life]
    /\ disposing \subseteq Session /\ started \subseteq Session
    /\ peers \in [Session -> SUBSET Addr]
    /\ owner \in [Session -> SUBSET Tcp]
    /\ up \subseteq Session
    /\ tcp \in [Tcp -> TcpRec]
    /\ inside \subseteq Call
    /\ crashed \in BOOLEAN

ResourcesInit ==
    /\ mgr = M!NewManager
    /\ life = [r \in Resource |-> "unborn"]
    /\ disposing = {} /\ started = {}
    /\ peers = [s \in Session |-> {}]
    /\ owner = [s \in Session |-> {}]
    /\ up = {}
    /\ tcp = [t \in Tcp |-> [pc |-> "none", session |-> {}, call |-> {},
                             running |-> FALSE, flag |-> FALSE]]
    /\ inside = {}
    /\ crashed = FALSE

sessions == <<disposing, started, peers, owner, up>>

Freed(s) == life[SessionOf(s)] = "freed"

\* The calls a packet may be in, once a session has it: a session that is
\* disposing ignores the end of the handshake.
Calls(s) ==
    {[session |-> s, kind |-> k] :
        k \in {"served"} \union (IF s \in disposing THEN {} ELSE {"starting"})}

Serving(s) == {[session |-> s, kind |-> "served"]}

\* What a call that returns starts, unless starting it failed.
Starts(c) == SUBSET {s \in {c.session} : c.kind = "starting"}

\* The sessions of a set of resources that a find answered.
SessionsIn(R) == {s \in Session : SessionOf(s) \in R}

Crash ==
    /\ crashed' = TRUE
    /\ UNCHANGED <<mgr, life, sessions, tcp, inside>>
-----------------------------------------------------------------------------
(***************************************************************************)
(* Removing a session: on_before_dispose of the session marks it.          *)
(***************************************************************************)

Told(s) ==
    IF M!InZombie(mgr, SessionOf(s)) \/ SessionOf(s) \notin M!Told(mgr) THEN {}
    ELSE {s}

RemoveSession(s) ==
    /\ mgr' = M!Removed(mgr, SessionOf(s))
    /\ disposing' = disposing \union Told(s)

\* The API deletes a session it finds in the statistics, where the streams of
\* the session keep it until the end of their destructors, or by its name.
Kick(s) ==
    /\ life[SessionOf(s)] \in {"alive", "dying"}
    /\ RemoveSession(s)
    /\ UNCHANGED <<life, started, peers, owner, up, tcp, inside, crashed>>

\* The session timer walks over the connections.
Timeout(s) ==
    /\ SessionOf(s) \in mgr.conns
    /\ s \notin disposing
    /\ RemoveSession(s)
    /\ UNCHANGED <<life, started, peers, owner, up, tcp, inside, crashed>>
-----------------------------------------------------------------------------
(***************************************************************************)
(* Sessions and TCP connections begin.                                     *)
(***************************************************************************)

CreateSession(s) ==
    /\ life[SessionOf(s)] = "unborn"
    /\ life' = [life EXCEPT ![SessionOf(s)] = "alive"]
    /\ mgr' = M!AddWithKey(M!Subscribe(mgr, SessionOf(s)),
                           NameOf(s), SessionOf(s))
    /\ UNCHANGED <<sessions, tcp, inside, crashed>>

TcpAccept(t) ==
    /\ tcp[t].pc = "none"
    /\ tcp' = [tcp EXCEPT ![t].pc = "handshaking", ![t].running = TRUE]
    /\ life' = [life EXCEPT ![ExecutorOf(t)] = "alive", ![HandleOf(t)] = "alive"]
    /\ UNCHANGED <<mgr, sessions, inside, crashed>>
-----------------------------------------------------------------------------
(***************************************************************************)
(* The UDP listener, one coroutine for all packets.                        *)
(***************************************************************************)

\* A packet from address a that names session s, if it is a STUN one.
Found(a) ==
    LET fast == M!FindByFastId(mgr, a) IN
    SessionsIn(IF fast # {} THEN fast ELSE M!FindByKey(mgr, PeerOf(a)))

FoundOrNamed(a, s) ==
    IF Found(a) # {} THEN Found(a) ELSE SessionsIn(M!FindByKey(mgr, NameOf(s)))

\* A binding request: the session learns the address, and answers.
UdpBinding(a, s) ==
    /\ inside = {}
    /\ \E d \in FoundOrNamed(a, s) :
          /\ peers' = [peers EXCEPT ![d] = @ \union {a}]
          /\ mgr' = IF a \in peers[d] THEN mgr
                    ELSE M!AddWithFastId(
                            M!AddWithKey(mgr, PeerOf(a), SessionOf(d)),
                            a, SessionOf(d))
          /\ inside' = Serving(d)
    /\ UNCHANGED <<life, disposing, started, owner, up, tcp, crashed>>

\* Any other packet: handling it may switch, as starting the streams does.
UdpPacket(a) ==
    /\ inside = {}
    /\ \E s \in Found(a) : \E c \in Calls(s) : inside' = {c}
    /\ UNCHANGED <<mgr, life, sessions, tcp, crashed>>

UdpDone ==
    \E c \in inside :
        IF Freed(c.session) THEN Crash
        ELSE /\ inside' = {}
             /\ \E S \in Starts(c) : started' = started \union S
             /\ UNCHANGED <<mgr, life, disposing, peers, owner, up, tcp, crashed>>

\* A DTLS alert.
UdpAlert(a) ==
    /\ inside = {}
    /\ \E s \in Found(a) : RemoveSession(s)
    /\ UNCHANGED <<life, started, peers, owner, up, tcp, inside, crashed>>
-----------------------------------------------------------------------------
(***************************************************************************)
(* The coroutine of a TCP connection.                                      *)
(***************************************************************************)

\* The binding request of the handshake names a session: its network takes
\* the connection for its owner in place of the one it has.
TcpHandshake(t, s) ==
    /\ tcp[t].pc = "handshaking" /\ ~tcp[t].flag
    /\ SessionsIn(M!FindByKey(mgr, NameOf(s))) = {s}
    /\ owner' = [owner EXCEPT ![s] = {t}]
    /\ tcp' = [tcp EXCEPT ![t].session = {s}, ![t].call = Serving(s),
                             ![t].pc = "inside"]
    /\ UNCHANGED <<mgr, life, disposing, started, peers, up, inside, crashed>>

\* A packet: it makes the session alive, and is handled in it.
TcpPacket(t) ==
    /\ tcp[t].pc = "reading" /\ ~tcp[t].flag
    /\ \E s \in tcp[t].session :
          IF Freed(s) THEN Crash
          ELSE /\ \E c \in Calls(s) :
                     tcp' = [tcp EXCEPT ![t].call = {c}, ![t].pc = "inside"]
               /\ UNCHANGED <<mgr, life, sessions, inside, crashed>>

TcpDone(t) ==
    /\ tcp[t].pc = "inside"
    /\ \E c \in tcp[t].call :
          IF Freed(c.session) THEN Crash
          ELSE /\ tcp' = [tcp EXCEPT ![t].call = {}, ![t].pc = "reading"]
               /\ \E S \in Starts(c) : started' = started \union S /\ up' = up \union S
               /\ UNCHANGED <<mgr, life, disposing, peers, owner, inside, crashed>>

\* A DTLS alert.
TcpAlert(t) ==
    /\ tcp[t].pc = "reading" /\ ~tcp[t].flag
    /\ \E s \in tcp[t].session :
          IF Freed(s) THEN Crash
          ELSE /\ RemoveSession(s)
               /\ UNCHANGED <<life, started, peers, owner, up, tcp, inside, crashed>>

\* on_executor_done, and the executor removes itself.
Done(r) == [r EXCEPT !.pc = "done", !.running = FALSE, !.flag = FALSE]

\* The peer closed, or the coroutine was interrupted: an established session
\* is removed with its connection.
TcpEnd(t) ==
    /\ tcp[t].pc \in {"handshaking", "reading"}
    /\ \/ \E s \in tcp[t].session : Freed(s) /\ Crash
       \/ /\ \A s \in tcp[t].session : ~Freed(s)
          /\ tcp' = [tcp EXCEPT ![t] = Done(@)]
          /\ \/ /\ tcp[t].session \intersect up = {}
                /\ mgr' = M!Removed(mgr, ExecutorOf(t))
                /\ UNCHANGED <<disposing, up>>
             \/ \E s \in tcp[t].session \intersect up :
                   /\ mgr' = M!Removed(M!Removed(mgr, SessionOf(s)), ExecutorOf(t))
                   /\ disposing' = disposing \union Told(s)
                   /\ up' = up \ {s}
          /\ UNCHANGED <<life, started, peers, owner, inside, crashed>>
-----------------------------------------------------------------------------
(***************************************************************************)
(* The coroutine of the manager.                                           *)
(***************************************************************************)

ManagerLooks ==
    /\ M!Looks(mgr)
    /\ mgr' = M!Turn(mgr)
    /\ UNCHANGED <<life, sessions, tcp, inside, crashed>>

\* Mutants: it forgets the session only, or interrupts the coroutine only.
OnlyForgets(r) == [r EXCEPT !.session = {}]
OnlyInterrupts(r) == [r EXCEPT !.flag = @ \/ r.running]

\* ~SrsRtcTcpNetwork: its owner forgets the session and is interrupted.
Interrupted(r) == [r EXCEPT !.session = {}, !.flag = @ \/ r.running]

FreeNetworks(s) ==
    tcp' = [t \in Tcp |-> IF t \in owner[s] THEN Interrupted(tcp[t]) ELSE tcp[t]]

IsNext(r) == mgr.pc = "freeing" /\ mgr.batch # <<>> /\ Head(mgr.batch) = r

FreeSession(s) ==
    LET r == SessionOf(s) IN
    /\ IsNext(r)
    /\ \/ /\ life[r] = "freed"
          /\ Crash
       \/ \* It stops the coroutines of its streams, and waits for them.
          /\ life[r] = "alive" /\ s \in started
          /\ life' = [life EXCEPT ![r] = "dying"]
          /\ mgr' = M!Unsubscribe(mgr, r)
          /\ UNCHANGED <<sessions, tcp, inside, crashed>>
       \/ /\ life[r] = "alive" /\ s \notin started
          /\ life' = [life EXCEPT ![r] = "freed"]
          /\ mgr' = M!FreedNext(M!Unsubscribe(mgr, r))
          /\ FreeNetworks(s)
          /\ UNCHANGED <<sessions, inside, crashed>>
       \/ /\ life[r] = "dying"
          /\ life' = [life EXCEPT ![r] = "freed"]
          /\ mgr' = M!FreedNext(mgr)
          /\ FreeNetworks(s)
          /\ UNCHANGED <<sessions, inside, crashed>>

\* ~SrsExecutorCoroutine removes the handle.
FreeExecutor(t) ==
    LET r == ExecutorOf(t) IN
    /\ IsNext(r)
    /\ IF life[r] = "freed" THEN Crash
       ELSE /\ life' = [life EXCEPT ![r] = "freed"]
            /\ mgr' = M!Removed(M!FreedNext(mgr), HandleOf(t))
            /\ UNCHANGED <<sessions, tcp, inside, crashed>>

FreeHandle(t) ==
    LET r == HandleOf(t) IN
    /\ IsNext(r)
    /\ IF life[r] = "freed" THEN Crash
       ELSE /\ life' = [life EXCEPT ![r] = "freed"]
            /\ mgr' = M!FreedNext(mgr)
            /\ UNCHANGED <<sessions, tcp, inside, crashed>>

ManagerFrees ==
    \/ \E s \in Session : FreeSession(s)
    \/ \E t \in Tcp : FreeExecutor(t) \/ FreeHandle(t)
-----------------------------------------------------------------------------
Others ==
    \/ \E s \in Session : CreateSession(s) \/ Kick(s) \/ Timeout(s)
    \/ \E a \in Addr : UdpPacket(a) \/ UdpAlert(a)
    \/ \E a \in Addr, s \in Session : UdpBinding(a, s)
    \/ UdpDone
    \/ \E t \in Tcp : TcpAccept(t) \/ TcpPacket(t) \/ TcpDone(t)
                         \/ TcpAlert(t) \/ TcpEnd(t)
    \/ \E t \in Tcp, s \in Session : TcpHandshake(t, s)

\* From the clear until it waits, the manager switches in the destructor of a
\* session only.
Switched ==
    mgr.pc = "freeing" => /\ mgr.batch # <<>>
                          /\ life[Head(mgr.batch)] = "dying"

ResourcesNext ==
    /\ ~crashed
    /\ \/ Switched /\ Others
       \/ ManagerLooks
       \/ ManagerFrees

ResourcesSpec == ResourcesInit /\ [][ResourcesNext]_vars

\* The coroutine of the manager runs, and that of a TCP connection returns from
\* its call and, interrupted, from its read.
ResourcesFairness ==
    /\ WF_vars(~crashed /\ (ManagerLooks \/ ManagerFrees))
    /\ \A t \in Tcp :
          WF_vars(/\ ~crashed /\ Switched
                  /\ TcpDone(t) \/ (tcp[t].flag /\ TcpEnd(t)))

FairResourcesSpec == ResourcesSpec /\ ResourcesFairness
-----------------------------------------------------------------------------
Alive(r) == life[r] \notin {"unborn", "freed"}

\* Whichever coroutines remove it, no object is a zombie twice; and the manager
\* holds what is not a session only while it exists, so that it frees it once.
EachFreedOnce ==
    /\ IsInjective(mgr.zombies) /\ IsInjective(mgr.batch)
    /\ \A t \in Tcp : \A r \in {ExecutorOf(t), HandleOf(t)} :
          /\ r \in Range(mgr.zombies) \union Range(mgr.batch) => Alive(r)
          /\ r \notin Range(mgr.zombies) \intersect Range(mgr.batch)

\* A find answers a resource that is neither freed nor disposed of, the level-0
\* cache what the map answers, and a session is found by every address it
\* learned until it is disposed of.
LookupsExact ==
    /\ \A k \in Key : M!FindByKey(mgr, k) \subseteq {r \in mgr.conns : Alive(r)}
    /\ \A a \in Addr : M!FindByFastId(mgr, a) = M!FindByKey(mgr, PeerOf(a))
    /\ \A s \in Session : SessionOf(s) \in mgr.conns =>
          \A a \in peers[s] : Found(a) = {s}

\* A TCP connection points at its coroutine only while this exists, and at the
\* session whose network it owns only until the session is freed.
PointersAlive ==
    \A t \in Tcp :
        /\ tcp[t].running => life[ExecutorOf(t)] = "alive"
        /\ \A s \in tcp[t].session : t \in owner[s] => ~Freed(s)

\* What is removed is freed, also when it is removed by a destructor while the
\* manager does not wait for the signal.
RemovedIsFreed ==
    \A r \in Resource : M!InZombie(mgr, r) ~> (life[r] = "freed" \/ crashed)

\* Once a session is freed, the TCP connection it used goes as well.
FreedSessionClosesTcp ==
    \A s \in Session, t \in Tcp :
        Freed(s) /\ t \in owner[s] ~> (life[HandleOf(t)] = "freed" \/ crashed)

\* "Also ignore when we are disposing it": nothing is removed again while the
\* manager frees it.
IgnoredWhileFreed ==
    Range(mgr.zombies) \intersect Range(mgr.batch) = {}
=============================================================================
