----------------------------- MODULE PublishLock -----------------------------
(***************************************************************************)
(* What the server promises of a stream: at any time at most one session   *)
(* publishes it.  A session publishes from the moment the source of the    *)
(* stream is handed to it until it opens its own source again; what a      *)
(* WebRTC session still tears down after that is left to CrossPublish.     *)
(***************************************************************************)
EXTENDS Streams

CONSTANT Session

VARIABLE publisher  \* the session that publishes each stream, or None

LockInit == publisher = [u \in Url |-> None]

\* A stream nobody publishes is handed to a session.
Start(s, u) ==
    /\ publisher[u] = None
    /\ publisher' = [publisher EXCEPT ![u] = s]

\* The session has torn the stream down, or failed to set it up.
Stop(s, u) ==
    /\ publisher[u] = s
    /\ publisher' = [publisher EXCEPT ![u] = None]

LockNext == \E s \in Session, u \in Url : Start(s, u) \/ Stop(s, u)

LockSpec == LockInit /\ [][LockNext]_publisher
=============================================================================
